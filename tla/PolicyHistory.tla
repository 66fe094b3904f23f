---------------------------- MODULE PolicyHistory ----------------------------
(***************************************************************************)
(* PolicyEnforcement with what an observer of the process remembers: which *)
(* grounds for a halt have stood ever since a call began, which sessions   *)
(* fired a listed pattern, and which sessions were charged since another   *)
(* one.  It adds no behaviour: every step is a step of PolicyEnforcement.  *)
(***************************************************************************)
EXTENDS PolicyEnforcement

VARIABLES
    standing,   \* grounds to halt thread t's call, standing since it began
    seen,       \* sessions whose call fired a pattern the visible policy lists
    since       \* sessions charged since session s last was; all of them,
                \* s too, as long as s never was

history == <<standing, seen, since>>

\* A ceiling the session or the org already is at, or over.
Reached(spent, cap) == cap # Unlimited /\ spent >= cap

\* Grounds on which the visible policy halts a call of session s that comes
\* to preflight now.
Halts(s) ==
    IF Current = NoPolicy THEN {}
    ELSE {g \in {"kill"} : Current.kill}
         \cup {g \in {"pattern"} : flagged[s] \cap Current.patterns # {}}
         \cup {g \in {"org"} : Reached(SeededBurn(Current), Current.orgBudget)}
         \cup {g \in {"session"} : Reached(burn[s], Current.sessionBudget)}

\* Grounds the operator of the policy has, whether preflight sees them or not.
Grounds(s) == Halts(s) \cup {g \in {"seen"} : s \in seen}

HistoryInit ==
    /\ standing = [t \in Threads |-> {}]
    /\ seen = {}
    /\ since = [s \in Sessions |-> Sessions]

Began(t) == pc[t] = "idle" /\ pc'[t] # "idle"

\* What the thread read has lapsed since, and the cache holds another policy
\* by now: in open mode current() answers None, whatever is in force.
Overtaken(t) ==
    /\ FailureMode = "open"
    /\ reading[t] \notin {Idle, Live}
    /\ reading[t].policy # NoPolicy
    /\ ~reading[t].fresh

\* A ground stands as long as it held in every state since the call began,
\* under one and the same policy, which the thread was not kept from seeing.
ObserveStanding ==
    LET now == [s \in Sessions |-> Grounds(s)]'
    IN  standing' = [t \in Threads |->
            IF pc'[t] = "idle" THEN {}
            ELSE IF Began(t) THEN now[sid'[t]]
            ELSE IF Current' # Current \/ Overtaken(t) THEN {}
            ELSE standing[t] \cap now[sid[t]]]

FlaggedNow(t) == pc[t] = "flag" /\ pc'[t] = "idle" /\ snap[t] = Current

\* What happened in the sessions, as long as the policy stays the same.
ObserveSessions ==
    seen' = IF Current' # Current THEN {}
            ELSE seen \cup {sid[t] : t \in {u \in Threads : FlaggedNow(u)}}

ObserveCharges ==
    LET charged == {sid[t] : t \in {u \in Threads : /\ pc[u] = "record"
                                                    /\ pc'[u] = "note"}}
    IN  since' = [s \in Sessions |-> IF s \in charged THEN {}
                                     ELSE since[s] \cup charged]

Observe == ObserveSessions /\ ObserveCharges /\ ObserveStanding

HInit == Init /\ HistoryInit

HNext == Next /\ Observe

HSpec == HInit /\ [][HNext]_<<vars, history>>

(***************************************************************************)
(* Properties                                                              *)
(***************************************************************************)
AtProvider(t) == Role[t] = "guarded" /\ pc[t] = "http"

\* A call that began when the policy in force already gave a reason to halt
\* it, and while that reason stood, never gets to the provider, whatever the
\* other threads do between preflight's checks.  The one exception is open
\* mode's: the policy it read was fetched anew and then lapsed before current()
\* looked at the clock, so that it answers None (policy_client.py:460-475).
NoSpendWhenHalted ==
    \A t \in Threads : AtProvider(t) =>
        standing[t] \cap {"kill", "pattern", "org", "session"} = {}

\* record_call's comment (sentinel.py:973): a session that fired a pattern the
\* policy lists is flagged so that its next wrapped call is stopped before the
\* provider HTTP.
SeenPatternStopsNextCall ==
    \A t \in Threads : AtProvider(t) => "seen" \notin standing[t]

\* A session loses its burn only to max_sessions others charged since: the
\* busiest session of a process never starts a new budget.
RecentlyChargedKept ==
    MaxSessions # Unlimited =>
        \A s \in Sessions :
            s \notin since[s] /\ Cardinality(since[s]) < MaxSessions
                => s \in Tracked
=============================================================================
