-------------------------- MODULE PolicyEnforcement --------------------------
(***************************************************************************)
(* Sentinel's policy plane, as the threads of one process run it: wrapped  *)
(* calls go through preflight() before the provider's HTTP request and     *)
(* through record_call() after it.  Each step below is what a thread does  *)
(* between two points where another thread can come in: a read of the      *)
(* policy cache, the judgement of what was read (see PolicyFeed), or one   *)
(* critical section of Sentinel._policy_lock.  Every check uses the policy *)
(* that current() returned, however old it is by then.                     *)
(***************************************************************************)
EXTENDS PolicyFeed, Sequences, FiniteSets

CONSTANTS
    Sessions,
    NoSession,
    Role,          \* how each thread uses the Sentinel, one of Roles
    Costs,         \* what a call may cost, by _estimate_call_burn_usd
    MaxSessions,   \* Sentinel(max_sessions=...), or Unlimited for None
    NoVersion,     \* _org_burn_policy_version before the first seed
    RuleOf,        \* the rule that emits events of a waste type
    MaxCalls,      \* bound on the calls of a behaviour
    CostCeiling,     \* no call costs more
    SessionCeiling,  \* no session budget is higher
    OrgCeiling       \* no org budget, and no org spend reported, is higher

\* guarded:   openai, anthropic, bedrock, gemini: preflight, HTTP, record_call
\* unguarded: every other wrapper and enricher: HTTP, record_call
\* probe:     Sentinel.preflight called with estimates of the call to come
Roles == {"guarded", "unguarded", "probe"}

ASSUME RolesAssumption == Role \in [Threads -> Roles]

\* The threads whose calls spend.
Callers == {t \in Threads : Role[t] # "probe"}

ASSUME ThreadsAssumption == IsFiniteSet(Threads) /\ Callers # {}
ASSUME CostsAssumption ==
    /\ Costs \subseteq Nat
    /\ CostCeiling \in Nat
    /\ \A c \in Costs : c <= CostCeiling
ASSUME CeilingsAssumption ==
    /\ SessionCeiling \in Nat
    /\ OrgCeiling \in Nat
    /\ \A p \in Policies :
          /\ p.sessionBudget # Unlimited => p.sessionBudget <= SessionCeiling
          /\ p.orgBudget # Unlimited => p.orgBudget <= OrgCeiling
          /\ p.orgSpend <= OrgCeiling
ASSUME MaxSessionsAssumption == MaxSessions \in Nat \cup {Unlimited}
ASSUME RuleOfAssumption == RuleOf \in [Patterns -> RuleNames]
ASSUME NoSessionAssumption == NoSession \notin Sessions

VARIABLES
    pc,           \* where each thread is
    sid,          \* the session of its call
    cost,         \* what its call costs
    fired,        \* the waste types the rules fired for its call
    burn,         \* Sentinel._session_burn; a session it lacks reads as 0
    lru,          \* the keys of _session_burn, least recently charged first
    orgBurn,      \* Sentinel._org_burn_local
    orgVersion,   \* Sentinel._org_burn_policy_version
    flagged,      \* Sentinel._preflight_flagged
    active,       \* PolicyClient._active_sessions
    calls,        \* calls begun, up to MaxCalls
    exempt,       \* burn charged by calls that met no session budget
    orgExempt     \* burn charged by calls that met no org budget

callVars == <<pc, sid, cost, snap, fired>>
sessionVars == <<burn, lru, exempt>>
orgVars == <<orgBurn, orgVersion, orgExempt>>
vars == <<feedVars, callVars, sessionVars, orgVars, flagged, active, calls>>

Steps ==
    {"idle", "preflight", "flags", "preflightOrg", "preflightSession", "http",
     "enforce", "enforceOrg", "enforceSession", "velocity", "record", "note",
     "flag"}

\* Steps at which the thread holds a policy and a session.
Checking ==
    {"flags", "preflightOrg", "preflightSession", "enforceOrg",
     "enforceSession", "velocity", "flag"}

\* Steps at which it calls current().
Reading == {"preflight", "enforce", "note"}

CallTypeOK ==
    /\ pc \in [Threads -> Steps]
    /\ sid \in [Threads -> Sessions \cup {NoSession}]
    /\ cost \in [Threads -> Nat]
    /\ snap \in [Threads -> Policies \cup {NoPolicy}]
    /\ fired \in [Threads -> SUBSET Patterns]
    /\ \A t \in Threads : /\ pc[t] # "idle" => sid[t] \in Sessions
                          /\ pc[t] \in Checking => snap[t] # NoPolicy
                          /\ reading[t] # Idle => pc[t] \in Reading

TrackerTypeOK ==
    /\ burn \in [Sessions -> Nat]
    /\ lru \in Seq(Sessions)
    /\ exempt \in [Sessions -> Nat]
    /\ orgBurn \in Nat
    /\ orgVersion \in Int \cup {NoVersion}
    /\ orgExempt \in Nat
    /\ flagged \in [Sessions -> SUBSET Patterns]
    /\ active \subseteq Sessions
    /\ calls \in Nat

TypeOK == FeedTypeOK /\ CallTypeOK /\ TrackerTypeOK

Init ==
    /\ FeedInit
    /\ pc = [t \in Threads |-> "idle"]
    /\ sid = [t \in Threads |-> NoSession]
    /\ cost = [t \in Threads |-> 0]
    /\ fired = [t \in Threads |-> {}]
    /\ burn = [s \in Sessions |-> 0]
    /\ lru = <<>>
    /\ orgBurn = 0
    /\ orgVersion = NoVersion
    /\ flagged = [s \in Sessions |-> {}]
    /\ active = {}
    /\ calls = 0
    /\ exempt = [s \in Sessions |-> 0]
    /\ orgExempt = 0

(***************************************************************************)
(* A thread's own moves                                                    *)
(***************************************************************************)
GoTo(t, step) ==
    /\ pc' = [pc EXCEPT ![t] = step]
    /\ UNCHANGED <<sid, cost, snap, fired>>

\* Mutant of Holding: the policy that was read is not kept.
HoldingNothing(t, p, step) == GoTo(t, step)

\* Go on with p as the policy to act on.
Holding(t, p, step) ==
    /\ pc' = [pc EXCEPT ![t] = step]
    /\ snap' = [snap EXCEPT ![t] = p]
    /\ UNCHANGED <<sid, cost, fired>>

\* Go on with a call, real or estimated, that costs c.
Costing(t, c, step) ==
    /\ pc' = [pc EXCEPT ![t] = step]
    /\ cost' = [cost EXCEPT ![t] = c]
    /\ UNCHANGED <<sid, snap, fired>>

\* The call is over: it returned, or an exception left the Sentinel.
Finish(t) ==
    /\ pc' = [pc EXCEPT ![t] = "idle"]
    /\ sid' = [sid EXCEPT ![t] = NoSession]
    /\ cost' = [cost EXCEPT ![t] = 0]
    /\ snap' = [snap EXCEPT ![t] = NoPolicy]
    /\ fired' = [fired EXCEPT ![t] = {}]

Refuse(t) == Finish(t)

\* The policy lets the thread through: a probe has nothing more to do.
Pass(t, step) == IF Role[t] = "probe" THEN Finish(t) ELSE GoTo(t, step)

\* preflight refuses at the cap, _enforce_policy above it.
OverCap(spent, cap) == cap # Unlimited /\ spent > cap
AtCap(spent, cap) == cap # Unlimited /\ spent >= cap

\* mark_session_active, and current() reads _policy (_note_preflight_hits,
\* at "note", only reads).
CallCurrent(t) ==
    /\ pc[t] \in Reading
    /\ ReadPolicy(t)
    /\ active' = IF pc[t] = "note" THEN active ELSE active \cup {sid[t]}
    /\ UNCHANGED <<callVars, sessionVars, orgVars, flagged, calls>>

Begin(t) ==
    /\ pc[t] = "idle"
    /\ calls < MaxCalls
    /\ calls' = calls + 1
    /\ \E s \in Sessions : sid' = [sid EXCEPT ![t] = s]
    /\ pc' = [pc EXCEPT ![t] =
                IF Role[t] = "unguarded" THEN "http" ELSE "preflight"]
    /\ UNCHANGED <<feedVars, cost, snap, fired, sessionVars, orgVars,
                   flagged, active>>

(***************************************************************************)
(* Sentinel.preflight, before the provider's HTTP request                  *)
(***************************************************************************)
PreflightPolicy(t) ==
    /\ pc[t] = "preflight"
    /\ Return(t)
    /\ \/ /\ Judged(t) = NoPolicy
          /\ Pass(t, "http")
       \/ /\ Judged(t) # NoPolicy
          /\ Judged(t).kill
          /\ Refuse(t)
       \/ /\ Judged(t) # NoPolicy
          /\ ~Judged(t).kill
          /\ Holding(t, Judged(t), "flags")
    /\ UNCHANGED <<sessionVars, orgVars, flagged, active, calls>>

PreflightFlags(t) ==
    /\ pc[t] = "flags"
    /\ IF flagged[sid[t]] \cap snap[t].patterns # {}
       THEN Refuse(t)
       ELSE GoTo(t, "preflightOrg")
    /\ UNCHANGED <<feedVars, sessionVars, orgVars, flagged, active, calls>>

\* Mutant of SeededBurn: the cloud's figure comes on top of the local one.
SeedOnTop(p) == IF orgVersion = p.version THEN orgBurn ELSE orgBurn + p.orgSpend
\* The org burn a check under p works with: reseeded when the version that
\* seeded it is not p's, older or newer.
SeededBurn(p) == IF orgVersion = p.version THEN orgBurn ELSE p.orgSpend

Seed(p) ==
    /\ orgBurn' = SeededBurn(p)
    /\ orgVersion' = p.version
    /\ UNCHANGED orgExempt

PreflightOrg(t) ==
    /\ pc[t] = "preflightOrg"
    /\ IF snap[t].orgBudget = Unlimited
       THEN UNCHANGED orgVars
       ELSE Seed(snap[t])
    /\ IF AtCap(SeededBurn(snap[t]), snap[t].orgBudget)
       THEN Refuse(t)
       ELSE GoTo(t, "preflightSession")
    /\ UNCHANGED <<feedVars, sessionVars, flagged, active, calls>>

\* The session check is preflight's last; a probe then has the call it
\* estimates judged by _enforce_policy.
PreflightSession(t) ==
    /\ pc[t] = "preflightSession"
    /\ IF AtCap(burn[sid[t]], snap[t].sessionBudget)
       THEN Refuse(t)
       ELSE IF Role[t] = "probe"
       THEN \E c \in Costs : Costing(t, c, "enforce")
       ELSE GoTo(t, "http")
    /\ UNCHANGED <<feedVars, sessionVars, orgVars, flagged, active, calls>>

\* The provider answers, and the answer says what the call cost; or it
\* raises, or the answer cannot be read, and nothing is recorded.
ProviderCall(t) ==
    /\ pc[t] = "http"
    /\ \/ \E c \in Costs : Costing(t, c, "enforce")
       \/ Finish(t)
    /\ UNCHANGED <<feedVars, sessionVars, orgVars, flagged, active, calls>>

(***************************************************************************)
(* Sentinel._enforce_policy, first thing in record_call                    *)
(***************************************************************************)
EnforcePolicy(t) ==
    /\ pc[t] = "enforce"
    /\ Return(t)
    /\ \/ /\ Judged(t) = NoPolicy
          /\ IF Role[t] = "probe"
             THEN Finish(t)
             ELSE Holding(t, NoPolicy, "record")
       \/ /\ Judged(t) # NoPolicy
          /\ Judged(t).kill
          /\ Refuse(t)
       \/ /\ Judged(t) # NoPolicy
          /\ ~Judged(t).kill
          /\ Holding(t, Judged(t), "enforceOrg")
    /\ UNCHANGED <<sessionVars, orgVars, flagged, active, calls>>

\* Mutants of the two below: the call itself is left out of the projection.
CurrentOrg(t) == SeededBurn(snap[t])
CurrentSession(t) == burn[sid[t]]

\* projected_org and projected: what this call would bring the burn to.
ProjectedOrg(t) == SeededBurn(snap[t]) + cost[t]
ProjectedSession(t) == burn[sid[t]] + cost[t]

EnforceOrg(t) ==
    /\ pc[t] = "enforceOrg"
    /\ IF snap[t].orgBudget = Unlimited
       THEN UNCHANGED orgVars
       ELSE Seed(snap[t])
    /\ IF OverCap(ProjectedOrg(t), snap[t].orgBudget)
       THEN Refuse(t)
       ELSE GoTo(t, "enforceSession")
    /\ UNCHANGED <<feedVars, sessionVars, flagged, active, calls>>

EnforceSession(t) ==
    /\ pc[t] = "enforceSession"
    /\ IF OverCap(ProjectedSession(t), snap[t].sessionBudget)
       THEN Refuse(t)
       ELSE GoTo(t, "velocity")
    /\ UNCHANGED <<feedVars, sessionVars, orgVars, flagged, active, calls>>

\* The tokens of the last minute decide (see VelocityWindow.tla); here the
\* check may go either way under a policy that has the cap.
EnforceVelocity(t) ==
    /\ pc[t] = "velocity"
    /\ \/ /\ snap[t].velocity # Unlimited
          /\ Refuse(t)
       \/ Pass(t, "record")
    /\ UNCHANGED <<feedVars, sessionVars, orgVars, flagged, active, calls>>

(***************************************************************************)
(* The rest of record_call: rules, trackers, flags                         *)
(***************************************************************************)
Tracked == {lru[i] : i \in 1..Len(lru)}

\* Mutant of MoveToEnd: the order stays that of insertion.
KeepOrder(seq, s) == seq

\* OrderedDict.move_to_end.
MoveToEnd(seq, s) ==
    LET i == CHOOSE j \in 1..Len(seq) : seq[j] = s
    IN  [k \in 1..Len(seq) |->
            IF k < i THEN seq[k] ELSE IF k < Len(seq) THEN seq[k + 1] ELSE s]

\* A session the table lacks goes in last and, past the cap, the first one
\* goes out, whose burn is forgotten.
\* Mutant of TableFull: one session too many.
TableOverfull == MaxSessions # Unlimited /\ Len(lru) > MaxSessions

TableFull == MaxSessions # Unlimited /\ Len(lru) >= MaxSessions

ChargeSession(s, c) ==
    \/ /\ s \in Tracked
       /\ burn' = [burn EXCEPT ![s] = @ + c]
       /\ lru' = MoveToEnd(lru, s)
    \/ /\ s \notin Tracked
       /\ ~TableFull
       /\ burn' = [burn EXCEPT ![s] = c]
       /\ lru' = Append(lru, s)
    \/ /\ s \notin Tracked
       /\ TableFull
       /\ burn' = [burn EXCEPT ![s] = c, ![Head(Append(lru, s))] = 0]
       /\ lru' = Tail(Append(lru, s))

\* True under a policy whose budget applied to the call.
HadSessionBudget(t) ==
    snap[t] # NoPolicy /\ snap[t].sessionBudget # Unlimited
HadOrgBudget(t) == snap[t] # NoPolicy /\ snap[t].orgBudget # Unlimited

\* The rules fire any set of waste types (duplicates already filtered), and
\* _update_policy_trackers charges the call.
UpdateTrackers(t) ==
    /\ pc[t] = "record"
    /\ ChargeSession(sid[t], cost[t])
    /\ exempt' = [exempt EXCEPT ![sid[t]] =
                    IF HadSessionBudget(t) THEN @ ELSE @ + cost[t]]
    /\ orgBurn' = orgBurn + cost[t]
    /\ orgExempt' = IF HadOrgBudget(t) THEN orgExempt ELSE orgExempt + cost[t]
    /\ \E F \in SUBSET Patterns : fired' = [fired EXCEPT ![t] = F]
    /\ pc' = [pc EXCEPT ![t] = "note"]
    /\ UNCHANGED <<feedVars, sid, cost, snap, orgVersion, flagged, active, calls>>

\* Events a policy lists, by waste type or by rule name.
Listed(F, p) == {k \in F : k \in p.patterns \/ RuleOf[k] \in p.patterns}

NoteRead(t) ==
    /\ pc[t] = "note"
    /\ Return(t)
    /\ IF Judged(t) # NoPolicy /\ Listed(fired[t], Judged(t)) # {}
       THEN Holding(t, Judged(t), "flag")
       ELSE Finish(t)
    /\ UNCHANGED <<sessionVars, orgVars, flagged, active, calls>>

\* PreflightBlocked follows, once the handlers have seen every event.
NoteFlag(t) ==
    /\ pc[t] = "flag"
    /\ flagged' = [flagged EXCEPT ![sid[t]] = @ \cup Listed(fired[t], snap[t])]
    /\ Finish(t)
    /\ UNCHANGED <<feedVars, sessionVars, orgVars, active, calls>>

Feed ==
    /\ CacheNext
    /\ UNCHANGED <<callVars, sessionVars, orgVars, flagged, active, calls>>

Step(t) ==
    \/ Begin(t) \/ CallCurrent(t) \/ PreflightPolicy(t) \/ PreflightFlags(t)
    \/ PreflightOrg(t) \/ PreflightSession(t) \/ ProviderCall(t)
    \/ EnforcePolicy(t) \/ EnforceOrg(t) \/ EnforceSession(t)
    \/ EnforceVelocity(t) \/ UpdateTrackers(t) \/ NoteRead(t) \/ NoteFlag(t)

Next == Feed \/ \E t \in Threads : Step(t)

Spec == Init /\ [][Next]_vars

(***************************************************************************)
(* Properties                                                              *)
(***************************************************************************)
\* The excess that calls in flight can add to a budget: each of the other
\* threads of T may have passed its check before this one was charged.
InFlight(T) == (Cardinality(T) - 1) * CostCeiling

\* The check and the charge are two critical sections, so threads that share
\* a session overshoot its budget together, by one call each at the most.
\* Burn charged while no budget applied (no policy yet, or it had lapsed)
\* comes on top.
SessionOvershootBounded ==
    \A s \in Sessions :
        burn[s] <= SessionCeiling + InFlight(Callers) + exempt[s]

\* The same for the org ceiling every session of the process shares, reseeds
\* from the cloud's figure included: a thread that reseeds (a probe can, too)
\* does so under calls of all the others.
OrgOvershootBounded ==
    orgBurn <= OrgCeiling + InFlight(Threads) + orgExempt

\* _session_burn never outgrows max_sessions, lists no session twice, and
\* holds all the burn there is.
BurnTableSound ==
    /\ MaxSessions # Unlimited => Len(lru) <= MaxSessions
    /\ \A i, j \in 1..Len(lru) : lru[i] = lru[j] => i = j
    /\ \A s \in Sessions : s \notin Tracked => burn[s] = 0
=============================================================================
