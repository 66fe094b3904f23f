----------------------------- MODULE PolicyClient -----------------------------
(***************************************************************************)
(* policy_client.PolicyClient: a daemon thread polls the cloud for the     *)
(* policy, a 401 latches polling off, 5xx answers back it off, a TTL ages  *)
(* the cached policy, and the threads that make LLM calls read the cache   *)
(* without a lock.  Time is counted in ticks; a step of a thread is what   *)
(* it does up to its next access to shared state.  current() is two        *)
(* steps, because it reads _policy first, and the clock or _auth_failed    *)
(* after that.                                                             *)
(***************************************************************************)
EXTENDS Integers, Sequences

CONSTANTS
    Policies, Patterns, RuleNames, Unlimited, NoPolicy, FailureMode,
    Readers,       \* the threads that call current()
    Sessions,      \* session ids
    ActivePoll,    \* active_poll_seconds
    IdlePoll,      \* idle_poll_seconds
    Backoffs,      \* _BACKOFF_SECONDS
    Ttls,          \* seconds a policy can have left when the cloud sends it
    MaxLag,        \* lag is counted up to here
    Idle,          \* a reader that is not in current(), or has no answer yet
    Live           \* of PolicyFeed: what a reader read is still in the cache

ASSUME PollsAssumption ==
    /\ ActivePoll \in Nat /\ IdlePoll \in Nat
    /\ Backoffs \in Seq(Nat) /\ Backoffs # <<>>
    /\ \A i, j \in 1..Len(Backoffs) : i <= j => Backoffs[i] <= Backoffs[j]
    /\ Ttls \subseteq Nat
    /\ MaxLag \in Nat

VARIABLES
    serving,     \* the policy the cloud would answer with
    at,          \* where the daemon is
    reply,       \* the policy it is about to store
    policy,      \* _policy
    authFailed,  \* _auth_failed
    failures,    \* _consecutive_5xx, up to where the backoff stops growing
    wait,        \* seconds until the daemon polls again
    stop,        \* _stop
    active,      \* _active_sessions
    reading,     \* what each reader found in _policy, while it is in current()
    result,      \* the last answer each reader got
    stored,      \* history: a poll has succeeded
    lag          \* history: seconds the daemon has waited without having
                 \* serving in the cache, since it changed or a poll failed

daemonVars == <<at, reply, policy, authFailed, failures, wait, stored>>
readerVars == <<reading, result>>
vars == <<serving, daemonVars, stop, active, readerVars, lag>>

\* A Policy object: what it says, and how many seconds its TTL has to run.
Snapshots == [body : Policies, left : Nat]

Body(s) == IF s = NoPolicy THEN NoPolicy ELSE s.body
InTime(s) == s # NoPolicy /\ s.left > 0

\* What PolicyFeed says of a call of current() under way, and of its answer.
CopyOf(c) ==
    IF c = Idle THEN Idle
    ELSE IF ~c.past THEN Live
    ELSE [policy |-> Body(c.snapshot), fresh |-> InTime(c.snapshot)]
AnswerOf(a) == IF a = Idle THEN NoPolicy ELSE a.policy

Feed == INSTANCE PolicyFeed
            WITH Threads <- Readers,
                 cached <- Body(policy),
                 fresh <- InTime(policy),
                 denied <- authFailed,
                 reading <- [r \in Readers |-> CopyOf(reading[r])],
                 snap <- [r \in Readers |-> AnswerOf(result[r])]

\* A call of current() under way, or over: what it read or answered, whether
\* a poll had succeeded when it began, and whether _policy was written since
\* it was read.
Readings == [snapshot : Snapshots \cup {NoPolicy}, warm : BOOLEAN,
             past : BOOLEAN]
Answers == [policy : Policies \cup {NoPolicy, Feed!Blocked}, warm : BOOLEAN]

ASSUME PoliciesAssumption ==
    /\ Policies \subseteq Feed!PolicyType
    /\ NoPolicy \notin Feed!PolicyType \cup Snapshots

ASSUME IdleAssumption ==
    /\ Idle \notin Readings \cup Answers
    /\ Idle # Live /\ {Idle, Live} \cap Feed!Copies = {}

TypeOK ==
    /\ serving \in Policies
    /\ at \in {"off", "request", "store", "latched", "loop", "wait", "done"}
    /\ reply \in Snapshots \cup {NoPolicy}
    /\ at = "store" => reply # NoPolicy
    /\ policy \in Snapshots \cup {NoPolicy}
    /\ authFailed \in BOOLEAN
    /\ failures \in 0..Len(Backoffs)
    /\ wait \in Nat
    /\ stop \in BOOLEAN
    /\ active \subseteq Sessions
    /\ reading \in [Readers -> Readings \cup {Idle}]
    /\ result \in [Readers -> Answers \cup {Idle}]
    /\ stored \in BOOLEAN
    /\ lag \in 0..MaxLag

Init ==
    /\ serving \in Policies
    /\ at = "off" /\ reply = NoPolicy /\ policy = NoPolicy
    /\ authFailed = FALSE /\ failures = 0 /\ wait = 0
    /\ stop = FALSE /\ active = {}
    /\ reading = [r \in Readers |-> Idle]
    /\ result = [r \in Readers |-> Idle]
    /\ stored = FALSE /\ lag = 0

(***************************************************************************)
(* The cloud and the clock                                                 *)
(***************************************************************************)
\* The operator changes the policy: its version goes up.
Push ==
    /\ \E p \in Policies : p.version > serving.version /\ serving' = p
    /\ lag' = 0
    /\ UNCHANGED <<daemonVars, stop, active, readerVars>>

Down(n) == IF n = 0 THEN 0 ELSE n - 1

Aged(s) == IF s = NoPolicy THEN s ELSE [s EXCEPT !.left = Down(@)]

Cached(p) == policy # NoPolicy /\ policy.body = p

Tick ==
    /\ wait' = Down(wait)
    /\ policy' = Aged(policy)
    /\ reply' = Aged(reply)
    /\ reading' = [r \in Readers |->
                      IF reading[r] = Idle
                      THEN Idle
                      ELSE [reading[r] EXCEPT !.snapshot = Aged(@)]]
    /\ lag' = IF wait = 0 \/ Cached(serving) \/ lag = MaxLag
              THEN lag ELSE lag + 1
    /\ UNCHANGED <<serving, at, authFailed, failures, stop, active, result,
                   stored>>

(***************************************************************************)
(* start, stop and the session marks                                       *)
(***************************************************************************)
Start ==
    /\ at = "off"
    /\ at' = "request"
    /\ lag' = 0
    /\ UNCHANGED <<serving, reply, policy, authFailed, failures, wait, stored,
                   stop, active, readerVars>>

Stop ==
    /\ at # "off"
    /\ stop' = TRUE
    /\ UNCHANGED <<serving, daemonVars, active, readerVars, lag>>

MarkSessionActive(s) ==
    /\ active' = active \cup {s}
    /\ UNCHANGED <<serving, daemonVars, stop, readerVars, lag>>

MarkSessionIdle(s) ==
    /\ active' = active \ {s}
    /\ UNCHANGED <<serving, daemonVars, stop, readerVars, lag>>

(***************************************************************************)
(* One poll: _poll_once and _handle_http_error                             *)
(***************************************************************************)
\* The cloud answers 200 with the policy it has now.
Serve ==
    /\ at = "request"
    /\ at' = "store"
    /\ \E left \in Ttls : reply' = [body |-> serving, left |-> left]
    /\ UNCHANGED <<serving, policy, authFailed, failures, wait, stored, stop,
                   active, readerVars, lag>>

\* _policy is written: readers in current() hold what was there.
WritePolicy(s) ==
    /\ policy' = s
    /\ reading' = [r \in Readers |->
                      IF reading[r] = Idle
                      THEN Idle ELSE [reading[r] EXCEPT !.past = TRUE]]

Store ==
    /\ at = "store"
    /\ at' = "loop"
    /\ WritePolicy(reply)
    /\ reply' = NoPolicy
    /\ failures' = 0
    /\ stored' = TRUE
    /\ lag' = IF policy'.body = serving THEN 0 ELSE lag
    /\ UNCHANGED <<serving, authFailed, wait, stop, active, result>>

Latch == authFailed' = TRUE /\ UNCHANGED <<policy, reading>>
WipeCache == WritePolicy(NoPolicy) /\ UNCHANGED authFailed

\* A 401 writes _auth_failed and then _policy, for readers to see in between.
Write401Swapped(first) == IF first THEN WipeCache ELSE Latch
Write401(first) == IF first THEN Latch ELSE WipeCache

Unauthorized ==
    /\ at = "request"
    /\ at' = "latched"
    /\ Write401(TRUE)
    /\ UNCHANGED <<serving, reply, failures, wait, stored, stop, active,
                   result, lag>>

Wipe ==
    /\ at = "latched"
    /\ at' = "loop"
    /\ Write401(FALSE)
    /\ UNCHANGED <<serving, reply, failures, wait, stored, stop, active,
                   result, lag>>

DieOnError == at' = "done"
AfterError == at' = "loop"

EscalateUncapped == failures' = failures + 1
Escalate ==
    failures' = IF failures = Len(Backoffs) THEN failures ELSE failures + 1

ServerError ==
    /\ at = "request"
    /\ AfterError
    /\ Escalate
    /\ lag' = 0
    /\ UNCHANGED <<serving, reply, policy, authFailed, wait, stored, stop,
                   active, readerVars>>

\* The network fails, the body does not parse, another 4xx, or an exception
\* that only _run catches: nothing changes.
PollFails ==
    /\ at = "request"
    /\ at' = "loop"
    /\ lag' = 0
    /\ UNCHANGED <<serving, reply, policy, authFailed, failures, wait, stored,
                   stop, active, readerVars>>

(***************************************************************************)
(* The daemon loop: _run                                                   *)
(***************************************************************************)
Larger(m, n) == IF m > n THEN m ELSE n

BasePoll == IF active = {} THEN IdlePoll ELSE ActivePoll

BackoffOnTop ==
    IF failures > 0 THEN BasePoll + Backoffs[failures] ELSE BasePoll
NextPollInterval ==
    IF failures > 0 THEN Larger(BasePoll, Backoffs[failures]) ELSE BasePoll

NeverEnd == FALSE
StopSeen == stop

Loop ==
    /\ at = "loop"
    /\ IF StopSeen
       THEN at' = "done" /\ UNCHANGED wait
       ELSE /\ at' = "wait"
            /\ wait' = IF authFailed THEN IdlePoll ELSE NextPollInterval
    /\ UNCHANGED <<serving, reply, policy, authFailed, failures, stored, stop,
                   active, readerVars, lag>>

\* _stop.wait returns: at once when stop is set, or when the time is over.
Wake ==
    /\ at = "wait"
    /\ \/ StopSeen /\ at' = "done"
       \/ ~stop /\ wait = 0 /\ at' = IF authFailed THEN "loop" ELSE "request"
    /\ UNCHANGED <<serving, reply, policy, authFailed, failures, wait, stored,
                   stop, active, readerVars, lag>>

Daemon ==
    \/ Serve \/ Store \/ Unauthorized \/ Wipe \/ ServerError \/ PollFails
    \/ Loop \/ Wake

(***************************************************************************)
(* current()                                                               *)
(***************************************************************************)
ReadPolicy(r) ==
    /\ reading[r] = Idle
    /\ reading' = [reading EXCEPT
                      ![r] = [snapshot |-> policy, warm |-> stored,
                              past |-> FALSE]]
    /\ UNCHANGED <<serving, daemonVars, stop, active, result, lag>>

\* Mutant of Judged: the policy is read again to be returned.
JudgedTwice(s) ==
    IF s = NoPolicy
    THEN IF authFailed THEN Feed!Lapsed ELSE NoPolicy
    ELSE IF s.left = 0 THEN Feed!Lapsed ELSE Body(policy)

\* What current() makes of the object it read.
Judged(s) ==
    IF s = NoPolicy
    THEN IF authFailed THEN Feed!Lapsed ELSE NoPolicy
    ELSE IF s.left = 0 THEN Feed!Lapsed ELSE s.body

Answer(r) ==
    /\ reading[r] # Idle
    /\ result' = [result EXCEPT
                     ![r] = [policy |-> Judged(reading[r].snapshot),
                             warm |-> reading[r].warm]]
    /\ reading' = [reading EXCEPT ![r] = Idle]
    /\ UNCHANGED <<serving, daemonVars, stop, active, lag>>

Next ==
    \/ Push \/ Tick \/ Start \/ Stop
    \/ \E s \in Sessions : MarkSessionActive(s) \/ MarkSessionIdle(s)
    \/ Daemon
    \/ \E r \in Readers : ReadPolicy(r) \/ Answer(r)

Spec == Init /\ [][Next]_vars

(***************************************************************************)
(* Fairness: the daemon and the clock run, and among infinitely many polls *)
(* one succeeds: the cloud is never out of reach for ever.                 *)
(***************************************************************************)
Fairness == WF_vars(Daemon) /\ WF_vars(Tick) /\ SF_vars(Serve)

FairSpec == Spec /\ Fairness

(***************************************************************************)
(* Properties                                                              *)
(***************************************************************************)
\* To its readers the client is a PolicyFeed: versions never go back, a policy
\* lapses but is not un-lapsed, and every answer of current() is the judgement
\* of the one policy it read, whatever the daemon writes before it returns
\* (current, _poll_once, _handle_http_error).
ImplementsFeed == Feed!FeedSpec

\* In closed mode, once a poll has succeeded, no call of current() that
\* begins later answers None, whatever 401, expiry or outage it runs into
\* and between whichever two writes of the daemon it reads.
ClosedStaysClosed ==
    \A r \in Readers :
        FailureMode = "closed" /\ result[r] # Idle /\ result[r].warm
            => result[r].policy # NoPolicy

\* An operator's change waits no longer to be cached than the longest interval
\* between two polls, the time of the polls themselves apart, counted from
\* the change or from the last poll that failed (_next_poll_interval, _run):
\* 5xx backoffs replace the regular interval and do not add to it.
LagBounded ==
    ~authFailed
        => lag <= Larger(Larger(ActivePoll, IdlePoll), Backoffs[Len(Backoffs)])

\* The daemon's bookkeeping stays in its bounds: the backoff level in its table
\* (_consecutive_5xx), and the wait for an operator's change.
PollingBounded == TypeOK /\ LagBounded

\* If the cloud ends up with the kill-switch on, the cache does too, whatever
\* polls fail before, unless the client is stopped or its key is refused.
Killed == policy # NoPolicy /\ policy.body.kill
KillReachesCache ==
    <>[](serving.kill /\ at # "off" /\ ~stop /\ ~authFailed) => <>[]Killed

\* stop() ends the daemon thread, wherever it is in its loop.
StopEndsPolling == stop ~> at = "done"
=============================================================================
