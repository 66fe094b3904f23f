----------------------------- MODULE PolicyFeed -----------------------------
(***************************************************************************)
(* What policy_client.PolicyClient promises the threads that make LLM      *)
(* calls: a cached policy that only a newer fetch replaces, that lapses    *)
(* when its TTL runs out, and that a 401 takes away for good; and calls of *)
(* current() that read the cache once and judge what they read later, by   *)
(* when the cache may hold another policy.  PolicyClient.tla has the       *)
(* daemon thread, its HTTP exchange and the clocks, and implements this    *)
(* module, answers included; PolicyEnforcement.tla is written on top of    *)
(* it.                                                                     *)
(***************************************************************************)
EXTENDS Integers

CONSTANTS
    Policies,      \* the policies the cloud serves, records of PolicyType
    Patterns,      \* waste types an event can carry (LeakEvent.type)
    RuleNames,     \* rule identifiers an event can carry (LeakEvent.rule)
    Unlimited,     \* a cap of None
    NoPolicy,      \* current() returned None
    FailureMode,   \* "open" or "closed"
    Threads,       \* the threads that call current()
    Idle,          \* a thread that is not in current()
    Live           \* a thread in current() that read what the cache still holds

\* The fields of policy_client.Policy.  Whether the TTL has run out is the
\* variable fresh: fetched_at and ttl_seconds serve nothing else.
PolicyType ==
    [version: Int, kill: BOOLEAN,
     sessionBudget: Nat \cup {Unlimited},
     orgBudget: Nat \cup {Unlimited}, orgSpend: Nat,
     velocity: Nat \cup {Unlimited},
     patterns: SUBSET (Patterns \cup RuleNames)]

\* _build_blocked_policy(): the kill-switch on and nothing else.
Blocked ==
    [version |-> -1, kill |-> TRUE, sessionBudget |-> Unlimited,
     orgBudget |-> Unlimited, orgSpend |-> 0, velocity |-> Unlimited,
     patterns |-> {}]

ASSUME PoliciesAssumption ==
    /\ Policies \subseteq PolicyType
    /\ \A p \in Policies : p.version >= 0

\* A Policy object, or None, that a thread read in the cache and that was
\* replaced there since: what it says, and whether its TTL still runs.
Copies == [policy : Policies \cup {NoPolicy}, fresh : BOOLEAN]

ASSUME SentinelsAssumption ==
    /\ Unlimited \notin Int
    /\ NoPolicy \notin PolicyType
    /\ FailureMode \in {"open", "closed"}
    /\ Idle # Live /\ {Idle, Live} \cap Copies = {}

VARIABLES
    cached,   \* PolicyClient._policy
    fresh,    \* the cached policy's TTL has not run out
    denied,   \* PolicyClient._auth_failed
    reading,  \* what each thread read of _policy, while it is in current()
    snap      \* the policy each thread got from current(), while it acts on it

cacheVars == <<cached, fresh, denied>>
feedVars == <<cached, fresh, denied, reading>>
answerVars == <<feedVars, snap>>

FeedTypeOK ==
    /\ cached \in Policies \cup {NoPolicy}
    /\ fresh \in BOOLEAN
    /\ denied \in BOOLEAN
    /\ reading \in [Threads -> Copies \cup {Idle, Live}]

FeedInit ==
    /\ cached = NoPolicy
    /\ fresh = FALSE
    /\ denied = FALSE
    /\ reading = [t \in Threads |-> Idle]
    /\ snap = [t \in Threads |-> NoPolicy]

(***************************************************************************)
(* PolicyClient.current(): it reads _policy, and then the clock, or        *)
(* _auth_failed, decides what becomes of what it read.                     *)
(***************************************************************************)
Lapsed == IF FailureMode = "closed" THEN Blocked ELSE NoPolicy

Judgement(p, inTime) ==
    IF p = NoPolicy
    THEN IF denied THEN Lapsed ELSE NoPolicy
    ELSE IF inTime THEN p ELSE Lapsed

\* The policy in force: the answer of a call that nothing comes between.
Current == Judgement(cached, fresh)

\* The answer of the call that t is in, if it returns now.
Judged(t) ==
    IF reading[t] = Live
    THEN Current
    ELSE Judgement(reading[t].policy, reading[t].fresh)

ReadPolicy(t) ==
    /\ reading[t] = Idle
    /\ reading' = [reading EXCEPT ![t] = Live]
    /\ UNCHANGED cacheVars

\* The call returns, and its caller goes on with Judged(t).
Return(t) ==
    /\ reading[t] # Idle
    /\ reading' = [reading EXCEPT ![t] = Idle]
    /\ UNCHANGED cacheVars

(***************************************************************************)
(* The daemon writes _policy: threads in current() keep what they read.    *)
(***************************************************************************)
Displace ==
    reading' = [t \in Threads |->
                   IF reading[t] = Live
                   THEN [policy |-> cached, fresh |-> fresh]
                   ELSE reading[t]]

\* A poll that succeeded.  policy_version is monotonic in the cloud and a
\* single daemon polls, so versions never go back.  fetched_at is the cloud's
\* clock: with skew, a policy may arrive already expired.
Fetched(p) ==
    /\ ~denied
    /\ cached # NoPolicy => p.version >= cached.version
    /\ cached' = p
    /\ fresh' \in BOOLEAN
    /\ Displace
    /\ UNCHANGED denied

\* 401: polling is latched off for good, and then the cache is wiped.
Latched ==
    /\ ~denied
    /\ denied' = TRUE
    /\ UNCHANGED <<cached, fresh, reading>>

Wiped ==
    /\ denied
    /\ cached' = NoPolicy
    /\ fresh' = FALSE
    /\ Displace
    /\ UNCHANGED denied

\* The TTL runs out, of the cached policy (no poll has succeeded in time) or
\* of policies that threads read before they were replaced.
Expired ==
    /\ fresh' \in {fresh, FALSE}
    /\ \E T \in SUBSET {t \in Threads : reading[t] \notin {Idle, Live}} :
          reading' = [t \in Threads |->
                         IF t \in T
                         THEN [policy |-> reading[t].policy, fresh |-> FALSE]
                         ELSE reading[t]]
    /\ UNCHANGED <<cached, denied>>

CacheNext ==
    \/ \E p \in Policies : Fetched(p)
    \/ Latched
    \/ Wiped
    \/ Expired

FeedNext ==
    \/ CacheNext /\ UNCHANGED snap
    \/ \E t \in Threads : ReadPolicy(t) /\ UNCHANGED snap
    \/ \E t \in Threads :
          Return(t) /\ snap' = [snap EXCEPT ![t] = Judged(t)]

FeedSpec == FeedInit /\ [][FeedNext]_answerVars
=============================================================================
