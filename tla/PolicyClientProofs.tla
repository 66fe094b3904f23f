-------------------------- MODULE PolicyClientProofs --------------------------
(***************************************************************************)
(* What the policy client promises, for any policies, readers, intervals   *)
(* and backoffs, and that it implements PolicyFeed.                        *)
(***************************************************************************)
EXTENDS PolicyClient, TLAPS

(***************************************************************************)
(* The invariant, in parts: the types of the daemon's and of the readers'  *)
(* variables, how old what is cached or about to be stored can be, what    *)
(* the two writes of a 401 leave for a reader, that what a reader holds is *)
(* what the cache holds until the daemon writes it, and how the seconds to *)
(* wait and the seconds waited add up.                                     *)
(***************************************************************************)
Caches ==
    /\ serving \in Policies
    /\ reply \in Snapshots \cup {NoPolicy}
    /\ policy \in Snapshots \cup {NoPolicy}
    /\ at = "store" => reply # NoPolicy

Polls ==
    /\ at \in {"off", "request", "store", "latched", "loop", "wait", "done"}
    /\ failures \in 0..Len(Backoffs)
    /\ authFailed \in BOOLEAN
    /\ stop \in BOOLEAN
    /\ stored \in BOOLEAN
    /\ active \in SUBSET Sessions

Reads ==
    /\ reading \in [Readers -> Readings \cup {Idle}]
    /\ result \in [Readers -> Answers \cup {Idle}]

Versions ==
    /\ policy # NoPolicy => policy.body.version <= serving.version
    /\ at = "store" =>
          /\ reply.body.version <= serving.version
          /\ policy # NoPolicy => policy.body.version <= reply.body.version

\* After a 401 nothing is fetched or stored.
Latched ==
    /\ at = "latched" => authFailed
    /\ at \in {"off", "request", "store"} => ~authFailed

\* In closed mode what is gone from the cache has left the latch behind.
Warm(snapshot) == snapshot # NoPolicy \/ authFailed

ClosedKept ==
    FailureMode = "closed" =>
        /\ stored => Warm(policy)
        /\ \A r \in Readers :
              /\ reading[r] # Idle /\ reading[r].warm => Warm(reading[r].snapshot)
              /\ result[r] # Idle /\ result[r].warm => result[r].policy # NoPolicy

ReadsLive ==
    \A r \in Readers :
        reading[r] # Idle /\ ~reading[r].past => reading[r].snapshot = policy

LongestWait == Larger(Larger(ActivePoll, IdlePoll), Backoffs[Len(Backoffs)])

Waits ==
    /\ wait \in Nat /\ lag \in 0..MaxLag
    /\ at \notin {"wait", "done"} => wait = 0
    /\ ~authFailed =>
          /\ lag + wait <= LongestWait
          /\ at \in {"off", "loop"} => lag = 0
          /\ at = "store" => lag = 0 \/ reply.body = serving

ClientInv ==
    /\ Caches /\ Polls /\ Reads /\ Versions /\ Latched
    /\ ClosedKept /\ ReadsLive /\ Waits

(***************************************************************************)
(* Operators                                                               *)
(***************************************************************************)
\* A policy grows older without changing what it says.
LEMMA AgedSnapshot ==
    ASSUME NEW s \in Snapshots \cup {NoPolicy}
    PROVE  /\ Aged(s) \in Snapshots \cup {NoPolicy}
           /\ Aged(s) = NoPolicy <=> s = NoPolicy
           /\ s # NoPolicy => Aged(s).body = s.body /\ Aged(s).left = Down(s.left)
<1>1. CASE s = NoPolicy
  BY <1>1 DEF Aged
<1>2. CASE s # NoPolicy
  <2>1. s \in Snapshots /\ Aged(s) = [s EXCEPT !.left = Down(@)]
    BY <1>2 DEF Aged
  <2>2. Down(s.left) \in Nat
    BY <2>1 DEF Down, Snapshots
  <2>3. Aged(s) \in Snapshots /\ Aged(s).body = s.body /\ Aged(s).left = Down(s.left)
    BY <2>1, <2>2 DEF Snapshots
  <2> QED
    BY <1>2, <2>3, PoliciesAssumption
<1> QED
  BY <1>1, <1>2

\* Policies are not None, and neither is the blocked policy.
LEMMA SomePolicy ==
    /\ NoPolicy \notin Policies
    /\ NoPolicy \notin Snapshots
    /\ Feed!Blocked # NoPolicy
    /\ \A p \in Policies : p.version \in Int
<1>1. Feed!Blocked \in Feed!PolicyType
  BY DEF Feed!Blocked, Feed!PolicyType
<1> QED
  BY <1>1, PoliciesAssumption DEF Feed!PolicyType

\* No interval is longer than LongestWait.
LEMMA IntervalsBounded ==
    ASSUME failures \in 0..Len(Backoffs)
    PROVE  /\ LongestWait \in Nat
           /\ IdlePoll <= LongestWait
           /\ NextPollInterval \in Nat /\ NextPollInterval <= LongestWait
<1>1. ActivePoll \in Nat /\ IdlePoll \in Nat
  BY PollsAssumption
<1>2. /\ Len(Backoffs) \in Nat /\ Len(Backoffs) \in 1..Len(Backoffs)
      /\ \A i \in 1..Len(Backoffs) : Backoffs[i] \in Nat
  BY PollsAssumption
<1>3. \A i \in 1..Len(Backoffs) : Backoffs[i] <= Backoffs[Len(Backoffs)]
  BY <1>2, PollsAssumption
<1>4. \A m, n \in Nat : Larger(m, n) \in Nat /\ m <= Larger(m, n) /\ n <= Larger(m, n)
  BY DEF Larger
<1> DEFINE poll == Larger(ActivePoll, IdlePoll)
           last == Backoffs[Len(Backoffs)]
<1>5. last \in Nat
  BY <1>2
<1>6. poll \in Nat /\ ActivePoll <= poll /\ IdlePoll <= poll
  BY <1>1, <1>4
<1>7. LongestWait \in Nat /\ poll <= LongestWait /\ last <= LongestWait
  BY <1>4, <1>5, <1>6 DEF LongestWait
<1>8. BasePoll \in Nat /\ BasePoll <= LongestWait
  BY <1>1, <1>6, <1>7 DEF BasePoll
<1>9. CASE failures = 0
  BY <1>1, <1>6, <1>7, <1>8, <1>9 DEF NextPollInterval
<1>10. CASE failures # 0
  <2>1. failures \in 1..Len(Backoffs) /\ failures > 0
    BY <1>2, <1>10
  <2>2. Backoffs[failures] \in Nat /\ Backoffs[failures] <= last
    BY <1>2, <1>3, <2>1
  <2>3. NextPollInterval = Larger(BasePoll, Backoffs[failures])
    BY <2>1 DEF NextPollInterval
  <2>4. NextPollInterval \in {BasePoll, Backoffs[failures]}
    BY <2>3 DEF Larger
  <2> QED
    BY <1>1, <1>5, <1>6, <1>7, <1>8, <2>2, <2>4
<1> QED
  BY <1>9, <1>10

(***************************************************************************)
(* Each part is kept                                                       *)
(***************************************************************************)
LEMMA CachesKept ==
    ASSUME Caches, [Next]_vars
    PROVE  Caches'
<1>1. CASE Push
  BY <1>1 DEF Push, Caches, daemonVars
<1>2. CASE Tick
  <2>1. policy' = Aged(policy) /\ reply' = Aged(reply) /\ UNCHANGED <<serving, at>>
    BY <1>2 DEF Tick
  <2> QED
    BY <2>1, AgedSnapshot DEF Caches
<1>3. CASE Serve
  <2>1. PICK left \in Ttls : reply' = [body |-> serving, left |-> left]
    BY <1>3 DEF Serve
  <2>2. reply' \in Snapshots /\ UNCHANGED <<serving, policy>>
    BY <1>3, <2>1, PollsAssumption DEF Serve, Caches, Snapshots
  <2> QED
    BY <2>2, SomePolicy DEF Caches
<1>4. CASE Store
  BY <1>4 DEF Store, WritePolicy, Caches
<1>5. CASE Unauthorized \/ Wipe
  BY <1>5 DEF Unauthorized, Wipe, Write401, Latch, WipeCache, WritePolicy, Caches
<1>6. CASE ServerError \/ PollFails \/ Loop \/ Wake \/ Start
  BY <1>6 DEF ServerError, PollFails, Loop, Wake, Start, AfterError, Caches
<1>7. CASE Stop \/ (\E s \in Sessions : MarkSessionActive(s) \/ MarkSessionIdle(s))
           \/ (\E r \in Readers : ReadPolicy(r) \/ Answer(r)) \/ UNCHANGED vars
  BY <1>7 DEF Stop, MarkSessionActive, MarkSessionIdle, ReadPolicy, Answer, daemonVars,
              vars, Caches
<1> QED
  BY <1>1, <1>2, <1>3, <1>4, <1>5, <1>6, <1>7 DEF Next, Daemon

LEMMA PollsKept ==
    ASSUME Polls, [Next]_vars
    PROVE  Polls'
<1>1. Len(Backoffs) \in Nat
  BY PollsAssumption
<1>2. at' \in {"off", "request", "store", "latched", "loop", "wait", "done"}
  BY DEF Polls, Next, Push, Tick, Start, Stop, MarkSessionActive, MarkSessionIdle, Daemon,
         Serve, Store, Unauthorized, Wipe, ServerError, AfterError, PollFails, Loop, Wake,
         ReadPolicy, Answer, daemonVars, vars
<1>3. failures' \in 0..Len(Backoffs)
  <2>1. failures' = 0 \/ UNCHANGED failures \/ Escalate
    BY DEF Next, Push, Tick, Start, Stop, MarkSessionActive, MarkSessionIdle, Daemon,
           Serve, Store, Unauthorized, Wipe, ServerError, PollFails, Loop, Wake,
           ReadPolicy, Answer, daemonVars, vars
  <2> QED
    BY <1>1, <2>1 DEF Polls, Escalate
<1>4. (authFailed' = TRUE \/ UNCHANGED authFailed)
      /\ (stop' = TRUE \/ UNCHANGED stop) /\ (stored' = TRUE \/ UNCHANGED stored)
  BY DEF Next, Push, Tick, Start, Stop, MarkSessionActive, MarkSessionIdle, Daemon,
         Serve, Store, Unauthorized, Wipe, Write401, Latch, WipeCache, ServerError,
         PollFails, Loop, Wake, ReadPolicy, Answer, daemonVars, vars
<1>5. active' \in SUBSET Sessions
  BY DEF Polls, Next, Push, Tick, Start, Stop, MarkSessionActive, MarkSessionIdle, Daemon,
         Serve, Store, Unauthorized, Wipe, ServerError, PollFails, Loop, Wake,
         ReadPolicy, Answer, daemonVars, vars
<1>6. authFailed \in BOOLEAN /\ stop \in BOOLEAN /\ stored \in BOOLEAN
  BY DEF Polls
<1>7. authFailed' \in BOOLEAN /\ stop' \in BOOLEAN /\ stored' \in BOOLEAN
  BY <1>4, <1>6, Zenon
<1> QED
  BY <1>2, <1>3, <1>5, <1>7 DEF Polls

\* A write of _policy tells only the readers that what they hold is past.
LEMMA Written ==
    ASSUME Reads, NEW s, WritePolicy(s), result' = result
    PROVE  /\ Reads'
           /\ \A r \in Readers :
                 /\ reading'[r] = Idle <=> reading[r] = Idle
                 /\ reading[r] # Idle =>
                       /\ reading'[r] = [reading[r] EXCEPT !.past = TRUE]
                       /\ reading'[r].past = TRUE
                       /\ reading'[r].warm = reading[r].warm
                       /\ reading'[r].snapshot = reading[r].snapshot
<1>1. reading' = [r \in Readers |->
                    IF reading[r] = Idle
                    THEN Idle ELSE [reading[r] EXCEPT !.past = TRUE]]
  BY DEF WritePolicy
<1>2. ASSUME NEW r \in Readers, reading[r] # Idle
      PROVE  /\ [reading[r] EXCEPT !.past = TRUE] \in Readings
             /\ [reading[r] EXCEPT !.past = TRUE].past = TRUE
             /\ [reading[r] EXCEPT !.past = TRUE].warm = reading[r].warm
             /\ [reading[r] EXCEPT !.past = TRUE].snapshot = reading[r].snapshot
  <2>1. reading[r] \in Readings
    BY <1>2 DEF Reads
  <2> QED
    BY <2>1 DEF Readings
<1>3. \A r \in Readers : [reading[r] EXCEPT !.past = TRUE] # Idle \/ reading[r] = Idle
  BY <1>2, IdleAssumption
<1>4. Reads'
  BY <1>1, <1>2 DEF Reads
<1> QED
  BY <1>1, <1>2, <1>3, <1>4

LEMMA ReadsKept ==
    ASSUME Caches, Polls, Reads, [Next]_vars
    PROVE  Reads'
<1>1. CASE Tick
  <2>1. /\ result' = result
        /\ reading' = [r \in Readers |->
                          IF reading[r] = Idle
                          THEN Idle
                          ELSE [reading[r] EXCEPT !.snapshot = Aged(@)]]
    BY <1>1 DEF Tick
  <2>2. ASSUME NEW r \in Readers, reading[r] # Idle
        PROVE  [reading[r] EXCEPT !.snapshot = Aged(@)] \in Readings
    <3>1. reading[r] \in Readings
      BY <2>2 DEF Reads
    <3>2. Aged(reading[r].snapshot) \in Snapshots \cup {NoPolicy}
      BY <3>1, AgedSnapshot DEF Readings
    <3> QED
      BY <3>1, <3>2 DEF Readings
  <2> QED
    BY <2>1, <2>2 DEF Reads
<1>2. ASSUME NEW r \in Readers, ReadPolicy(r) PROVE Reads'
  <2>1. [snapshot |-> policy, warm |-> stored, past |-> FALSE] \in Readings
    BY DEF Caches, Polls, Readings
  <2> QED
    BY <1>2, <2>1 DEF ReadPolicy, Reads
<1>3. ASSUME NEW r \in Readers, Answer(r) PROVE Reads'
  <2>1. reading[r] \in Readings
    BY <1>3 DEF Answer, Reads
  <2>2. Judged(reading[r].snapshot) \in Policies \cup {NoPolicy, Feed!Blocked}
    BY <2>1 DEF Judged, Feed!Lapsed, Readings, Snapshots
  <2>3. [policy |-> Judged(reading[r].snapshot), warm |-> reading[r].warm] \in Answers
    BY <2>1, <2>2 DEF Answers, Readings
  <2> QED
    BY <1>3, <2>3 DEF Answer, Reads
<1>4. \/ UNCHANGED readerVars \/ Tick
      \/ \E s : WritePolicy(s) /\ result' = result
      \/ \E r \in Readers : ReadPolicy(r) \/ Answer(r)
  <2>1. CASE Store
    BY <2>1 DEF Store
  <2>2. CASE Wipe
    BY <2>2 DEF Wipe, Write401, WipeCache
  <2>3. CASE ~Store /\ ~Wipe
    BY <2>3 DEF Next, Push, Start, Stop, MarkSessionActive, MarkSessionIdle, Daemon,
           Serve, Unauthorized, Write401, Latch, ServerError, PollFails, Loop, Wake,
           readerVars, vars
  <2> QED
    BY <2>1, <2>2, <2>3
<1>5. CASE UNCHANGED readerVars
  BY <1>5 DEF readerVars, Reads
<1> QED
  BY <1>1, <1>2, <1>3, <1>4, <1>5, Written

LEMMA LatchedKept ==
    ASSUME Latched, [Next]_vars
    PROVE  Latched'
BY DEF Latched, Next, Push, Tick, Start, Stop, MarkSessionActive, MarkSessionIdle, Daemon,
       Serve, Store, Unauthorized, Wipe, Write401, Latch, WipeCache, ServerError,
       AfterError, PollFails, Loop, Wake, ReadPolicy, Answer, daemonVars, vars

LEMMA VersionsKept ==
    ASSUME Caches, Versions, [Next]_vars
    PROVE  Versions'
<1>1. /\ serving \in Policies /\ serving.version \in Int
      /\ policy # NoPolicy => policy.body.version \in Int
      /\ at = "store" => reply.body.version \in Int
  BY SomePolicy DEF Caches, Snapshots
<1>2. CASE Push
  <2>1. PICK p \in Policies : p.version > serving.version /\ serving' = p
    BY <1>2 DEF Push
  <2>2. UNCHANGED <<at, reply, policy>>
    BY <1>2 DEF Push, daemonVars
  <2>3. p.version \in Int
    BY SomePolicy
  <2> QED
    BY <1>1, <2>1, <2>2, <2>3 DEF Versions
<1>3. CASE Tick
  <2>1. policy' = Aged(policy) /\ reply' = Aged(reply) /\ UNCHANGED <<serving, at>>
    BY <1>3 DEF Tick
  <2>2. /\ policy' # NoPolicy => policy # NoPolicy /\ policy'.body = policy.body
        /\ at = "store" => reply'.body = reply.body
    BY <2>1, AgedSnapshot DEF Caches
  <2> QED
    BY <2>1, <2>2 DEF Versions
<1>4. CASE Serve
  <2>1. reply'.body = serving /\ UNCHANGED <<serving, policy>> /\ at' = "store"
    BY <1>4 DEF Serve
  <2> QED
    BY <1>1, <2>1 DEF Versions
<1>5. CASE Store
  BY <1>5 DEF Store, WritePolicy, Versions
<1>6. CASE Unauthorized \/ Wipe
  BY <1>6 DEF Unauthorized, Wipe, Write401, Latch, WipeCache, WritePolicy, Versions
<1>7. CASE ServerError \/ PollFails \/ Loop \/ Wake \/ Start
  BY <1>7 DEF ServerError, PollFails, Loop, Wake, Start, AfterError, Versions
<1>8. CASE Stop \/ (\E s \in Sessions : MarkSessionActive(s) \/ MarkSessionIdle(s))
           \/ (\E r \in Readers : ReadPolicy(r) \/ Answer(r)) \/ UNCHANGED vars
  BY <1>8 DEF Stop, MarkSessionActive, MarkSessionIdle, ReadPolicy, Answer, daemonVars,
              vars, Versions
<1> QED
  BY <1>2, <1>3, <1>4, <1>5, <1>6, <1>7, <1>8 DEF Next, Daemon

LEMMA ClosedKeptKept ==
    ASSUME Caches, Reads, Latched, ClosedKept, [Next]_vars
    PROVE  ClosedKept'
<1> SUFFICES ASSUME FailureMode = "closed"
             PROVE  /\ stored' => Warm(policy)'
                    /\ \A r \in Readers :
                          /\ (reading'[r] # Idle /\ reading'[r].warm
                                => reading'[r].snapshot # NoPolicy \/ authFailed')
                          /\ (result'[r] # Idle /\ result'[r].warm
                                => result'[r].policy # NoPolicy)
  BY DEF ClosedKept, Warm
<1>1. /\ stored => Warm(policy)
      /\ \A r \in Readers :
            /\ reading[r] # Idle /\ reading[r].warm => Warm(reading[r].snapshot)
            /\ result[r] # Idle /\ result[r].warm => result[r].policy # NoPolicy
  BY DEF ClosedKept
<1>2. CASE Tick
  <2>1. UNCHANGED <<result, authFailed, stored>> /\ policy' = Aged(policy)
        /\ reading' = [r \in Readers |->
                          IF reading[r] = Idle
                          THEN Idle
                          ELSE [reading[r] EXCEPT !.snapshot = Aged(@)]]
    BY <1>2 DEF Tick
  <2>2. stored' => Warm(policy)'
    BY <1>1, <2>1, AgedSnapshot DEF Caches, Warm
  <2>3. ASSUME NEW r \in Readers, reading'[r] # Idle, reading'[r].warm
        PROVE  reading'[r].snapshot # NoPolicy \/ authFailed'
    <3>1. reading[r] # Idle /\ reading'[r] = [reading[r] EXCEPT !.snapshot = Aged(@)]
      BY <2>1, <2>3
    <3>2. reading[r] \in Readings
      BY <3>1 DEF Reads
    <3>3. reading'[r].warm = reading[r].warm
          /\ reading'[r].snapshot = Aged(reading[r].snapshot)
          /\ reading[r].snapshot \in Snapshots \cup {NoPolicy}
      BY <3>1, <3>2 DEF Readings
    <3>4. reading[r].warm
      BY <2>3, <3>3
    <3>5. reading[r].snapshot # NoPolicy \/ authFailed
      BY <1>1, <3>1, <3>4 DEF Warm
    <3> QED
      BY <2>1, <3>3, <3>5, AgedSnapshot
  <2> QED
    BY <1>1, <2>1, <2>2, <2>3
<1>3. ASSUME NEW r \in Readers, ReadPolicy(r)
      PROVE  ClosedKept'
  <2>1. reading' = [reading EXCEPT
                       ![r] = [snapshot |-> policy, warm |-> stored, past |-> FALSE]]
        /\ UNCHANGED <<policy, authFailed, stored, result>>
    BY <1>3 DEF ReadPolicy, daemonVars
  <2>2. \A q \in Readers : q # r => reading'[q] = reading[q]
    BY <2>1 DEF Reads
  <2>3. reading'[r] = [snapshot |-> policy, warm |-> stored, past |-> FALSE]
    BY <2>1 DEF Reads
  <2>4. reading'[r].snapshot = policy /\ reading'[r].warm = stored
    BY <2>3
  <2> QED
    BY <1>1, <2>1, <2>2, <2>4 DEF ClosedKept, Warm
<1>4. ASSUME NEW r \in Readers, Answer(r)
      PROVE  ClosedKept'
  <2> DEFINE answer == [policy |-> Judged(reading[r].snapshot), warm |-> reading[r].warm]
  <2>1. reading[r] # Idle
        /\ result' = [result EXCEPT ![r] = answer]
        /\ reading' = [reading EXCEPT ![r] = Idle]
        /\ UNCHANGED <<policy, authFailed, stored>>
    BY <1>4 DEF Answer, daemonVars
  <2>2. reading[r] \in Readings
    BY <2>1 DEF Reads
  <2>3. ASSUME reading[r].warm PROVE Judged(reading[r].snapshot) # NoPolicy
    <3>1. reading[r].snapshot # NoPolicy \/ authFailed
      BY <1>1, <2>1, <2>3 DEF Warm
    <3>2. Feed!Lapsed = Feed!Blocked
      BY DEF Feed!Lapsed
    <3> QED
      BY <2>2, <3>1, <3>2, SomePolicy DEF Judged, Readings, Snapshots
  <2>4. result'[r] = answer /\ reading'[r] = Idle
        /\ \A q \in Readers : q # r => result'[q] = result[q] /\ reading'[q] = reading[q]
    BY <2>1 DEF Reads
  <2>5. result'[r].warm => result'[r].policy # NoPolicy
    BY <2>3, <2>4
  <2> QED
    BY <1>1, <2>1, <2>4, <2>5 DEF ClosedKept, Warm
<1>5. CASE Store
  <2>1. WritePolicy(reply) /\ UNCHANGED <<result, authFailed>> /\ policy' # NoPolicy
    BY <1>5 DEF Store, WritePolicy, Caches
  <2> QED
    BY <1>1, <2>1, Written DEF Warm
<1>6. CASE Unauthorized
  <2>1. UNCHANGED <<reading, result, stored, policy>> /\ authFailed'
    BY <1>6 DEF Unauthorized, Write401, Latch
  <2> QED
    BY <1>1, <2>1 DEF Warm
<1>9. CASE Wipe
  <2>1. WritePolicy(NoPolicy) /\ UNCHANGED <<result, stored>> /\ authFailed'
    BY <1>9 DEF Wipe, Write401, WipeCache, Latched
  <2> QED
    BY <1>1, <2>1, Written DEF Warm
<1>7. CASE UNCHANGED <<policy, authFailed, stored, readerVars>>
  BY <1>1, <1>7 DEF readerVars, Warm
<1>8. \/ Tick \/ Store \/ Unauthorized \/ Wipe
      \/ \E r \in Readers : ReadPolicy(r) \/ Answer(r)
      \/ UNCHANGED <<policy, authFailed, stored, readerVars>>
  BY DEF Next, Push, Start, Stop, MarkSessionActive, MarkSessionIdle, Daemon, Serve,
         ServerError, PollFails, Loop, Wake, daemonVars, vars
<1> QED
  BY <1>2, <1>3, <1>4, <1>5, <1>6, <1>7, <1>8, <1>9 DEF ClosedKept, Warm

LEMMA ReadsLiveKept ==
    ASSUME Caches, Reads, ReadsLive, [Next]_vars
    PROVE  ReadsLive'
<1>1. CASE Tick
  <2>1. policy' = Aged(policy)
        /\ reading' = [r \in Readers |->
                          IF reading[r] = Idle
                          THEN Idle
                          ELSE [reading[r] EXCEPT !.snapshot = Aged(@)]]
    BY <1>1 DEF Tick
  <2>2. ASSUME NEW r \in Readers, reading'[r] # Idle, ~reading'[r].past
        PROVE  reading'[r].snapshot = policy'
    <3>1. reading[r] # Idle /\ reading'[r] = [reading[r] EXCEPT !.snapshot = Aged(@)]
      BY <2>1, <2>2
    <3>2. reading[r] \in Readings
      BY <3>1 DEF Reads
    <3>3. reading'[r].past = reading[r].past
          /\ reading'[r].snapshot = Aged(reading[r].snapshot)
      BY <3>1, <3>2 DEF Readings
    <3> QED
      BY <2>1, <2>2, <3>1, <3>3 DEF ReadsLive
  <2> QED
    BY <2>2 DEF ReadsLive
<1>2. ASSUME NEW r \in Readers, ReadPolicy(r) PROVE ReadsLive'
  BY <1>2 DEF ReadPolicy, daemonVars, Reads, ReadsLive
<1>3. ASSUME NEW r \in Readers, Answer(r) PROVE ReadsLive'
  BY <1>3 DEF Answer, daemonVars, Reads, ReadsLive
<1>4. ASSUME NEW s, WritePolicy(s), result' = result PROVE ReadsLive'
  BY <1>4, Written DEF ReadsLive
<1>5. CASE UNCHANGED <<policy, reading>>
  BY <1>5 DEF ReadsLive
<1>6. CASE Store
  BY <1>4, <1>6 DEF Store
<1>7. CASE Wipe
  BY <1>4, <1>7 DEF Wipe, Write401, WipeCache
<1>8. \/ Tick \/ Store \/ Wipe
      \/ \E r \in Readers : ReadPolicy(r) \/ Answer(r)
      \/ UNCHANGED <<policy, reading>>
  BY DEF Next, Push, Start, Stop, MarkSessionActive, MarkSessionIdle, Daemon, Serve,
         Unauthorized, Write401, Latch, ServerError, PollFails, Loop, Wake, daemonVars,
         readerVars, vars
<1> QED
  BY <1>1, <1>2, <1>3, <1>5, <1>6, <1>7, <1>8

LEMMA WaitsKept ==
    ASSUME Caches, Polls, Latched, Waits, [Next]_vars
    PROVE  Waits'
<1>1. /\ LongestWait \in Nat /\ IdlePoll \in Nat /\ IdlePoll <= LongestWait
      /\ NextPollInterval \in Nat /\ NextPollInterval <= LongestWait
  BY PollsAssumption, IntervalsBounded DEF Polls
<1>2. /\ wait \in Nat /\ lag \in Nat /\ lag <= MaxLag /\ MaxLag \in Nat
      /\ at \notin {"wait", "done"} => wait = 0
      /\ ~authFailed => lag + wait <= LongestWait
  BY PollsAssumption DEF Waits
<1>3. CASE Push
  <2>1. lag' = 0 /\ UNCHANGED <<at, wait, authFailed, reply>>
    BY <1>3 DEF Push, daemonVars
  <2> QED
    BY <1>1, <1>2, <2>1 DEF Waits, LongestWait
<1>4. CASE Tick
  <2>1. /\ at' = at /\ serving' = serving
        /\ wait' = Down(wait) /\ reply' = Aged(reply)
        /\ lag' = IF wait = 0 \/ Cached(serving) \/ lag = MaxLag THEN lag ELSE lag + 1
    BY <1>4 DEF Tick
  <2>2. authFailed' = authFailed
    BY <1>4 DEF Tick
  <2>3. /\ wait' \in Nat /\ lag' \in 0..MaxLag
        /\ lag + wait <= LongestWait => lag' + wait' <= LongestWait
    BY <1>1, <1>2, <2>1 DEF Down
  <2>4. wait = 0 => wait' = 0 /\ lag' = lag
    BY <2>1 DEF Down
  <2>5. at' \notin {"wait", "done"} => wait' = 0
    BY <1>2, <2>1, <2>4
  <2>6. ASSUME ~authFailed'
        PROVE  /\ lag' + wait' <= LongestWait'
               /\ at' \in {"off", "loop"} => lag' = 0
               /\ at' = "store" => lag' = 0 \/ reply'.body = serving'
    <3>1. ~authFailed
      BY <2>2, <2>6, Zenon
    <3>2. /\ lag + wait <= LongestWait
          /\ at \in {"off", "loop"} => lag = 0
          /\ at = "store" => lag = 0 \/ reply.body = serving
      BY <3>1 DEF Waits
    <3>3. lag' + wait' <= LongestWait
      BY <2>3, <3>2
    <3>4. at = "store" => reply'.body = reply.body
      BY <2>1, AgedSnapshot DEF Caches
    <3>5. at \notin {"wait", "done"} => lag' = lag
      BY <1>2, <2>4
    <3> QED
      BY <2>1, <3>2, <3>3, <3>4, <3>5 DEF LongestWait
  <2> QED
    BY <2>3, <2>5, <2>6 DEF Waits
<1>5. CASE Start \/ ServerError \/ PollFails
  <2>1. lag' = 0 /\ UNCHANGED <<wait, authFailed>> /\ wait = 0 /\ at' \in {"request", "loop"}
    BY <1>2, <1>5 DEF Start, ServerError, AfterError, PollFails
  <2> QED
    BY <1>1, <1>2, <2>1 DEF Waits, LongestWait
<1>6. CASE Serve
  <2>1. reply'.body = serving /\ at' = "store" /\ UNCHANGED <<wait, lag, serving, authFailed>>
        /\ wait = 0
    BY <1>2, <1>6 DEF Serve
  <2> QED
    BY <1>1, <1>2, <2>1 DEF Waits, LongestWait
<1>7. CASE Store
  <2>1. /\ at = "store" /\ at' = "loop" /\ policy' = reply /\ UNCHANGED <<wait, authFailed>>
        /\ lag' = IF policy'.body = serving THEN 0 ELSE lag
    BY <1>7 DEF Store, WritePolicy
  <2>2. ~authFailed /\ wait = 0 /\ lag' = 0
    BY <1>2, <2>1 DEF Waits, Latched
  <2> QED
    BY <1>1, <1>2, <2>1, <2>2 DEF Waits, LongestWait
<1>8. CASE Unauthorized \/ Wipe
  <2>1. UNCHANGED <<wait, lag>> /\ authFailed' /\ wait = 0
    BY <1>2, <1>8 DEF Unauthorized, Wipe, Write401, Latch, WipeCache, Latched
  <2> QED
    BY <1>2, <2>1 DEF Waits
<1>9. CASE Loop
  <2>1. UNCHANGED <<lag, authFailed>> /\ at = "loop" /\ wait = 0 /\ at' \in {"wait", "done"}
        /\ wait' \in {0, IdlePoll, NextPollInterval}
    BY <1>2, <1>9 DEF Loop
  <2>2. wait' \in Nat /\ wait' <= LongestWait
    BY <1>1, <2>1
  <2>3. ~authFailed => lag = 0
    BY <2>1 DEF Waits
  <2> QED
    BY <1>1, <1>2, <2>1, <2>2, <2>3 DEF Waits, LongestWait
<1>10. CASE Wake
  <2>1. UNCHANGED <<lag, wait, authFailed>>
        /\ \/ at' = "done"
           \/ wait = 0 /\ authFailed /\ at' = "loop"
           \/ wait = 0 /\ at' = "request"
    BY <1>10 DEF Wake
  <2> QED
    BY <1>1, <1>2, <2>1 DEF Waits, LongestWait
<1>11. CASE UNCHANGED <<at, reply, serving, wait, lag, authFailed>>
  BY <1>11 DEF Waits, LongestWait
<1>12. \/ Push \/ Tick \/ Start \/ Daemon
       \/ UNCHANGED <<at, reply, serving, wait, lag, authFailed>>
  BY DEF Next, Stop, MarkSessionActive, MarkSessionIdle, ReadPolicy, Answer,
         daemonVars, vars
<1> QED
  BY <1>3, <1>4, <1>5, <1>6, <1>7, <1>8, <1>9, <1>10, <1>11, <1>12 DEF Daemon

LEMMA ClientStarts == Init => ClientInv
<1> SUFFICES ASSUME Init PROVE ClientInv
  OBVIOUS
<1>1. Caches /\ Versions /\ Latched
  BY DEF Init, Caches, Versions, Latched
<1>2. Polls
  <2>1. 0 \in 0..Len(Backoffs)
    BY PollsAssumption
  <2>2. failures = 0
    BY DEF Init
  <2>3. failures \in 0..Len(Backoffs)
    BY <2>1, <2>2
  <2> QED
    BY <2>3 DEF Init, Polls
<1>3. Reads /\ ClosedKept /\ ReadsLive
  BY DEF Init, Reads, ClosedKept, ReadsLive, Warm
<1>4. Waits
  <2>1. LongestWait \in Nat
    BY <1>2, IntervalsBounded DEF Polls
  <2> QED
    BY <2>1, PollsAssumption DEF Init, Waits
<1> QED
  BY <1>1, <1>2, <1>3, <1>4 DEF ClientInv

\* Every step of the daemon, of a reader, of the cloud and of the clock keeps
\* ClientInv.
THEOREM ClientInvariant == Spec => []ClientInv
<1>1. ClientInv /\ [Next]_vars => ClientInv'
  BY CachesKept, PollsKept, ReadsKept, VersionsKept, LatchedKept, ClosedKeptKept,
     ReadsLiveKept, WaitsKept
     DEF ClientInv
<1> QED
  BY <1>1, ClientStarts, PTL DEF Spec

(***************************************************************************)
(* What the run checks                                                     *)
(***************************************************************************)
\* _run, _next_poll_interval: an operator's change waits no longer than the
\* longest of the intervals and backoffs for a poll, and the daemon's variables
\* keep their types.
THEOREM PollingIsBounded == Spec => []PollingBounded
<1>1. ASSUME ClientInv PROVE PollingBounded
  <2>1. Caches /\ Polls /\ Reads /\ Waits
    BY <1>1 DEF ClientInv
  <2>2. TypeOK
    BY <2>1 DEF Caches, Polls, Reads, Waits, TypeOK
  <2>3. LongestWait \in Nat
    BY <2>1, IntervalsBounded DEF Polls
  <2>4. LagBounded
    BY <2>1, <2>3, PollsAssumption DEF Waits, LagBounded, LongestWait
  <2> QED
    BY <2>2, <2>4 DEF PollingBounded
<1> QED
  BY <1>1, ClientInvariant, PTL

\* current() in closed mode: None is never the answer of a call that began
\* after a poll succeeded, whichever two writes of the daemon it reads between.
THEOREM ClosedModeNeverOpens == Spec => []ClosedStaysClosed
<1>1. ASSUME ClosedKept PROVE ClosedStaysClosed
  BY <1>1 DEF ClosedKept, ClosedStaysClosed
<1> QED
  BY <1>1, ClientInvariant, PTL DEF ClientInv

(***************************************************************************)
(* The refinement.  A store is a fetch, the two writes of a 401 are the    *)
(* feed's two, a tick is the expiry of every policy whose seconds run out, *)
(* in the cache or in a reader's hands, and the readers' steps are the     *)
(* feed's, with the same answers.                                          *)
(***************************************************************************)
FeedReading == [r \in Readers |-> CopyOf(reading[r])]
FeedSnap == [r \in Readers |-> AnswerOf(result[r])]

\* What a policy object says is a policy, and never None.
LEMMA BodyType ==
    ASSUME NEW s \in Snapshots \cup {NoPolicy}
    PROVE  /\ Body(s) \in Policies \cup {NoPolicy}
           /\ Body(s) = NoPolicy <=> s = NoPolicy
           /\ InTime(s) \in BOOLEAN
           /\ InTime(s) <=> s # NoPolicy /\ s.left # 0
<1>1. CASE s = NoPolicy
  BY <1>1 DEF Body, InTime
<1>2. CASE s # NoPolicy
  <2>1. s \in Snapshots /\ s.body \in Policies /\ s.left \in Nat
    BY <1>2 DEF Snapshots
  <2> QED
    BY <1>2, <2>1, SomePolicy DEF Body, InTime
<1> QED
  BY <1>1, <1>2

\* A policy that lapses in a tick says what it said, and does not come back.
LEMMA AgedJudgement ==
    ASSUME NEW s \in Snapshots \cup {NoPolicy}
    PROVE  /\ Body(Aged(s)) = Body(s)
           /\ InTime(Aged(s)) \in {InTime(s), FALSE}
<1>1. CASE s = NoPolicy
  BY <1>1 DEF Aged
<1>2. CASE s # NoPolicy
  <2>1. s \in Snapshots /\ s.left \in Nat
    BY <1>2 DEF Snapshots
  <2>2. Aged(s) # NoPolicy /\ Aged(s).body = s.body /\ Aged(s).left = Down(s.left)
    BY <1>2, AgedSnapshot
  <2>3. Body(Aged(s)) = Body(s)
    BY <1>2, <2>2 DEF Body
  <2>4. Down(s.left) > 0 => s.left > 0
    BY <2>1 DEF Down
  <2>5. InTime(Aged(s)) => InTime(s)
    BY <1>2, <2>2, <2>4 DEF InTime
  <2>6. InTime(s) \in BOOLEAN /\ InTime(Aged(s)) \in BOOLEAN
    BY DEF InTime
  <2> QED
    BY <2>3, <2>5, <2>6, Zenon
<1> QED
  BY <1>1, <1>2

\* A copy the feed speaks of is neither Idle nor Live.
LEMMA CopyType ==
    ASSUME Reads, NEW r \in Readers
    PROVE  /\ reading[r] = Idle <=> CopyOf(reading[r]) = Idle
           /\ reading[r] # Idle /\ ~reading[r].past <=> CopyOf(reading[r]) = Live
           /\ reading[r] # Idle /\ reading[r].past =>
                 /\ CopyOf(reading[r]) = [policy |-> Body(reading[r].snapshot),
                                          fresh |-> InTime(reading[r].snapshot)]
                 /\ CopyOf(reading[r]) \in Feed!Copies
           /\ reading[r] # Idle => reading[r] \in Readings
           /\ reading[r] # Idle => reading[r].past \in BOOLEAN
<1>1. CASE reading[r] = Idle
  BY <1>1, IdleAssumption DEF CopyOf
<1>2. CASE reading[r] # Idle
  <2>1. /\ reading[r] \in Readings /\ reading[r].past \in BOOLEAN
        /\ reading[r].snapshot \in Snapshots \cup {NoPolicy}
    BY <1>2 DEF Reads, Readings
  <2>2. /\ Body(reading[r].snapshot) \in Policies \cup {NoPolicy}
        /\ InTime(reading[r].snapshot) \in BOOLEAN
    BY <2>1, BodyType
  <2>3. [policy |-> Body(reading[r].snapshot), fresh |-> InTime(reading[r].snapshot)]
           \in Feed!Copies
    BY <2>2 DEF Feed!Copies
  <2>4. CASE reading[r].past
    BY <1>2, <2>1, <2>3, <2>4, IdleAssumption DEF CopyOf
  <2>5. CASE ~reading[r].past
    BY <1>2, <2>1, <2>5, IdleAssumption DEF CopyOf
  <2> QED
    BY <2>4, <2>5
<1> QED
  BY <1>1, <1>2

\* A tick.
LEMMA TickExpires ==
    ASSUME ClientInv, Tick
    PROVE  Feed!Expired /\ UNCHANGED FeedSnap
<1>1. /\ policy' = Aged(policy) /\ result' = result
      /\ reading' = [r \in Readers |->
                        IF reading[r] = Idle
                        THEN Idle
                        ELSE [reading[r] EXCEPT !.snapshot = Aged(@)]]
  BY DEF Tick
<1>2. authFailed' = authFailed
  BY DEF Tick
<1>3. Reads /\ policy \in Snapshots \cup {NoPolicy}
  BY DEF ClientInv, Caches
<1>4. Body(policy') = Body(policy) /\ InTime(policy') \in {InTime(policy), FALSE}
  BY <1>1, <1>3, AgedJudgement
<1> DEFINE Past == {r \in Readers : FeedReading[r] \notin {Idle, Live}}
           T == {r \in Past : ~InTime(reading'[r].snapshot)}
<1>5. ASSUME NEW r \in Readers
      PROVE  CopyOf(reading'[r]) = IF r \in T THEN [policy |-> FeedReading[r].policy, fresh |-> FALSE]
                                   ELSE FeedReading[r]
  <2>1. FeedReading[r] = CopyOf(reading[r])
    BY DEF FeedReading
  <2>2. CASE reading[r] = Idle
    <3>1. reading'[r] = Idle /\ r \notin T
      BY <1>1, <2>1, <2>2 DEF CopyOf
    <3> QED
      BY <2>1, <2>2, <3>1
  <2>3. CASE reading[r] # Idle
    <3>1. reading'[r] = [reading[r] EXCEPT !.snapshot = Aged(@)]
      BY <1>1, <2>3
    <3>2. reading[r] \in Readings
      BY <1>3, <2>3, CopyType
    <3>3. /\ reading'[r] \in Readings /\ reading'[r].past = reading[r].past
          /\ reading'[r].snapshot = Aged(reading[r].snapshot)
          /\ reading[r].snapshot \in Snapshots \cup {NoPolicy}
      <4>1. reading[r].snapshot \in Snapshots \cup {NoPolicy}
        BY <3>2 DEF Readings
      <4>2. Aged(reading[r].snapshot) \in Snapshots \cup {NoPolicy}
        BY <4>1, AgedSnapshot
      <4> QED
        BY <3>1, <3>2, <4>1, <4>2 DEF Readings
    <3>4. reading'[r] # Idle
      BY <3>3, IdleAssumption
    <3>5. /\ Body(reading'[r].snapshot) = Body(reading[r].snapshot)
          /\ InTime(reading'[r].snapshot) \in {InTime(reading[r].snapshot), FALSE}
      BY <3>3, AgedJudgement
    <3>6. CASE ~reading[r].past
      <4>1. CopyOf(reading[r]) = Live /\ CopyOf(reading'[r]) = Live
        BY <2>3, <3>3, <3>4, <3>6 DEF CopyOf
      <4> QED
        BY <2>1, <4>1
    <3>7. CASE reading[r].past
      <4>1. CopyOf(reading'[r]) = [policy |-> Body(reading[r].snapshot),
                                   fresh |-> InTime(reading'[r].snapshot)]
        BY <3>3, <3>4, <3>5, <3>7 DEF CopyOf
      <4>2. /\ FeedReading[r] = [policy |-> Body(reading[r].snapshot),
                                 fresh |-> InTime(reading[r].snapshot)]
            /\ FeedReading[r] \in Feed!Copies
        BY <1>3, <2>1, <2>3, <3>7, CopyType
      <4>3. r \in Past
        BY <4>2, IdleAssumption
      <4>4. CASE InTime(reading'[r].snapshot)
        <5>1. r \notin T /\ InTime(reading'[r].snapshot) = InTime(reading[r].snapshot)
          BY <3>5, <4>4
        <5> QED
          BY <4>1, <4>2, <5>1
      <4>5. CASE ~InTime(reading'[r].snapshot)
        <5>1. r \in T
          BY <4>3, <4>5
        <5>2. InTime(reading'[r].snapshot) = FALSE
          BY <4>5 DEF InTime
        <5>3. CopyOf(reading'[r]) = [policy |-> Body(reading[r].snapshot), fresh |-> FALSE]
          BY <4>1, <5>2
        <5>4. FeedReading[r].policy = Body(reading[r].snapshot)
          BY <4>2
        <5> HIDE DEF T
        <5> QED
          BY <5>1, <5>3, <5>4
      <4> QED
        BY <4>4, <4>5
    <3> QED
      BY <3>2, <3>6, <3>7
  <2> QED
    BY <2>2, <2>3
<1>6. FeedReading' = [r \in Readers |-> IF r \in T THEN [policy |-> FeedReading[r].policy, fresh |-> FALSE]
                                        ELSE FeedReading[r]]
  BY <1>5 DEF FeedReading
<1>7. T \in SUBSET Past
  OBVIOUS
<1> HIDE DEF T
<1>8. Feed!Expired
  BY <1>2, <1>4, <1>6, <1>7 DEF Feed!Expired, FeedReading
<1> QED
  BY <1>1, <1>8 DEF FeedSnap

\* A write of _policy: the readers keep what they read.
LEMMA WriteDisplaces ==
    ASSUME ClientInv, NEW s, WritePolicy(s), result' = result
    PROVE  Feed!Displace /\ UNCHANGED FeedSnap
<1>1. Reads /\ ReadsLive
  BY DEF ClientInv
<1>2. ASSUME NEW r \in Readers
      PROVE  CopyOf(reading'[r]) = IF FeedReading[r] = Live
                                   THEN [policy |-> Body(policy), fresh |-> InTime(policy)]
                                   ELSE FeedReading[r]
  <2>1. FeedReading[r] = CopyOf(reading[r])
    BY DEF FeedReading
  <2>2. CASE reading[r] = Idle
    <3>1. reading'[r] = Idle
      BY <1>1, <2>2, Written
    <3> QED
      BY <1>1, <2>1, <2>2, <3>1, IdleAssumption DEF CopyOf
  <2>3. CASE reading[r] # Idle
    <3>1. /\ reading'[r] # Idle /\ reading'[r].past = TRUE
          /\ reading'[r].snapshot = reading[r].snapshot
      BY <1>1, <2>3, Written
    <3>2. CopyOf(reading'[r]) = [policy |-> Body(reading[r].snapshot),
                                 fresh |-> InTime(reading[r].snapshot)]
      BY <3>1 DEF CopyOf
    <3>3. CASE ~reading[r].past
      <4>1. reading[r].snapshot = policy /\ CopyOf(reading[r]) = Live
        BY <1>1, <2>3, <3>3 DEF ReadsLive, CopyOf
      <4> QED
        BY <2>1, <3>2, <4>1
    <3>4. CASE reading[r].past
      <4>1. CopyOf(reading[r]) # Live
        BY <1>1, <2>3, <3>4, CopyType
      <4>2. CopyOf(reading[r]) = [policy |-> Body(reading[r].snapshot),
                                  fresh |-> InTime(reading[r].snapshot)]
        BY <1>1, <2>3, <3>4, CopyType
      <4> QED
        BY <2>1, <3>2, <4>1, <4>2
    <3> QED
      BY <3>3, <3>4
  <2> QED
    BY <2>2, <2>3
<1>3. FeedReading' = [r \in Readers |-> IF FeedReading[r] = Live
                                        THEN [policy |-> Body(policy), fresh |-> InTime(policy)]
                                        ELSE FeedReading[r]]
  BY <1>2 DEF FeedReading
<1> QED
  BY <1>3 DEF Feed!Displace, FeedReading, FeedSnap

\* current() reads _policy.
LEMMA ReadReads ==
    ASSUME ClientInv, NEW r \in Readers, ReadPolicy(r)
    PROVE  Feed!ReadPolicy(r) /\ UNCHANGED FeedSnap
<1> DEFINE c == [snapshot |-> policy, warm |-> stored, past |-> FALSE]
<1>1. /\ reading[r] = Idle /\ reading' = [reading EXCEPT ![r] = c]
      /\ policy' = policy /\ result' = result
  BY DEF ReadPolicy, daemonVars
<1>2. authFailed' = authFailed
  BY DEF ReadPolicy, daemonVars
<1>3. Reads /\ c \in Readings
  BY DEF ClientInv, Caches, Polls, Readings
<1>4. CopyOf(c) = Live
  BY <1>3, IdleAssumption DEF CopyOf
<1>5. reading'[r] = c /\ \A q \in Readers : q # r => reading'[q] = reading[q]
  BY <1>1, <1>3 DEF Reads
<1>6. FeedReading[r] = Idle
  BY <1>1 DEF FeedReading, CopyOf
<1> HIDE DEF c
<1>7. FeedReading' = [FeedReading EXCEPT ![r] = Live]
  BY <1>4, <1>5 DEF FeedReading
<1> QED
  BY <1>1, <1>2, <1>6, <1>7 DEF Feed!ReadPolicy, Feed!cacheVars, FeedReading, FeedSnap

\* current() judges what it read, and returns.
LEMMA AnswerReturns ==
    ASSUME ClientInv, NEW r \in Readers, Answer(r)
    PROVE  /\ Feed!Return(r)
           /\ FeedSnap' = [FeedSnap EXCEPT ![r] = Feed!Judged(r)]
<1> DEFINE s == reading[r].snapshot
           a == [policy |-> Judged(s), warm |-> reading[r].warm]
<1>1. /\ reading[r] # Idle /\ reading' = [reading EXCEPT ![r] = Idle]
      /\ result' = [result EXCEPT ![r] = a] /\ policy' = policy
  BY DEF Answer, daemonVars
<1>2. authFailed' = authFailed
  BY DEF Answer, daemonVars
<1>3. Reads /\ ReadsLive
  BY DEF ClientInv
<1>4. reading[r] \in Readings /\ s \in Snapshots \cup {NoPolicy} /\ reading[r].warm \in BOOLEAN
  BY <1>1, <1>3 DEF Reads, Readings
<1>5. /\ reading'[r] = Idle /\ result'[r] = a
      /\ \A q \in Readers : q # r => reading'[q] = reading[q] /\ result'[q] = result[q]
  BY <1>1, <1>3 DEF Reads
<1>6. FeedReading[r] # Idle /\ FeedReading' = [FeedReading EXCEPT ![r] = Idle]
  <2>1. CopyOf(reading[r]) # Idle
    BY <1>1, <1>3, CopyType
  <2> QED
    BY <1>5, <2>1 DEF FeedReading, CopyOf
<1>7. Feed!Return(r)
  BY <1>1, <1>2, <1>6 DEF Feed!Return, Feed!cacheVars, FeedReading
<1>8. Judged(s) = Feed!Judgement(Body(s), InTime(s))
  <2>1. /\ Body(s) = NoPolicy <=> s = NoPolicy
        /\ InTime(s) <=> s # NoPolicy /\ s.left # 0
    BY <1>4, BodyType
  <2>2. s # NoPolicy => Body(s) = s.body
    BY DEF Body
  <2> HIDE DEF s
  <2> QED
    BY <2>1, <2>2 DEF Judged, Feed!Judgement
<1>9. Feed!Judged(r) = Judged(s)
  <2>1. FeedReading[r] = CopyOf(reading[r])
    BY DEF FeedReading
  <2>2. CASE ~reading[r].past
    <3>1. FeedReading[r] = Live /\ s = policy
      BY <1>1, <1>3, <2>1, <2>2 DEF CopyOf, ReadsLive
    <3>2. Feed!Judged(r) = Feed!Judgement(Body(policy), InTime(policy))
      BY <3>1 DEF Feed!Judged, Feed!Current, FeedReading
    <3> QED
      BY <1>8, <3>1, <3>2
  <2>3. CASE reading[r].past
    <3>1. /\ FeedReading[r] # Live
          /\ FeedReading[r] = [policy |-> Body(s), fresh |-> InTime(s)]
      BY <1>1, <1>3, <2>1, <2>3, CopyType
    <3>2. FeedReading[r].policy = Body(s) /\ FeedReading[r].fresh = InTime(s)
      BY <3>1
    <3>3. Feed!Judged(r) = Feed!Judgement(FeedReading[r].policy, FeedReading[r].fresh)
      BY <3>1 DEF Feed!Judged, FeedReading
    <3> QED
      BY <1>8, <3>2, <3>3
  <2> QED
    BY <2>2, <2>3
<1>10. AnswerOf(a) = Judged(s)
  <2>1. a # Idle
    <3>1. Judged(s) \in Policies \cup {NoPolicy, Feed!Blocked}
      BY <1>4 DEF Judged, Feed!Lapsed, Snapshots
    <3>2. a \in Answers
      BY <1>4, <3>1 DEF Answers
    <3> QED
      BY <3>2, IdleAssumption
  <2> QED
    BY <2>1 DEF AnswerOf
<1> HIDE DEF a, s
<1>11. FeedSnap' = [FeedSnap EXCEPT ![r] = Judged(s)]
  BY <1>5, <1>10 DEF FeedSnap
<1> QED
  BY <1>7, <1>9, <1>11

LEMMA FeedKept ==
    ASSUME ClientInv, [Next]_vars
    PROVE  [Feed!FeedNext]_(Feed!answerVars)
<1>1. CASE UNCHANGED <<policy, authFailed, reading, result>>
  BY <1>1 DEF Feed!answerVars, Feed!feedVars
<1>2. CASE Tick
  BY <1>2, TickExpires DEF Feed!FeedNext, Feed!CacheNext, FeedSnap
<1>3. CASE Store
  <2>1. at = "store" /\ WritePolicy(reply) /\ policy' = reply /\ result' = result
    BY <1>3 DEF Store, WritePolicy
  <2>2. authFailed' = authFailed
    BY <1>3 DEF Store
  <2>3. authFailed = FALSE
    BY <2>1 DEF ClientInv, Latched, Polls
  <2>4. /\ reply \in Snapshots /\ reply # NoPolicy /\ reply.body \in Policies
        /\ policy \in Snapshots \cup {NoPolicy}
        /\ policy # NoPolicy => reply.body.version >= policy.body.version
    BY <2>1, SomePolicy DEF ClientInv, Caches, Versions, Snapshots
  <2>5. Body(policy') = reply.body /\ InTime(policy') \in BOOLEAN
    BY <2>1, <2>4 DEF Body, InTime
  <2>6. Body(policy) # NoPolicy => reply.body.version >= Body(policy).version
    BY <2>4 DEF Body
  <2>7. Feed!Displace /\ UNCHANGED FeedSnap
    BY <2>1, WriteDisplaces
  <2>8. Feed!Fetched(reply.body)
    BY <2>2, <2>3, <2>5, <2>6, <2>7 DEF Feed!Fetched
  <2> QED
    BY <2>4, <2>7, <2>8 DEF Feed!FeedNext, Feed!CacheNext, FeedSnap
<1>4. CASE Unauthorized
  <2>1. UNCHANGED <<policy, reading, result>> /\ authFailed' = TRUE /\ at = "request"
    BY <1>4 DEF Unauthorized, Write401, Latch
  <2>2. ~authFailed
    BY <2>1 DEF ClientInv, Latched
  <2>3. Feed!Latched
    BY <2>1, <2>2 DEF Feed!Latched
  <2> QED
    BY <2>1, <2>3 DEF Feed!FeedNext, Feed!CacheNext
<1>5. CASE Wipe
  <2>1. WritePolicy(NoPolicy) /\ policy' = NoPolicy /\ result' = result /\ at = "latched"
    BY <1>5 DEF Wipe, Write401, WipeCache, WritePolicy
  <2>2. authFailed' = authFailed
    BY <1>5 DEF Wipe, Write401, WipeCache
  <2>3. authFailed
    BY <2>1 DEF ClientInv, Latched
  <2>4. Body(policy') = NoPolicy /\ InTime(policy') = FALSE
    BY <2>1 DEF Body, InTime
  <2>5. Feed!Displace /\ UNCHANGED FeedSnap
    BY <2>1, WriteDisplaces
  <2>6. Feed!Wiped
    BY <2>2, <2>3, <2>4, <2>5 DEF Feed!Wiped
  <2> QED
    BY <2>5, <2>6 DEF Feed!FeedNext, Feed!CacheNext, FeedSnap
<1>6. ASSUME NEW r \in Readers, ReadPolicy(r) PROVE Feed!FeedNext
  BY <1>6, ReadReads DEF Feed!FeedNext, FeedSnap
<1>7. ASSUME NEW r \in Readers, Answer(r) PROVE Feed!FeedNext
  BY <1>7, AnswerReturns DEF Feed!FeedNext, FeedSnap
<1>8. \/ Tick \/ Store \/ Unauthorized \/ Wipe
      \/ \E r \in Readers : ReadPolicy(r) \/ Answer(r)
      \/ UNCHANGED <<policy, authFailed, reading, result>>
  BY DEF Next, Push, Start, Stop, MarkSessionActive, MarkSessionIdle, Daemon, Serve,
         ServerError, PollFails, Loop, Wake, daemonVars, readerVars, vars
<1> QED
  BY <1>1, <1>2, <1>3, <1>4, <1>5, <1>6, <1>7, <1>8

\* _poll_once, _handle_http_error and current(): to its readers the client is
\* a cache whose version never goes back, that lapses, and that a 401 takes away
\* for good; and each answer they get is the judgement of the one policy they
\* read, however often the cache was written before they returned.
THEOREM ClientImplementsFeed == Spec => ImplementsFeed
<1>1. Init => Feed!FeedInit
  BY DEF Init, Feed!FeedInit, Body, InTime, CopyOf, AnswerOf
<1>2. ClientInv /\ [Next]_vars => [Feed!FeedNext]_(Feed!answerVars)
  BY FeedKept
<1> QED
  BY <1>1, <1>2, ClientInvariant, PTL DEF Spec, Feed!FeedSpec, ImplementsFeed
=============================================================================
