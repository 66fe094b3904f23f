---------------------------- MODULE PolicyProofs ----------------------------
(***************************************************************************)
(* Proofs about PolicyEnforcement and PolicyHistory, for every set of      *)
(* threads, sessions and policies: the types, the table of burns, how far  *)
(* threads that share a budget can overshoot it, and what an observer who  *)
(* remembers can say: preflight misses no ground for a halt that stands,   *)
(* and the table forgets no session that was charged recently.             *)
(***************************************************************************)
EXTENDS PolicyHistory, FiniteSetTheorems, TLAPS

USE DEF callVars, sessionVars, orgVars, cacheVars, feedVars

(***************************************************************************)
(* Operators                                                               *)
(***************************************************************************)

\* What current() makes of what it read is None, the blocked policy, or the
\* policy it read; so a policy that lets a thread go on is one of the last.
LEMMA JudgementType ==
    ASSUME NEW p \in Policies \cup {NoPolicy}, NEW inTime \in BOOLEAN
    PROVE  /\ Judgement(p, inTime) \in Policies \cup {NoPolicy, Blocked}
           /\ Judgement(p, inTime) # NoPolicy /\ ~Judgement(p, inTime).kill
                 => Judgement(p, inTime) \in Policies
<1>1. Judgement(p, inTime) \in {p, NoPolicy, Blocked}
  BY DEF Judgement, Lapsed
<1>2. Blocked.kill
  BY DEF Blocked
<1> QED
  BY <1>1, <1>2

LEMMA JudgedType ==
    ASSUME FeedTypeOK, NEW t \in Threads, reading[t] # Idle
    PROVE  /\ Judged(t) \in Policies \cup {NoPolicy, Blocked}
           /\ Judged(t) # NoPolicy /\ ~Judged(t).kill => Judged(t) \in Policies
<1>1. CASE reading[t] = Live
  <2>1. cached \in Policies \cup {NoPolicy} /\ fresh \in BOOLEAN
    BY DEF FeedTypeOK
  <2>2. Judged(t) = Judgement(cached, fresh)
    BY <1>1 DEF Judged, Current
  <2> QED
    BY <2>1, <2>2, JudgementType
<1>2. CASE reading[t] # Live
  <2>1. /\ reading[t].policy \in Policies \cup {NoPolicy}
        /\ reading[t].fresh \in BOOLEAN
    BY <1>2 DEF FeedTypeOK, Copies
  <2>2. Judged(t) = Judgement(reading[t].policy, reading[t].fresh)
    BY <1>2 DEF Judged
  <2> QED
    BY <2>1, <2>2, JudgementType
<1> QED
  BY <1>1, <1>2

\* The daemon's steps keep the types, and every thread in or out of current().
LEMMA CacheType ==
    ASSUME FeedTypeOK, CacheNext
    PROVE  /\ FeedTypeOK'
           /\ \A t \in Threads : reading'[t] = Idle <=> reading[t] = Idle
<1>1. /\ Idle \notin Copies /\ Live \notin Copies /\ Idle # Live
      /\ reading \in [Threads -> Copies \cup {Idle, Live}]
  BY SentinelsAssumption DEF FeedTypeOK
<1>2. ASSUME Displace
      PROVE  /\ reading' \in [Threads -> Copies \cup {Idle, Live}]
             /\ \A t \in Threads : reading'[t] = Idle <=> reading[t] = Idle
  <2>1. [policy |-> cached, fresh |-> fresh] \in Copies
    BY DEF FeedTypeOK, Copies
  <2> QED
    BY <1>1, <1>2, <2>1 DEF Displace
<1>3. ASSUME Expired
      PROVE  /\ reading' \in [Threads -> Copies \cup {Idle, Live}]
             /\ \A t \in Threads : reading'[t] = Idle <=> reading[t] = Idle
  <2>1. PICK T \in SUBSET {t \in Threads : reading[t] \notin {Idle, Live}} :
          reading' = [t \in Threads |->
                         IF t \in T THEN [policy |-> reading[t].policy, fresh |-> FALSE]
                         ELSE reading[t]]
    BY <1>3 DEF Expired
  <2>2. ASSUME NEW t \in T
        PROVE  [policy |-> reading[t].policy, fresh |-> FALSE] \in Copies
    BY <1>1 DEF Copies
  <2>3. \A t \in T : t \in Threads /\ reading[t] # Idle
    OBVIOUS
  <2> HIDE DEF Copies
  <2> QED
    BY <1>1, <2>1, <2>2, <2>3
<1>4. CASE \E p \in Policies : Fetched(p)
  BY <1>2, <1>4 DEF Fetched, FeedTypeOK
<1>5. CASE Latched
  BY <1>5 DEF Latched, FeedTypeOK
<1>6. CASE Wiped
  BY <1>2, <1>6 DEF Wiped, FeedTypeOK
<1>7. CASE Expired
  <2>1. cached' = cached /\ denied' = denied /\ fresh' \in {fresh, FALSE}
    BY <1>7 DEF Expired
  <2> QED
    BY <1>3, <1>7, <2>1 DEF FeedTypeOK
<1> QED
  BY <1>4, <1>5, <1>6, <1>7 DEF CacheNext

\* A thread leaves current(), or was not in it, and nobody else moves.
Outside(t) ==
    /\ reading'[t] = Idle
    /\ \A u \in Threads \ {t} : reading'[u] = reading[u]

LEMMA ReturnType ==
    ASSUME FeedTypeOK, NEW t \in Threads, Return(t)
    PROVE  FeedTypeOK' /\ Outside(t)
BY DEF FeedTypeOK, Return, Outside

LEMMA StaysOutside ==
    ASSUME FeedTypeOK, CallTypeOK, NEW t \in Threads, pc[t] \notin Reading,
           UNCHANGED feedVars
    PROVE  FeedTypeOK' /\ Outside(t)
BY DEF FeedTypeOK, CallTypeOK, Outside

\* move_to_end permutes: it keeps the length, and the elements distinct.
LEMMA MoveToEndType ==
    ASSUME NEW seq \in Seq(Sessions), NEW s \in Sessions,
           \E i \in 1..Len(seq) : seq[i] = s
    PROVE  /\ MoveToEnd(seq, s) \in Seq(Sessions)
           /\ Len(MoveToEnd(seq, s)) = Len(seq)
<1> DEFINE i == CHOOSE j \in 1..Len(seq) : seq[j] = s
           moved == [k \in 1..Len(seq) |->
                        IF k < i THEN seq[k]
                        ELSE IF k < Len(seq) THEN seq[k + 1] ELSE s]
<1>1. i \in 1..Len(seq)
  OBVIOUS
<1> HIDE DEF i
<1>2. Len(seq) \in Nat
  OBVIOUS
<1>3. \A k \in 1..Len(seq) : moved[k] \in Sessions
  BY <1>1, <1>2
<1>4. moved \in [1..Len(seq) -> Sessions]
  BY <1>3
<1>5. moved \in Seq(Sessions) /\ Len(moved) = Len(seq)
  BY <1>4, <1>2
<1>6. MoveToEnd(seq, s) = moved
  BY DEF MoveToEnd, i
<1> QED
  BY <1>5, <1>6

\* Charging a session keeps the burn table a table.
LEMMA ChargeType ==
    ASSUME burn \in [Sessions -> Nat], lru \in Seq(Sessions),
           NEW s \in Sessions, NEW c \in Nat, ChargeSession(s, c)
    PROVE  burn' \in [Sessions -> Nat] /\ lru' \in Seq(Sessions)
<1>1. CASE s \in Tracked /\ burn' = [burn EXCEPT ![s] = @ + c]
           /\ lru' = MoveToEnd(lru, s)
  BY <1>1, MoveToEndType DEF Tracked
<1>2. CASE s \notin Tracked /\ ~TableFull
           /\ burn' = [burn EXCEPT ![s] = c] /\ lru' = Append(lru, s)
  BY <1>2
<1>3. CASE s \notin Tracked /\ TableFull
           /\ burn' = [burn EXCEPT ![s] = c, ![Head(Append(lru, s))] = 0]
           /\ lru' = Tail(Append(lru, s))
  <2>1. Append(lru, s) \in Seq(Sessions) /\ Append(lru, s) # <<>>
    OBVIOUS
  <2>2. lru' \in Seq(Sessions)
    BY <1>3, <2>1
  <2>3. burn' \in [Sessions -> Nat]
    BY <1>3
  <2> QED
    BY <2>2, <2>3
<1> QED
  BY <1>1, <1>2, <1>3 DEF ChargeSession

(***************************************************************************)
(* Type correctness                                                        *)
(***************************************************************************)
LEMMA TypeInit == Init => TypeOK
<1> SUFFICES ASSUME Init PROVE TypeOK
  OBVIOUS
<1> USE DEF Init
<1>1. FeedTypeOK
  BY DEF FeedInit, FeedTypeOK
<1>2. CallTypeOK
  BY DEF FeedInit, CallTypeOK, Steps, Checking
<1>3. TrackerTypeOK
  BY DEF TrackerTypeOK
<1> QED
  BY <1>1, <1>2, <1>3 DEF TypeOK

LEMMA TypeFeed == TypeOK /\ Feed => TypeOK'
<1> SUFFICES ASSUME TypeOK, Feed PROVE TypeOK'
  OBVIOUS
<1>1. FeedTypeOK'
  BY CacheType DEF Feed, TypeOK
<1>2. CallTypeOK' /\ TrackerTypeOK'
  BY CacheType DEF Feed, TypeOK, CallTypeOK, TrackerTypeOK
<1> QED
  BY <1>1, <1>2 DEF TypeOK

\* The moves of a thread inside a call.
LEMMA CallMoves ==
    ASSUME CallTypeOK, NEW t \in Threads, sid[t] \in Sessions, Outside(t)
    PROVE  /\ Finish(t) => CallTypeOK'
           /\ \A step \in Steps :
                 /\ step \in Checking => snap[t] # NoPolicy
                 /\ GoTo(t, step)
                 => CallTypeOK'
           /\ \A step \in Steps, p \in Policies \cup {NoPolicy} :
                 /\ step \in Checking => p # NoPolicy
                 /\ Holding(t, p, step)
                 => CallTypeOK'
           /\ \A step \in Steps \ Checking, c \in Costs :
                 Costing(t, c, step) => CallTypeOK'
<1> USE DEF CallTypeOK, Outside
<1>1. Finish(t) => CallTypeOK'
  BY DEF Finish, Steps, Checking
<1>2. ASSUME NEW step \in Steps, step \in Checking => snap[t] # NoPolicy,
             GoTo(t, step)
      PROVE  CallTypeOK'
  BY <1>2 DEF GoTo
<1>3. ASSUME NEW step \in Steps, NEW p \in Policies \cup {NoPolicy},
             step \in Checking => p # NoPolicy, Holding(t, p, step)
      PROVE  CallTypeOK'
  BY <1>3 DEF Holding
<1>4. ASSUME NEW step \in Steps \ Checking, NEW c \in Costs,
             Costing(t, c, step)
      PROVE  CallTypeOK'
  BY <1>4, CostsAssumption DEF Costing
<1> QED
  BY <1>1, <1>2, <1>3, <1>4

\* The steps at which a call is under way.
LEMMA SidType ==
    ASSUME TypeOK, NEW t \in Threads, pc[t] # "idle"
    PROVE  sid[t] \in Sessions
BY DEF TypeOK, CallTypeOK

LEMMA TypeStep ==
    ASSUME TypeOK, NEW t \in Threads, Step(t)
    PROVE  TypeOK'
<1> USE DEF TypeOK, Refuse, Pass
<1>1. CASE Begin(t)
  <2>1. FeedTypeOK' /\ TrackerTypeOK'
    BY <1>1 DEF Begin, FeedTypeOK, TrackerTypeOK
  <2>2. CallTypeOK'
    BY <1>1 DEF Begin, CallTypeOK, Steps, Checking, Reading
  <2> QED
    BY <2>1, <2>2
<1>12. CASE CallCurrent(t)
  <2>1. FeedTypeOK'
    BY <1>12 DEF CallCurrent, ReadPolicy, FeedTypeOK
  <2>2. CallTypeOK'
    BY <1>12 DEF CallCurrent, ReadPolicy, CallTypeOK, FeedTypeOK
  <2>3. sid[t] \in Sessions
    BY <1>12 DEF CallCurrent, Reading, CallTypeOK
  <2>4. TrackerTypeOK'
    BY <1>12, <2>3 DEF CallCurrent, TrackerTypeOK
  <2> QED
    BY <2>1, <2>2, <2>4
<1>2. CASE PreflightPolicy(t)
  <2>1. FeedTypeOK' /\ Outside(t) /\ reading[t] # Idle
    BY <1>2, ReturnType DEF PreflightPolicy, Return
  <2>2. TrackerTypeOK'
    BY <1>2 DEF PreflightPolicy, TrackerTypeOK
  <2>3. CallTypeOK'
    BY <1>2, <2>1, SidType, CallMoves, JudgedType
       DEF PreflightPolicy, Steps, Checking
  <2> QED
    BY <2>1, <2>2, <2>3
<1>3. CASE PreflightFlags(t)
  <2>1. FeedTypeOK' /\ TrackerTypeOK'
    BY <1>3 DEF PreflightFlags, FeedTypeOK, TrackerTypeOK
  <2>2. CallTypeOK'
    BY <1>3, SidType, CallMoves, StaysOutside
       DEF PreflightFlags, CallTypeOK, Steps, Checking, Reading
  <2> QED
    BY <2>1, <2>2
<1>4. CASE PreflightOrg(t) \/ EnforceOrg(t)
  <2>1. snap[t] \in PolicyType
    BY <1>4, PoliciesAssumption
       DEF PreflightOrg, EnforceOrg, CallTypeOK, Checking
  <2>2. orgBurn' \in Nat /\ orgVersion' \in Int \cup {NoVersion}
                         /\ orgExempt' \in Nat
    BY <1>4, <2>1 DEF PreflightOrg, EnforceOrg, Seed, SeededBurn,
                      TrackerTypeOK, PolicyType
  <2>3. FeedTypeOK' /\ TrackerTypeOK'
    BY <1>4, <2>2 DEF PreflightOrg, EnforceOrg, FeedTypeOK, TrackerTypeOK
  <2>4. CallTypeOK'
    BY <1>4, SidType, CallMoves, StaysOutside
       DEF PreflightOrg, EnforceOrg, CallTypeOK, Steps, Checking, Reading
  <2> QED
    BY <2>3, <2>4
<1>5. CASE PreflightSession(t)
  <2>1. FeedTypeOK' /\ TrackerTypeOK'
    BY <1>5 DEF PreflightSession, FeedTypeOK, TrackerTypeOK
  <2>2. CallTypeOK'
    BY <1>5, SidType, CallMoves, StaysOutside
       DEF PreflightSession, Steps, Checking, Reading
  <2> QED
    BY <2>1, <2>2
<1>6. CASE ProviderCall(t)
  <2>1. FeedTypeOK' /\ TrackerTypeOK'
    BY <1>6 DEF ProviderCall, FeedTypeOK, TrackerTypeOK
  <2>2. CallTypeOK'
    BY <1>6, SidType, CallMoves, StaysOutside
       DEF ProviderCall, Steps, Checking, Reading
  <2> QED
    BY <2>1, <2>2
<1>7. CASE EnforcePolicy(t)
  <2>1. FeedTypeOK' /\ Outside(t) /\ reading[t] # Idle
    BY <1>7, ReturnType DEF EnforcePolicy, Return
  <2>2. TrackerTypeOK'
    BY <1>7 DEF EnforcePolicy, TrackerTypeOK
  <2>3. CallTypeOK'
    BY <1>7, <2>1, SidType, CallMoves, JudgedType
       DEF EnforcePolicy, Steps, Checking
  <2> QED
    BY <2>1, <2>2, <2>3
<1>8. CASE EnforceSession(t) \/ EnforceVelocity(t)
  <2>1. FeedTypeOK' /\ TrackerTypeOK'
    BY <1>8 DEF EnforceSession, EnforceVelocity, FeedTypeOK, TrackerTypeOK
  <2>2. pc[t] \in Checking /\ sid[t] \in Sessions
    BY <1>8, SidType DEF EnforceSession, EnforceVelocity, Checking
  <2>3. snap[t] # NoPolicy
    BY <2>2 DEF CallTypeOK
  <2>4. Finish(t) \/ GoTo(t, "velocity") \/ GoTo(t, "record")
    BY <1>8 DEF EnforceSession, EnforceVelocity
  <2>5. Outside(t)
    BY <1>8, StaysOutside DEF EnforceSession, EnforceVelocity, Reading
  <2>6. CallTypeOK'
    BY <2>2, <2>3, <2>4, <2>5, CallMoves DEF Steps, Checking
  <2> QED
    BY <2>1, <2>6
<1>9. CASE UpdateTrackers(t)
  <2>1. sid[t] \in Sessions /\ cost[t] \in Nat
    BY <1>9, SidType DEF UpdateTrackers, CallTypeOK
  <2>2. burn' \in [Sessions -> Nat] /\ lru' \in Seq(Sessions)
    BY <1>9, <2>1, ChargeType DEF UpdateTrackers, TrackerTypeOK
  <2>3. FeedTypeOK' /\ TrackerTypeOK'
    <3>1. exempt' \in [Sessions -> Nat]
      BY <1>9, <2>1 DEF UpdateTrackers, TrackerTypeOK
    <3>2. orgBurn' \in Nat /\ orgExempt' \in Nat
      BY <1>9, <2>1 DEF UpdateTrackers, TrackerTypeOK
    <3> QED
      BY <1>9, <2>2, <3>1, <3>2 DEF UpdateTrackers, FeedTypeOK, TrackerTypeOK
  <2>4. PICK F \in SUBSET Patterns : fired' = [fired EXCEPT ![t] = F]
    BY <1>9 DEF UpdateTrackers
  <2>5. fired' \in [Threads -> SUBSET Patterns]
    BY <2>4 DEF CallTypeOK
  <2>6. CallTypeOK'
    BY <1>9, <2>1, <2>5 DEF UpdateTrackers, CallTypeOK, Steps, Checking, Reading
  <2> QED
    BY <2>3, <2>6
<1>10. CASE NoteRead(t)
  <2>1. FeedTypeOK' /\ Outside(t) /\ reading[t] # Idle
    BY <1>10, ReturnType DEF NoteRead, Return
  <2>2. Listed(fired[t], Blocked) = {}
    BY DEF Listed, Blocked
  <2>3. Judged(t) # NoPolicy /\ Judged(t) # Blocked => Judged(t) \in Policies
    BY <2>1, JudgedType
  <2>4. CallTypeOK'
    BY <1>10, <2>1, <2>2, <2>3, SidType, CallMoves DEF NoteRead, Steps, Checking
  <2>5. TrackerTypeOK'
    BY <1>10 DEF NoteRead, TrackerTypeOK
  <2> QED
    BY <2>1, <2>4, <2>5
<1>11. CASE NoteFlag(t)
  <2>1. CallTypeOK'
    BY <1>11, SidType, CallMoves, StaysOutside DEF NoteFlag, Reading
  <2>2. Listed(fired[t], snap[t]) \subseteq Patterns
    BY DEF Listed, CallTypeOK
  <2>3. FeedTypeOK' /\ TrackerTypeOK'
    BY <1>11, <2>2, SidType DEF NoteFlag, FeedTypeOK, TrackerTypeOK
  <2> QED
    BY <2>1, <2>3
<1> QED
  BY <1>1, <1>2, <1>3, <1>4, <1>5, <1>6, <1>7, <1>8, <1>9, <1>10, <1>11, <1>12
     DEF Step

\* Every state the policy plane reaches is well typed: in particular a check
\* that reads a policy always has one, and the call a session.
THEOREM TypeCorrect == Spec => []TypeOK
<1>1. Init => TypeOK
  BY TypeInit
<1>2. TypeOK /\ [Next]_vars => TypeOK'
  <2> SUFFICES ASSUME TypeOK, [Next]_vars PROVE TypeOK'
    OBVIOUS
  <2>1. CASE Feed
    BY <2>1, TypeFeed
  <2>2. CASE \E t \in Threads : Step(t)
    BY <2>2, TypeStep
  <2>3. CASE UNCHANGED vars
    BY <2>3 DEF vars, TypeOK, FeedTypeOK, CallTypeOK, TrackerTypeOK
  <2> QED
    BY <2>1, <2>2, <2>3 DEF Next
<1> QED
  BY <1>1, <1>2, PTL DEF Spec

(***************************************************************************)
(* The burn table                                                          *)
(***************************************************************************)
Members(seq) == {seq[i] : i \in 1..Len(seq)}

Distinct(seq) == \A i, j \in 1..Len(seq) : seq[i] = seq[j] => i = j

\* move_to_end takes s from its place i, and those behind it move up.
LEMMA MoveToEndShape ==
    ASSUME NEW seq \in Seq(Sessions), NEW s \in Members(seq)
    PROVE  \E i \in 1..Len(seq) :
              /\ seq[i] = s
              /\ Len(MoveToEnd(seq, s)) = Len(seq)
              /\ \A k \in 1..(Len(seq) - 1) :
                    MoveToEnd(seq, s)[k] = IF k < i THEN seq[k] ELSE seq[k + 1]
              /\ MoveToEnd(seq, s)[Len(seq)] = s
<1> DEFINE i == CHOOSE j \in 1..Len(seq) : seq[j] = s
           n == Len(seq)
           moved == [k \in 1..n |->
                        IF k < i THEN seq[k] ELSE IF k < n THEN seq[k + 1] ELSE s]
<1>1. i \in 1..n /\ seq[i] = s
  <2>1. \E j \in 1..n : seq[j] = s
    BY DEF Members
  <2> QED
    BY <2>1
<1>2. MoveToEnd(seq, s) = moved
  BY DEF MoveToEnd
<1> HIDE DEF i
<1>3. n \in Nat /\ n >= 1 /\ s \in Sessions
  BY <1>1
<1>4. \A k \in 1..(n - 1) : moved[k] = IF k < i THEN seq[k] ELSE seq[k + 1]
  BY <1>1, <1>3
<1>5. moved[n] = s
  BY <1>1, <1>3
<1>6. \A k \in 1..n : moved[k] \in Sessions
  BY <1>1, <1>3
<1>7. moved \in Seq(Sessions) /\ Len(moved) = n
  <2>1. moved \in [1..n -> Sessions]
    BY <1>6
  <2> QED
    BY <1>3, <2>1
<1> QED
  BY <1>1, <1>2, <1>4, <1>5, <1>7

\* move_to_end permutes the table; going in last and going out first keep its
\* sessions distinct.
LEMMA MoveToEndPermutes ==
    ASSUME NEW seq \in Seq(Sessions), NEW s \in Members(seq), Distinct(seq)
    PROVE  /\ Members(MoveToEnd(seq, s)) = Members(seq)
           /\ Distinct(MoveToEnd(seq, s))
<1> DEFINE n == Len(seq)
           moved == MoveToEnd(seq, s)
<1>1. PICK i \in 1..n :
         /\ seq[i] = s /\ Len(moved) = n
         /\ \A k \in 1..(n - 1) : moved[k] = IF k < i THEN seq[k] ELSE seq[k + 1]
         /\ moved[n] = s
  BY MoveToEndShape
<1> DEFINE From(k) == IF k = n THEN i ELSE IF k < i THEN k ELSE k + 1
<1>2. n \in Nat
  OBVIOUS
<1> HIDE DEF moved, n
<1>3. \A k \in 1..n : From(k) \in 1..n /\ moved[k] = seq[From(k)]
  BY <1>1, <1>2
<1>4. \A k, l \in 1..n : From(k) = From(l) => k = l
  BY <1>1, <1>2
<1>5. \A j \in 1..n : \E k \in 1..n : From(k) = j
  <2>1. SUFFICES ASSUME NEW j \in 1..n PROVE \E k \in 1..n : From(k) = j
    OBVIOUS
  <2>2. CASE j = i
    <3>1. n \in 1..n /\ From(n) = j
      BY <1>1, <1>2, <2>2
    <3> QED
      BY <3>1
  <2>3. CASE j < i
    <3>1. j \in 1..n /\ From(j) = j
      BY <1>1, <1>2, <2>3
    <3> QED
      BY <3>1
  <2>4. CASE j > i
    <3>1. j - 1 \in 1..n /\ From(j - 1) = j
      BY <1>1, <1>2, <2>4
    <3> QED
      BY <3>1
  <2> QED
    BY <1>1, <1>2, <2>2, <2>3, <2>4
<1> HIDE DEF From
<1>6. Members(moved) = Members(seq)
  <2>1. \A k \in 1..n : moved[k] \in Members(seq)
    BY <1>3 DEF Members, n
  <2>2. ASSUME NEW j \in 1..n PROVE seq[j] \in Members(moved)
    <3>1. PICK k \in 1..n : From(k) = j
      BY <1>5
    <3> QED
      BY <1>1, <1>3, <3>1 DEF Members
  <2> QED
    BY <1>1, <2>1, <2>2 DEF Members, n
<1>7. Distinct(moved)
  <2>1. SUFFICES ASSUME NEW k \in 1..n, NEW l \in 1..n, moved[k] = moved[l]
                 PROVE  k = l
    BY <1>1 DEF Distinct
  <2>2. From(k) = From(l)
    BY <1>3, <2>1 DEF Distinct, n
  <2> QED
    BY <1>4, <2>2
<1> QED
  BY <1>6, <1>7 DEF moved

LEMMA AppendMember ==
    ASSUME NEW seq \in Seq(Sessions), NEW s \in Sessions, s \notin Members(seq),
           Distinct(seq)
    PROVE  /\ Append(seq, s) \in Seq(Sessions)
           /\ Len(Append(seq, s)) = Len(seq) + 1
           /\ Members(Append(seq, s)) = Members(seq) \cup {s}
           /\ Distinct(Append(seq, s))
<1> DEFINE n == Len(seq)
           more == Append(seq, s)
<1>1. n \in Nat /\ more \in Seq(Sessions) /\ Len(more) = n + 1
      /\ more[n + 1] = s /\ \A i \in 1..n : more[i] = seq[i]
  OBVIOUS
<1> HIDE DEF more
<1>2. 1..(n + 1) = 1..n \cup {n + 1}
  BY <1>1
<1>3. \A i \in 1..n : seq[i] \in Members(seq) /\ seq[i] # s
  BY DEF Members
<1>4. Members(more) = Members(seq) \cup {s}
  <2>1. Members(more) = {more[i] : i \in 1..n} \cup {more[n + 1]}
    BY <1>1, <1>2 DEF Members
  <2>2. {more[i] : i \in 1..n} = Members(seq)
    BY <1>1 DEF Members
  <2> QED
    BY <1>1, <2>1, <2>2
<1>5. Distinct(more)
  BY <1>1, <1>2, <1>3 DEF Distinct
<1> QED
  BY <1>1, <1>4, <1>5 DEF more

LEMMA TailMember ==
    ASSUME NEW seq \in Seq(Sessions), seq # <<>>, Distinct(seq)
    PROVE  /\ Tail(seq) \in Seq(Sessions)
           /\ Len(Tail(seq)) = Len(seq) - 1
           /\ \A i \in 1..(Len(seq) - 1) : Tail(seq)[i] = seq[i + 1]
           /\ Head(seq) \in Sessions /\ Head(seq) = seq[1]
           /\ Members(Tail(seq)) = Members(seq) \ {Head(seq)}
           /\ Distinct(Tail(seq))
<1> DEFINE n == Len(seq)
           rest == Tail(seq)
<1>1. n \in Nat /\ n >= 1 /\ rest \in Seq(Sessions) /\ Len(rest) = n - 1
      /\ \A i \in 1..(n - 1) : rest[i] = seq[i + 1]
  OBVIOUS
<1>2. Head(seq) = seq[1] /\ Head(seq) \in Sessions
  BY <1>1
<1> HIDE DEF rest
<1>3. \A i \in 1..(n - 1) : i + 1 \in 1..n /\ i + 1 # 1 /\ rest[i] = seq[i + 1]
  BY <1>1
<1>4. Distinct(rest)
  <2>1. SUFFICES ASSUME NEW i \in 1..(n - 1), NEW j \in 1..(n - 1), rest[i] = rest[j]
                 PROVE  i = j
    BY <1>1 DEF Distinct
  <2>2. i + 1 = j + 1
    BY <1>3, <2>1 DEF Distinct
  <2> QED
    BY <2>2
<1>5. Members(rest) = Members(seq) \ {Head(seq)}
  <2>1. ASSUME NEW i \in 1..(n - 1)
        PROVE  rest[i] \in Members(seq) /\ rest[i] # Head(seq)
    <3>1. 1 \in 1..n
      BY <1>1
    <3> QED
      BY <1>2, <1>3, <3>1 DEF Members, Distinct
  <2>2. ASSUME NEW j \in 1..n, seq[j] # Head(seq) PROVE seq[j] \in Members(rest)
    <3>1. j - 1 \in 1..(n - 1) /\ (j - 1) + 1 = j
      BY <1>1, <1>2, <2>2
    <3>2. rest[j - 1] = seq[j]
      BY <1>1, <3>1
    <3> QED
      BY <1>1, <3>1, <3>2 DEF Members
  <2> QED
    BY <1>1, <2>1, <2>2 DEF Members
<1> QED
  BY <1>1, <1>2, <1>4, <1>5 DEF rest

\* Whatever ChargeSession does, the table stays within its cap, lists no
\* session twice, and forgets the burn of the session it puts out.
LEMMA ChargeTable ==
    ASSUME BurnTableSound, burn \in [Sessions -> Nat], lru \in Seq(Sessions),
           NEW s \in Sessions, NEW c \in Nat, ChargeSession(s, c)
    PROVE  BurnTableSound'
<1> DEFINE more == Append(lru, s)
           n == Len(lru)
<1>1. /\ n \in Nat
      /\ MaxSessions # Unlimited => n <= MaxSessions /\ MaxSessions \in Nat
      /\ Distinct(lru)
      /\ \A u \in Sessions : u \notin Tracked => burn[u] = 0
      /\ Tracked = Members(lru)
  BY MaxSessionsAssumption DEF BurnTableSound, Distinct, Members, Tracked
<1>2. SUFFICES /\ MaxSessions # Unlimited => Len(lru') <= MaxSessions
               /\ Distinct(lru')
               /\ \A u \in Sessions : u \notin Members(lru') => burn'[u] = 0
  BY DEF BurnTableSound, Distinct, Members, Tracked
<1>3. CASE s \in Tracked
  <2>1. lru' = MoveToEnd(lru, s) /\ burn' = [burn EXCEPT ![s] = @ + c]
    BY <1>3 DEF ChargeSession
  <2>2. Len(lru') = n
    BY <1>1, <1>3, <2>1, MoveToEndShape
  <2>3. Distinct(lru') /\ Members(lru') = Members(lru)
    BY <1>1, <1>3, <2>1, MoveToEndPermutes
  <2>4. \A u \in Sessions : u \notin Members(lru') => burn'[u] = 0
    BY <1>1, <1>3, <2>1, <2>3
  <2> QED
    BY <1>1, <2>2, <2>3, <2>4
<1>4. CASE s \notin Tracked
  <2>1. /\ more \in Seq(Sessions) /\ Len(more) = n + 1
        /\ Members(more) = Members(lru) \cup {s} /\ Distinct(more)
    BY <1>1, <1>4, AppendMember
  <2>2. CASE ~TableFull
    <3>1. lru' = more /\ burn' = [burn EXCEPT ![s] = c]
      BY <1>4, <2>2 DEF ChargeSession
    <3>2. MaxSessions # Unlimited => Len(lru') <= MaxSessions
      BY <1>1, <2>1, <2>2, <3>1 DEF TableFull
    <3>3. \A u \in Sessions : u \notin Members(lru') => burn'[u] = 0
      BY <1>1, <2>1, <3>1
    <3> QED
      BY <2>1, <3>1, <3>2, <3>3
  <2>3. CASE TableFull
    <3> DEFINE h == Head(more)
    <3>1. lru' = Tail(more) /\ burn' = [burn EXCEPT ![s] = c, ![h] = 0]
      BY <1>4, <2>3 DEF ChargeSession
    <3>2. more # <<>>
      BY <1>1, <2>1
    <3> HIDE DEF more
    <3>3. Len(lru') = n /\ h \in Sessions /\ Distinct(lru')
          /\ Members(lru') = Members(more) \ {h}
      BY <1>1, <2>1, <3>1, <3>2, TailMember
    <3> HIDE DEF h
    <3>4. \A u \in Sessions : u \notin Members(lru') => burn'[u] = 0
      BY <1>1, <2>1, <3>1, <3>3
    <3> QED
      BY <1>1, <3>3, <3>4
  <2> QED
    BY <2>2, <2>3
<1> QED
  BY <1>3, <1>4

LEMMA OnlyTrackersCharge ==
    ASSUME [Next]_vars, \A t \in Threads : ~UpdateTrackers(t)
    PROVE  UNCHANGED <<burn, lru>>
BY DEF Next, Feed, Step, Begin, CallCurrent, PreflightPolicy, PreflightFlags, PreflightOrg,
       PreflightSession, ProviderCall, EnforcePolicy, EnforceOrg, EnforceSession,
       EnforceVelocity, NoteRead, NoteFlag, vars

\* _update_policy_trackers: the table of session burns never outgrows
\* max_sessions, lists no session twice, and holds all the burn there is.
THEOREM BurnTable == Spec => []BurnTableSound
<1>1. Init => BurnTableSound
  BY MaxSessionsAssumption DEF Init, BurnTableSound, Tracked
<1>2. TypeOK /\ BurnTableSound /\ [Next]_vars => BurnTableSound'
  <2> SUFFICES ASSUME TypeOK, BurnTableSound, [Next]_vars PROVE BurnTableSound'
    OBVIOUS
  <2>1. ASSUME NEW t \in Threads, UpdateTrackers(t) PROVE BurnTableSound'
    <3>1. /\ sid[t] \in Sessions /\ cost[t] \in Nat /\ ChargeSession(sid[t], cost[t])
          /\ burn \in [Sessions -> Nat] /\ lru \in Seq(Sessions)
      BY <2>1, SidType DEF UpdateTrackers, TypeOK, CallTypeOK, TrackerTypeOK
    <3> QED
      BY <3>1, ChargeTable
  <2>2. CASE UNCHANGED <<burn, lru>>
    BY <2>2 DEF BurnTableSound, Tracked
  <2> QED
    BY <2>1, <2>2, OnlyTrackersCharge
<1> QED
  BY <1>1, <1>2, TypeCorrect, PTL DEF Spec

(***************************************************************************)
(* How far threads that share a budget can overshoot it.  The argument is  *)
(* the same for a session's budget and for the org's: look at the calls    *)
(* that have passed the check and are not charged yet.  Once all of them   *)
(* are charged the burn must still fit, counting each at the highest cost  *)
(* a call may have, except for one that counts at its own: the last one    *)
(* that was checked, whose check vouches for burn and own cost together.   *)
(***************************************************************************)

\* Burn b and the calls of the threads F, which cost w, fit below limit.
Fits(b, F, w, limit) ==
    \/ b + CostCeiling * Cardinality(F) <= limit
    \/ \E t \in F : b + w[t] + CostCeiling * (Cardinality(F) - 1) <= limit

\* The costs a thread may have, and a finite set of threads.
Weights == {w \in [Threads -> Nat] : \A t \in Threads : w[t] <= CostCeiling}

LEMMA Finite ==
    ASSUME NEW F \in SUBSET Threads
    PROVE  IsFiniteSet(F) /\ Cardinality(F) \in Nat
BY ThreadsAssumption, FS_Subset, FS_CardinalityType

LEMMA Product ==
    ASSUME NEW n \in Nat
    PROVE  /\ CostCeiling * n \in Nat
           /\ CostCeiling * (n + 1) = CostCeiling * n + CostCeiling
BY CostsAssumption

\* What fits now stays below the limit once it is charged.
LEMMA FitsBound ==
    ASSUME NEW b \in Nat, NEW F \in SUBSET Threads, NEW w \in Weights,
           NEW limit \in Int, Fits(b, F, w, limit)
    PROVE  b <= limit
<1>1. Cardinality(F) \in Nat /\ CostCeiling * Cardinality(F) \in Nat
  BY Finite, Product
<1>2. CASE b + CostCeiling * Cardinality(F) <= limit
  BY <1>1, <1>2
<1>3. ASSUME NEW t \in F,
             b + w[t] + CostCeiling * (Cardinality(F) - 1) <= limit
      PROVE  b <= limit
  <2>1. Cardinality(F) - 1 \in Nat
    BY <1>1, Finite, FS_EmptySet
  <2>2. CostCeiling * (Cardinality(F) - 1) \in Nat
    BY <2>1, Product
  <2>3. w[t] \in Nat
    BY DEF Weights
  <2> QED
    BY <1>3, <2>2, <2>3
<1> QED
  BY <1>2, <1>3 DEF Fits

\* One of the calls is charged, or given up: the others still fit.
LEMMA FitsWithout ==
    ASSUME NEW b \in Nat, NEW c \in Nat, NEW F \in SUBSET Threads,
           NEW w \in Weights, NEW v \in Weights, NEW limit \in Int,
           NEW t \in F, Fits(b, F, w, limit), c <= b + w[t],
           \A u \in F \ {t} : v[u] = w[u]
    PROVE  Fits(c, F \ {t}, v, limit)
<1> DEFINE n == Cardinality(F) - 1
<1>1. n \in Nat /\ Cardinality(F \ {t}) = n /\ Cardinality(F) = n + 1
  BY Finite, FS_EmptySet, FS_RemoveElement
<1> HIDE DEF n
<1>2. w[t] \in Nat /\ w[t] <= CostCeiling /\ CostCeiling \in Nat
  BY CostsAssumption DEF Weights
<1>3. CASE b + CostCeiling * (n + 1) <= limit
  <2>1. c + CostCeiling * n <= limit
    BY <1>1, <1>2, <1>3, Product
  <2> QED
    BY <1>1, <2>1 DEF Fits
<1>4. CASE b + w[t] + CostCeiling * n <= limit
  <2>1. c + CostCeiling * n <= limit
    BY <1>1, <1>2, <1>4, Product
  <2> QED
    BY <1>1, <2>1 DEF Fits
<1>5. ASSUME NEW u \in F \ {t}, b + w[u] + CostCeiling * n <= limit
      PROVE  Fits(c, F \ {t}, v, limit)
  <2>1. n - 1 \in Nat /\ CostCeiling * n = CostCeiling * (n - 1) + CostCeiling
    <3>1. F \ {t} # {} /\ IsFiniteSet(F \ {t})
      BY <1>5, Finite
    <3>2. n # 0
      BY <1>1, <3>1, FS_EmptySet
    <3> QED
      BY <1>1, <3>2, Product
  <2>2. v[u] = w[u] /\ w[u] \in Nat
    BY <1>5 DEF Weights
  <2>3. CostCeiling * (n - 1) \in Nat
    BY <2>1, Product
  <2>4. c + v[u] + CostCeiling * (n - 1) <= limit
    BY <1>2, <1>5, <2>1, <2>2, <2>3
  <2> QED
    BY <1>1, <1>5, <2>4 DEF Fits
<1>6. Cardinality(F) - 1 = n
  BY <1>1
<1> QED
  BY <1>1, <1>3, <1>4, <1>5, <1>6 DEF Fits

\* The burn grows by as much as the limit, or shrinks.
LEMMA FitsShifted ==
    ASSUME NEW b \in Nat, NEW c \in Nat, NEW d \in Nat,
           NEW F \in SUBSET Threads, NEW w \in Weights, NEW v \in Weights,
           NEW limit \in Int, Fits(b, F, w, limit), c <= b + d,
           \A u \in F : v[u] = w[u]
    PROVE  Fits(c, F, v, limit + d)
<1>1. Cardinality(F) \in Nat /\ CostCeiling * Cardinality(F) \in Nat
  BY Finite, Product
<1>2. CASE b + CostCeiling * Cardinality(F) <= limit
  BY <1>1, <1>2 DEF Fits
<1>3. ASSUME NEW t \in F,
             b + w[t] + CostCeiling * (Cardinality(F) - 1) <= limit
      PROVE  Fits(c, F, v, limit + d)
  <2>1. Cardinality(F) - 1 \in Int /\ CostCeiling * (Cardinality(F) - 1) \in Int
    BY <1>1, CostsAssumption
  <2>2. v[t] = w[t] /\ w[t] \in Nat
    BY DEF Weights
  <2>3. c + v[t] + CostCeiling * (Cardinality(F) - 1) <= limit + d
    BY <1>3, <2>1, <2>2
  <2> QED
    BY <2>3 DEF Fits
<1> QED
  BY <1>2, <1>3 DEF Fits

\* The largest set of other threads there may be counts as in flight.
LEMMA InFlightOthers ==
    ASSUME NEW T \in SUBSET Threads, NEW t \in T, NEW F \in SUBSET (T \ {t})
    PROVE  /\ InFlight(T) \in Nat
           /\ CostCeiling * Cardinality(F) \in Nat
           /\ CostCeiling * Cardinality(F) <= InFlight(T)
<1> DEFINE m == Cardinality(F)
           n == Cardinality(T) - 1
<1>1. m \in Nat /\ n \in Nat /\ m <= n
  <2>1. Cardinality(T \ {t}) = n /\ n \in Nat
    <3>1. IsFiniteSet(T) /\ Cardinality(T) \in Nat
      BY Finite
    <3>2. Cardinality(T \ {t}) \in Nat
      BY Finite
    <3> QED
      BY <3>1, <3>2, FS_RemoveElement
  <2>2. IsFiniteSet(T \ {t})
    BY Finite
  <2>3. Cardinality(F) <= Cardinality(T \ {t})
    BY <2>2, FS_Subset
  <2> QED
    BY <2>1, <2>3, Finite
<1>2. InFlight(T) = CostCeiling * n
  BY <1>1, CostsAssumption DEF InFlight
<1> HIDE DEF m, n
<1>3. CostCeiling * m <= CostCeiling * n
  <2>1. n - m \in Nat /\ CostCeiling * (n - m) \in Nat
    BY <1>1, Product
  <2>2. CostCeiling * n = CostCeiling * m + CostCeiling * (n - m)
    BY <1>1, CostsAssumption
  <2> QED
    BY <1>1, <2>1, <2>2, Product
<1> QED
  BY <1>1, <1>2, <1>3, Product DEF m

LEMMA InFlightType ==
    /\ InFlight(Callers) \in Nat
    /\ InFlight(Threads) \in Nat
    /\ SessionCeiling \in Nat
    /\ OrgCeiling \in Nat
<1>1. PICK t \in Callers : TRUE
  BY ThreadsAssumption
<1>2. Callers \in SUBSET Threads
  BY DEF Callers
<1>3. {} \in SUBSET (Callers \ {t}) /\ {} \in SUBSET (Threads \ {t})
  OBVIOUS
<1> QED
  BY <1>1, <1>2, <1>3, InFlightOthers, CeilingsAssumption

\* A call that passes its check fits with the others.
LEMMA FitsWith ==
    ASSUME NEW b \in Nat, NEW T \in SUBSET Threads, NEW t \in T,
           NEW F \in SUBSET (T \ {t}), NEW w \in Weights,
           NEW ceiling \in Nat, NEW more \in Nat, b + w[t] <= ceiling
    PROVE  Fits(b, F \cup {t}, w, ceiling + InFlight(T) + more)
<1>1. Cardinality(F \cup {t}) - 1 = Cardinality(F)
  BY Finite, FS_AddElement
<1>2. CostCeiling * Cardinality(F) <= InFlight(T)
      /\ CostCeiling * Cardinality(F) \in Nat /\ InFlight(T) \in Nat
  BY InFlightOthers
<1>3. w[t] \in Nat
  BY DEF Weights
<1>4. b + w[t] + CostCeiling * Cardinality(F) <= ceiling + InFlight(T) + more
  BY <1>2, <1>3
<1> QED
  BY <1>1, <1>4 DEF Fits

(***************************************************************************)
(* Sessions                                                                *)
(***************************************************************************)

\* The calls of session s that passed its budget and are not charged yet.
Cleared(s) ==
    {t \in Callers : /\ sid[t] = s
                     /\ pc[t] \in {"velocity", "record"}
                     /\ HadSessionBudget(t)}

CostsBounded == cost \in Weights

SessionRoom(s) ==
    Fits(burn[s], Cleared(s), cost,
         SessionCeiling + InFlight(Callers) + exempt[s])

\* A probe estimates a call and never makes it.
ProbesStop ==
    \A t \in Threads : Role[t] = "probe" =>
        pc[t] \notin {"http", "record", "note", "flag"}

CallInv == TypeOK /\ CostsBounded /\ ProbesStop

SessionInv == CallInv /\ \A s \in Sessions : SessionRoom(s)

\* A step changes the call of the thread that takes it, and no other.
LEMMA LocalStep ==
    ASSUME TypeOK, NEW t \in Threads, Step(t), NEW u \in Threads \ {t}
    PROVE  /\ pc'[u] = pc[u] /\ sid'[u] = sid[u]
           /\ snap'[u] = snap[u] /\ cost'[u] = cost[u]
<1> DEFINE Kept == /\ pc'[u] = pc[u] /\ sid'[u] = sid[u]
                   /\ snap'[u] = snap[u] /\ cost'[u] = cost[u]
<1> USE DEF TypeOK, CallTypeOK
<1>1. Finish(t) => Kept
  BY DEF Finish
<1>2. \A step : GoTo(t, step) => Kept
  BY DEF GoTo
<1>3. \A step, p : Holding(t, p, step) => Kept
  BY DEF Holding
<1>4. \A step : \A c \in Costs : Costing(t, c, step) => Kept
  BY DEF Costing
<1>5. Begin(t) \/ UpdateTrackers(t) \/ CallCurrent(t) => Kept
  BY DEF Begin, UpdateTrackers, CallCurrent
<1> HIDE DEF Kept
<1>6. Kept
  BY <1>1, <1>2, <1>3, <1>4, <1>5
     DEF Step, CallCurrent, PreflightPolicy, PreflightFlags, PreflightOrg,
     PreflightSession, ProviderCall, EnforcePolicy, EnforceOrg,
     EnforceSession, EnforceVelocity, NoteRead, NoteFlag, Pass, Refuse
<1> QED
  BY <1>6 DEF Kept

LEMMA CostsStep ==
    ASSUME TypeOK, CostsBounded, [Next]_vars
    PROVE  CostsBounded'
<1>1. ASSUME NEW t \in Threads, Step(t) PROVE CostsBounded'
  <2> DEFINE Settled == \/ UNCHANGED cost
                        \/ cost' = [cost EXCEPT ![t] = 0]
                        \/ \E c \in Costs : cost' = [cost EXCEPT ![t] = c]
  <2>2. Finish(t) => Settled
    BY DEF Finish
  <2>3. \A step : GoTo(t, step) => Settled
    BY DEF GoTo
  <2>4. \A step, p : Holding(t, p, step) => Settled
    BY DEF Holding
  <2>5. \A step : \A c \in Costs : Costing(t, c, step) => Settled
    BY DEF Costing
  <2>6. Begin(t) \/ UpdateTrackers(t) \/ CallCurrent(t) => Settled
    BY DEF Begin, UpdateTrackers, CallCurrent
  <2> HIDE DEF Settled
  <2>7. Settled
    BY <1>1, <2>2, <2>3, <2>4, <2>5, <2>6
       DEF Step, CallCurrent, PreflightPolicy, PreflightFlags, PreflightOrg,
       PreflightSession, ProviderCall, EnforcePolicy, EnforceOrg,
       EnforceSession, EnforceVelocity, NoteRead, NoteFlag, Pass, Refuse
  <2>1. Settled!1 \/ Settled!2 \/ Settled!3
    BY <2>7 DEF Settled
  <2> QED
    BY <2>1, CostsAssumption DEF CostsBounded, Weights
<1>2. CASE Feed \/ UNCHANGED vars
  <2>1. cost' = cost
    BY <1>2 DEF Feed, vars
  <2> QED
    BY <2>1 DEF CostsBounded
<1> QED
  BY <1>1, <1>2 DEF Next

\* Charging a session adds no more than the cost, and nothing to the others.
LEMMA ChargeBurn ==
    ASSUME burn \in [Sessions -> Nat], lru \in Seq(Sessions),
           NEW s \in Sessions, NEW c \in Nat, ChargeSession(s, c)
    PROVE  /\ burn'[s] <= burn[s] + c
           /\ \A u \in Sessions \ {s} : burn'[u] <= burn[u]
<1>1. CASE burn' = [burn EXCEPT ![s] = @ + c]
  BY <1>1
<1>2. CASE burn' = [burn EXCEPT ![s] = c]
  BY <1>2
<1>3. CASE burn' = [burn EXCEPT ![s] = c, ![Head(Append(lru, s))] = 0]
  <2> DEFINE h == Head(Append(lru, s))
  <2> HIDE DEF h
  <2>1. burn' = [burn EXCEPT ![s] = c, ![h] = 0]
    BY <1>3 DEF h
  <2>2. burn'[s] = c \/ burn'[s] = 0
    BY <2>1
  <2>3. \A u \in Sessions \ {s} : burn'[u] = burn[u] \/ burn'[u] = 0
    BY <2>1
  <2> QED
    BY <2>2, <2>3
<1> QED
  BY <1>1, <1>2, <1>3 DEF ChargeSession

\* A step that leaves the session alone: no charge, nobody cleared or
\* uncleared.
LEMMA SessionUndisturbed ==
    ASSUME SessionInv, TypeOK', cost' \in Weights, NEW s \in Sessions,
           Cleared(s)' = Cleared(s), burn'[s] <= burn[s],
           exempt'[s] = exempt[s],
           \A u \in Cleared(s) : cost'[u] = cost[u]
    PROVE  SessionRoom(s)'
<1> DEFINE limit == SessionCeiling + InFlight(Callers) + exempt[s]
<1>1. limit \in Int
  BY InFlightType DEF SessionInv, CallInv, TypeOK, TrackerTypeOK
<1>2. Cleared(s) \in SUBSET Threads
  BY DEF Cleared, Callers
<1>3. Fits(burn[s], Cleared(s), cost, limit)
  BY DEF SessionInv, SessionRoom
<1>4. burn[s] \in Nat /\ burn'[s] \in Nat
  BY DEF SessionInv, CallInv, TypeOK, TrackerTypeOK
<1> HIDE DEF limit
<1>5. Fits(burn'[s], Cleared(s), cost', limit + 0)
  <2>1. cost \in Weights
    BY DEF SessionInv, CallInv, CostsBounded
  <2>2. 0 \in Nat /\ burn'[s] <= burn[s] + 0
    BY <1>4
  <2> QED
    BY <2>1, <2>2, <1>1, <1>2, <1>3, <1>4, FitsShifted
<1> QED
  BY <1>1, <1>5 DEF SessionRoom, limit

\* Where a step takes the thread, by the step it was at.
LEMMA StepTargets ==
    ASSUME TypeOK, NEW t \in Threads, Step(t)
    PROVE  /\ pc'[t] = "velocity" => EnforceSession(t)
           /\ pc'[t] = "record" =>
                 /\ Role[t] # "probe"
                 /\ \/ EnforceVelocity(t)
                    \/ EnforcePolicy(t) /\ snap'[t] = NoPolicy
           /\ pc'[t] \in {"http", "note", "flag"} =>
                 \/ Role[t] # "probe"
                 \/ UpdateTrackers(t) \/ NoteRead(t)
                 \/ CallCurrent(t) /\ pc'[t] = pc[t]
<1> USE DEF TypeOK, CallTypeOK, Pass, Refuse, Finish, GoTo, Holding, Costing
<1>1. CASE Begin(t)
  BY <1>1, RolesAssumption DEF Begin, Roles
<1>2. CASE PreflightPolicy(t)
  BY <1>2 DEF PreflightPolicy
<1>3. CASE PreflightFlags(t)
  BY <1>3 DEF PreflightFlags
<1>4. CASE PreflightOrg(t)
  BY <1>4 DEF PreflightOrg
<1>5. CASE PreflightSession(t)
  BY <1>5 DEF PreflightSession
<1>6. CASE ProviderCall(t)
  BY <1>6 DEF ProviderCall
<1>7. CASE EnforcePolicy(t)
  BY <1>7 DEF EnforcePolicy
<1>8. CASE EnforceOrg(t)
  BY <1>8 DEF EnforceOrg
<1>9. CASE EnforceSession(t)
  BY <1>9 DEF EnforceSession
<1>10. CASE EnforceVelocity(t)
  BY <1>10 DEF EnforceVelocity
<1>11. CASE UpdateTrackers(t)
  BY <1>11 DEF UpdateTrackers
<1>12. CASE NoteRead(t)
  BY <1>12 DEF NoteRead
<1>13. CASE NoteFlag(t)
  BY <1>13 DEF NoteFlag
<1>14. CASE CallCurrent(t)
  BY <1>14 DEF CallCurrent, Reading
<1> QED
  BY <1>1, <1>2, <1>3, <1>4, <1>5, <1>6, <1>7, <1>8, <1>9, <1>10, <1>11,
     <1>12, <1>13, <1>14 DEF Step

LEMMA ProbesStep ==
    ASSUME TypeOK, ProbesStop, TypeOK', NEW t \in Threads, Step(t)
    PROVE  ProbesStop'
<1> SUFFICES ASSUME NEW u \in Threads, Role[u] = "probe"
             PROVE  pc'[u] \notin {"http", "record", "note", "flag"}
  BY DEF ProbesStop
<1>1. CASE u # t
  BY <1>1, LocalStep DEF ProbesStop
<1>2. CASE u = t
  <2>1. ~UpdateTrackers(t) /\ ~NoteRead(t)
    BY <1>2 DEF ProbesStop, UpdateTrackers, NoteRead
  <2>2. pc[u] \notin {"http", "record", "note", "flag"}
    BY DEF ProbesStop
  <2> QED
    BY <1>2, <2>1, <2>2, StepTargets
<1> QED
  BY <1>1, <1>2

\* Of the cleared calls of a session, a step can only add or take its own.
LEMMA ClearedLocal ==
    ASSUME TypeOK, NEW t \in Threads, Step(t), NEW s \in Sessions
    PROVE  /\ t \in Cleared(s)' => Cleared(s)' = Cleared(s) \cup {t}
           /\ t \notin Cleared(s)' => Cleared(s)' = Cleared(s) \ {t}
<1>1. \A u \in Threads \ {t} : u \in Cleared(s)' <=> u \in Cleared(s)
  BY LocalStep DEF Cleared, Callers, HadSessionBudget
<1>2. Cleared(s) \subseteq Threads /\ Cleared(s)' \subseteq Threads
  BY DEF Cleared, Callers
<1> QED
  BY <1>1, <1>2

\* Steps other than the check itself, its refusals and the charge leave the
\* burn alone and clear nobody.
LEMMA QuietStep ==
    ASSUME TypeOK, NEW t \in Threads, Step(t), ~UpdateTrackers(t)
    PROVE  burn' = burn /\ exempt' = exempt
BY DEF Step, Begin, CallCurrent, PreflightPolicy, PreflightFlags, PreflightOrg,
       PreflightSession, ProviderCall, EnforcePolicy, EnforceOrg,
       EnforceSession, EnforceVelocity, NoteRead, NoteFlag

LEMMA SessionStep ==
    ASSUME SessionInv, TypeOK', cost' \in Weights,
           NEW t \in Threads, Step(t), NEW s \in Sessions
    PROVE  SessionRoom(s)'
<1> DEFINE limit == SessionCeiling + InFlight(Callers) + exempt[s]
<1>1. TypeOK /\ cost \in Weights /\ ProbesStop
  BY DEF SessionInv, CallInv, CostsBounded
<1>2. limit \in Int /\ burn[s] \in Nat /\ burn'[s] \in Nat /\ exempt[s] \in Nat
  BY <1>1, InFlightType DEF TypeOK, TrackerTypeOK
<1>3. Fits(burn[s], Cleared(s), cost, limit)
  BY DEF SessionInv, SessionRoom
<1>4. Cleared(s) \in SUBSET Threads
  BY DEF Cleared, Callers
<1>5. \A u \in Cleared(s) \ {t} : cost'[u] = cost[u]
  BY <1>1, <1>4, LocalStep
<1>6. SessionRoom(s)' <=>
        Fits(burn'[s], Cleared(s)', cost',
             SessionCeiling + InFlight(Callers) + exempt'[s])
  BY DEF SessionRoom
<1> HIDE DEF limit
<1>7. CASE UpdateTrackers(t)
  <2>1. /\ sid[t] \in Sessions /\ cost[t] \in Nat /\ cost' = cost
        /\ pc[t] = "record" /\ pc'[t] = "note" /\ sid' = sid
        /\ ChargeSession(sid[t], cost[t])
        /\ t \in Callers
    BY <1>1, <1>7, SidType
       DEF UpdateTrackers, TypeOK, CallTypeOK, ProbesStop, Callers
  <2>2. /\ burn'[sid[t]] <= burn[sid[t]] + cost[t]
        /\ \A u \in Sessions \ {sid[t]} : burn'[u] <= burn[u]
    BY <1>1, <2>1, ChargeBurn DEF TypeOK, TrackerTypeOK
  <2>3. Cleared(s)' = Cleared(s) \ {t}
    BY <1>1, <2>1, ClearedLocal DEF Cleared
  <2>4. CASE sid[t] # s
    <3>1. Cleared(s)' = Cleared(s)
      BY <2>3, <2>4 DEF Cleared
    <3>2. exempt'[s] = exempt[s]
      BY <1>1, <1>7, <2>4 DEF UpdateTrackers, TypeOK, TrackerTypeOK
    <3> QED
      BY <2>1, <2>2, <2>4, <3>1, <3>2, SessionUndisturbed
  <2>5. CASE sid[t] = s /\ HadSessionBudget(t)
    <3>1. t \in Cleared(s)
      BY <2>1, <2>5 DEF Cleared
    <3>2. exempt'[s] = exempt[s]
      BY <1>1, <1>7, <2>5 DEF UpdateTrackers, TypeOK, TrackerTypeOK
    <3>3. Fits(burn'[s], Cleared(s) \ {t}, cost', limit)
      BY <1>1, <1>2, <1>3, <1>4, <1>5, <2>2, <2>5, <3>1, FitsWithout
    <3> QED
      BY <1>6, <2>3, <3>2, <3>3 DEF limit
  <2>6. CASE sid[t] = s /\ ~HadSessionBudget(t)
    <3>1. Cleared(s)' = Cleared(s)
      BY <2>3, <2>6 DEF Cleared
    <3>2. exempt'[s] = exempt[s] + cost[t]
      BY <1>1, <1>7, <2>6 DEF UpdateTrackers, TypeOK, TrackerTypeOK
    <3>3. Fits(burn'[s], Cleared(s), cost', limit + cost[t])
      BY <1>1, <1>2, <1>3, <1>4, <2>1, <2>2, <2>6, FitsShifted
    <3>4. limit + cost[t] =
            SessionCeiling + InFlight(Callers) + exempt'[s]
      BY <1>1, <1>2, <2>1, <3>2, InFlightType DEF limit
    <3> QED
      BY <1>6, <3>1, <3>3, <3>4
  <2> QED
    BY <2>4, <2>5, <2>6
<1>8. CASE ~UpdateTrackers(t)
  <2>1. burn'[s] = burn[s] /\ exempt'[s] = exempt[s]
    BY <1>1, <1>8, QuietStep
  <2>2. CASE t \in Cleared(s) /\ t \notin Cleared(s)'
    <3>1. Fits(burn'[s], Cleared(s) \ {t}, cost', limit)
      <4>1. burn'[s] <= burn[s] + cost[t]
        BY <1>1, <1>2, <1>4, <2>1, <2>2 DEF Weights
      <4> QED
        BY <1>1, <1>2, <1>3, <1>4, <1>5, <2>2, <4>1, FitsWithout
    <3> QED
      BY <1>1, <1>6, <2>1, <2>2, <3>1, ClearedLocal DEF limit
  <2>3. CASE t \notin Cleared(s) /\ t \in Cleared(s)'
    <3>1. EnforceSession(t) /\ pc'[t] = "velocity"
      <4>1. pc'[t] = "velocity" \/ pc'[t] = "record"
        BY <2>3 DEF Cleared
      <4>2. CASE EnforceVelocity(t) /\ pc'[t] = "record"
        <5>1. GoTo(t, "record")
          BY <1>1, <4>2 DEF EnforceVelocity, Pass, Refuse, Finish, TypeOK, CallTypeOK
        <5> QED
          BY <2>3, <4>2, <5>1 DEF EnforceVelocity, GoTo, Cleared, HadSessionBudget
      <4>3. snap'[t] # NoPolicy
        BY <2>3 DEF Cleared, HadSessionBudget
      <4> QED
        BY <1>1, <4>1, <4>2, <4>3, StepTargets
    <3>2. GoTo(t, "velocity") /\ ~OverCap(ProjectedSession(t), snap[t].sessionBudget)
      BY <1>1, <3>1 DEF EnforceSession, Refuse, Finish, TypeOK, CallTypeOK
    <3>3. sid[t] = s /\ HadSessionBudget(t) /\ cost' = cost /\ t \in Callers
      BY <2>3, <3>2 DEF GoTo, Cleared, HadSessionBudget
    <3>4. snap[t] \in Policies
      BY <1>1, <3>3 DEF HadSessionBudget, TypeOK, CallTypeOK
    <3>5. burn'[s] + cost'[t] <= SessionCeiling
      <4>1. snap[t].sessionBudget \in Nat
        BY <3>3, <3>4, PoliciesAssumption DEF PolicyType, HadSessionBudget
      <4>2. snap[t].sessionBudget <= SessionCeiling
        BY <3>3, <3>4, CeilingsAssumption DEF HadSessionBudget
      <4>3. cost[t] \in Nat
        BY <1>1 DEF Weights
      <4>4. burn[s] + cost[t] <= snap[t].sessionBudget
        BY <1>2, <3>2, <3>3, <4>1, <4>3
           DEF OverCap, ProjectedSession, HadSessionBudget
      <4> QED
        BY <1>2, <2>1, <3>3, <4>1, <4>2, <4>3, <4>4, InFlightType
    <3>6. Cleared(s) \in SUBSET (Callers \ {t}) /\ Callers \in SUBSET Threads
      BY <2>3 DEF Cleared, Callers
    <3>7. Fits(burn'[s], Cleared(s) \cup {t}, cost',
               SessionCeiling + InFlight(Callers) + exempt[s])
      BY <1>1, <1>2, <3>3, <3>5, <3>6, FitsWith, InFlightType
    <3> QED
      BY <1>1, <1>6, <2>1, <2>3, <3>7, ClearedLocal
  <2>4. CASE t \in Cleared(s) <=> t \in Cleared(s)'
    <3>1. Cleared(s)' = Cleared(s)
      BY <1>1, <2>4, ClearedLocal
    <3>2. \A u \in Cleared(s) : cost'[u] = cost[u]
      <4>1. ASSUME t \in Cleared(s) PROVE cost'[t] = cost[t]
        <5>1. pc[t] = "velocity" \/ pc[t] = "record"
          BY <4>1 DEF Cleared
        <5>2. EnforceVelocity(t)
          BY <1>8, <5>1 DEF Step, Begin, CallCurrent, Reading, PreflightPolicy, PreflightFlags,
             PreflightOrg, PreflightSession, ProviderCall, EnforcePolicy,
             EnforceOrg, EnforceSession, NoteRead, NoteFlag
        <5>3. pc'[t] # "idle"
          BY <2>4, <4>1 DEF Cleared
        <5> QED
          BY <1>1, <5>2, <5>3
             DEF EnforceVelocity, Pass, Refuse, Finish, GoTo, TypeOK, CallTypeOK
      <4> QED
        BY <1>5, <4>1
    <3> QED
      BY <1>2, <2>1, <3>1, <3>2, SessionUndisturbed
  <2> QED
    BY <2>2, <2>3, <2>4
<1> QED
  BY <1>7, <1>8

LEMMA CallInvInit == Init => CallInv
<1> SUFFICES ASSUME Init PROVE CallInv
  OBVIOUS
<1>1. TypeOK
  BY TypeInit
<1>2. CostsBounded /\ ProbesStop
  BY CostsAssumption DEF Init, CostsBounded, Weights, ProbesStop
<1> QED
  BY <1>1, <1>2 DEF CallInv

LEMMA CallInvNext ==
    ASSUME CallInv, [Next]_vars
    PROVE  CallInv'
<1>1. TypeOK'
  <2>1. CASE UNCHANGED vars
    BY <2>1 DEF vars, CallInv, TypeOK, FeedTypeOK, CallTypeOK, TrackerTypeOK
  <2>2. CASE Next
    BY <2>2, TypeFeed, TypeStep DEF Next, CallInv
  <2> QED
    BY <2>1, <2>2
<1>2. CostsBounded'
  BY CostsStep DEF CallInv
<1>3. ProbesStop'
  <2>1. CASE Feed \/ UNCHANGED vars
    BY <2>1 DEF Feed, vars, CallInv, ProbesStop
  <2>2. CASE \E t \in Threads : Step(t)
    BY <1>1, <2>2, ProbesStep DEF CallInv
  <2> QED
    BY <2>1, <2>2 DEF Next
<1> QED
  BY <1>1, <1>2, <1>3 DEF CallInv

\* The bound on how far a session's burn can go past its budget holds for any
\* number of threads, sessions and policies.
THEOREM SessionOvershoot == Spec => []SessionOvershootBounded
<1>1. Init => SessionInv
  <2> SUFFICES ASSUME Init PROVE SessionInv
    OBVIOUS
  <2>1. CallInv
    BY CallInvInit
  <2>2. ASSUME NEW s \in Sessions PROVE SessionRoom(s)
    <3>1. Cleared(s) = {} /\ burn[s] = 0 /\ exempt[s] = 0
      BY DEF Init, Cleared, Callers
    <3>2. Cardinality(Cleared(s)) = 0 /\ CostCeiling * 0 = 0
      BY <3>1, FS_EmptySet, CostsAssumption
    <3> QED
      BY <3>1, <3>2, InFlightType DEF SessionRoom, Fits
  <2> QED
    BY <2>1, <2>2 DEF SessionInv
<1>2. SessionInv /\ [Next]_vars => SessionInv'
  <2> SUFFICES ASSUME SessionInv, [Next]_vars PROVE SessionInv'
    OBVIOUS
  <2>1. CallInv'
    BY CallInvNext DEF SessionInv
  <2>2. TypeOK' /\ cost' \in Weights
    BY <2>1 DEF CallInv, CostsBounded
  <2>3. ASSUME NEW s \in Sessions PROVE SessionRoom(s)'
    <3>1. CASE \E t \in Threads : Step(t)
      BY <2>2, <3>1, SessionStep
    <3>2. CASE Feed \/ UNCHANGED vars
      <4>1. /\ pc' = pc /\ sid' = sid /\ snap' = snap /\ cost' = cost
            /\ burn' = burn /\ exempt' = exempt
        BY <3>2 DEF Feed, vars
      <4>2. Cleared(s)' = Cleared(s)
        BY <4>1 DEF Cleared, HadSessionBudget
      <4>3. burn'[s] <= burn[s]
        BY <4>1 DEF SessionInv, CallInv, TypeOK, TrackerTypeOK
      <4> QED
        BY <2>2, <4>1, <4>2, <4>3, SessionUndisturbed
    <3> QED
      BY <3>1, <3>2 DEF Next
  <2> QED
    BY <2>1, <2>3 DEF SessionInv
<1>3. SessionInv => SessionOvershootBounded
  <2> SUFFICES ASSUME SessionInv, NEW s \in Sessions
               PROVE  burn[s] <= SessionCeiling + InFlight(Callers) + exempt[s]
    BY DEF SessionOvershootBounded
  <2>1. /\ burn[s] \in Nat /\ cost \in Weights
        /\ SessionCeiling + InFlight(Callers) + exempt[s] \in Int
    BY InFlightType DEF SessionInv, CallInv, CostsBounded, TypeOK, TrackerTypeOK
  <2>2. Cleared(s) \in SUBSET Threads
    BY DEF Cleared, Callers
  <2> QED
    BY <2>1, <2>2, FitsBound DEF SessionInv, SessionRoom
<1> QED
  BY <1>1, <1>2, <1>3, PTL DEF Spec

(***************************************************************************)
(* The org                                                                 *)
(***************************************************************************)

\* The calls that passed the org budget and are not charged yet.
OrgCleared ==
    {t \in Callers : /\ pc[t] \in {"enforceSession", "velocity", "record"}
                     /\ HadOrgBudget(t)}

OrgRoom ==
    Fits(orgBurn, OrgCleared, cost, OrgCeiling + InFlight(Threads) + orgExempt)

OrgInv == CallInv /\ OrgRoom

LEMMA OrgClearedLocal ==
    ASSUME TypeOK, NEW t \in Threads, Step(t)
    PROVE  /\ t \in OrgCleared' => OrgCleared' = OrgCleared \cup {t}
           /\ t \notin OrgCleared' => OrgCleared' = OrgCleared \ {t}
<1>1. \A u \in Threads \ {t} : u \in OrgCleared' <=> u \in OrgCleared
  BY LocalStep DEF OrgCleared, Callers, HadOrgBudget
<1>2. OrgCleared \subseteq Threads /\ OrgCleared' \subseteq Threads
  BY DEF OrgCleared, Callers
<1> QED
  BY <1>1, <1>2

\* A step that takes no new call in and raises the org burn no further.
LEMMA OrgUndisturbed ==
    ASSUME OrgInv, TypeOK', cost' \in Weights, OrgCleared' = OrgCleared,
           orgBurn' = orgBurn, orgExempt' = orgExempt,
           \A u \in OrgCleared : cost'[u] = cost[u]
    PROVE  OrgRoom'
<1> DEFINE limit == OrgCeiling + InFlight(Threads) + orgExempt
<1>1. /\ limit \in Int /\ orgBurn \in Nat /\ orgBurn <= orgBurn + 0
      /\ 0 \in Nat /\ cost \in Weights
  BY InFlightType DEF OrgInv, CallInv, CostsBounded, TypeOK, TrackerTypeOK
<1>2. OrgCleared \in SUBSET Threads
  BY DEF OrgCleared, Callers
<1>3. Fits(orgBurn, OrgCleared, cost, limit)
  BY DEF OrgInv, OrgRoom
<1> HIDE DEF limit
<1>4. Fits(orgBurn, OrgCleared, cost', limit + 0)
  BY <1>1, <1>2, <1>3, FitsShifted
<1> QED
  BY <1>1, <1>4 DEF OrgRoom, limit

\* The org check and preflight's: the burn they leave is the one they saw.
LEMMA OrgCheck ==
    ASSUME TypeOK, NEW t \in Threads, PreflightOrg(t) \/ EnforceOrg(t)
    PROVE  /\ snap[t] \in Policies
           /\ orgExempt' = orgExempt
           /\ orgBurn' = orgBurn \/ orgBurn' = snap[t].orgSpend
           /\ snap[t].orgBudget # Unlimited => orgBurn' = SeededBurn(snap[t])
<1>1. pc[t] \in Checking
  BY DEF PreflightOrg, EnforceOrg, Checking
<1>2. snap[t] \in Policies
  BY <1>1 DEF TypeOK, CallTypeOK
<1>3. \/ UNCHANGED orgVars /\ snap[t].orgBudget = Unlimited
      \/ Seed(snap[t]) /\ snap[t].orgBudget # Unlimited
  BY DEF PreflightOrg, EnforceOrg
<1> QED
  BY <1>2, <1>3 DEF Seed, SeededBurn

\* Who joins the cleared calls, and who leaves them.
LEMMA OrgJoin ==
    ASSUME TypeOK, ProbesStop, NEW t \in Threads, Step(t),
           t \notin OrgCleared, t \in OrgCleared'
    PROVE  EnforceOrg(t) /\ GoTo(t, "enforceSession")
<1>1. pc'[t] \in {"enforceSession", "velocity", "record"}
  BY DEF OrgCleared
<1>2. ASSUME GoTo(t, "velocity") \/ GoTo(t, "record"),
             pc[t] \in {"enforceSession", "velocity"}
      PROVE  FALSE
  BY <1>2 DEF GoTo, OrgCleared, HadOrgBudget
<1>3. snap'[t] # NoPolicy
  BY DEF OrgCleared, HadOrgBudget
<1>4. CASE pc'[t] = "velocity"
  <2>1. EnforceSession(t) /\ pc'[t] = "velocity"
    BY <1>4, StepTargets
  <2> QED
    BY <1>2, <2>1 DEF EnforceSession, Refuse, Finish, TypeOK, CallTypeOK
<1>5. CASE pc'[t] = "record"
  <2>1. EnforceVelocity(t) /\ pc'[t] = "record"
    BY <1>3, <1>5, StepTargets
  <2> QED
    BY <1>2, <2>1 DEF EnforceVelocity, Pass, Refuse, Finish, TypeOK, CallTypeOK
<1>6. CASE pc'[t] = "enforceSession"
  <2> USE DEF TypeOK, CallTypeOK, Pass, Refuse, Finish, GoTo, Holding, Costing
  <2>1. ~Begin(t) /\ ~CallCurrent(t) /\ ~PreflightPolicy(t) /\ ~PreflightFlags(t)
    BY <1>6 DEF Begin, CallCurrent, Reading, PreflightPolicy, PreflightFlags
  <2>2. ~PreflightOrg(t) /\ ~PreflightSession(t) /\ ~ProviderCall(t)
    BY <1>6 DEF PreflightOrg, PreflightSession, ProviderCall
  <2>3. ~EnforcePolicy(t) /\ ~EnforceSession(t) /\ ~EnforceVelocity(t)
    BY <1>6 DEF EnforcePolicy, EnforceSession, EnforceVelocity
  <2>4. ~UpdateTrackers(t) /\ ~NoteRead(t) /\ ~NoteFlag(t)
    BY <1>6 DEF UpdateTrackers, NoteRead, NoteFlag
  <2>5. EnforceOrg(t)
    BY <2>1, <2>2, <2>3, <2>4 DEF Step
  <2> QED
    BY <1>6, <2>5 DEF EnforceOrg
<1> QED
  BY <1>1, <1>4, <1>5, <1>6

LEMMA OrgStep ==
    ASSUME OrgInv, TypeOK', cost' \in Weights, NEW t \in Threads, Step(t)
    PROVE  OrgRoom'
<1> DEFINE limit == OrgCeiling + InFlight(Threads) + orgExempt
<1>1. TypeOK /\ cost \in Weights /\ ProbesStop
  BY DEF OrgInv, CallInv, CostsBounded
<1>2. /\ limit \in Int /\ orgBurn \in Nat /\ orgBurn' \in Nat
      /\ orgExempt \in Nat /\ OrgCeiling \in Nat
  BY <1>1, InFlightType DEF TypeOK, TrackerTypeOK
<1>3. Fits(orgBurn, OrgCleared, cost, limit)
  BY DEF OrgInv, OrgRoom
<1>4. OrgCleared \in SUBSET Threads
  BY DEF OrgCleared, Callers
<1>5. \A u \in OrgCleared \ {t} : cost'[u] = cost[u]
  BY <1>1, <1>4, LocalStep
<1>6. OrgRoom' <=> Fits(orgBurn', OrgCleared', cost',
                        OrgCeiling + InFlight(Threads) + orgExempt')
  BY DEF OrgRoom
<1>7. cost[t] \in Nat
  BY <1>1 DEF Weights
<1> HIDE DEF limit
<1>8. CASE UpdateTrackers(t)
  <2>1. /\ cost' = cost /\ pc[t] = "record" /\ pc'[t] = "note"
        /\ orgBurn' = orgBurn + cost[t] /\ t \in Callers
    BY <1>1, <1>8
       DEF UpdateTrackers, TypeOK, CallTypeOK, ProbesStop, Callers
  <2>2. OrgCleared' = OrgCleared \ {t}
    BY <1>1, <2>1, OrgClearedLocal DEF OrgCleared
  <2>3. CASE HadOrgBudget(t)
    <3>1. t \in OrgCleared /\ orgExempt' = orgExempt
      BY <1>8, <2>1, <2>3 DEF OrgCleared, UpdateTrackers
    <3>2. orgBurn' <= orgBurn + cost[t]
      BY <1>2, <1>7, <2>1
    <3>3. Fits(orgBurn', OrgCleared \ {t}, cost', limit)
      BY <1>1, <1>2, <1>3, <1>4, <1>5, <3>1, <3>2, FitsWithout
    <3> QED
      BY <1>6, <2>2, <3>1, <3>3 DEF limit
  <2>4. CASE ~HadOrgBudget(t)
    <3>1. OrgCleared' = OrgCleared /\ orgExempt' = orgExempt + cost[t]
      BY <1>8, <2>2, <2>4 DEF OrgCleared, UpdateTrackers
    <3>2. orgBurn' <= orgBurn + cost[t]
      BY <1>2, <1>7, <2>1
    <3>3. Fits(orgBurn', OrgCleared, cost', limit + cost[t])
      BY <1>1, <1>2, <1>3, <1>4, <1>7, <2>1, <3>2, FitsShifted
    <3>4. limit + cost[t] = OrgCeiling + InFlight(Threads) + orgExempt'
      BY <1>2, <1>7, <3>1, InFlightType DEF limit
    <3> QED
      BY <1>6, <3>1, <3>3, <3>4
  <2> QED
    BY <2>3, <2>4
<1>9. CASE PreflightOrg(t) \/ EnforceOrg(t)
  <2>1. OrgCleared \in SUBSET (Threads \ {t})
    BY <1>4, <1>9 DEF OrgCleared, PreflightOrg, EnforceOrg
  <2>2. orgExempt' = orgExempt /\ snap[t] \in Policies
    BY <1>1, <1>9, OrgCheck
  <2>3. CASE t \in OrgCleared'
    <3>1. EnforceOrg(t) /\ GoTo(t, "enforceSession")
      BY <1>1, <2>1, <2>3, OrgJoin
    <3>2. snap[t].orgBudget # Unlimited /\ cost' = cost
      BY <2>3, <3>1 DEF GoTo, OrgCleared, HadOrgBudget
    <3>3. snap[t].orgBudget \in Nat /\ snap[t].orgBudget <= OrgCeiling
      BY <2>2, <3>2, PoliciesAssumption, CeilingsAssumption DEF PolicyType
    <3>4. orgBurn' = SeededBurn(snap[t])
      BY <1>1, <1>9, <3>2, OrgCheck
    <3>5. ~OverCap(ProjectedOrg(t), snap[t].orgBudget)
      BY <1>1, <3>1
         DEF EnforceOrg, Refuse, Finish, GoTo, TypeOK, CallTypeOK
    <3>6. orgBurn' + cost'[t] <= OrgCeiling
      BY <1>2, <1>7, <3>2, <3>3, <3>4, <3>5 DEF OverCap, ProjectedOrg
    <3>7. Threads \in SUBSET Threads
      OBVIOUS
    <3>8. Fits(orgBurn', OrgCleared \cup {t}, cost',
               OrgCeiling + InFlight(Threads) + orgExempt)
      BY <1>2, <2>1, <3>6, <3>7, FitsWith
    <3> QED
      BY <1>1, <1>6, <2>2, <2>3, <3>8, OrgClearedLocal
  <2>4. CASE t \notin OrgCleared'
    <3>1. OrgCleared' = OrgCleared
      BY <1>1, <2>1, <2>4, OrgClearedLocal
    <3>2. CASE orgBurn' = orgBurn
      BY <1>5, <2>1, <2>2, <3>1, <3>2, OrgUndisturbed
    <3>3. CASE orgBurn' = snap[t].orgSpend
      <4>1. orgBurn' <= OrgCeiling
        BY <2>2, <3>3, CeilingsAssumption
      <4>2. /\ CostCeiling * Cardinality(OrgCleared) <= InFlight(Threads)
            /\ CostCeiling * Cardinality(OrgCleared) \in Nat
        <5>1. Threads \in SUBSET Threads
          OBVIOUS
        <5> QED
          BY <2>1, <5>1, InFlightOthers
      <4>3. orgBurn' + CostCeiling * Cardinality(OrgCleared)
              <= OrgCeiling + InFlight(Threads) + orgExempt
        BY <1>2, <4>1, <4>2, InFlightType
      <4> QED
        BY <1>6, <2>2, <3>1, <4>3 DEF Fits
    <3> QED
      BY <1>1, <1>9, <3>2, <3>3, OrgCheck
  <2> QED
    BY <2>3, <2>4
<1>10. CASE ~UpdateTrackers(t) /\ ~PreflightOrg(t) /\ ~EnforceOrg(t)
  <2>1. orgBurn' = orgBurn /\ orgExempt' = orgExempt
    BY <1>10 DEF Step, Begin, CallCurrent, PreflightPolicy, PreflightFlags,
       PreflightSession, ProviderCall, EnforcePolicy, EnforceSession,
       EnforceVelocity, NoteRead, NoteFlag
  <2>2. t \in OrgCleared' => t \in OrgCleared
    BY <1>1, <1>10, OrgJoin
  <2>3. CASE t \in OrgCleared /\ t \notin OrgCleared'
    <3>1. OrgCleared' = OrgCleared \ {t}
      BY <1>1, <2>3, OrgClearedLocal
    <3>2. orgBurn' <= orgBurn + cost[t]
      BY <1>2, <1>7, <2>1
    <3>3. Fits(orgBurn', OrgCleared \ {t}, cost', limit)
      BY <1>1, <1>2, <1>3, <1>4, <1>5, <2>3, <3>2, FitsWithout
    <3> QED
      BY <1>6, <2>1, <3>1, <3>3 DEF limit
  <2>4. CASE t \in OrgCleared <=> t \in OrgCleared'
    <3>1. OrgCleared' = OrgCleared
      BY <1>1, <2>4, OrgClearedLocal
    <3>2. ASSUME t \in OrgCleared PROVE cost'[t] = cost[t]
      <4>1. pc[t] \in {"enforceSession", "velocity", "record"}
        BY <3>2 DEF OrgCleared
      <4>2. EnforceSession(t) \/ EnforceVelocity(t)
        BY <1>10, <4>1 DEF Step, Begin, CallCurrent, Reading, PreflightPolicy, PreflightFlags,
           PreflightSession, ProviderCall, EnforcePolicy, NoteRead, NoteFlag
      <4>3. pc'[t] # "idle"
        BY <2>4, <3>2 DEF OrgCleared
      <4> QED
        BY <1>1, <4>2, <4>3 DEF EnforceSession, EnforceVelocity, Pass, Refuse,
           Finish, GoTo, TypeOK, CallTypeOK
    <3> QED
      BY <1>5, <2>1, <3>1, <3>2, OrgUndisturbed
  <2> QED
    BY <2>2, <2>3, <2>4
<1> QED
  BY <1>8, <1>9, <1>10

\* The bound on how far the org's burn can go past its ceiling, whatever the
\* order in which threads reseed it from policies of different versions.
THEOREM OrgOvershoot == Spec => []OrgOvershootBounded
<1>1. Init => OrgInv
  <2> SUFFICES ASSUME Init PROVE OrgInv
    OBVIOUS
  <2>1. OrgCleared = {} /\ orgBurn = 0 /\ orgExempt = 0
    BY DEF Init, OrgCleared, Callers
  <2>2. Cardinality(OrgCleared) = 0 /\ CostCeiling * 0 = 0
    BY <2>1, FS_EmptySet, CostsAssumption
  <2>3. OrgRoom
    BY <2>1, <2>2, InFlightType DEF OrgRoom, Fits
  <2> QED
    BY <2>3, CallInvInit DEF OrgInv
<1>2. OrgInv /\ [Next]_vars => OrgInv'
  <2> SUFFICES ASSUME OrgInv, [Next]_vars PROVE OrgInv'
    OBVIOUS
  <2>1. CallInv'
    BY CallInvNext DEF OrgInv
  <2>2. TypeOK' /\ cost' \in Weights
    BY <2>1 DEF CallInv, CostsBounded
  <2>3. CASE \E t \in Threads : Step(t)
    BY <2>1, <2>2, <2>3, OrgStep DEF OrgInv
  <2>4. CASE Feed \/ UNCHANGED vars
    <3>1. /\ pc' = pc /\ snap' = snap /\ cost' = cost
          /\ orgBurn' = orgBurn /\ orgExempt' = orgExempt
      BY <2>4 DEF Feed, vars
    <3>2. OrgCleared' = OrgCleared
      BY <3>1 DEF OrgCleared, HadOrgBudget
    <3> QED
      BY <2>1, <2>2, <3>1, <3>2, OrgUndisturbed DEF OrgInv
  <2> QED
    BY <2>3, <2>4 DEF Next
<1>3. OrgInv => OrgOvershootBounded
  <2> SUFFICES ASSUME OrgInv PROVE OrgOvershootBounded
    OBVIOUS
  <2>1. /\ orgBurn \in Nat /\ cost \in Weights
        /\ OrgCeiling + InFlight(Threads) + orgExempt \in Int
    BY InFlightType DEF OrgInv, CallInv, CostsBounded, TypeOK, TrackerTypeOK
  <2>2. OrgCleared \in SUBSET Threads
    BY DEF OrgCleared, Callers
  <2> QED
    BY <2>1, <2>2, FitsBound DEF OrgInv, OrgRoom, OrgOvershootBounded
<1> QED
  BY <1>1, <1>2, <1>3, PTL DEF Spec

(***************************************************************************)
(* Between two steps of a call                                             *)
(***************************************************************************)
\* The grounds preflight has checked by the time a call is at a step.
Checked(step) ==
    {g \in {"kill"} :
        step \in {"flags", "preflightOrg", "preflightSession", "http"}}
    \cup {g \in {"pattern"} : step \in {"preflightOrg", "preflightSession", "http"}}
    \cup {g \in {"org"} : step \in {"preflightSession", "http"}}
    \cup {g \in {"session"} : step = "http"}

\* The answer that a call of current() under way will get is the policy in
\* force, or the one that blocks.
TrueReading(t) ==
    reading[t] # Idle /\ ~Overtaken(t) => Judged(t) \in {Current, Blocked}

\* A ground that stands is one the checks to come will see: it was not among
\* those they have passed, and they work, or will, on the policy it is about.
Pending(t) ==
    Role[t] = "guarded" =>
        /\ standing[t] \cap Checked(pc[t]) = {}
        /\ pc[t] \in {"flags", "preflightOrg", "preflightSession"} /\ standing[t] # {}
              => snap[t] = Current
        /\ pc[t] = "preflight" /\ standing[t] # {} => TrueReading(t)

\* A step that keeps the policy in force keeps the answer to come true.
KeepsReading(t) ==
    TrueReading(t) /\ ~Overtaken(t) /\ Current' = Current => TrueReading(t)'

AllPending == \A t \in Threads : Pending(t)

(***************************************************************************)
(* The order of the burn table                                             *)
(***************************************************************************)
\* Of the sessions that were charged: the others charged since are finitely
\* many, hold all those behind it in the table, and, if it is no longer in
\* the table, are as many as the table may hold.
ChargedOnce(s) == s \notin since[s]

Recency ==
    /\ since \in [Sessions -> SUBSET Sessions]
    /\ \A s \in Sessions : s \in Tracked => ChargedOnce(s)
    /\ \A i, j \in 1..Len(lru) : i < j => lru[j] \in since[lru[i]]
    /\ \A s \in Sessions : ChargedOnce(s) =>
          /\ IsFiniteSet(since[s])
          /\ s \notin Tracked /\ MaxSessions # Unlimited
                => Cardinality(since[s]) >= MaxSessions

(***************************************************************************)
(* No ground is missed                                                     *)
(***************************************************************************)
\* While a call is under way the grounds that stand only get fewer, and they
\* hold under the policy of before the step.
LEMMA StandingShrinks ==
    ASSUME TypeOK, ObserveStanding, NEW t \in Threads, NEW s \in Sessions,
           s = sid[t], pc[t] # "idle", pc'[t] # "idle"
    PROVE  /\ standing'[t] \in SUBSET standing[t]
           /\ standing'[t] # {} =>
                 /\ Current' = Current /\ ~Overtaken(t)
                 /\ standing'[t] \in SUBSET (Grounds(s)')
<1>1. ~Began(t)
  BY DEF Began
<1> DEFINE now == [u \in Sessions |-> Grounds(u)]'
<1>2. now[s] = Grounds(s)'
  OBVIOUS
<1>3. standing'[t] = IF Current' # Current \/ Overtaken(t)
                     THEN {} ELSE standing[t] \cap now[sid[t]]
  BY <1>1 DEF ObserveStanding
<1> QED
  BY <1>2, <1>3

\* A step that leaves the call where it is misses nothing.
LEMMA PendingKept ==
    ASSUME NEW t \in Threads, TypeOK, Pending(t), ObserveStanding,
           pc'[t] = pc[t], snap'[t] = snap[t], KeepsReading(t)
    PROVE  Pending(t)'
<1>1. CASE pc[t] = "idle"
  BY <1>1 DEF Pending, Checked
<1>2. CASE pc[t] # "idle"
  <2>1. PICK s \in Sessions : s = sid[t]
    BY <1>2, SidType
  <2> QED
    BY <1>2, <2>1, StandingShrinks DEF Pending, KeepsReading
<1> QED
  BY <1>1, <1>2

\* The daemon's steps: a thread that read what is replaced in the cache keeps
\* it, and a policy that lapses in its hands is one that blocks, or one it was
\* overtaken by.
LEMMA CacheKeepsReading ==
    ASSUME FeedTypeOK, CacheNext, NEW t \in Threads
    PROVE  KeepsReading(t)
<1> SUFFICES ASSUME TrueReading(t), ~Overtaken(t), Current' = Current,
                    reading'[t] # Idle, ~Overtaken(t)'
             PROVE  Judged(t)' \in {Current, Blocked}
  BY DEF KeepsReading, TrueReading
<1>1. /\ Idle \notin Copies /\ Live \notin Copies /\ Idle # Live
      /\ reading \in [Threads -> Copies \cup {Idle, Live}]
  BY SentinelsAssumption DEF FeedTypeOK
<1>2. reading[t] # Idle /\ Judged(t) \in {Current, Blocked}
  BY CacheType DEF TrueReading
<1>3. reading'[t] = Live => Judged(t)' = Current
  BY DEF Judged
<1>4. ASSUME Displace, denied' = denied PROVE Judged(t)' \in {Current, Blocked}
  <2>1. [policy |-> cached, fresh |-> fresh] \in Copies
    BY DEF FeedTypeOK, Copies
  <2>2. CASE reading[t] = Live
    <3>1. reading'[t] = [policy |-> cached, fresh |-> fresh] /\ reading'[t] # Live
      BY <1>1, <1>4, <2>1, <2>2 DEF Displace
    <3>2. Judged(t)' = Judgement(cached, fresh)
      BY <1>4, <3>1 DEF Judged, Judgement
    <3> QED
      BY <3>2 DEF Current
  <2>3. CASE reading[t] # Live
    <3>1. reading'[t] = reading[t]
      BY <1>4, <2>3 DEF Displace
    <3>2. Judged(t)' = Judged(t)
      BY <1>4, <2>3, <3>1 DEF Judged, Judgement
    <3> QED
      BY <1>2, <3>2
  <2> QED
    BY <2>2, <2>3
<1>5. CASE \E p \in Policies : Fetched(p)
  BY <1>4, <1>5 DEF Fetched
<1>6. CASE Wiped
  BY <1>4, <1>6 DEF Wiped
<1>7. CASE Latched
  <2>1. reading' = reading /\ denied' = TRUE
    BY <1>7 DEF Latched
  <2>2. CASE reading[t] # Live /\ reading[t].policy = NoPolicy
    <3>1. /\ Judged(t) = IF denied THEN Lapsed ELSE NoPolicy
          /\ Judged(t)' = Lapsed
      BY <2>1, <2>2 DEF Judged, Judgement
    <3> QED
      BY <1>2, <3>1 DEF Lapsed
  <2>3. CASE reading[t] # Live /\ reading[t].policy # NoPolicy
    <3>1. Judged(t)' = Judged(t)
      BY <2>1, <2>3 DEF Judged, Judgement
    <3> QED
      BY <1>2, <3>1
  <2> QED
    BY <1>3, <2>1, <2>2, <2>3
<1>8. CASE Expired
  <2>1. denied' = denied
    BY <1>8 DEF Expired
  <2>2. PICK T \in SUBSET {u \in Threads : reading[u] \notin {Idle, Live}} :
          reading' = [u \in Threads |->
                         IF u \in T THEN [policy |-> reading[u].policy, fresh |-> FALSE]
                         ELSE reading[u]]
    BY <1>8 DEF Expired
  <2>3. CASE t \in T
    <3>1. reading[t] \in Copies /\ reading[t].policy \in Policies \cup {NoPolicy}
      BY <1>1, <2>3 DEF Copies
    <3>2. /\ reading'[t] = [policy |-> reading[t].policy, fresh |-> FALSE]
          /\ reading'[t].policy = reading[t].policy /\ reading'[t].fresh = FALSE
      BY <2>2, <2>3
    <3>3. reading'[t] \in Copies
      BY <3>1, <3>2 DEF Copies
    <3>4. reading'[t] \notin {Idle, Live} /\ reading[t] \notin {Idle, Live}
      BY <1>1, <3>1, <3>3
    <3>5. CASE reading[t].policy = NoPolicy
      <4>1. Judged(t)' = Judged(t)
        BY <2>1, <3>2, <3>4, <3>5 DEF Judged, Judgement
      <4> QED
        BY <1>2, <4>1
    <3>6. CASE reading[t].policy # NoPolicy
      <4>1. FailureMode # "open"
        BY <3>2, <3>4, <3>6 DEF Overtaken
      <4>2. Lapsed = Blocked
        BY <4>1, SentinelsAssumption DEF Lapsed
      <4>3. Judged(t)' = Lapsed
        BY <3>2, <3>4, <3>6 DEF Judged, Judgement
      <4> QED
        BY <4>2, <4>3
    <3> QED
      BY <3>5, <3>6
  <2>4. CASE t \notin T
    <3>1. reading'[t] = reading[t]
      BY <2>2, <2>4
    <3>2. CASE reading[t] # Live
      <4>1. Judged(t)' = Judged(t)
        BY <2>1, <3>1, <3>2 DEF Judged, Judgement
      <4> QED
        BY <1>2, <4>1
    <3> QED
      BY <1>3, <3>1, <3>2
  <2> QED
    BY <2>3, <2>4
<1> QED
  BY <1>5, <1>6, <1>7, <1>8 DEF CacheNext

\* The steps of the other threads leave it what it read.
LEMMA StepKeepsReading ==
    ASSUME TypeOK, NEW u \in Threads, Step(u), NEW t \in Threads \ {u}
    PROVE  KeepsReading(t)
<1>1. UNCHANGED feedVars \/ ReadPolicy(u) \/ Return(u)
  BY DEF Step, Begin, CallCurrent, PreflightPolicy, PreflightFlags, PreflightOrg,
     PreflightSession, ProviderCall, EnforcePolicy, EnforceOrg, EnforceSession,
     EnforceVelocity, UpdateTrackers, NoteRead, NoteFlag
<1>2. UNCHANGED cacheVars /\ reading'[t] = reading[t]
  BY <1>1 DEF ReadPolicy, Return, TypeOK, FeedTypeOK
<1> QED
  BY <1>2 DEF KeepsReading, TrueReading, Judged, Judgement, Current, Overtaken

\* What each check of preflight leaves out once it lets the call pass: none of
\* its grounds holds in the state after the check.
LEMMA PreflightPasses ==
    ASSUME TypeOK, NEW t \in Threads, Role[t] = "guarded", Step(t),
           pc[t] # "idle", pc'[t] # "idle", Current' = Current,
           NEW s \in Sessions, s = sid[t],
           pc[t] \in {"flags", "preflightOrg", "preflightSession"} => snap[t] = Current,
           pc[t] = "preflight" => TrueReading(t), ~Overtaken(t)
    PROVE  /\ (Checked(pc'[t]) \ Checked(pc[t])) \cap Grounds(s)' = {}
           /\ pc'[t] \in {"flags", "preflightOrg", "preflightSession"} =>
                 snap'[t] = Current
           /\ pc'[t] = "preflight" => TrueReading(t)'
<1> USE DEF TypeOK, CallTypeOK, Pass, Refuse, Finish, GoTo, Holding, Costing
<1>1. CASE pc[t] = "preflight"
  <2>1. PreflightPolicy(t) \/ CallCurrent(t)
    BY <1>1 DEF Step, Begin, PreflightFlags, PreflightOrg, PreflightSession,
       ProviderCall, EnforcePolicy, EnforceOrg, EnforceSession, EnforceVelocity,
       UpdateTrackers, NoteRead, NoteFlag
  <2>2. CASE CallCurrent(t)
    <3>1. reading'[t] = Live /\ pc'[t] = "preflight"
      BY <1>1, <2>2 DEF CallCurrent, ReadPolicy, FeedTypeOK
    <3>2. TrueReading(t)'
      BY <3>1 DEF TrueReading, Judged
    <3> QED
      BY <1>1, <3>1, <3>2
  <2>3. CASE PreflightPolicy(t) /\ Judged(t) = Current
    <3>1. CASE Current = NoPolicy
      <4>1. pc'[t] = "http" /\ Halts(s)' = {}
        BY <2>3, <3>1 DEF PreflightPolicy, Halts
      <4> QED
        BY <4>1 DEF Checked, Grounds
    <3>2. CASE Current # NoPolicy
      <4>1. ~Current.kill /\ Holding(t, Current, "flags")
        BY <2>3, <3>2 DEF PreflightPolicy
      <4>2. "kill" \notin Halts(s)'
        BY <3>2, <4>1 DEF Halts
      <4> QED
        BY <4>1, <4>2 DEF Checked, Grounds
    <3> QED
      BY <3>1, <3>2
  <2>4. CASE PreflightPolicy(t) /\ Judged(t) # Current
    <3>1. Judged(t) = Blocked
      BY <1>1, <2>4 DEF PreflightPolicy, Return, TrueReading
    <3>2. Blocked \in PolicyType /\ Blocked.kill
      BY DEF Blocked, PolicyType
    <3>3. Blocked # NoPolicy
      BY <3>2, SentinelsAssumption
    <3> QED
      BY <2>4, <3>1, <3>2, <3>3 DEF PreflightPolicy
  <2> QED
    BY <2>1, <2>2, <2>3, <2>4
<1>2. CASE pc[t] = "flags"
  <2>1. PreflightFlags(t)
    BY <1>2 DEF Step, Begin, CallCurrent, Reading, PreflightPolicy, PreflightOrg, PreflightSession,
       ProviderCall, EnforcePolicy, EnforceOrg, EnforceSession, EnforceVelocity,
       UpdateTrackers, NoteRead, NoteFlag
  <2>2. flagged[s] \cap Current.patterns = {} /\ GoTo(t, "preflightOrg")
        /\ flagged' = flagged
    BY <1>2, <2>1 DEF PreflightFlags
  <2>3. "pattern" \notin Halts(s)'
    BY <2>2 DEF Halts
  <2> QED
    BY <1>2, <2>2, <2>3 DEF Checked, Grounds
<1>3. CASE pc[t] = "preflightOrg"
  <2>1. PreflightOrg(t)
    BY <1>3 DEF Step, Begin, CallCurrent, Reading, PreflightPolicy, PreflightFlags, PreflightSession,
       ProviderCall, EnforcePolicy, EnforceOrg, EnforceSession, EnforceVelocity,
       UpdateTrackers, NoteRead, NoteFlag
  <2>2. ~AtCap(SeededBurn(Current), Current.orgBudget) /\ GoTo(t, "preflightSession")
    BY <1>3, <2>1 DEF PreflightOrg
  <2>3. "org" \notin Halts(s)'
    <3>1. CASE Current.orgBudget = Unlimited
      BY <3>1 DEF Halts, Reached
    <3>2. CASE Current.orgBudget # Unlimited
      <4>1. orgBurn' = SeededBurn(Current) /\ orgVersion' = Current.version
        BY <1>3, <2>1, <3>2 DEF PreflightOrg, Seed
      <4>2. SeededBurn(Current)' = SeededBurn(Current)
        BY <4>1 DEF SeededBurn
      <4>3. ~Reached(SeededBurn(Current), Current.orgBudget)
        BY <2>2 DEF Reached, AtCap
      <4> QED
        BY <4>2, <4>3 DEF Halts
    <3> QED
      BY <3>1, <3>2
  <2> QED
    BY <1>3, <2>2, <2>3 DEF Checked, Grounds
<1>4. CASE pc[t] = "preflightSession"
  <2>1. PreflightSession(t)
    BY <1>4 DEF Step, Begin, CallCurrent, Reading, PreflightPolicy, PreflightFlags, PreflightOrg,
       ProviderCall, EnforcePolicy, EnforceOrg, EnforceSession, EnforceVelocity,
       UpdateTrackers, NoteRead, NoteFlag
  <2>2. ~AtCap(burn[s], Current.sessionBudget) /\ GoTo(t, "http") /\ burn' = burn
    BY <1>4, <2>1 DEF PreflightSession
  <2>3. "session" \notin Halts(s)'
    BY <2>2 DEF Halts, Reached, AtCap
  <2> QED
    BY <1>4, <2>2, <2>3 DEF Checked, Grounds
<1>5. CASE pc[t] \notin {"preflight", "flags", "preflightOrg", "preflightSession"}
  <2>1. pc'[t] \notin {"preflight", "flags", "preflightOrg", "preflightSession", "http"}
    BY <1>5 DEF Reading, Step, Begin, CallCurrent, PreflightPolicy, PreflightFlags, PreflightOrg, PreflightSession,
       ProviderCall, EnforcePolicy, EnforceOrg, EnforceSession, EnforceVelocity,
       UpdateTrackers, NoteRead, NoteFlag
  <2> QED
    BY <2>1 DEF Checked
<1> QED
  BY <1>1, <1>2, <1>3, <1>4, <1>5

LEMMA PendingStep ==
    ASSUME NEW t \in Threads, TypeOK, Pending(t), ObserveStanding, Step(t)
    PROVE  Pending(t)'
<1> SUFFICES ASSUME Role[t] = "guarded" PROVE Pending(t)'
  BY DEF Pending
<1>1. CASE pc'[t] = "idle"
  BY <1>1 DEF Pending, Checked
<1>2. CASE pc[t] = "idle"
  <2>1. Begin(t)
    BY <1>2 DEF Step, CallCurrent, Reading, PreflightPolicy, PreflightFlags, PreflightOrg, PreflightSession,
       ProviderCall, EnforcePolicy, EnforceOrg, EnforceSession, EnforceVelocity,
       UpdateTrackers, NoteRead, NoteFlag
  <2>2. pc'[t] = "preflight" /\ reading'[t] = Idle
    BY <1>2, <2>1 DEF Begin, TypeOK, CallTypeOK, Reading
  <2> QED
    BY <2>2 DEF Pending, Checked, TrueReading
<1>3. CASE pc[t] # "idle" /\ pc'[t] # "idle"
  <2>1. PICK s \in Sessions : s = sid[t]
    BY <1>3, SidType
  <2>2. /\ standing'[t] \in SUBSET standing[t]
        /\ standing'[t] # {} =>
              /\ Current' = Current /\ ~Overtaken(t)
              /\ standing'[t] \in SUBSET (Grounds(s)')
    BY <1>3, <2>1, StandingShrinks
  <2>3. CASE standing'[t] = {}
    BY <2>3 DEF Pending
  <2>4. CASE standing'[t] # {}
    <3>1. standing[t] # {} /\ Current' = Current /\ ~Overtaken(t)
      BY <2>2, <2>4
    <3>2. /\ standing[t] \cap Checked(pc[t]) = {}
          /\ pc[t] \in {"flags", "preflightOrg", "preflightSession"} => snap[t] = Current
          /\ pc[t] = "preflight" => TrueReading(t)
      BY <3>1 DEF Pending
    <3>3. /\ (Checked(pc'[t]) \ Checked(pc[t])) \cap Grounds(s)' = {}
          /\ pc'[t] \in {"flags", "preflightOrg", "preflightSession"} =>
                snap'[t] = Current
          /\ pc'[t] = "preflight" => TrueReading(t)'
      BY <1>3, <2>1, <3>1, <3>2, PreflightPasses
    <3>4. standing'[t] \cap Checked(pc'[t]) = {}
      BY <2>2, <2>4, <3>2, <3>3
    <3> QED
      BY <3>1, <3>3, <3>4 DEF Pending
  <2> QED
    BY <2>3, <2>4
<1> QED
  BY <1>1, <1>2, <1>3

\* The observer adds no behaviour: every behaviour with the history is one of
\* PolicyEnforcement.
THEOREM HistoryAddsNothing == HSpec => Spec
<1>1. HInit => Init
  BY DEF HInit
<1>2. [HNext]_<<vars, history>> => [Next]_vars
  BY DEF HNext
<1> QED
  BY <1>1, <1>2, PTL DEF HSpec, Spec

\* preflight and current(): a call that began when the policy in force gave a
\* reason to halt it, and while that reason stood, never gets to the provider,
\* unless, in open mode, the policy it read lapsed in its hands after the cache
\* had been written anew.
THEOREM HaltsAreSeen == HSpec => []NoSpendWhenHalted
<1>1. HInit => AllPending
  BY DEF HInit, Init, FeedInit, HistoryInit, AllPending, Pending, Checked, TrueReading
<1>2. TypeOK /\ AllPending /\ [HNext]_<<vars, history>> => AllPending'
  <2> SUFFICES ASSUME TypeOK, AllPending, [HNext]_<<vars, history>>
               PROVE  AllPending'
    OBVIOUS
  <2>1. CASE UNCHANGED <<vars, history>>
    BY <2>1 DEF vars, history, AllPending, Pending, TrueReading, Overtaken, Judged,
       Current, Judgement, Lapsed
  <2>2. CASE Feed /\ ObserveStanding
    BY <2>2, PendingKept, CacheKeepsReading DEF Feed, AllPending, TypeOK
  <2>3. ASSUME NEW t \in Threads, Step(t), ObserveStanding PROVE AllPending'
    <3>1. Pending(t)'
      BY <2>3, PendingStep DEF AllPending
    <3>2. ASSUME NEW u \in Threads \ {t} PROVE Pending(u)'
      BY <2>3, <3>2, LocalStep, StepKeepsReading, PendingKept DEF AllPending
    <3> QED
      BY <3>1, <3>2 DEF AllPending
  <2> QED
    BY <2>1, <2>2, <2>3 DEF HNext, Next, Observe
<1>3. AllPending => NoSpendWhenHalted
  BY DEF AllPending, Pending, Checked, NoSpendWhenHalted, AtProvider
<1> QED
  BY <1>1, <1>2, <1>3, HistoryAddsNothing, TypeCorrect, PTL DEF HSpec

(***************************************************************************)
(* What was charged recently is kept                                       *)
(***************************************************************************)
\* A charge is new to every session but its own, for which it starts anew.
LEMMA SinceCharged ==
    ASSUME TypeOK, since \in [Sessions -> SUBSET Sessions], ObserveCharges,
           NEW t \in Threads, UpdateTrackers(t)
    PROVE  /\ sid[t] \in Sessions
           /\ since' = [s \in Sessions |->
                           IF s = sid[t] THEN {} ELSE since[s] \cup {sid[t]}]
<1>1. sid[t] \in Sessions /\ pc[t] = "record" /\ pc'[t] = "note"
  BY SidType DEF UpdateTrackers, TypeOK, CallTypeOK
<1>2. \A u \in Threads : pc[u] = "record" /\ pc'[u] = "note" <=> u = t
  <2>1. \A u \in Threads : u # t => pc'[u] = pc[u]
    BY DEF UpdateTrackers, TypeOK, CallTypeOK
  <2> QED
    BY <1>1, <2>1
<1>3. {sid[u] : u \in {v \in Threads : pc[v] = "record" /\ pc'[v] = "note"}} = {sid[t]}
  BY <1>2
<1> QED
  BY <1>1, <1>3 DEF ObserveCharges

LEMMA SinceQuiet ==
    ASSUME TypeOK, since \in [Sessions -> SUBSET Sessions], Next, ObserveCharges,
           \A t \in Threads : ~UpdateTrackers(t)
    PROVE  since' = since
<1>1. ASSUME NEW u \in Threads, pc[u] = "record", pc'[u] = "note" PROVE FALSE
  <2>1. CASE Feed
    BY <1>1, <2>1 DEF Feed
  <2>2. ASSUME NEW t \in Threads, Step(t) PROVE FALSE
    <3>1. u = t
      BY <1>1, <2>2, LocalStep
    <3> QED
      BY <1>1, <2>2, <3>1 DEF Step, Begin, CallCurrent, PreflightPolicy, PreflightFlags, PreflightOrg,
         PreflightSession, ProviderCall, EnforcePolicy, EnforceOrg, EnforceSession,
         EnforceVelocity, NoteRead, NoteFlag
  <2> QED
    BY <2>1, <2>2 DEF Next
<1>2. {sid[u] : u \in {v \in Threads : pc[v] = "record" /\ pc'[v] = "note"}} = {}
  BY <1>1
<1>3. since' = [s \in Sessions |-> since[s] \cup {}]
  BY <1>2 DEF ObserveCharges
<1> QED
  BY <1>3

\* The order of the table after move_to_end, and after a new session goes in:
\* of two that did not go in last, the order is the old one.
LEMMA MoveToEndOrder ==
    ASSUME NEW seq \in Seq(Sessions), NEW s \in Members(seq), Distinct(seq),
           NEW i \in 1..Len(seq), NEW j \in 1..Len(seq), i < j
    PROVE  /\ MoveToEnd(seq, s)[i] # s /\ MoveToEnd(seq, s)[i] \in Members(seq)
           /\ \/ MoveToEnd(seq, s)[j] = s
              \/ \E k, l \in 1..Len(seq) : /\ k < l
                                           /\ MoveToEnd(seq, s)[i] = seq[k]
                                           /\ MoveToEnd(seq, s)[j] = seq[l]
<1> DEFINE n == Len(seq)
           moved == MoveToEnd(seq, s)
<1>1. PICK p \in 1..n :
         /\ seq[p] = s
         /\ \A k \in 1..(n - 1) : moved[k] = IF k < p THEN seq[k] ELSE seq[k + 1]
         /\ moved[n] = s
  BY MoveToEndShape
<1> DEFINE From(k) == IF k < p THEN k ELSE k + 1
<1>2. n \in Nat
  OBVIOUS
<1> HIDE DEF moved, n
<1>3. i \in 1..(n - 1) /\ From(i) \in 1..n /\ moved[i] = seq[From(i)] /\ From(i) # p
  BY <1>1, <1>2 DEF n
<1>4. moved[i] # s /\ moved[i] \in Members(seq)
  BY <1>1, <1>3 DEF Distinct, Members, n
<1>5. CASE j = n
  BY <1>1, <1>4, <1>5 DEF moved
<1>6. CASE j # n
  <2>1. j \in 1..(n - 1)
    BY <1>2, <1>6 DEF n
  <2>2. From(j) \in 1..n /\ moved[j] = seq[From(j)] /\ From(i) < From(j)
    BY <1>1, <1>2, <1>3, <2>1
  <2> QED
    BY <1>3, <1>4, <2>2 DEF moved, n
<1> QED
  BY <1>5, <1>6

LEMMA RecencyCharge ==
    ASSUME BurnTableSound, Recency, lru \in Seq(Sessions),
           NEW u \in Sessions, NEW c \in Nat, ChargeSession(u, c),
           since' = [s \in Sessions |-> IF s = u THEN {} ELSE since[s] \cup {u}]
    PROVE  Recency'
<1> DEFINE more == Append(lru, u)
           n == Len(lru)
<1>1. /\ n \in Nat /\ Distinct(lru) /\ Tracked = Members(lru)
      /\ Tracked' = Members(lru')
      /\ MaxSessions # Unlimited => MaxSessions \in Nat /\ n <= MaxSessions
  BY MaxSessionsAssumption DEF BurnTableSound, Distinct, Members, Tracked
<1>2. /\ since \in [Sessions -> SUBSET Sessions]
      /\ \A s \in Sessions : s \in Tracked => ChargedOnce(s)
      /\ \A i, j \in 1..n : i < j => lru[j] \in since[lru[i]]
      /\ \A s \in Sessions : ChargedOnce(s) =>
            /\ IsFiniteSet(since[s])
            /\ s \notin Tracked /\ MaxSessions # Unlimited
                  => Cardinality(since[s]) >= MaxSessions
  BY DEF Recency
<1>3. /\ since' \in [Sessions -> SUBSET Sessions]
      /\ since'[u] = {}
      /\ \A s \in Sessions : s # u => since'[s] = since[s] \cup {u}
  BY <1>2
<1>4. \A s \in Sessions : s # u => (ChargedOnce(s)' => ChargedOnce(s))
  BY <1>3 DEF ChargedOnce
<1>5. ASSUME u \notin Tracked
      PROVE  /\ more \in Seq(Sessions) /\ Len(more) = n + 1 /\ Distinct(more)
             /\ Members(more) = Members(lru) \cup {u}
             /\ \A i, j \in 1..(n + 1) : i < j => more[j] \in since'[more[i]]
  <2>1. /\ more \in Seq(Sessions) /\ Len(more) = n + 1 /\ Distinct(more)
        /\ Members(more) = Members(lru) \cup {u}
    BY <1>1, <1>5, AppendMember
  <2>2. more[n + 1] = u /\ \A i \in 1..n : more[i] = lru[i] /\ lru[i] \in Sessions
    OBVIOUS
  <2>3. ASSUME NEW i \in 1..(n + 1), NEW j \in 1..(n + 1), i < j
        PROVE  more[j] \in since'[more[i]]
    <3>1. i \in 1..n
      BY <1>1, <2>3
    <3>2. lru[i] # u /\ lru[i] \in Sessions
      BY <1>1, <1>5, <2>2, <3>1 DEF Members
    <3>3. CASE j = n + 1
      BY <1>3, <2>2, <3>1, <3>2, <3>3
    <3>4. CASE j \in 1..n
      BY <1>2, <1>3, <2>2, <2>3, <3>1, <3>2, <3>4
    <3> QED
      BY <1>1, <3>3, <3>4
  <2> QED
    BY <2>1, <2>3
<1>6. \A s \in Sessions : s \in Tracked' => s = u \/ s \in Tracked
  <2>1. CASE u \in Tracked
    <3>1. lru' = MoveToEnd(lru, u)
      BY <2>1 DEF ChargeSession
    <3> QED
      BY <1>1, <2>1, <3>1, MoveToEndPermutes
  <2>2. CASE u \notin Tracked /\ ~TableFull
    <3>1. lru' = more
      BY <2>2 DEF ChargeSession
    <3> QED
      BY <1>1, <1>5, <2>2, <3>1
  <2>3. CASE u \notin Tracked /\ TableFull
    <3>1. lru' = Tail(more) /\ more # <<>>
      BY <2>3 DEF ChargeSession
    <3> HIDE DEF more
    <3>2. Members(lru') \subseteq Members(more)
      BY <1>5, <2>3, <3>1, TailMember
    <3> QED
      BY <1>1, <1>5, <2>3, <3>2
  <2> QED
    BY <2>1, <2>2, <2>3
<1>7. \A i, j \in 1..Len(lru') : i < j => lru'[j] \in since'[lru'[i]]
  <2>1. CASE u \in Tracked
    <3>1. lru' = MoveToEnd(lru, u) /\ Len(lru') = n
      BY <1>1, <2>1, MoveToEndShape DEF ChargeSession
    <3>2. SUFFICES ASSUME NEW i \in 1..n, NEW j \in 1..n, i < j
                   PROVE  lru'[j] \in since'[lru'[i]]
      BY <3>1
    <3>3. /\ lru'[i] # u /\ lru'[i] \in Members(lru)
          /\ \/ lru'[j] = u
             \/ \E k, l \in 1..n : k < l /\ lru'[i] = lru[k] /\ lru'[j] = lru[l]
      BY <1>1, <2>1, <3>1, <3>2, MoveToEndOrder
    <3>4. lru'[i] \in Sessions
      BY <3>3 DEF Members
    <3>5. lru'[j] = u \/ lru'[j] \in since[lru'[i]]
      BY <1>2, <3>3
    <3> QED
      BY <1>3, <3>3, <3>4, <3>5
  <2>2. CASE u \notin Tracked /\ ~TableFull
    <3>1. lru' = more
      BY <2>2 DEF ChargeSession
    <3> QED
      BY <1>5, <2>2, <3>1
  <2>3. CASE u \notin Tracked /\ TableFull
    <3>1. lru' = Tail(more) /\ more # <<>>
      BY <2>3 DEF ChargeSession
    <3> HIDE DEF more
    <3>2. Len(lru') = n /\ \A i \in 1..n : lru'[i] = more[i + 1]
      BY <1>1, <1>5, <2>3, <3>1, TailMember
    <3>3. SUFFICES ASSUME NEW i \in 1..n, NEW j \in 1..n, i < j
                   PROVE  lru'[j] \in since'[lru'[i]]
      BY <3>2
    <3>4. i + 1 \in 1..(n + 1) /\ j + 1 \in 1..(n + 1) /\ i + 1 < j + 1
      BY <1>1, <3>3
    <3> QED
      BY <1>5, <2>3, <3>2, <3>4
  <2> QED
    BY <2>1, <2>2, <2>3
<1>8. ASSUME NEW s \in Sessions, ChargedOnce(s)'
      PROVE  /\ IsFiniteSet(since'[s])
             /\ s \notin Tracked' /\ MaxSessions # Unlimited
                   => Cardinality(since'[s]) >= MaxSessions
  <2>1. IsFiniteSet(since'[s])
    <3>1. CASE s = u
      BY <1>3, <3>1, FS_EmptySet
    <3>2. CASE s # u
      BY <1>2, <1>3, <1>4, <1>8, <3>2, FS_AddElement
    <3> QED
      BY <3>1, <3>2
  <2>2. Cardinality(since'[s]) \in Nat
    BY <2>1, FS_CardinalityType
  <2>3. ASSUME s \notin Tracked', MaxSessions # Unlimited
        PROVE  Cardinality(since'[s]) >= MaxSessions
    <3>1. CASE s # u /\ s \notin Tracked
      <4>1. Cardinality(since[s]) >= MaxSessions /\ since[s] \in SUBSET since'[s]
        BY <1>2, <1>3, <1>4, <1>8, <2>3, <3>1
      <4>2. IsFiniteSet(since[s]) /\ Cardinality(since[s]) <= Cardinality(since'[s])
        BY <2>1, <4>1, FS_Subset
      <4>3. Cardinality(since[s]) \in Nat
        BY <4>2, FS_CardinalityType
      <4> QED
        BY <1>1, <2>2, <2>3, <4>1, <4>2, <4>3
    <3>2. CASE s = u \/ s \in Tracked
      \* It was put out: it was the first, and all that are left came after it.
      <4>1. u \notin Tracked /\ TableFull
        <5>1. CASE u \in Tracked
          <6>1. Members(lru') = Members(lru)
            BY <1>1, <5>1, MoveToEndPermutes DEF ChargeSession
          <6> QED
            BY <1>1, <2>3, <3>2, <5>1, <6>1
        <5>2. CASE u \notin Tracked /\ ~TableFull
          <6>1. lru' = more
            BY <5>2 DEF ChargeSession
          <6> QED
            BY <1>1, <1>5, <2>3, <3>2, <5>2, <6>1
        <5> QED
          BY <5>1, <5>2
      <4>2. lru' = Tail(more) /\ more # <<>>
        BY <4>1 DEF ChargeSession
      <4> HIDE DEF more
      <4>3. /\ Len(lru') = n /\ \A i \in 1..n : lru'[i] = more[i + 1]
            /\ Members(lru') = Members(more) \ {Head(more)} /\ Head(more) = more[1]
            /\ Distinct(lru') /\ lru' \in Seq(Sessions)
        BY <1>1, <1>5, <4>1, <4>2, TailMember
      <4>4. s = more[1]
        BY <1>1, <1>5, <2>3, <3>2, <4>1, <4>3
      <4>5. n >= MaxSessions
        BY <1>1, <4>1 DEF TableFull
      <4>6. \A i \in 1..n : lru'[i] \in since'[s]
        <5>1. SUFFICES ASSUME NEW i \in 1..n PROVE lru'[i] \in since'[s]
          OBVIOUS
        <5>2. 1 \in 1..(n + 1) /\ i + 1 \in 1..(n + 1) /\ 1 < i + 1
          BY <1>1
        <5> QED
          BY <1>5, <4>1, <4>3, <4>4, <5>2
      <4>7. n <= Cardinality(since'[s])
        <5>1. lru' \in [1..n -> since'[s]]
          BY <4>3, <4>6
        <5>2. lru' \in Injection(1..n, since'[s])
          BY <4>3, <5>1 DEF Injection, IsInjective, Distinct
        <5>3. Cardinality(1..n) <= Cardinality(since'[s])
          BY <2>1, <5>2, FS_Injection
        <5> HIDE DEF n
        <5>4. Cardinality(1..n) = IF 1 > n THEN 0 ELSE n - 1 + 1
          BY <1>1, FS_Interval
        <5>5. Cardinality(1..n) = n
          BY <1>1, <5>4
        <5> QED
          BY <5>3, <5>5
      <4> QED
        BY <1>1, <2>2, <2>3, <4>5, <4>7
    <3> QED
      BY <3>1, <3>2
  <2> QED
    BY <2>1, <2>3
<1>9. \A s \in Sessions : s \in Tracked' => ChargedOnce(s)'
  BY <1>2, <1>3, <1>6 DEF ChargedOnce
<1> QED
  BY <1>3, <1>7, <1>8, <1>9 DEF Recency

LEMMA RecencyStep ==
    ASSUME TypeOK, BurnTableSound, Recency, [HNext]_<<vars, history>>
    PROVE  Recency'
<1>1. CASE UNCHANGED <<vars, history>>
  BY <1>1 DEF vars, history, Recency, ChargedOnce, Tracked
<1>2. ASSUME NEW t \in Threads, UpdateTrackers(t), ObserveCharges PROVE Recency'
  <2>1. /\ sid[t] \in Sessions
        /\ since' = [s \in Sessions |->
                        IF s = sid[t] THEN {} ELSE since[s] \cup {sid[t]}]
    BY <1>2, SinceCharged DEF Recency
  <2>2. cost[t] \in Nat /\ ChargeSession(sid[t], cost[t])
    BY <1>2 DEF UpdateTrackers, TypeOK, CallTypeOK
  <2>3. lru \in Seq(Sessions)
    BY DEF TypeOK, TrackerTypeOK
  <2> QED
    BY <2>1, <2>2, <2>3, RecencyCharge
<1>3. CASE Next /\ ObserveCharges /\ \A t \in Threads : ~UpdateTrackers(t)
  <2>1. since' = since
    BY <1>3, SinceQuiet DEF Recency
  <2>2. lru' = lru /\ Tracked' = Tracked
    BY <1>3, OnlyTrackersCharge DEF Tracked
  <2> QED
    BY <2>1, <2>2 DEF Recency, ChargedOnce
<1> QED
  BY <1>1, <1>2, <1>3 DEF HNext, Observe

\* _update_policy_trackers: a session loses its burn only when max_sessions
\* other sessions were charged since it last was.
THEOREM RecentChargesKept == HSpec => []RecentlyChargedKept
<1>1. HInit => Recency
  BY DEF HInit, Init, HistoryInit, Recency, ChargedOnce, Tracked
<1>2. Recency => RecentlyChargedKept
  <2> SUFFICES ASSUME Recency, MaxSessions # Unlimited,
                      NEW s \in Sessions, s \notin since[s],
                      Cardinality(since[s]) < MaxSessions, s \notin Tracked
               PROVE  FALSE
    BY DEF RecentlyChargedKept
  <2>1. IsFiniteSet(since[s]) /\ Cardinality(since[s]) >= MaxSessions
    BY DEF Recency, ChargedOnce
  <2>2. Cardinality(since[s]) \in Nat /\ MaxSessions \in Nat
    BY <2>1, FS_CardinalityType, MaxSessionsAssumption
  <2> QED
    BY <2>1, <2>2
<1> QED
  BY <1>1, <1>2, RecencyStep, HistoryAddsNothing, TypeCorrect, BurnTable, PTL DEF HSpec
=============================================================================
