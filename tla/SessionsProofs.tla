---------------------------- MODULE SessionsProofs ----------------------------
(***************************************************************************)
(* What the tracer keeps of every session, and what the sessions keep of   *)
(* their tags, for any number of threads, sessions and calls.              *)
(***************************************************************************)
EXTENDS Sessions, FiniteSetTheorems, TLAPS

USE DEF threadVars, history

(***************************************************************************)
(* The keys of an OrderedDict                                              *)
(***************************************************************************)
Elements(seq) == {seq[i] : i \in 1..Len(seq)}

Distinct(seq) == \A i, j \in 1..Len(seq) : seq[i] = seq[j] => i = j

\* b comes after a.
Behind(seq, a, b) ==
    \E i, j \in 1..Len(seq) : i < j /\ seq[i] = a /\ seq[j] = b

LEMMA WithoutShape ==
    ASSUME lru \in Seq(Sessions), Distinct(lru), NEW s \in Tracked
    PROVE  /\ Without(s) \in Seq(Sessions) /\ Len(Without(s)) = Len(lru) - 1
           /\ Distinct(Without(s)) /\ Elements(Without(s)) = Tracked \ {s}
           /\ \A a, b : Behind(Without(s), a, b) => Behind(lru, a, b)
<1> DEFINE n == Len(lru)
           i == CHOOSE j \in 1..n : lru[j] = s
           Old(k) == IF k < i THEN k ELSE k + 1
<1>1. i \in 1..n /\ lru[i] = s
  BY DEF Tracked
<1>2. Without(s) = [k \in 1..(n - 1) |-> IF k < i THEN lru[k] ELSE lru[k + 1]]
  BY DEF Without
<1>3. PICK w : w = Without(s)
  OBVIOUS
<1> HIDE DEF i
<1>4. n \in Nat /\ n - 1 \in Nat
  BY <1>1
<1>5. \A k \in 1..(n - 1) : Old(k) \in 1..n /\ Old(k) # i /\ w[k] = lru[Old(k)]
  BY <1>1, <1>2, <1>3
<1>6. w \in Seq(Sessions) /\ Len(w) = n - 1
  <2>1. w \in [1..(n - 1) -> Sessions]
    BY <1>1, <1>2, <1>3
  <2> QED
    BY <1>4, <2>1
<1>7. \A k, l \in 1..(n - 1) : k < l => Old(k) < Old(l)
  BY <1>1, <1>4
<1>8. Distinct(w)
  <2>1. SUFFICES ASSUME NEW k \in 1..(n - 1), NEW l \in 1..(n - 1), w[k] = w[l]
                 PROVE  k = l
    BY <1>6 DEF Distinct
  <2>2. Old(k) = Old(l)
    BY <1>5, <2>1 DEF Distinct
  <2> QED
    BY <1>1, <1>4, <2>2
<1>9. Elements(w) = Tracked \ {s}
  <2>1. ASSUME NEW k \in 1..(n - 1) PROVE w[k] \in Tracked \ {s}
    BY <1>1, <1>5 DEF Distinct, Tracked
  <2>2. ASSUME NEW x \in Tracked \ {s} PROVE x \in Elements(w)
    <3>1. PICK m \in 1..n : lru[m] = x
      BY DEF Tracked
    <3>2. m # i
      BY <1>1, <3>1
    <3>3. PICK k \in 1..(n - 1) : Old(k) = m
      <4>1. CASE m < i
        BY <1>1, <1>4, <4>1
      <4>2. CASE m > i
        <5>1. m - 1 \in 1..(n - 1) /\ Old(m - 1) = m
          BY <1>1, <1>4, <4>2
        <5> QED
          BY <5>1
      <4> QED
        BY <1>1, <3>2, <4>1, <4>2
    <3> QED
      BY <1>5, <1>6, <3>1, <3>3 DEF Elements
  <2> QED
    BY <1>6, <2>1, <2>2 DEF Elements
<1>10. ASSUME NEW a, NEW b, Behind(w, a, b) PROVE Behind(lru, a, b)
  <2>1. PICK k \in 1..(n - 1), l \in 1..(n - 1) : k < l /\ w[k] = a /\ w[l] = b
    BY <1>6, <1>10 DEF Behind
  <2> QED
    BY <1>5, <1>7, <2>1 DEF Behind
<1> QED
  BY <1>3, <1>6, <1>8, <1>9, <1>10

LEMMA AppendShape ==
    ASSUME NEW seq \in Seq(Sessions), Distinct(seq), NEW s \in Sessions \ Elements(seq)
    PROVE  /\ Append(seq, s) \in Seq(Sessions) /\ Len(Append(seq, s)) = Len(seq) + 1
           /\ Distinct(Append(seq, s))
           /\ Elements(Append(seq, s)) = Elements(seq) \cup {s}
           /\ \A a, b : Behind(Append(seq, s), a, b) =>
                 a # s /\ (Behind(seq, a, b) \/ b = s)
<1> DEFINE n == Len(seq)
<1>1. PICK more : more = Append(seq, s)
  OBVIOUS
<1>2. /\ more \in Seq(Sessions) /\ Len(more) = n + 1 /\ n \in Nat
      /\ \A k \in 1..n : more[k] = seq[k] /\ seq[k] # s
      /\ more[n + 1] = s
  BY <1>1 DEF Elements
<1>3. \A k \in 1..(n + 1) : k \in 1..n \/ k = n + 1
  BY <1>2
<1>4. Distinct(more)
  BY <1>2, <1>3 DEF Distinct
<1>5. Elements(more) = Elements(seq) \cup {s}
  BY <1>2, <1>3 DEF Elements
<1>6. ASSUME NEW a, NEW b, Behind(more, a, b)
      PROVE  a # s /\ (Behind(seq, a, b) \/ b = s)
  <2>1. PICK k \in 1..(n + 1), l \in 1..(n + 1) : k < l /\ more[k] = a /\ more[l] = b
    BY <1>2, <1>6 DEF Behind
  <2>2. k \in 1..n
    BY <1>2, <2>1
  <2>3. a # s /\ a = seq[k]
    BY <1>2, <2>1, <2>2
  <2> QED
    BY <1>2, <1>3, <2>1, <2>2, <2>3 DEF Behind
<1> QED
  BY <1>1, <1>2, <1>4, <1>5, <1>6

\* popitem(last=False)
LEMMA TailShape ==
    ASSUME NEW seq \in Seq(Sessions), Distinct(seq), seq # <<>>
    PROVE  /\ Tail(seq) \in Seq(Sessions) /\ Len(Tail(seq)) = Len(seq) - 1
           /\ Len(seq) - 1 \in Nat
           /\ Distinct(Tail(seq))
           /\ Head(seq) \in Elements(seq)
           /\ Elements(Tail(seq)) = Elements(seq) \ {Head(seq)}
           /\ \A a, b : Behind(Tail(seq), a, b) => Behind(seq, a, b)
           /\ \A b \in Elements(Tail(seq)) : Behind(seq, Head(seq), b)
<1> DEFINE n == Len(seq)
<1>1. PICK rest : rest = Tail(seq)
  OBVIOUS
<1>2. /\ rest \in Seq(Sessions) /\ Len(rest) = n - 1 /\ n \in Nat /\ n - 1 \in Nat
      /\ \A k \in 1..(n - 1) : rest[k] = seq[k + 1] /\ k + 1 \in 1..n /\ k + 1 # 1
      /\ Head(seq) = seq[1] /\ 1 \in 1..n
  BY <1>1
<1>3. Distinct(rest)
  <2>1. SUFFICES ASSUME NEW k \in 1..(n - 1), NEW l \in 1..(n - 1), rest[k] = rest[l]
                 PROVE  k = l
    BY <1>2 DEF Distinct
  <2>2. k + 1 = l + 1
    BY <1>2, <2>1 DEF Distinct
  <2> QED
    BY <1>2, <2>2
<1>4. Elements(rest) = Elements(seq) \ {Head(seq)}
  <2>1. ASSUME NEW k \in 1..(n - 1) PROVE rest[k] \in Elements(seq) \ {Head(seq)}
    BY <1>2 DEF Elements, Distinct
  <2>2. ASSUME NEW m \in 1..n, seq[m] # Head(seq) PROVE seq[m] \in Elements(rest)
    <3>1. m - 1 \in 1..(n - 1) /\ m - 1 + 1 = m
      BY <1>2, <2>2
    <3> QED
      BY <1>2, <3>1 DEF Elements
  <2>3. \A x \in Elements(rest) : x \in Elements(seq) \ {Head(seq)}
    BY <1>2, <2>1 DEF Elements
  <2>4. \A x \in Elements(seq) : x # Head(seq) => x \in Elements(rest)
    BY <2>2 DEF Elements
  <2> QED
    BY <2>3, <2>4
<1>5. ASSUME NEW a, NEW b, Behind(rest, a, b) PROVE Behind(seq, a, b)
  <2>1. PICK k \in 1..(n - 1), l \in 1..(n - 1) : k < l /\ rest[k] = a /\ rest[l] = b
    BY <1>2, <1>5 DEF Behind
  <2>2. k + 1 < l + 1
    BY <1>2, <2>1
  <2> QED
    BY <1>2, <2>1, <2>2 DEF Behind
<1>6. ASSUME NEW b \in Elements(rest) PROVE Behind(seq, Head(seq), b)
  <2>1. PICK k \in 1..(n - 1) : rest[k] = b
    BY <1>2 DEF Elements
  <2>2. 1 < k + 1
    BY <1>2
  <2> QED
    BY <1>2, <2>1, <2>2 DEF Behind
<1> QED
  BY <1>1, <1>2, <1>3, <1>4, <1>5, <1>6 DEF Elements

LEMMA MoveToEndShape ==
    ASSUME lru \in Seq(Sessions), Distinct(lru), NEW s \in Tracked
    PROVE  /\ MoveToEnd(s) \in Seq(Sessions) /\ Len(MoveToEnd(s)) = Len(lru)
           /\ Distinct(MoveToEnd(s)) /\ Elements(MoveToEnd(s)) = Tracked
           /\ \A a, b : Behind(MoveToEnd(s), a, b) =>
                 a # s /\ (Behind(lru, a, b) \/ b = s)
<1>1. PICK w : w = Without(s)
  OBVIOUS
<1>2. /\ w \in Seq(Sessions) /\ Len(w) = Len(lru) - 1 /\ Distinct(w)
      /\ Elements(w) = Tracked \ {s}
      /\ \A a, b : Behind(w, a, b) => Behind(lru, a, b)
  BY <1>1, WithoutShape
<1>3. s \in Sessions \ Elements(w)
  BY <1>2 DEF Tracked
<1>4. MoveToEnd(s) = Append(w, s)
  BY <1>1 DEF MoveToEnd
<1>5. /\ Append(w, s) \in Seq(Sessions) /\ Len(Append(w, s)) = Len(w) + 1
      /\ Distinct(Append(w, s)) /\ Elements(Append(w, s)) = Elements(w) \cup {s}
      /\ \A a, b : Behind(Append(w, s), a, b) => a # s /\ (Behind(w, a, b) \/ b = s)
  BY <1>2, <1>3, AppendShape
<1>6. Len(lru) \in Nat /\ s \in Tracked
  OBVIOUS
<1> QED
  BY <1>2, <1>4, <1>5, <1>6

\* A set that holds all keys is at least as large as there are keys.
LEMMA KeysCounted ==
    ASSUME NEW seq \in Seq(Sessions), Distinct(seq), NEW T1, IsFiniteSet(T1),
           Elements(seq) \subseteq T1
    PROVE  Len(seq) <= Cardinality(T1)
<1> DEFINE n == Len(seq)
<1>1. n \in Nat
  OBVIOUS
<1>2. seq \in Injection(1..n, T1)
  BY DEF Injection, IsInjective, Distinct, Elements
<1>3. Cardinality(1..n) <= Cardinality(T1)
  BY <1>2, FS_Injection
<1> HIDE DEF n
<1>4. Cardinality(1..n) = IF 1 > n THEN 0 ELSE n - 1 + 1
  BY <1>1, FS_Interval
<1>5. Cardinality(1..n) = n
  BY <1>1, <1>4
<1> QED
  BY <1>3, <1>5 DEF n

(***************************************************************************)
(* A deque with a bound                                                    *)
(***************************************************************************)
Increasing(seq) == \A i, j \in 1..Len(seq) : i < j => seq[i] < seq[j]

\* A call goes in last and, past the bound, the first one goes out: gone calls
\* move the others up.
LEMMA RingShape ==
    ASSUME NEW n \in Nat, NEW seq \in Seq(1..n), Len(seq) <= MaxRecords
    PROVE  \E gone \in {0, 1} :
              /\ gone = 1 => Len(seq) = MaxRecords
              /\ Ring(Append(seq, n + 1)) \in Seq(1..(n + 1))
              /\ Len(Ring(Append(seq, n + 1))) = Len(seq) + 1 - gone
              /\ Len(Ring(Append(seq, n + 1))) <= MaxRecords
              /\ \A i \in 1..(Len(seq) + 1 - gone) :
                    Ring(Append(seq, n + 1))[i] =
                        IF i + gone = Len(seq) + 1 THEN n + 1 ELSE seq[i + gone]
<1> DEFINE m == Len(seq)
<1>1. PICK b : b = Append(seq, n + 1)
  OBVIOUS
<1>2. m \in Nat /\ MaxRecords \in Nat /\ seq \in Seq(1..(n + 1)) /\ n + 1 \in 1..(n + 1)
  <2>1. \A k \in 1..Len(seq) : seq[k] \in 1..(n + 1)
    OBVIOUS
  <2> QED
    BY <2>1, TracerAssumption
<1>3. /\ b \in Seq(1..(n + 1)) /\ Len(b) = m + 1
      /\ \A i \in 1..(m + 1) : b[i] = IF i = m + 1 THEN n + 1 ELSE seq[i]
  BY <1>1, <1>2
<1> HIDE DEF m
<1>4. CASE m < MaxRecords
  <2>1. Ring(b) = b
    BY <1>2, <1>3, <1>4 DEF Ring
  <2>2. /\ m + 1 - 0 = m + 1 /\ m + 1 <= MaxRecords
        /\ \A i \in 1..(m + 1) : i + 0 = i
    BY <1>2, <1>4
  <2>3. \A i \in 1..(m + 1 - 0) : b[i] = IF i + 0 = m + 1 THEN n + 1 ELSE seq[i + 0]
    BY <1>3, <2>2
  <2>4. PICK r : r = Ring(Append(seq, n + 1))
    OBVIOUS
  <2>5. /\ r \in Seq(1..(n + 1)) /\ Len(r) = Len(seq) + 1 - 0 /\ Len(r) <= MaxRecords
        /\ \A i \in 1..(Len(seq) + 1 - 0) :
              r[i] = IF i + 0 = Len(seq) + 1 THEN n + 1 ELSE seq[i + 0]
    BY <1>1, <1>3, <2>1, <2>2, <2>3, <2>4 DEF m
  <2>6. 0 \in {0, 1} /\ (0 = 1 => Len(seq) = MaxRecords)
    OBVIOUS
  <2> QED
    BY <2>4, <2>5, <2>6
<1>5. CASE ~(m < MaxRecords)
  <2>1. m = MaxRecords /\ Ring(b) = Tail(b) /\ b # <<>>
    BY <1>2, <1>3, <1>5 DEF Ring, m
  <2>2. /\ Tail(b) \in Seq(1..(n + 1)) /\ Len(Tail(b)) = m
        /\ \A i \in 1..m : Tail(b)[i] = b[i + 1] /\ i + 1 \in 1..(m + 1)
    BY <1>2, <1>3, <2>1
  <2>3. \A i \in 1..m : Tail(b)[i] = IF i + 1 = m + 1 THEN n + 1 ELSE seq[i + 1]
    BY <1>3, <2>2
  <2>4. m + 1 - 1 = m
    BY <1>2
  <2> QED
    BY <1>1, <1>2, <2>1, <2>2, <2>3, <2>4 DEF m
<1> QED
  BY <1>4, <1>5

\* What a call may do to the calls its session holds: the last ones stay, the
\* call comes last.
LEMMA RingKeeps ==
    ASSUME NEW n \in Nat, NEW seq \in Seq(1..n), Len(seq) <= MaxRecords, Increasing(seq)
    PROVE  LET ring == Ring(Append(seq, n + 1)) IN
           /\ ring \in Seq(1..(n + 1)) /\ Len(ring) <= MaxRecords
           /\ Increasing(ring)
           /\ MaxRecords > 0 => n + 1 \in Elements(ring)
           /\ \A c, d \in Elements(seq) \cup {n + 1} :
                 c < d /\ c \in Elements(ring) => d \in Elements(ring)
           /\ Elements(ring) \subseteq Elements(seq) \cup {n + 1}
<1> DEFINE m == Len(seq)
           ring == Ring(Append(seq, n + 1))
<1>1. PICK gone \in {0, 1} :
         /\ gone = 1 => m = MaxRecords
         /\ ring \in Seq(1..(n + 1)) /\ Len(ring) = m + 1 - gone /\ Len(ring) <= MaxRecords
         /\ \A i \in 1..(m + 1 - gone) :
               ring[i] = IF i + gone = m + 1 THEN n + 1 ELSE seq[i + gone]
  BY RingShape
<1> HIDE DEF ring
<1>2. m \in Nat /\ m = Len(seq) /\ MaxRecords \in Nat /\ \A i \in 1..m : seq[i] \in 1..n
  BY TracerAssumption
<1> HIDE DEF m
<1>3. Increasing(ring)
  <2>1. SUFFICES ASSUME NEW i \in 1..(m + 1 - gone), NEW j \in 1..(m + 1 - gone), i < j
                 PROVE  ring[i] < ring[j]
    BY <1>1 DEF Increasing
  <2>2. i + gone \in 1..m /\ ring[i] = seq[i + gone] /\ seq[i + gone] \in 1..n
    <3>1. i + gone \in 1..m /\ i + gone # m + 1
      BY <1>2, <2>1
    <3> QED
      BY <1>1, <1>2, <3>1
  <2>3. CASE j + gone = m + 1
    BY <1>1, <2>2, <2>3
  <2>4. CASE j + gone # m + 1
    <3>1. j + gone \in 1..m /\ i + gone < j + gone
      BY <1>2, <2>1, <2>4
    <3>2. ring[j] = seq[j + gone]
      BY <1>1, <2>4
    <3> QED
      BY <1>2, <2>2, <3>1, <3>2 DEF Increasing
  <2> QED
    BY <2>3, <2>4
<1>4. m + 1 - gone > 0 => n + 1 \in Elements(ring)
  <2>1. HAVE m + 1 - gone > 0
  <2>2. m + 1 - gone \in 1..Len(ring) /\ ring[m + 1 - gone] = n + 1
    BY <1>1, <1>2, <2>1
  <2> QED
    BY <2>2 DEF Elements
<1>5. ASSUME NEW i \in 1..m, i > gone PROVE seq[i] \in Elements(ring)
  <2>1. i - gone \in 1..(m + 1 - gone) /\ i - gone + gone = i /\ i # m + 1
    BY <1>1, <1>2, <1>5
  <2>2. ring[i - gone] = seq[i]
    BY <1>1, <2>1
  <2> QED
    BY <1>1, <2>1, <2>2 DEF Elements
<1>6. ASSUME NEW c \in Elements(ring)
      PROVE  c = n + 1 \/ \E i \in 1..m : i > gone /\ c = seq[i]
  <2>1. PICK i \in 1..(m + 1 - gone) : c = ring[i]
    BY <1>1 DEF Elements
  <2>2. i + gone = m + 1 \/ (i + gone \in 1..m /\ i + gone > gone)
    BY <1>1, <1>2
  <2> QED
    BY <1>1, <2>1, <2>2
<1>7. ASSUME NEW c \in Elements(seq) \cup {n + 1}, NEW d \in Elements(seq) \cup {n + 1},
             c < d, c \in Elements(ring)
      PROVE  d \in Elements(ring)
  <2>1. \A x \in Elements(seq) : x \in 1..n
    BY <1>2 DEF Elements
  <2>2. c # n + 1
    BY <1>2, <1>7, <2>1
  <2>3. PICK i \in 1..m : i > gone /\ c = seq[i]
    BY <1>6, <1>7, <2>2
  <2>4. CASE d = n + 1
    BY <1>1, <1>2, <1>4, <2>3, <2>4
  <2>5. CASE d \in Elements(seq)
    <3>1. PICK j \in 1..m : d = seq[j]
      BY <1>2, <2>5 DEF Elements
    <3>2. ~(j < i) /\ j # i
      <4>1. j < i => seq[j] < seq[i]
        BY <1>2 DEF Increasing
      <4> QED
        BY <1>2, <1>7, <2>3, <3>1, <4>1
    <3>3. j > gone
      BY <1>1, <2>3, <3>2
    <3> QED
      BY <1>5, <3>1, <3>3
  <2> QED
    BY <1>7, <2>4, <2>5
<1>8. MaxRecords > 0 => m + 1 - gone > 0
  BY <1>1, <1>2
<1>9. Elements(ring) \subseteq Elements(seq) \cup {n + 1}
  BY <1>2, <1>6 DEF Elements
<1> QED
  BY <1>1, <1>3, <1>4, <1>7, <1>8, <1>9 DEF ring

\* A call's distance from the end grows by one with each later call, until it
\* is as large as the buffer.
LEMMA RingPushes ==
    ASSUME NEW n \in Nat, NEW seq \in Seq(1..n), Len(seq) <= MaxRecords,
           NEW i \in 1..Len(seq), NEW p \in Nat, Len(seq) - i <= p
    PROVE  LET ring == Ring(Append(seq, n + 1)) IN
           \/ p + 1 >= MaxRecords
           \/ \E k \in 1..Len(ring) : ring[k] = seq[i] /\ Len(ring) - k <= p + 1
<1> DEFINE m == Len(seq)
           ring == Ring(Append(seq, n + 1))
<1>1. PICK gone \in {0, 1} :
         /\ gone = 1 => m = MaxRecords
         /\ Len(ring) = m + 1 - gone
         /\ \A k \in 1..(m + 1 - gone) :
               ring[k] = IF k + gone = m + 1 THEN n + 1 ELSE seq[k + gone]
  BY RingShape
<1> HIDE DEF ring
<1>2. m \in Nat /\ m = Len(seq) /\ MaxRecords \in Nat /\ i \in 1..m /\ m - i <= p
  BY TracerAssumption
<1> HIDE DEF m
<1>3. CASE i > gone
  <2>1. i - gone \in 1..(m + 1 - gone) /\ i - gone + gone = i /\ i # m + 1
    BY <1>1, <1>2, <1>3
  <2>2. ring[i - gone] = seq[i]
    BY <1>1, <2>1
  <2>3. m + 1 - gone - (i - gone) <= p + 1
    BY <1>2
  <2>4. i - gone \in 1..Len(ring) /\ Len(ring) - (i - gone) <= p + 1
    <3>1. Len(ring) = m + 1 - gone
      BY <1>1
    <3> QED
      BY <1>2, <2>1, <2>3, <3>1
  <2> QED
    BY <2>2, <2>4 DEF ring
<1>4. CASE ~(i > gone)
  BY <1>1, <1>2, <1>4
<1> QED
  BY <1>3, <1>4 DEF ring

(***************************************************************************)
(* The tracer's invariant.  TracerSound is inductive.  SeesOwnCall is not: *)
(* while a thread is between its two steps, every session behind its own   *)
(* was used since (so that its own is evicted only when there are as many  *)
(* of them as MaxSessions), and its call is no further from the end of the *)
(* buffer than calls were pushed since, until one of the two is lost.      *)
(***************************************************************************)
Kept(t) ==
    \E i \in 1..Len(buffer[sid[t]]) :
        buffer[sid[t]][i] = own[t] /\ Len(buffer[sid[t]]) - i <= pushed[t]

Crowded(t) == MaxSessions # NoLimit /\ Cardinality(others[t]) >= MaxSessions

InBetween(t) ==
    pc[t] = "recorded" =>
        /\ sid[t] \in Sessions
        /\ IsFiniteSet(others[t])
        /\ \A x \in Sessions : Behind(lru, sid[t], x) => x \in others[t]
        /\ pushed[t] >= MaxRecords \/ Crowded(t) \/ Kept(t)

TracerInv == TracerSound /\ SeesOwnCall /\ \A t \in Threads : InBetween(t)

\* What Record does: the session's key goes last, and the first key may go.
Placed(t, s, keys, gone) ==
    /\ recorded' = recorded + 1
    /\ pc[t] = "idle" /\ pc' = [pc EXCEPT ![t] = "recorded"]
    /\ sid' = [sid EXCEPT ![t] = s]
    /\ own' = [own EXCEPT ![t] = recorded + 1]
    /\ UNCHANGED seen
    /\ NoteRecord(t, s)
    /\ Elements(keys) = Tracked \cup {s} /\ Distinct(keys)
    /\ \A a, b : Behind(keys, a, b) => a # s /\ (Behind(lru, a, b) \/ b = s)
    /\ \/ /\ gone = {} /\ lru' = keys
          /\ MaxSessions # NoLimit => Len(keys) <= MaxSessions
       \/ /\ gone = {Head(keys)} /\ lru' = Tail(keys) /\ keys # <<>>
          /\ MaxSessions # NoLimit /\ Len(keys) = MaxSessions + 1
    /\ buffer' = [x \in Sessions |->
                     IF x \in gone THEN <<>>
                     ELSE IF x = s THEN Ring(Append(buffer[x], recorded + 1))
                     ELSE buffer[x]]

LEMMA RecordPlaces ==
    ASSUME TracerSound, NEW t \in Threads, Record(t)
    PROVE  \E s \in Sessions, keys \in Seq(Sessions) : \E gone : Placed(t, s, keys, gone)
<1>1. PICK s \in Sessions :
         /\ sid' = [sid EXCEPT ![t] = s]
         /\ IF s \in Tracked
            THEN Store(s, MoveToEnd(s), {})
            ELSE Store(s, Append(lru, s), Evicted(Append(lru, s)))
         /\ NoteRecord(t, s)
  BY DEF Record
<1>2. /\ recorded' = recorded + 1
      /\ pc[t] = "idle" /\ pc' = [pc EXCEPT ![t] = "recorded"]
      /\ own' = [own EXCEPT ![t] = recorded + 1]
      /\ UNCHANGED seen
  BY DEF Record
<1>3. /\ lru \in Seq(Sessions) /\ Distinct(lru) /\ Elements(lru) = Tracked
      /\ MaxSessions # NoLimit => Len(lru) <= MaxSessions /\ MaxSessions \in Nat
  BY TracerAssumption DEF TracerSound, TypeOK, BuffersSound, Distinct, Elements, Tracked
<1>4. CASE s \in Tracked
  <2>1. PICK keys : keys = MoveToEnd(s)
    OBVIOUS
  <2>2. /\ keys \in Seq(Sessions) /\ Len(keys) = Len(lru)
        /\ Distinct(keys) /\ Elements(keys) = Tracked \cup {s}
        /\ \A a, b : Behind(keys, a, b) => a # s /\ (Behind(lru, a, b) \/ b = s)
    BY <1>3, <1>4, <2>1, MoveToEndShape
  <2>3. Store(s, keys, {})
    BY <1>1, <1>4, <2>1
  <2>4. /\ lru' = keys
        /\ buffer' = [x \in Sessions |->
                         IF x \in {} THEN <<>>
                         ELSE IF x = s THEN Ring(Append(buffer[x], recorded + 1))
                         ELSE buffer[x]]
    BY <1>2, <2>3 DEF Store
  <2>5. Placed(t, s, keys, {})
    BY <1>1, <1>2, <1>3, <2>2, <2>4 DEF Placed
  <2> QED
    BY <2>2, <2>5
<1>5. CASE s \notin Tracked
  <2>1. PICK keys : keys = Append(lru, s)
    OBVIOUS
  <2>2. /\ keys \in Seq(Sessions) /\ Len(keys) = Len(lru) + 1
        /\ Distinct(keys) /\ Elements(keys) = Tracked \cup {s}
        /\ \A a, b : Behind(keys, a, b) => a # s /\ (Behind(lru, a, b) \/ b = s)
    BY <1>3, <1>5, <2>1, AppendShape
  <2>3. PICK gone : gone = Evicted(keys)
    OBVIOUS
  <2>4. Store(s, keys, gone)
    BY <1>1, <1>5, <2>1, <2>3
  <2>5. /\ lru' = IF gone = {} THEN keys ELSE Tail(keys)
        /\ buffer' = [x \in Sessions |->
                         IF x \in gone THEN <<>>
                         ELSE IF x = s THEN Ring(Append(buffer[x], recorded + 1))
                         ELSE buffer[x]]
    BY <1>2, <2>4 DEF Store
  <2>6. keys # <<>> /\ Len(lru) \in Nat
    BY <1>3, <2>1
  <2>7. \/ /\ gone = {} /\ lru' = keys
           /\ MaxSessions # NoLimit => Len(keys) <= MaxSessions
        \/ /\ gone = {Head(keys)} /\ lru' = Tail(keys) /\ keys # <<>>
           /\ MaxSessions # NoLimit /\ Len(keys) = MaxSessions + 1
    <3>1. CASE Overflow(keys)
      <4>1. gone = {Head(keys)} /\ gone # {}
        BY <2>3, <3>1 DEF Evicted
      <4>2. MaxSessions # NoLimit /\ Len(keys) = MaxSessions + 1
        BY <1>3, <2>2, <2>6, <3>1 DEF Overflow
      <4> QED
        BY <2>5, <2>6, <4>1, <4>2
    <3>2. CASE ~Overflow(keys)
      <4>1. gone = {}
        BY <2>3, <3>2 DEF Evicted
      <4>2. MaxSessions # NoLimit => Len(keys) <= MaxSessions
        BY <1>3, <2>2, <2>6, <3>2 DEF Overflow
      <4> QED
        BY <2>5, <4>1, <4>2
    <3> QED
      BY <3>1, <3>2
  <2>8. Placed(t, s, keys, gone)
    BY <1>1, <1>2, <2>2, <2>5, <2>7 DEF Placed
  <2> QED
    BY <2>2, <2>8
<1> QED
  BY <1>4, <1>5

\* The keys afterwards: in order, within the bound, the new one last or gone.
LEMMA PlacedKeys ==
    ASSUME TracerSound, NEW t \in Threads, NEW s \in Sessions, NEW keys \in Seq(Sessions),
           NEW gone, Placed(t, s, keys, gone)
    PROVE  /\ lru' \in Seq(Sessions) /\ Distinct(lru')
           /\ MaxSessions # NoLimit => Len(lru') <= MaxSessions
           /\ Elements(lru') = (Tracked \cup {s}) \ gone
           /\ \A a, b : Behind(lru', a, b) => a # s /\ (Behind(lru, a, b) \/ b = s)
<1>1. CASE gone = {} /\ lru' = keys /\ (MaxSessions # NoLimit => Len(keys) <= MaxSessions)
  BY <1>1 DEF Placed
<1>2. CASE /\ gone = {Head(keys)} /\ lru' = Tail(keys) /\ keys # <<>>
           /\ MaxSessions # NoLimit /\ Len(keys) = MaxSessions + 1
  <2>1. /\ Tail(keys) \in Seq(Sessions) /\ Len(Tail(keys)) = Len(keys) - 1
        /\ Distinct(Tail(keys))
        /\ Elements(Tail(keys)) = Elements(keys) \ {Head(keys)}
        /\ \A a, b : Behind(Tail(keys), a, b) => Behind(keys, a, b)
    BY <1>2, TailShape DEF Placed
  <2>2. MaxSessions \in Nat /\ Len(Tail(keys)) = MaxSessions
    BY <1>2, <2>1, TracerAssumption
  <2> QED
    BY <1>2, <2>1, <2>2 DEF Placed
<1> QED
  BY <1>1, <1>2 DEF Placed

LEMMA CallsRemain ==
    ASSUME NEW n \in Nat, NEW seq \in Seq(1..n)
    PROVE  seq \in Seq(1..(n + 1))
<1>1. \A i \in 1..Len(seq) : seq[i] \in 1..(n + 1)
  OBVIOUS
<1> QED
  BY <1>1

\* One session's buffer is what the rules take it for.
Faithful(s) ==
    /\ s \notin Tracked => buffer[s] = <<>>
    /\ Increasing(buffer[s])
    /\ \A c, d \in 1..recorded :
          c < d /\ c \in InBuffer(s) /\ sessionOf[d] = s => d \in InBuffer(s)

LEMMA BuffersFaithful ==
    BuffersSound <=> Distinct(lru) /\ \A s \in Sessions : Faithful(s)
BY DEF BuffersSound, Faithful, Distinct, Increasing

LEMMA RecordKeepsSound ==
    ASSUME TracerSound, NEW t \in Threads, NEW s \in Sessions, NEW keys \in Seq(Sessions),
           NEW gone, Placed(t, s, keys, gone)
    PROVE  TracerSound'
<1> DEFINE n == recorded
           ring == Ring(Append(buffer[s], n + 1))
<1>1. TypeOK /\ n \in Nat /\ MaxRecords \in Nat
  BY TracerAssumption DEF TracerSound, TypeOK
<1>2. /\ buffer[s] \in Seq(1..n) /\ Len(buffer[s]) <= MaxRecords
      /\ \A x \in Sessions : Faithful(x)
      /\ Increasing(buffer[s])
  BY BuffersFaithful DEF TracerSound, TypeOK, Faithful
<1>3. /\ ring \in Seq(1..(n + 1)) /\ Len(ring) <= MaxRecords
      /\ Increasing(ring)
      /\ MaxRecords > 0 => n + 1 \in Elements(ring)
      /\ \A c, d \in Elements(buffer[s]) \cup {n + 1} :
            c < d /\ c \in Elements(ring) => d \in Elements(ring)
      /\ Elements(ring) \subseteq Elements(buffer[s]) \cup {n + 1}
  BY <1>1, <1>2, RingKeeps
<1> HIDE DEF ring
<1>4. /\ lru' \in Seq(Sessions) /\ Distinct(lru')
      /\ MaxSessions # NoLimit => Len(lru') <= MaxSessions
      /\ Elements(lru') = (Tracked \cup {s}) \ gone
  BY PlacedKeys
<1>5. /\ recorded' = n + 1
      /\ \A x \in Sessions :
            buffer'[x] = IF x \in gone THEN <<>> ELSE IF x = s THEN ring ELSE buffer[x]
      /\ DOMAIN buffer' = Sessions /\ buffer' = [x \in Sessions |-> buffer'[x]]
  BY DEF Placed, ring
<1>6. /\ sessionOf' \in [1..(n + 1) -> Sessions]
      /\ \A d \in 1..n : sessionOf'[d] = sessionOf[d]
      /\ sessionOf'[n + 1] = s
  <2>1. sessionOf \in Seq(Sessions) /\ Len(sessionOf) = n
    BY <1>1 DEF TypeOK
  <2>2. sessionOf' = Append(sessionOf, s)
    BY DEF Placed, NoteRecord
  <2>3. sessionOf' \in Seq(Sessions) /\ Len(sessionOf') = n + 1
    BY <1>1, <2>1, <2>2
  <2>4. \A d \in 1..n : sessionOf'[d] = sessionOf[d]
    BY <1>1, <2>1, <2>2
  <2>5. sessionOf'[n + 1] = s
    BY <1>1, <2>1, <2>2
  <2> QED
    BY <2>3, <2>4, <2>5
<1>7. ASSUME NEW x \in Sessions
      PROVE  buffer'[x] \in Seq(1..(n + 1)) /\ Len(buffer'[x]) <= MaxRecords
  <2>1. CASE x \in gone
    <3>1. buffer'[x] = <<>>
      BY <1>5, <2>1
    <3>2. <<>> \in Seq(1..(n + 1)) /\ Len(<<>>) = 0
      OBVIOUS
    <3> QED
      BY <1>1, <3>1, <3>2
  <2>2. CASE x \notin gone /\ x = s
    BY <1>3, <1>5, <2>2
  <2>3. CASE x \notin gone /\ x # s
    <3>1. buffer[x] \in Seq(1..n) /\ Len(buffer[x]) <= MaxRecords
      BY <1>1 DEF TypeOK
    <3> QED
      BY <1>1, <1>5, <2>3, <3>1, CallsRemain
  <2> QED
    BY <2>1, <2>2, <2>3
<1>8. TypeOK'
  <2>1. buffer' \in [Sessions -> Seq(1..recorded')] /\ \A x \in Sessions : Len(buffer'[x]) <= MaxRecords
    BY <1>5, <1>7
  <2>2. pc' \in [Threads -> {"idle", "recorded", "judging"}] /\ sid' \in [Threads -> Sessions \cup {NoSession}]
    BY <1>1 DEF Placed, TypeOK
  <2>3. own' \in [Threads -> 0..recorded']
    BY <1>1, <1>5 DEF Placed, TypeOK
  <2>4. seen' \in [Threads -> Seq(1..recorded')]
    <3>1. \A u \in Threads : seen[u] \in Seq(1..(n + 1))
      BY <1>1, CallsRemain DEF TypeOK
    <3> QED
      BY <1>1, <1>5, <3>1 DEF Placed, TypeOK
  <2>5. others' \in [Threads -> SUBSET Sessions]
    BY <1>1 DEF Placed, NoteRecord, TypeOK
  <2>6. pushed' \in [Threads -> Nat]
    BY <1>1, SMTT(30) DEF Placed, NoteRecord, TypeOK
  <2> QED
    BY <1>1, <1>4, <1>5, <1>6, <2>1, <2>2, <2>3, <2>4, <2>5, <2>6, SMTT(30) DEF TypeOK
<1>9. ASSUME NEW x \in Sessions PROVE Faithful(x)'
  <2>1. CASE x \in gone
    <3>1. buffer'[x] = <<>>
      BY <1>5, <2>1
    <3> QED
      BY <3>1 DEF Faithful, Increasing, InBuffer
  <2>2. CASE x \notin gone /\ x = s
    <3>1. buffer'[x] = ring /\ x \in Elements(lru')
      BY <1>4, <1>5, <2>2
    <3>2. InBuffer(x)' = Elements(ring) /\ InBuffer(x) = Elements(buffer[s])
      BY <2>2, <3>1 DEF InBuffer, Elements
    <3>3. ASSUME NEW c \in 1..(n + 1), NEW d \in 1..(n + 1),
                 c < d, c \in Elements(ring), sessionOf'[d] = s
          PROVE  d \in Elements(ring)
      <4>1. c \in Elements(buffer[s]) /\ c \in 1..n
        <5>1. c # n + 1
          BY <1>1, <3>3
        <5> QED
          BY <1>1, <1>3, <3>3, <5>1
      <4>2. CASE d = n + 1
        BY <1>3, <3>3, <4>1, <4>2
      <4>3. CASE d # n + 1
        <5>1. d \in 1..n /\ sessionOf[d] = s
          BY <1>1, <1>6, <3>3, <4>3
        <5>2. d \in Elements(buffer[s])
          BY <1>2, <2>2, <3>2, <3>3, <4>1, <5>1 DEF Faithful
        <5> QED
          BY <1>3, <3>3, <4>1, <5>2
      <4> QED
        BY <4>2, <4>3
    <3>4. x \in Tracked'
      BY <3>1 DEF Tracked, Elements
    <3> QED
      BY <1>3, <1>5, <2>2, <3>1, <3>2, <3>3, <3>4 DEF Faithful
  <2>3. CASE x \notin gone /\ x # s
    <3>1. buffer'[x] = buffer[x] /\ InBuffer(x)' = InBuffer(x)
      BY <1>5, <2>3 DEF InBuffer
    <3>2. x \notin Tracked' => x \notin Tracked
      BY <1>4, <2>3 DEF Tracked, Elements
    <3>3. ASSUME NEW c \in 1..(n + 1), NEW d \in 1..(n + 1),
                 c < d, c \in InBuffer(x), sessionOf'[d] = x
          PROVE  d \in InBuffer(x)
      <4>1. d \in 1..n /\ c \in 1..n /\ sessionOf[d] = x
        BY <1>1, <1>6, <2>3, <3>3
      <4> QED
        BY <1>2, <3>3, <4>1 DEF Faithful
    <3> QED
      BY <1>2, <1>5, <3>1, <3>2, <3>3 DEF Faithful
  <2> QED
    BY <2>1, <2>2, <2>3
<1>10. BuffersSound'
  <2>1. \A i, j \in 1..Len(lru') : lru'[i] = lru'[j] => i = j
    BY <1>4 DEF Distinct
  <2> QED
    BY <1>9, <2>1 DEF BuffersSound, Faithful, Increasing
<1> QED
  BY <1>8, <1>10 DEF TracerSound

\* The session just recorded to goes at once only if no session is kept.
LEMMA OwnStays ==
    ASSUME NEW t \in Threads, NEW s \in Sessions, NEW keys \in Seq(Sessions), NEW gone,
           Placed(t, s, keys, gone), s \in gone
    PROVE  MaxSessions # NoLimit /\ MaxSessions = 0
<1>1. /\ Head(keys) = s /\ keys # <<>> /\ Distinct(keys)
      /\ MaxSessions # NoLimit /\ Len(keys) = MaxSessions + 1
  BY DEF Placed
<1>2. \A b : ~Behind(keys, s, b)
  BY DEF Placed
<1>3. /\ Tail(keys) \in Seq(Sessions) /\ Len(Tail(keys)) = Len(keys) - 1
      /\ \A b \in Elements(Tail(keys)) : Behind(keys, Head(keys), b)
  BY <1>1, TailShape
<1>4. MaxSessions \in Nat
  BY <1>1, TracerAssumption
<1>5. Len(Tail(keys)) = MaxSessions
  BY <1>1, <1>3, <1>4
<1>6. ASSUME MaxSessions > 0 PROVE FALSE
  <2>1. 1 \in 1..Len(Tail(keys))
    BY <1>4, <1>5, <1>6
  <2>2. Tail(keys)[1] \in Elements(Tail(keys))
    BY <2>1 DEF Elements
  <2> QED
    BY <1>1, <1>2, <1>3, <2>2
<1> QED
  BY <1>1, <1>4, <1>6

\* A call just recorded is the last one of its session.
LEMMA RecorderInBetween ==
    ASSUME TracerSound, NEW t \in Threads, NEW s \in Sessions, NEW keys \in Seq(Sessions),
           NEW gone, Placed(t, s, keys, gone)
    PROVE  InBetween(t)'
<1> DEFINE n == recorded
           ring == Ring(Append(buffer[s], n + 1))
<1>1. /\ TypeOK /\ n \in Nat /\ MaxRecords \in Nat
      /\ buffer[s] \in Seq(1..n) /\ Len(buffer[s]) <= MaxRecords /\ Increasing(buffer[s])
  BY TracerAssumption DEF TracerSound, BuffersSound, TypeOK, Increasing
<1>2. /\ ring \in Seq(1..(n + 1)) /\ Increasing(ring)
      /\ MaxRecords > 0 => n + 1 \in Elements(ring)
  BY <1>1, RingKeeps
<1>3. s \notin gone => buffer'[s] = ring
  BY DEF Placed
<1> HIDE DEF ring
<1>4. sid'[t] = s /\ own'[t] = n + 1 /\ others'[t] = {} /\ pushed'[t] = 0
  BY <1>1 DEF Placed, NoteRecord, TypeOK
<1>5. \A x : ~Behind(lru', s, x)
  BY PlacedKeys
<1>6. IsFiniteSet(others'[t]) /\ Cardinality(others'[t]) = 0
  BY <1>4, FS_EmptySet
<1>7. pushed'[t] >= MaxRecords \/ Crowded(t)' \/ Kept(t)'
  <2>1. CASE MaxRecords = 0
    BY <1>4, <2>1
  <2>2. CASE MaxRecords > 0 /\ s \in gone
    BY <1>6, <2>2, OwnStays DEF Crowded
  <2>3. CASE MaxRecords > 0 /\ s \notin gone
    <3>1. PICK i \in 1..Len(ring) : ring[i] = n + 1
      BY <1>2, <2>3 DEF Elements
    <3>2. Len(ring) \in Nat /\ Len(ring) \in 1..Len(ring) /\ ring[Len(ring)] \in 1..(n + 1)
      <4>1. Len(ring) \in Nat
        BY <1>2
      <4>2. Len(ring) \in 1..Len(ring)
        BY <3>1, <4>1
      <4>3. ring[Len(ring)] \in 1..(n + 1)
        <5>1. \A k \in 1..Len(ring) : ring[k] \in 1..(n + 1)
          BY <1>1, <1>2, SMTT(30)
        <5> QED
          BY <4>2, <5>1
      <4> QED
        BY <4>1, <4>2, <4>3
    <3>3. ~(i < Len(ring))
      <4>1. i < Len(ring) => ring[i] < ring[Len(ring)]
        BY <1>2, <3>1, <3>2 DEF Increasing
      <4> QED
        BY <1>1, <3>1, <3>2, <4>1
    <3>4. Len(ring) - i <= 0
      BY <3>2, <3>3
    <3> QED
      BY <1>3, <1>4, <2>3, <3>1, <3>4 DEF Kept
  <2> QED
    BY <1>1, <2>1, <2>2, <2>3
<1> QED
  BY <1>4, <1>5, <1>6, <1>7 DEF InBetween

\* Another thread's call moves a session to the end, or pushes a call up, and
\* is noted as having done so.
LEMMA OthersInBetween ==
    ASSUME TracerInv, NEW t \in Threads, NEW s \in Sessions, NEW keys \in Seq(Sessions),
           NEW gone, Placed(t, s, keys, gone), NEW u \in Threads, u # t
    PROVE  InBetween(u)'
<1> DEFINE n == recorded
           r == sid[u]
<1>1. /\ TracerSound /\ TypeOK /\ n \in Nat /\ MaxRecords \in Nat /\ InBetween(u)
  BY TracerAssumption DEF TracerInv, TracerSound, TypeOK
<1>2. SUFFICES ASSUME pc'[u] = "recorded"
               PROVE  InBetween(u)'
  BY DEF InBetween
<1>3. pc[u] = "recorded" /\ sid'[u] = r /\ own'[u] = own[u]
  BY <1>1, <1>2 DEF Placed, TypeOK
<1>4. /\ r \in Sessions /\ IsFiniteSet(others[u])
      /\ \A x \in Sessions : Behind(lru, r, x) => x \in others[u]
      /\ pushed[u] >= MaxRecords \/ Crowded(u) \/ Kept(u)
      /\ pushed[u] \in Nat
  BY <1>1, <1>3 DEF InBetween, TypeOK
<1>5. /\ others'[u] = IF r # s THEN others[u] \cup {s} ELSE others[u]
      /\ pushed'[u] = IF r = s THEN pushed[u] + 1 ELSE pushed[u]
  BY <1>3 DEF Placed, NoteRecord, Between
<1> HIDE DEF r
<1>6. /\ IsFiniteSet(others'[u]) /\ Cardinality(others'[u]) \in Nat
      /\ Cardinality(others[u]) \in Nat /\ Cardinality(others[u]) <= Cardinality(others'[u])
  <2>1. IsFiniteSet(others'[u]) /\ others[u] \subseteq others'[u]
    BY <1>4, <1>5, FS_AddElement
  <2> QED
    BY <2>1, FS_Subset, FS_CardinalityType
<1>7. \A x \in Sessions : Behind(lru', r, x) => x \in others'[u]
  BY <1>1, <1>4, <1>5, PlacedKeys
<1>8. pushed'[u] >= MaxRecords \/ Crowded(u)' \/ Kept(u)'
  <2>1. CASE pushed[u] >= MaxRecords
    BY <1>1, <1>4, <1>5, <2>1
  <2>2. CASE Crowded(u)
    <3>1. MaxSessions \in Nat
      BY <2>2, TracerAssumption DEF Crowded
    <3> QED
      BY <1>6, <2>2, <3>1 DEF Crowded
  <2>3. CASE Kept(u)
    <3>1. PICK i \in 1..Len(buffer[r]) : buffer[r][i] = own[u] /\ Len(buffer[r]) - i <= pushed[u]
      BY <2>3 DEF Kept, r
    <3>2. buffer[r] \in Seq(1..n) /\ Len(buffer[r]) <= MaxRecords
      BY <1>1, <1>4 DEF TypeOK
    <3>3. CASE r = s /\ s \in gone
      <4>1. MaxSessions # NoLimit /\ MaxSessions = 0
        BY <3>3, OwnStays
      <4> QED
        BY <1>6, <4>1 DEF Crowded
    <3>4. CASE r = s /\ s \notin gone
      <4>1. buffer'[r] = Ring(Append(buffer[r], n + 1)) /\ pushed'[u] = pushed[u] + 1
        BY <1>5, <3>4 DEF Placed
      <4>2. \/ pushed[u] + 1 >= MaxRecords
            \/ \E k \in 1..Len(buffer'[r]) :
                  buffer'[r][k] = own[u] /\ Len(buffer'[r]) - k <= pushed[u] + 1
        <5>1. n \in Nat /\ pushed[u] \in Nat
          BY <1>1, <1>4 DEF TypeOK
        <5>2. LET ring == Ring(Append(buffer[r], n + 1)) IN
              \/ pushed[u] + 1 >= MaxRecords
              \/ \E k \in 1..Len(ring) :
                    ring[k] = buffer[r][i] /\ Len(ring) - k <= pushed[u] + 1
          BY <3>1, <3>2, <5>1, RingPushes
        <5> QED
          BY <3>1, <4>1, <5>2
      <4> QED
        BY <1>3, <4>1, <4>2 DEF Kept
    <3>5. CASE r # s /\ r \in gone
      <4>1. /\ r = Head(keys) /\ keys # <<>> /\ Distinct(keys)
            /\ MaxSessions # NoLimit /\ Len(keys) = MaxSessions + 1
            /\ \A a, b : Behind(keys, a, b) => a # s /\ (Behind(lru, a, b) \/ b = s)
        BY <3>5 DEF Placed
      <4>2. /\ Tail(keys) \in Seq(Sessions) /\ Len(Tail(keys)) = Len(keys) - 1
            /\ Distinct(Tail(keys))
            /\ \A b \in Elements(Tail(keys)) : Behind(keys, Head(keys), b)
        BY <4>1, TailShape
      <4>3. MaxSessions \in Nat /\ Len(Tail(keys)) = MaxSessions
        BY <4>1, <4>2, TracerAssumption
      <4>4. Elements(Tail(keys)) \subseteq Sessions
        BY <4>2 DEF Elements
      <4>5. Elements(Tail(keys)) \subseteq others'[u]
        BY <1>4, <1>5, <3>5, <4>1, <4>2, <4>4
      <4>6. Len(Tail(keys)) <= Cardinality(others'[u])
        BY <1>6, <4>2, <4>5, KeysCounted
      <4> QED
        BY <1>6, <4>1, <4>3, <4>6 DEF Crowded
    <3>6. CASE r # s /\ r \notin gone
      <4>1. buffer'[r] = buffer[r] /\ pushed'[u] = pushed[u]
        BY <1>4, <1>5, <3>6 DEF Placed
      <4> QED
        BY <1>3, <3>1, <4>1 DEF Kept
    <3> QED
      BY <3>3, <3>4, <3>5, <3>6
  <2> QED
    BY <1>4, <2>1, <2>2, <2>3
<1> QED
  BY <1>3, <1>4, <1>6, <1>7, <1>8 DEF InBetween

LEMMA RecordKeeps ==
    ASSUME TracerInv, NEW t \in Threads, Record(t)
    PROVE  TracerInv'
<1>1. TracerSound /\ SeesOwnCall /\ TypeOK
  BY DEF TracerInv, TracerSound
<1>2. PICK s \in Sessions, keys \in Seq(Sessions) : \E gone : Placed(t, s, keys, gone)
  BY <1>1, RecordPlaces
<1>3. PICK gone : Placed(t, s, keys, gone)
  BY <1>2
<1>4. TracerSound'
  BY <1>1, <1>3, RecordKeepsSound
<1>5. \A u \in Threads : InBetween(u)'
  BY <1>1, <1>3, RecorderInBetween, OthersInBetween
<1>6. SeesOwnCall'
  <2>1. SUFFICES ASSUME NEW u \in Threads, pc'[u] = "judging",
                        MaxSessions # NoLimit => Cardinality(others'[u]) < MaxSessions,
                        pushed'[u] < MaxRecords
                 PROVE  \E i \in 1..Len(seen'[u]) : seen'[u][i] = own'[u]
    BY DEF SeesOwnCall
  <2>2. u # t /\ pc[u] = "judging" /\ seen' = seen /\ own'[u] = own[u]
    BY <1>1, <1>3, <2>1 DEF Placed, TypeOK
  <2>3. others'[u] = others[u] /\ pushed'[u] = pushed[u]
    BY <1>3, <2>2 DEF Placed, NoteRecord, Between
  <2> QED
    BY <1>1, <2>1, <2>2, <2>3 DEF SeesOwnCall
<1> QED
  BY <1>4, <1>5, <1>6 DEF TracerInv

\* Keys may be reordered, or forgotten with their calls.
LEMMA ForgetKeepsSound ==
    ASSUME TracerSound, NEW gone,
           lru' \in Seq(Sessions), Distinct(lru'), Len(lru') <= Len(lru),
           Elements(lru') = Tracked \ gone,
           buffer' = [x \in Sessions |-> IF x \in gone THEN <<>> ELSE buffer[x]],
           UNCHANGED <<recorded, sessionOf>>
    PROVE  /\ BuffersSound'
           /\ MaxSessions # NoLimit => Len(lru') <= MaxSessions
           /\ buffer' \in [Sessions -> Seq(1..recorded')]
           /\ \A x \in Sessions : Len(buffer'[x]) <= MaxRecords
<1>1. TypeOK /\ MaxRecords \in Nat /\ \A x \in Sessions : Faithful(x)
  BY BuffersFaithful, TracerAssumption DEF TracerSound
<1>2. MaxSessions # NoLimit => Len(lru') <= MaxSessions
  <2>1. Len(lru) \in Nat /\ Len(lru') \in Nat /\ (MaxSessions # NoLimit => MaxSessions \in Nat)
    BY <1>1, TracerAssumption DEF TypeOK
  <2> QED
    BY <1>1, <2>1 DEF TypeOK
<1>3. ASSUME NEW x \in Sessions, x \in gone
      PROVE  /\ Faithful(x)'
             /\ buffer'[x] \in Seq(1..recorded') /\ Len(buffer'[x]) <= MaxRecords
  <2>1. buffer'[x] = <<>>
    BY <1>3
  <2>2. <<>> \in Seq(1..recorded') /\ Len(<<>>) = 0
    OBVIOUS
  <2>3. Faithful(x)'
    BY <2>1 DEF Faithful, Increasing, InBuffer
  <2>4. Len(buffer'[x]) <= MaxRecords
    BY <1>1, <2>1, <2>2
  <2>5. buffer'[x] \in Seq(1..recorded')
    BY <2>1, <2>2, Zenon
  <2> QED
    BY <2>3, <2>4, <2>5
<1>4. ASSUME NEW x \in Sessions, x \notin gone
      PROVE  /\ Faithful(x)'
             /\ buffer'[x] \in Seq(1..recorded') /\ Len(buffer'[x]) <= MaxRecords
  <2>1. buffer'[x] = buffer[x] /\ InBuffer(x)' = InBuffer(x)
    BY <1>4 DEF InBuffer
  <2>2. x \notin Tracked' => x \notin Tracked
    BY <1>4 DEF Tracked, Elements
  <2>3. Faithful(x)'
    BY <1>1, <2>1, <2>2 DEF Faithful
  <2> QED
    BY <1>1, <2>1, <2>3 DEF TypeOK
<1>5. BuffersSound'
  <2>1. \A i, j \in 1..Len(lru') : lru'[i] = lru'[j] => i = j
    BY DEF Distinct
  <2> QED
    BY <1>3, <1>4, <2>1 DEF BuffersSound, Faithful, Increasing
<1> QED
  BY <1>2, <1>3, <1>4, <1>5

LEMMA ReadKeeps ==
    ASSUME TracerInv, NEW t \in Threads, ReadSession(t)
    PROVE  TracerInv'
<1> DEFINE s == sid[t]
<1>1. /\ TracerSound /\ SeesOwnCall /\ TypeOK /\ \A u \in Threads : InBetween(u)
      /\ lru \in Seq(Sessions) /\ Distinct(lru) /\ Elements(lru) = Tracked
      /\ pc[t] = "recorded" /\ s \in Sessions
  BY DEF TracerInv, TracerSound, BuffersSound, TypeOK, InBetween, Distinct, Elements, Tracked,
         ReadSession
<1>2. /\ pc' = [pc EXCEPT ![t] = "judging"] /\ seen' = [seen EXCEPT ![t] = buffer[s]]
      /\ lru' = IF s \in Tracked THEN MoveToEnd(s) ELSE lru
      /\ NoteUse(t, s)
      /\ UNCHANGED <<buffer, recorded, sid, own, sessionOf, pushed>>
  BY DEF ReadSession
<1> HIDE DEF s
<1>3. /\ lru' \in Seq(Sessions) /\ Distinct(lru') /\ Len(lru') = Len(lru)
      /\ Elements(lru') = Tracked
      /\ \A a, b : Behind(lru', a, b) => Behind(lru, a, b) \/ (a # s /\ b = s)
  <2>1. CASE s \in Tracked
    BY <1>1, <1>2, <2>1, MoveToEndShape
  <2>2. CASE s \notin Tracked
    BY <1>1, <1>2, <2>2
  <2> QED
    BY <2>1, <2>2
<1>4. TracerSound'
  <2> DEFINE gone == {}
  <2>1. buffer' = [x \in Sessions |-> IF x \in gone THEN <<>> ELSE buffer[x]]
    BY <1>1, <1>2 DEF TypeOK
  <2>2. Len(lru') <= Len(lru) /\ Elements(lru') = Tracked \ gone
    BY <1>1, <1>3
  <2> HIDE DEF gone
  <2>3. /\ BuffersSound'
        /\ MaxSessions # NoLimit => Len(lru') <= MaxSessions
    <3>1. UNCHANGED <<recorded, sessionOf>>
      BY <1>2
    <3>2. TracerSound /\ lru' \in Seq(Sessions) /\ Distinct(lru')
      BY <1>1, <1>3
    <3> QED
      BY <2>1, <2>2, <3>1, <3>2, ForgetKeepsSound
  <2>4. /\ pc' \in [Threads -> {"idle", "recorded", "judging"}]
        /\ seen' \in [Threads -> Seq(1..recorded')]
        /\ others' \in [Threads -> SUBSET Sessions]
    BY <1>1, <1>2 DEF TypeOK, NoteUse
  <2> QED
    BY <1>1, <1>2, <1>3, <2>3, <2>4 DEF TracerSound, TypeOK
<1>5. ASSUME NEW u \in Threads, pc'[u] = "recorded" PROVE InBetween(u)'
  <2>1. u # t /\ pc[u] = "recorded"
    BY <1>1, <1>2, <1>5 DEF TypeOK
  <2>2. /\ sid[u] \in Sessions /\ IsFiniteSet(others[u])
        /\ \A x \in Sessions : Behind(lru, sid[u], x) => x \in others[u]
        /\ pushed[u] >= MaxRecords \/ Crowded(u) \/ Kept(u)
    BY <1>1, <2>1 DEF InBetween
  <2>3. others'[u] = IF sid[u] # s THEN others[u] \cup {s} ELSE others[u]
    BY <1>2, <2>1 DEF NoteUse, Between
  <2>4. \A x \in Sessions : Behind(lru', sid[u], x) => x \in others'[u]
    BY <1>3, <2>2, <2>3
  <2>5. /\ IsFiniteSet(others'[u]) /\ Cardinality(others'[u]) \in Nat
        /\ Cardinality(others[u]) \in Nat /\ Cardinality(others[u]) <= Cardinality(others'[u])
    <3>1. IsFiniteSet(others'[u]) /\ others[u] \subseteq others'[u]
      BY <2>2, <2>3, FS_AddElement
    <3> QED
      BY <3>1, FS_Subset, FS_CardinalityType
  <2>6. Crowded(u) => Crowded(u)'
    BY <2>5, TracerAssumption DEF Crowded
  <2>7. Kept(u) => Kept(u)'
    BY <1>2 DEF Kept
  <2> QED
    BY <1>2, <2>2, <2>4, <2>5, <2>6, <2>7 DEF InBetween
<1>6. SeesOwnCall'
  <2>1. SUFFICES ASSUME NEW u \in Threads, pc'[u] = "judging",
                        MaxSessions # NoLimit => Cardinality(others'[u]) < MaxSessions,
                        pushed'[u] < MaxRecords
                 PROVE  \E i \in 1..Len(seen'[u]) : seen'[u][i] = own'[u]
    BY DEF SeesOwnCall
  <2>2. CASE u = t
    <3>1. others'[t] = others[t] /\ seen'[t] = buffer[s]
      BY <1>1, <1>2 DEF NoteUse, Between, TypeOK
    <3>2. ~Crowded(t)
      <4>1. ASSUME Crowded(t) PROVE FALSE
        <5>1. Cardinality(others[t]) \in Nat /\ MaxSessions \in Nat
          BY <1>1, <4>1, TracerAssumption, FS_CardinalityType DEF InBetween, Crowded
        <5> QED
          BY <2>1, <2>2, <3>1, <4>1, <5>1 DEF Crowded
      <4> QED
        BY <4>1
    <3>3. ~(pushed[t] >= MaxRecords)
      <4>1. pushed[t] \in Nat /\ MaxRecords \in Nat
        BY <1>1, TracerAssumption DEF TypeOK
      <4> QED
        BY <1>2, <2>1, <2>2, <4>1
    <3>4. Kept(t)
      BY <1>1, <3>2, <3>3 DEF InBetween
    <3> QED
      BY <1>2, <2>2, <3>1, <3>4 DEF Kept, s
  <2>3. CASE u # t
    <3>1. /\ pc[u] = "judging" /\ seen'[u] = seen[u] /\ own'[u] = own[u]
          /\ pushed'[u] = pushed[u]
      BY <1>1, <1>2, <2>1, <2>3 DEF TypeOK
    <3>2. others'[u] = others[u]
      BY <1>2, <3>1 DEF NoteUse, Between
    <3> QED
      BY <1>1, <2>1, <3>1, <3>2 DEF SeesOwnCall
  <2> QED
    BY <2>2, <2>3
<1> QED
  BY <1>4, <1>5, <1>6 DEF TracerInv, InBetween

LEMMA ReturnKeeps ==
    ASSUME TracerInv, NEW t \in Threads, Return(t)
    PROVE  TracerInv'
<1>1. TracerSound /\ SeesOwnCall /\ TypeOK /\ \A u \in Threads : InBetween(u)
  BY DEF TracerInv, TracerSound
<1>2. /\ pc' = [pc EXCEPT ![t] = "idle"] /\ sid' = [sid EXCEPT ![t] = NoSession]
      /\ own' = [own EXCEPT ![t] = 0] /\ seen' = [seen EXCEPT ![t] = <<>>]
      /\ others' = [others EXCEPT ![t] = {}] /\ pushed' = [pushed EXCEPT ![t] = 0]
      /\ UNCHANGED <<lru, buffer, recorded, sessionOf>>
  BY DEF Return
<1>3. TracerSound'
  <2>1. /\ own' \in [Threads -> 0..recorded'] /\ seen' \in [Threads -> Seq(1..recorded')]
        /\ pc' \in [Threads -> {"idle", "recorded", "judging"}]
        /\ sid' \in [Threads -> Sessions \cup {NoSession}]
        /\ others' \in [Threads -> SUBSET Sessions] /\ pushed' \in [Threads -> Nat]
    BY <1>1, <1>2 DEF TypeOK
  <2>2. TypeOK'
    BY <1>1, <1>2, <2>1 DEF TypeOK
  <2>3. BuffersSound'
    <3>1. BuffersSound /\ UNCHANGED <<lru, buffer, recorded, sessionOf>>
      BY <1>1, <1>2 DEF TracerSound
    <3> QED
      BY <3>1 DEF BuffersSound, InBuffer, Tracked
  <2> QED
    BY <2>2, <2>3 DEF TracerSound
<1>4. ASSUME NEW u \in Threads, u # t
      PROVE  /\ pc'[u] = pc[u] /\ sid'[u] = sid[u] /\ own'[u] = own[u] /\ seen'[u] = seen[u]
             /\ others'[u] = others[u] /\ pushed'[u] = pushed[u]
  BY <1>1, <1>2, <1>4 DEF TypeOK
<1>5. pc'[t] = "idle"
  BY <1>1, <1>2 DEF TypeOK
<1>6. ASSUME NEW u \in Threads PROVE InBetween(u)'
  BY <1>1, <1>2, <1>4, <1>5 DEF InBetween, Crowded, Kept
<1>7. SeesOwnCall'
  BY <1>1, <1>2, <1>4, <1>5 DEF SeesOwnCall
<1> QED
  BY <1>3, <1>6, <1>7 DEF TracerInv

LEMMA ClearKeeps ==
    ASSUME TracerInv, Clear
    PROVE  TracerInv'
<1>1. /\ TracerSound /\ SeesOwnCall /\ TypeOK /\ \A u \in Threads : InBetween(u)
      /\ lru \in Seq(Sessions) /\ Distinct(lru) /\ Elements(lru) = Tracked
  BY DEF TracerInv, TracerSound, BuffersSound, TypeOK, Distinct, Elements, Tracked
<1>2. UNCHANGED <<recorded, threadVars, sessionOf, others>>
  BY DEF Clear
<1>3. PICK gone \in SUBSET Tracked :
         /\ lru' \in Seq(Sessions) /\ Distinct(lru') /\ Len(lru') <= Len(lru)
         /\ Elements(lru') = Tracked \ gone
         /\ \A a, b : Behind(lru', a, b) => Behind(lru, a, b)
         /\ Forget(gone)
  <2>1. CASE \E s \in Tracked : lru' = Without(s) /\ Forget({s})
    <3>1. PICK s \in Tracked : lru' = Without(s) /\ Forget({s})
      BY <2>1
    <3>2. /\ lru' \in Seq(Sessions) /\ Len(lru') = Len(lru) - 1
          /\ Distinct(lru') /\ Elements(lru') = Tracked \ {s}
          /\ \A a, b : Behind(lru', a, b) => Behind(lru, a, b)
      BY <1>1, <3>1, WithoutShape
    <3>3. Len(lru') <= Len(lru)
      BY <1>1, <3>2
    <3> QED
      BY <3>1, <3>2, <3>3
  <2>2. CASE lru' = <<>> /\ Forget(Tracked)
    <3>1. /\ lru' \in Seq(Sessions) /\ Distinct(lru') /\ Len(lru') <= Len(lru)
      BY <1>1, <2>2 DEF Distinct
    <3>2. Elements(lru') = Tracked \ Tracked
      BY <2>2 DEF Elements
    <3>3. \A a, b : Behind(lru', a, b) => Behind(lru, a, b)
      BY <2>2 DEF Behind
    <3> QED
      BY <2>2, <3>1, <3>2, <3>3
  <2> QED
    BY <2>1, <2>2 DEF Clear
<1>4. /\ buffer' = [x \in Sessions |-> IF x \in gone THEN <<>> ELSE buffer[x]]
      /\ \A u \in Threads :
            pushed'[u] = IF pc[u] = "recorded" /\ sid[u] \in gone
                         THEN MaxRecords ELSE pushed[u]
      /\ MaxRecords \in Nat
  BY <1>3, TracerAssumption DEF Forget
<1>5. TracerSound'
  <2>1. UNCHANGED <<recorded, sessionOf>>
    BY <1>2
  <2>2. /\ BuffersSound'
        /\ MaxSessions # NoLimit => Len(lru') <= MaxSessions
        /\ buffer' \in [Sessions -> Seq(1..recorded')]
        /\ \A x \in Sessions : Len(buffer'[x]) <= MaxRecords
    BY <1>1, <1>3, <1>4, <2>1, ForgetKeepsSound
  <2>3. pushed' \in [Threads -> Nat]
    BY <1>1, <1>3, <1>4 DEF Forget, TypeOK
  <2> QED
    BY <1>1, <1>2, <1>3, <2>2, <2>3 DEF TracerSound, TypeOK
<1>6. ASSUME NEW u \in Threads PROVE InBetween(u)'
  <2>1. SUFFICES ASSUME pc[u] = "recorded" PROVE InBetween(u)'
    BY <1>2 DEF InBetween
  <2>2. /\ sid[u] \in Sessions /\ IsFiniteSet(others[u])
        /\ \A x \in Sessions : Behind(lru, sid[u], x) => x \in others[u]
        /\ pushed[u] >= MaxRecords \/ Crowded(u) \/ Kept(u)
    BY <1>1, <2>1 DEF InBetween
  <2>3. \A x \in Sessions : Behind(lru', sid'[u], x) => x \in others'[u]
    BY <1>2, <1>3, <2>2
  <2>4. CASE sid[u] \in gone
    <3>1. pushed'[u] >= MaxRecords
      BY <1>4, <2>1, <2>4
    <3> QED
      BY <1>2, <2>2, <2>3, <3>1 DEF InBetween
  <2>5. CASE sid[u] \notin gone
    <3>1. buffer'[sid[u]] = buffer[sid[u]] /\ pushed'[u] = pushed[u]
      BY <1>4, <2>2, <2>5
    <3>2. (Crowded(u) => Crowded(u)') /\ (Kept(u) => Kept(u)')
      BY <1>2, <3>1 DEF Crowded, Kept
    <3> QED
      BY <1>2, <2>2, <2>3, <3>1, <3>2 DEF InBetween
  <2> QED
    BY <2>4, <2>5
<1>7. SeesOwnCall'
  <2>1. \A u \in Threads : pc[u] = "judging" => pushed'[u] = pushed[u]
    BY <1>4
  <2> QED
    BY <1>1, <1>2, <2>1 DEF SeesOwnCall
<1> QED
  BY <1>5, <1>6, <1>7 DEF TracerInv

LEMMA TracerStarts == Init => TracerInv
<1>1. SUFFICES ASSUME Init PROVE TracerInv
  OBVIOUS
<1>2. TypeOK
  <2>1. MaxRecords \in Nat /\ (MaxSessions # NoLimit => MaxSessions \in Nat)
    BY TracerAssumption
  <2>2. <<>> \in Seq(Sessions) /\ <<>> \in Seq(1..0) /\ Len(<<>>) = 0
    OBVIOUS
  <2>3. sessionOf \in [1..recorded -> Sessions]
    BY <1>1 DEF Init
  <2> QED
    BY <1>1, <2>1, <2>2, <2>3 DEF Init, TypeOK
<1>3. BuffersSound
  BY <1>1 DEF Init, BuffersSound, InBuffer, Tracked
<1>4. SeesOwnCall /\ \A u \in Threads : InBetween(u)
  BY <1>1 DEF Init, SeesOwnCall, InBetween
<1> QED
  BY <1>2, <1>3, <1>4 DEF TracerInv, TracerSound

LEMMA TracerSteps == TracerInv /\ [Next]_vars => TracerInv'
<1>1. SUFFICES ASSUME TracerInv, [Next]_vars PROVE TracerInv'
  OBVIOUS
<1>2. CASE Clear
  BY <1>1, <1>2, ClearKeeps
<1>3. ASSUME NEW t \in Threads, Record(t) PROVE TracerInv'
  BY <1>1, <1>3, RecordKeeps
<1>4. ASSUME NEW t \in Threads, ReadSession(t) PROVE TracerInv'
  BY <1>1, <1>4, ReadKeeps
<1>5. ASSUME NEW t \in Threads, Return(t) PROVE TracerInv'
  BY <1>1, <1>5, ReturnKeeps
<1>6. CASE UNCHANGED vars
  BY <1>1, <1>6 DEF vars, TracerInv, TracerSound, TypeOK, BuffersSound, InBuffer, Tracked,
                    SeesOwnCall, InBetween, Crowded, Kept
<1> QED
  BY <1>1, <1>2, <1>3, <1>4, <1>5, <1>6 DEF Next

\* Every step of a call's way into the tracer is a step of the tracer, or none.
LEMMA SessionsUseTheTracer == SSpec => Spec
<1>1. SInit => Init
  BY DEF SInit
<1>2. [SNext]_<<vars, sessionVars>> => [Next]_vars
  BY DEF SNext, OpenSession, Elsewhere, Arrive, SRecord, Next, vars, sessionVars
<1> QED
  BY <1>1, <1>2, PTL DEF SSpec, Spec

LEMMA TracerInvariant == Spec => []TracerInv
BY TracerStarts, TracerSteps, PTL DEF Spec

(***************************************************************************)
(* The tracer as a whole (Tracer.record, session and clear): never more    *)
(* than max_sessions sessions or max_records_per_session calls, a session  *)
(* it let go keeps nothing, and a buffer is an unbroken run of its         *)
(* session's calls up to the latest, in the order they were recorded, for  *)
(* any number of threads that record, read and clear at once.              *)
(***************************************************************************)
THEOREM BuffersStaySound == SSpec => []TracerSound
<1>1. TracerInv => TracerSound
  BY DEF TracerInv
<1> QED
  BY <1>1, SessionsUseTheTracer, TracerInvariant, PTL

(***************************************************************************)
(* record_call records its call and reads the session back in two critical *)
(* sections.  What the rules judge holds the call unless, in between,      *)
(* max_sessions other sessions were used, the session was cleared, or      *)
(* max_records_per_session calls were recorded to it.                      *)
(***************************************************************************)
THEOREM RulesSeeTheirCall == SSpec => []SeesOwnCall
<1>1. TracerInv => SeesOwnCall
  BY DEF TracerInv
<1> QED
  BY <1>1, SessionsUseTheTracer, TracerInvariant, PTL

(***************************************************************************)
(* The tag registry.  Tags survive in it as sessions do in the tracer:     *)
(* behind a session's entry are only sessions inserted after it, so that   *)
(* its entry is the first, and goes, only when there are MaxTagged of them.*)
(***************************************************************************)
CleanTags == {{}} \cup (TagSets \ RefusedTags)
Entries == [session : Sessions, tags : CleanTags]
Keys(entries) == [i \in 1..Len(entries) |-> entries[i].session]

\* The entries are what the sessions were given, in the order of insertion.
Ordered(entries, was, after) ==
    /\ entries \in Seq(Entries)
    /\ Distinct(Keys(entries))
    /\ \A i \in 1..Len(entries) : entries[i].tags = was[entries[i].session]
    /\ \A a, b : Behind(Keys(entries), a, b) => b \in after[a]

\* A session that has lost its entry has MaxTagged sessions after it.
Accounted(entries, was, after) ==
    \A s \in Sessions :
        was[s] # {} =>
            \/ s \in Elements(Keys(entries))
            \/ MaxTagged # NoLimit /\ Cardinality(after[s]) >= MaxTagged

RegistryInv ==
    /\ Ordered(registry, given, newer)
    /\ Accounted(registry, given, newer)
    /\ MaxTagged # NoLimit => Len(registry) <= MaxTagged
    /\ given \in [Sessions -> CleanTags]
    /\ newer \in [Sessions -> SUBSET Sessions]
    /\ \A s \in Sessions : IsFiniteSet(newer[s])
    /\ handles \subseteq Entries

LEMMA SameSequence ==
    ASSUME NEW S, NEW p \in Seq(S), NEW q \in Seq(S), Len(p) = Len(q),
           \A i \in 1..Len(p) : p[i] = q[i]
    PROVE  p = q
<1>1. p \in [1..Len(p) -> S] /\ q \in [1..Len(p) -> S]
  OBVIOUS
<1> QED
  BY <1>1

LEMMA KeysShape ==
    ASSUME NEW entries \in Seq(Entries)
    PROVE  /\ Keys(entries) \in Seq(Sessions) /\ Len(Keys(entries)) = Len(entries)
           /\ \A i \in 1..Len(entries) :
                 Keys(entries)[i] = entries[i].session /\ entries[i] \in Entries
<1>1. Len(entries) \in Nat /\ \A i \in 1..Len(entries) : entries[i] \in Entries
  OBVIOUS
<1>2. \A i \in 1..Len(entries) : entries[i].session \in Sessions
  BY <1>1 DEF Entries
<1>3. Keys(entries) \in [1..Len(entries) -> Sessions]
  BY <1>2 DEF Keys
<1>4. \A i \in 1..Len(entries) : Keys(entries)[i] = entries[i].session
  BY DEF Keys
<1> QED
  BY <1>1, <1>3, <1>4

LEMMA RegisteredKeys ==
    ASSUME registry \in Seq(Entries)
    PROVE  Registered = Elements(Keys(registry))
<1>1. Len(Keys(registry)) = Len(registry) /\ DOMAIN registry = 1..Len(registry)
  BY KeysShape
<1>2. \A i \in 1..Len(registry) : Keys(registry)[i] = registry[i].session
  BY DEF Keys
<1> QED
  BY <1>1, <1>2 DEF Registered, Elements

\* What the registry gives a call.
LEMMA TagsFound ==
    ASSUME Ordered(registry, given, newer), NEW s
    PROVE  /\ s \in Registered => TagsOf(s) = given[s]
           /\ s \notin Registered => TagsOf(s) = {}
<1>1. /\ registry \in Seq(Entries) /\ Distinct(Keys(registry))
      /\ Len(Keys(registry)) = Len(registry) /\ DOMAIN registry = 1..Len(registry)
      /\ \A i \in 1..Len(registry) : Keys(registry)[i] = registry[i].session
      /\ \A i \in 1..Len(registry) : registry[i].tags = given[registry[i].session]
  BY KeysShape DEF Ordered, Keys
<1>2. CASE s \in Registered
  <2>1. PICK i \in 1..Len(registry) : registry[i].session = s
    BY <1>1, <1>2 DEF Registered
  <2>2. {j \in DOMAIN registry : registry[j].session = s} = {i}
    BY <1>1, <2>1 DEF Distinct
  <2>3. TagsOf(s) = UNION {registry[i].tags}
    BY <2>2 DEF TagsOf
  <2> QED
    BY <1>1, <1>2, <2>1, <2>3
<1>3. CASE s \notin Registered
  <2>1. {j \in DOMAIN registry : registry[j].session = s} = {}
    BY <1>3 DEF Registered
  <2> QED
    BY <1>3, <2>1 DEF TagsOf
<1> QED
  BY <1>2, <1>3

\* Tags given anew keep the session's place.
LEMMA Retagged ==
    ASSUME RegistryInv, NEW s \in Registered, NEW tags \in CleanTags \ {{}},
           registry' = Pruned(Assign(s, tags)),
           given' = [given EXCEPT ![s] = tags], newer' = newer
    PROVE  /\ Ordered(registry', given', newer') /\ Accounted(registry', given', newer')
           /\ MaxTagged # NoLimit => Len(registry') <= MaxTagged
<1> DEFINE n == Len(registry)
<1>1. /\ registry \in Seq(Entries) /\ n \in Nat /\ DOMAIN registry = 1..n
      /\ Distinct(Keys(registry))
      /\ \A i \in 1..n : registry[i] \in Entries /\ registry[i].tags = given[registry[i].session]
      /\ \A a, b : Behind(Keys(registry), a, b) => b \in newer[a]
      /\ s \in Sessions
  <2>1. registry \in Seq(Entries) /\ DOMAIN registry = 1..n /\ n \in Nat
    BY DEF RegistryInv, Ordered
  <2>2. \A i \in 1..n : registry[i] \in Entries
    BY <2>1
  <2>3. s \in Sessions
    BY <2>1, <2>2 DEF Registered, Entries
  <2> QED
    BY <2>1, <2>2, <2>3 DEF RegistryInv, Ordered
<1>2. PICK e : e = [i \in 1..n |->
                       IF registry[i].session = s THEN Call(s, tags) ELSE registry[i]]
  OBVIOUS
<1>3. Assign(s, tags) = e
  BY <1>1, <1>2 DEF Assign
<1>4. \A i \in 1..n : e[i] \in Entries /\ e[i].session = registry[i].session
  BY <1>1, <1>2 DEF Call, Entries
<1>5. e \in Seq(Entries) /\ Len(e) = n
  <2>1. e \in [1..n -> Entries]
    BY <1>2, <1>4
  <2> QED
    BY <1>1, <2>1
<1>6. Keys(e) = Keys(registry)
  BY <1>4, <1>5 DEF Keys
<1>7. registry' = e /\ (MaxTagged # NoLimit => Len(e) <= MaxTagged)
  BY <1>3, <1>5 DEF Pruned, RegistryInv
<1>8. \A i \in 1..n : e[i].tags = given'[e[i].session]
  <2>1. SUFFICES ASSUME NEW i \in 1..n PROVE e[i].tags = given'[e[i].session]
    OBVIOUS
  <2>2. given \in [Sessions -> CleanTags] /\ registry[i].session \in Sessions
    BY <1>1 DEF RegistryInv, Entries
  <2>3. CASE registry[i].session = s
    BY <1>2, <2>2, <2>3 DEF Call
  <2>4. CASE registry[i].session # s
    BY <1>1, <1>2, <2>2, <2>4
  <2> QED
    BY <2>3, <2>4
<1>9. Ordered(registry', given', newer')
  BY <1>1, <1>5, <1>6, <1>7, <1>8 DEF Ordered
<1>10. Accounted(registry', given', newer')
  <2>1. s \in Elements(Keys(registry'))
    BY <1>1, <1>6, <1>7, RegisteredKeys
  <2>2. \A x \in Sessions : x # s => given'[x] = given[x]
    BY DEF RegistryInv
  <2> QED
    BY <1>6, <1>7, <2>1, <2>2 DEF RegistryInv, Accounted
<1> QED
  BY <1>7, <1>9, <1>10

\* A new session goes last, and the first one goes if there is one too many.
LEMMA TaggedAnew ==
    ASSUME RegistryInv, NEW s \in Sessions \ Registered, NEW tags \in CleanTags \ {{}},
           registry' = Pruned(Assign(s, tags)),
           given' = [given EXCEPT ![s] = tags],
           newer' = [x \in Sessions |-> IF x = s THEN {} ELSE newer[x] \cup {s}]
    PROVE  /\ Ordered(registry', given', newer') /\ Accounted(registry', given', newer')
           /\ MaxTagged # NoLimit => Len(registry') <= MaxTagged
           /\ \A x \in Sessions : IsFiniteSet(newer'[x])
<1> DEFINE n == Len(registry)
           K == Keys(registry)
<1>1. /\ registry \in Seq(Entries) /\ n \in Nat /\ K \in Seq(Sessions) /\ Len(K) = n
      /\ Distinct(K) /\ Registered = Elements(K)
      /\ \A i \in 1..n : registry[i] \in Entries /\ registry[i].tags = given[registry[i].session]
      /\ \A a, b : Behind(K, a, b) => b \in newer[a]
      /\ MaxTagged # NoLimit => n <= MaxTagged /\ MaxTagged \in Nat
  BY RegisteredKeys, KeysShape, SessionsAssumption DEF RegistryInv, Ordered
<1>2. PICK e : e = Append(registry, Call(s, tags))
  OBVIOUS
<1>3. Assign(s, tags) = e
  BY <1>2 DEF Assign
<1>4. Call(s, tags) \in Entries
  BY DEF Call, Entries
<1>5. /\ e \in Seq(Entries) /\ Len(e) = n + 1
      /\ \A i \in 1..(n + 1) : e[i] = IF i = n + 1 THEN Call(s, tags) ELSE registry[i]
  BY <1>1, <1>2, <1>4
<1>6. Keys(e) = Append(K, s)
  <2>1. PICK more : more = Append(K, s)
    OBVIOUS
  <2>2. /\ more \in Seq(Sessions) /\ Len(more) = n + 1
        /\ \A i \in 1..(n + 1) : more[i] = IF i = n + 1 THEN s ELSE K[i]
    BY <1>1, <2>1
  <2>3. ASSUME NEW i \in 1..(n + 1) PROVE Keys(e)[i] = more[i]
    <3>1. Keys(e)[i] = e[i].session
      BY <1>5, KeysShape
    <3>2. CASE i = n + 1
      BY <1>5, <2>2, <3>1, <3>2 DEF Call
    <3>3. CASE i # n + 1
      <4>1. i \in 1..n
        BY <1>1, <3>3
      <4> QED
        BY <1>1, <1>5, <2>2, <3>1, <3>3, <4>1, KeysShape
    <3> QED
      BY <3>2, <3>3
  <2>4. Keys(e) \in Seq(Sessions) /\ Len(Keys(e)) = n + 1
    BY <1>5, KeysShape
  <2> QED
    BY <2>1, <2>2, <2>3, <2>4, SameSequence
<1> HIDE DEF K
<1>7. PICK k : k = Keys(e)
  OBVIOUS
<1>8. /\ k \in Seq(Sessions) /\ Len(k) = n + 1 /\ Distinct(k)
      /\ Elements(k) = Registered \cup {s}
      /\ \A a, b : Behind(k, a, b) => a # s /\ (Behind(K, a, b) \/ b = s)
  BY <1>1, <1>6, <1>7, AppendShape
<1>9. /\ \A x \in Sessions : IsFiniteSet(newer'[x])
      /\ \A x \in Sessions : x # s => newer'[x] = newer[x] \cup {s}
  BY FS_EmptySet, FS_AddElement DEF RegistryInv
<1>10. \A a, b : Behind(k, a, b) => b \in newer'[a]
  <2>1. SUFFICES ASSUME NEW a, NEW b, Behind(k, a, b) PROVE b \in newer'[a]
    OBVIOUS
  <2>2. a \in Sessions /\ a # s
    <3>1. a # s
      BY <1>8, <2>1
    <3>2. PICK i \in 1..Len(k) : k[i] = a
      BY <2>1 DEF Behind
    <3> QED
      BY <1>8, <3>1, <3>2
  <2>3. Behind(K, a, b) \/ b = s
    BY <1>8, <2>1
  <2>4. newer'[a] = newer[a] \cup {s}
    BY <1>9, <2>2
  <2>5. CASE Behind(K, a, b)
    <3>1. b \in newer[a]
      BY <1>1, <2>5
    <3> QED
      BY <2>4, <3>1
  <2> QED
    BY <2>3, <2>4, <2>5
<1>11. \A i \in 1..(n + 1) : e[i].tags = given'[e[i].session]
  <2>1. SUFFICES ASSUME NEW i \in 1..(n + 1) PROVE e[i].tags = given'[e[i].session]
    OBVIOUS
  <2>2. given \in [Sessions -> CleanTags]
    BY DEF RegistryInv
  <2>3. CASE i = n + 1
    BY <1>5, <2>2, <2>3 DEF Call
  <2>4. CASE i # n + 1
    <3>1. i \in 1..n /\ e[i] = registry[i]
      BY <1>1, <1>5, <2>4
    <3>2. registry[i].session \in Sessions /\ registry[i].session \in Registered
      BY <1>1, <3>1 DEF Entries, Registered
    <3> QED
      BY <1>1, <2>2, <3>1, <3>2
  <2> QED
    BY <2>3, <2>4
<1>12. \A x \in Sessions : x # s => given'[x] = given[x]
  BY DEF RegistryInv
<1>13. ASSUME NEW x \in Sessions, x # s, MaxTagged # NoLimit,
              Cardinality(newer[x]) >= MaxTagged
       PROVE  Cardinality(newer'[x]) >= MaxTagged
  <2>1. newer[x] \subseteq newer'[x] /\ IsFiniteSet(newer'[x]) /\ IsFiniteSet(newer[x])
    BY <1>9, <1>13 DEF RegistryInv
  <2>2. /\ Cardinality(newer[x]) <= Cardinality(newer'[x])
        /\ Cardinality(newer[x]) \in Nat /\ Cardinality(newer'[x]) \in Nat
    BY <2>1, FS_Subset, FS_CardinalityType
  <2> QED
    BY <1>1, <1>13, <2>2
<1>14. CASE MaxTagged = NoLimit \/ n + 1 <= MaxTagged
  <2>1. registry' = e /\ Keys(registry') = k
    BY <1>3, <1>5, <1>7, <1>14 DEF Pruned
  <2>2. Ordered(registry', given', newer')
    BY <1>5, <1>7, <1>8, <1>10, <1>11, <2>1 DEF Ordered
  <2>3. Accounted(registry', given', newer')
    <3>1. SUFFICES ASSUME NEW x \in Sessions, given'[x] # {}, x \notin Elements(k)
                   PROVE  MaxTagged # NoLimit /\ Cardinality(newer'[x]) >= MaxTagged
      BY <2>1 DEF Accounted
    <3>2. x # s /\ x \notin Registered
      BY <1>8, <3>1
    <3>3. MaxTagged # NoLimit /\ Cardinality(newer[x]) >= MaxTagged
      BY <1>1, <1>12, <3>1, <3>2 DEF RegistryInv, Accounted, K
    <3> QED
      BY <1>13, <3>2, <3>3
  <2> QED
    BY <1>5, <1>9, <1>14, <2>1, <2>2, <2>3
<1>15. CASE MaxTagged # NoLimit /\ ~(n + 1 <= MaxTagged)
  <2>1. n = MaxTagged /\ MaxTagged \in Nat
    BY <1>1, <1>15
  <2>2. /\ registry' \in Seq(Entries) /\ Len(registry') = n
        /\ \A i \in 1..n : registry'[i] = e[i + 1] /\ i + 1 \in 1..(n + 1)
    <3>1. registry' = SubSeq(e, 2, n + 1)
      BY <1>1, <1>3, <1>5, <1>15, <2>1 DEF Pruned
    <3> QED
      BY <1>1, <1>5, <3>1
  <2>3. Keys(registry') = Tail(k)
    <3>1. PICK rest : rest = Tail(k)
      OBVIOUS
    <3>2. /\ rest \in Seq(Sessions) /\ Len(rest) = n
          /\ \A i \in 1..n : rest[i] = k[i + 1]
      BY <1>1, <1>8, <3>1
    <3>3. \A i \in 1..n : k[i + 1] = e[i + 1].session
      BY <1>5, <1>7, <2>2, KeysShape
    <3>4. /\ Keys(registry') \in Seq(Sessions) /\ Len(Keys(registry')) = n
          /\ \A i \in 1..n : Keys(registry')[i] = registry'[i].session
      BY <2>2, KeysShape
    <3>5. \A i \in 1..Len(Keys(registry')) : Keys(registry')[i] = rest[i]
      <4>1. SUFFICES ASSUME NEW i \in 1..n PROVE Keys(registry')[i] = rest[i]
        BY <3>4
      <4>2. registry'[i] = e[i + 1]
        BY <2>2
      <4> QED
        BY <3>2, <3>3, <3>4, <4>2
    <3> QED
      BY <3>1, <3>2, <3>4, <3>5, SameSequence
  <2>4. k # <<>>
    BY <1>1, <1>8
  <2>5. /\ Tail(k) \in Seq(Sessions) /\ Len(Tail(k)) = Len(k) - 1 /\ Distinct(Tail(k))
        /\ Head(k) \in Elements(k) /\ Elements(Tail(k)) = Elements(k) \ {Head(k)}
        /\ \A a, b : Behind(Tail(k), a, b) => Behind(k, a, b)
        /\ \A b \in Elements(Tail(k)) : Behind(k, Head(k), b)
    BY <1>8, <2>4, TailShape
  <2>6. Ordered(registry', given', newer')
    <3>1. \A i \in 1..n : registry'[i].tags = given'[registry'[i].session]
      BY <1>11, <2>2
    <3>2. Distinct(Keys(registry'))
      BY <2>3, <2>5
    <3>3. ASSUME NEW a, NEW b, Behind(Keys(registry'), a, b) PROVE b \in newer'[a]
      <4>1. Behind(k, a, b)
        BY <2>3, <2>5, <3>3
      <4> QED
        BY <1>10, <4>1
    <3> QED
      BY <2>2, <3>1, <3>2, <3>3 DEF Ordered
  <2>7. Cardinality(newer'[Head(k)]) >= MaxTagged
    <3>1. Head(k) \in Sessions
      BY <1>8, <2>5 DEF Elements
    <3>2. Elements(Tail(k)) \subseteq newer'[Head(k)]
      BY <1>10, <2>5
    <3>3. Len(Tail(k)) <= Cardinality(newer'[Head(k)])
      BY <1>9, <2>5, <3>1, <3>2, KeysCounted
    <3>4. Len(Tail(k)) = n
      BY <1>1, <1>8, <2>5
    <3>5. Cardinality(newer'[Head(k)]) \in Nat
      BY <1>9, <3>1, FS_CardinalityType
    <3> QED
      BY <2>1, <3>3, <3>4, <3>5
  <2>8. Accounted(registry', given', newer')
    <3>1. SUFFICES ASSUME NEW x \in Sessions, given'[x] # {}, x \notin Elements(Tail(k))
                   PROVE  Cardinality(newer'[x]) >= MaxTagged
      BY <1>15, <2>3 DEF Accounted
    <3>2. CASE x = Head(k)
      BY <2>7, <3>2
    <3>3. CASE x # Head(k)
      <4>1. x # s /\ x \notin Registered
        BY <1>8, <2>5, <3>1, <3>3
      <4>2. MaxTagged # NoLimit /\ Cardinality(newer[x]) >= MaxTagged
        BY <1>1, <1>12, <3>1, <4>1 DEF RegistryInv, Accounted, K
      <4> QED
        BY <1>13, <4>1, <4>2
    <3> QED
      BY <3>2, <3>3
  <2> QED
    BY <1>1, <1>9, <2>1, <2>2, <2>6, <2>8
<1> QED
  BY <1>14, <1>15

\* Registering leaves one entry per session, and protected ones in place.
LEMMA RegistryIsSound == RegistryInv => RegistrySound
<1>1. SUFFICES ASSUME RegistryInv PROVE RegistrySound
  OBVIOUS
<1> DEFINE K == Keys(registry)
<1>2. /\ Ordered(registry, given, newer) /\ registry \in Seq(Entries)
      /\ K \in Seq(Sessions) /\ Len(K) = Len(registry) /\ Distinct(K)
      /\ Registered = Elements(K) /\ Len(registry) \in Nat
  BY <1>1, RegisteredKeys, KeysShape DEF RegistryInv, Ordered
<1>3. Cardinality(Registered) = Len(registry)
  <2>1. K \in Bijection(1..Len(registry), Registered)
    <3> HIDE DEF K
    <3> QED
      BY <1>2 DEF Bijection, Injection, Surjection, IsInjective, Distinct, Elements
  <2>2. ExistsBijection(1..Len(registry), Registered)
    BY <2>1 DEF ExistsBijection
  <2> QED
    BY <1>2, <2>2, FS_CountingElements
<1>4. ASSUME NEW s \in Sessions, Protected(s) PROVE TagsOf(s) = given[s]
  <2>1. given[s] # {} /\ (MaxTagged # NoLimit => Cardinality(newer[s]) < MaxTagged)
    BY <1>4 DEF Protected
  <2>2. IsFiniteSet(newer[s]) /\ Cardinality(newer[s]) \in Nat
    BY <1>1, FS_CardinalityType DEF RegistryInv
  <2>3. ~(MaxTagged # NoLimit /\ Cardinality(newer[s]) >= MaxTagged)
    BY <2>1, <2>2, SessionsAssumption
  <2>4. s \in Registered
    BY <1>1, <1>2, <2>1, <2>3 DEF RegistryInv, Accounted
  <2> QED
    BY <1>2, <2>4, TagsFound
<1> QED
  BY <1>1, <1>3, <1>4 DEF RegistrySound, RegistryInv

(***************************************************************************)
(* The calls on their way into the tracer                                  *)
(***************************************************************************)
Drafts == draft = [t \in Threads |-> draft[t]]

SessionsInv == RegistryInv /\ Drafts /\ TagsAreTheSessions /\ OwnTagsKept /\ SpansSound

LEMMA CountsShape ==
    ASSUME NEW count \in Attributes, NEW legacy \in Attributes
    PROVE  OneCount(EitherCount(count, legacy), count, legacy)
BY DEF OneCount, EitherCount, CoerceInt, Attributes

\* No value the pattern refuses gets into the registry or into a handle.
LEMMA CleanTagsAreClean ==
    ASSUME NEW tags \in CleanTags, NEW tag \in tags
    PROVE  tag.value # BadTag
BY SessionsAssumption DEF CleanTags

LEMMA ArrivalIsSound ==
    ASSUME SessionsInv, NEW t \in Threads, Arrive(t)
    PROVE  SessionsInv'
<1>1. PICK arrival \in Arrivals :
         draft' = [draft EXCEPT ![t] =
              [session |-> arrival.call.session, own |-> arrival.call.tags,
               tags |-> Stamp(arrival.call),
               due |-> given[arrival.call.session], sure |-> Protected(arrival.call.session),
               span |-> arrival.span]]
  BY DEF Arrive
<1>2. /\ UNCHANGED <<registry, handles, opens, given, newer, vars>>
      /\ RegistryInv /\ Drafts /\ TagsAreTheSessions /\ OwnTagsKept /\ SpansSound
  BY DEF Arrive, SessionsInv
<1> DEFINE call == arrival.call
<1>3. PICK d : d = [session |-> call.session, own |-> call.tags, tags |-> Stamp(call),
                    due |-> given[call.session], sure |-> Protected(call.session),
                    span |-> arrival.span]
  OBVIOUS
<1>4. draft'[t] = d /\ Drafts' /\ \A u \in Threads : u # t => draft'[u] = draft[u]
  BY <1>1, <1>2, <1>3 DEF Drafts
<1>5. \/ call \in Entries /\ arrival.span = Absent
      \/ /\ arrival.span \in GenAISpans
         /\ call = Call(SpanCall(arrival.span).session, SpanCall(arrival.span).tags)
  <2>1. CASE \E c \in {Call(s, {}) : s \in Sessions} \cup handles :
                arrival = [call |-> c, span |-> Absent]
    BY <1>2, <2>1 DEF RegistryInv, Entries, CleanTags, Call
  <2>2. CASE \E span \in GenAISpans :
                arrival = [call |-> Call(SpanCall(span).session, SpanCall(span).tags),
                           span |-> span]
    BY <2>2
  <2> QED
    BY <2>1, <2>2 DEF Arrivals
<1>6. call.session \in Sessions
  <2>1. CASE call \in Entries
    BY <2>1 DEF Entries
  <2>2. CASE arrival.span \in GenAISpans
             /\ call = Call(SpanCall(arrival.span).session, SpanCall(arrival.span).tags)
    BY <2>2, SessionsAssumption DEF Call, SpanCall
  <2> QED
    BY <1>5, <2>1, <2>2
<1>7. /\ TagsOf(call.session) \in {{}, given[call.session]}
      /\ Protected(call.session) => TagsOf(call.session) = given[call.session]
  BY <1>2, <1>6, TagsFound, RegistryIsSound DEF RegistryInv, RegistrySound
<1>8. /\ d.session = call.session /\ d.own = call.tags /\ d.tags = Stamp(call)
      /\ d.due = given[call.session] /\ (d.sure <=> Protected(call.session))
      /\ d.span = arrival.span
  BY <1>3
<1>9. TagsAreTheSessions'
  <2>1. d.own = {} => d.tags \in {{}, d.due} /\ (d.sure => d.tags = d.due)
    BY <1>7, <1>8 DEF Stamp
  <2> QED
    BY <1>2, <1>4, <2>1 DEF TagsAreTheSessions
<1>10. OwnTagsKept'
  <2>1. d.own # {} => d.tags = d.own
    BY <1>8 DEF Stamp
  <2> QED
    BY <1>2, <1>4, <2>1 DEF OwnTagsKept
<1>11. SpansSound'
  <2>1. SUFFICES ASSUME d.span # Absent
                 PROVE  LET span == d.span
                            c == SpanCall(span)
                        IN  /\ span.conversation # Absent => d.session = span.conversation
                            /\ (span.conversation = Absent /\ span.trace # Absent) =>
                                   d.session = span.trace
                            /\ (span.conversation = Absent /\ span.trace = Absent) =>
                                   d.session = UnknownSession
                            /\ OneCount(c.prompt_tokens, span.input, span.prompt)
                            /\ OneCount(c.completion_tokens, span.output, span.completion)
                            /\ \A tag \in d.tags : tag.value # BadTag
    BY <1>2, <1>4 DEF SpansSound
  <2> DEFINE span == arrival.span
  <2>2. /\ span \in GenAISpans /\ d.span = span
        /\ call.session = SpanSession(span) /\ call.tags = FrameworkTags(span)
    BY <1>5, <1>8, <2>1 DEF Call, SpanCall
  <2>3. /\ span.conversation # Absent => d.session = span.conversation
        /\ (span.conversation = Absent /\ span.trace # Absent) => d.session = span.trace
        /\ (span.conversation = Absent /\ span.trace = Absent) => d.session = UnknownSession
    BY <1>8, <2>2 DEF SpanSession
  <2>4. /\ span.input \in Attributes /\ span.prompt \in Attributes
        /\ span.output \in Attributes /\ span.completion \in Attributes
    BY <2>2, SessionsAssumption
  <2>5. /\ SpanCall(span).prompt_tokens = EitherCount(span.input, span.prompt)
        /\ SpanCall(span).completion_tokens = EitherCount(span.output, span.completion)
    BY DEF SpanCall
  <2>6. \A tag \in d.tags : tag.value # BadTag
    <3>1. CASE call.tags = {}
      <4>1. given[call.session] \in CleanTags
        BY <1>2, <1>6 DEF RegistryInv
      <4>2. d.tags \in CleanTags
        BY <1>7, <1>8, <3>1, <4>1 DEF Stamp, CleanTags
      <4> QED
        BY <4>2, CleanTagsAreClean
    <3>2. CASE call.tags # {}
      <4>1. d.tags = FrameworkTags(span)
        BY <1>8, <2>2, <3>2 DEF Stamp
      <4> QED
        BY <4>1 DEF FrameworkTags
    <3> QED
      BY <3>1, <3>2
  <2>7. /\ OneCount(SpanCall(span).prompt_tokens, span.input, span.prompt)
        /\ OneCount(SpanCall(span).completion_tokens, span.output, span.completion)
    BY <2>4, <2>5, CountsShape
  <2> HIDE DEF span
  <2> QED
    BY <2>2, <2>3, <2>6, <2>7
<1>12. RegistryInv'
  BY <1>2 DEF RegistryInv, Ordered, Accounted
<1> QED
  BY <1>4, <1>9, <1>10, <1>11, <1>12 DEF SessionsInv

LEMMA OpeningIsSound ==
    ASSUME SessionsInv, OpenSession
    PROVE  SessionsInv'
<1>1. PICK s \in Sessions, tags \in TagSets \cup RefusedTags :
         IF tags \in RefusedTags \cup {{}}
         THEN UNCHANGED <<registry, handles, opens, given, newer>>
         ELSE /\ handles' = handles \cup {Call(s, tags)}
              /\ registry' = Pruned(Assign(s, tags))
              /\ given' = [given EXCEPT ![s] = tags]
              /\ newer' = IF s \in Registered THEN newer
                          ELSE [x \in Sessions |-> IF x = s THEN {} ELSE newer[x] \cup {s}]
  BY DEF OpenSession
<1>2. RegistryInv /\ draft' = draft
  BY DEF OpenSession, SessionsInv
<1>3. RegistryInv'
  <2>1. CASE tags \in RefusedTags \cup {{}}
    BY <1>1, <1>2, <2>1 DEF RegistryInv, Ordered, Accounted
  <2>2. CASE tags \notin RefusedTags \cup {{}}
    <3>1. tags \in CleanTags \ {{}}
      BY <2>2 DEF CleanTags
    <3>2. /\ given' \in [Sessions -> CleanTags]
          /\ newer' \in [Sessions -> SUBSET Sessions]
          /\ handles' \subseteq Entries
      BY <1>1, <1>2, <2>2, <3>1 DEF RegistryInv, Entries, Call
    <3>3. CASE s \in Registered
      <4>1. newer' = newer
        BY <1>1, <2>2, <3>3
      <4>2. /\ Ordered(registry', given', newer') /\ Accounted(registry', given', newer')
            /\ MaxTagged # NoLimit => Len(registry') <= MaxTagged
        BY <1>1, <1>2, <2>2, <3>1, <3>3, <4>1, Retagged
      <4> QED
        BY <1>2, <3>2, <4>1, <4>2 DEF RegistryInv, Ordered, Accounted
    <3>4. CASE s \notin Registered
      <4>1. newer' = [x \in Sessions |-> IF x = s THEN {} ELSE newer[x] \cup {s}]
        BY <1>1, <2>2, <3>4
      <4>2. /\ Ordered(registry', given', newer') /\ Accounted(registry', given', newer')
            /\ MaxTagged # NoLimit => Len(registry') <= MaxTagged
            /\ \A x \in Sessions : IsFiniteSet(newer'[x])
        BY <1>1, <1>2, <2>2, <3>1, <3>4, <4>1, TaggedAnew
      <4> QED
        BY <3>2, <4>2 DEF RegistryInv, Ordered, Accounted
    <3> QED
      BY <3>3, <3>4
  <2> QED
    BY <2>1, <2>2
<1> QED
  BY <1>2, <1>3 DEF SessionsInv, Drafts, TagsAreTheSessions, OwnTagsKept, SpansSound

LEMMA SessionsStart == SInit => SessionsInv
<1>1. SUFFICES ASSUME SInit PROVE SessionsInv
  OBVIOUS
<1>2. /\ registry = <<>> /\ handles = {} /\ draft = [t \in Threads |-> Absent]
      /\ given = [s \in Sessions |-> {}] /\ newer = [s \in Sessions |-> {}]
  BY <1>1 DEF SInit
<1>3. MaxTagged # NoLimit => Len(registry) <= MaxTagged
  BY <1>2, SessionsAssumption
<1>4. Ordered(registry, given, newer)
  <2>1. registry \in Seq(Entries) /\ Len(registry) = 0
    BY <1>2
  <2>2. Len(Keys(registry)) = 0
    BY <2>1, KeysShape
  <2> QED
    BY <2>1, <2>2 DEF Ordered, Distinct, Behind
<1>5. Accounted(registry, given, newer)
  BY <1>2 DEF Accounted
<1>6. RegistryInv
  BY <1>2, <1>3, <1>4, <1>5, FS_EmptySet DEF RegistryInv, CleanTags
<1> QED
  BY <1>2, <1>6 DEF SessionsInv, Drafts, TagsAreTheSessions, OwnTagsKept, SpansSound

LEMMA SessionsStep == SessionsInv /\ [SNext]_<<vars, sessionVars>> => SessionsInv'
<1>1. SUFFICES ASSUME SessionsInv, [SNext]_<<vars, sessionVars>> PROVE SessionsInv'
  OBVIOUS
<1>2. CASE OpenSession
  BY <1>1, <1>2, OpeningIsSound
<1>3. ASSUME NEW t \in Threads, Arrive(t) PROVE SessionsInv'
  BY <1>1, <1>3, ArrivalIsSound
<1>4. ASSUME NEW t \in Threads, SRecord(t) PROVE SessionsInv'
  <2>1. /\ draft' = [draft EXCEPT ![t] = Absent]
        /\ UNCHANGED <<registry, handles, opens, given, newer>>
    BY <1>4 DEF SRecord
  <2>2. Drafts' /\ \A u \in Threads : draft'[u] = Absent \/ draft'[u] = draft[u]
    BY <1>1, <2>1 DEF SessionsInv, Drafts
  <2>3. TagsAreTheSessions'
    BY <1>1, <2>2 DEF SessionsInv, TagsAreTheSessions
  <2>4. OwnTagsKept'
    BY <1>1, <2>2 DEF SessionsInv, OwnTagsKept
  <2>5. SpansSound'
    BY <1>1, <2>2 DEF SessionsInv, SpansSound
  <2>6. RegistryInv'
    BY <1>1, <2>1 DEF SessionsInv, RegistryInv, Ordered, Accounted
  <2> QED
    BY <2>2, <2>3, <2>4, <2>5, <2>6 DEF SessionsInv
<1>5. CASE UNCHANGED sessionVars
  BY <1>1, <1>5 DEF sessionVars, SessionsInv, RegistryInv, Ordered, Accounted, Drafts,
                    TagsAreTheSessions, OwnTagsKept, SpansSound
<1> QED
  BY <1>1, <1>2, <1>3, <1>4, <1>5 DEF SNext, Elsewhere

LEMMA SessionsInvariant == SSpec => []SessionsInv
BY SessionsStart, SessionsStep, PTL DEF SSpec

(***************************************************************************)
(* Chargeback tags (Sentinel.session and record_call's stamping): a call   *)
(* that brought none leaves with those its session was last given, which   *)
(* the registry forgets only for max_sessions others inserted after it,    *)
(* and one that brought its own keeps them.                                *)
(***************************************************************************)
THEOREM TagsStaySound == SSpec => []TagsSound
<1>1. SessionsInv => TagsSound
  BY RegistryIsSound DEF SessionsInv, TagsSound
<1> QED
  BY <1>1, SessionsInvariant, PTL

(***************************************************************************)
(* What a span becomes (enrichers/otel.py): a call of its conversation, of *)
(* its trace for want of one, and of the session of all the rest only for  *)
(* want of both; each count taken once, from one of its two names; and no  *)
(* tag the pattern refuses.                                                *)
(***************************************************************************)
THEOREM SpansStaySound == SSpec => []SpansSound
<1>1. SessionsInv => SpansSound
  BY DEF SessionsInv
<1> QED
  BY <1>1, SessionsInvariant, PTL
=============================================================================
