---------------------------- MODULE VelocityProofs ----------------------------
(***************************************************************************)
(* The velocity window never lacks a charge of the last Window seconds,    *)
(* for any number of threads and any clock.  What a thread prunes is older *)
(* than Window by the time it has read, and no thread has read a time that *)
(* is still to come: that is what the invariant adds to WindowComplete.    *)
(* A check that counts everything recent then bounds the overshoot: the    *)
(* calls that passed one and are not charged yet still fit.                *)
(***************************************************************************)
EXTENDS VelocityWindow, SequenceTheorems, FiniteSetTheorems,
        WellFoundedInduction, TLAPS

LEMMA Least ==
    ASSUME NEW S \in SUBSET Nat, S # {}
    PROVE  \E i \in S : \A j \in S : i <= j
<1> DEFINE R == OpToRel(<, Nat)
<1>1. IsWellFoundedOn(R, Nat)
  BY NatLessThanWellFounded
<1>2. \A x, y \in Nat : <<x, y>> \in R <=> x < y
  BY DEF OpToRel
<1> HIDE DEF R
<1>3. PICK i \in S : \A j \in S : ~(<<j, i>> \in R)
  BY <1>1, WFMin
<1>4. ASSUME NEW j \in S PROVE i <= j
  <2>1. i \in Nat /\ j \in Nat /\ ~(j < i)
    BY <1>2, <1>3, <1>4
  <2> QED
    BY <2>1
<1> QED
  BY <1>4

Elements(seq) == {seq[i] : i \in 1..Len(seq)}

\* Pruning keeps every element whose entry has not expired, and adds none.
LEMMA PrunedKeeps ==
    ASSUME NEW S, NEW seq \in Seq(S), NEW entries, NEW time
    PROVE  /\ Pruned(seq, entries, time) \in Seq(S)
           /\ \A x \in Elements(seq) :
                 ~Expired(entries[x], time)
                     => x \in Elements(Pruned(seq, entries, time))
<1> DEFINE fresh == {i \in 1..Len(seq) : ~Expired(entries[seq[i]], time)}
           first == CHOOSE i \in fresh : \A j \in fresh : i <= j
<1>1. CASE fresh = {}
  <2>1. Pruned(seq, entries, time) = <<>>
    BY <1>1 DEF Pruned
  <2> QED
    BY <1>1, <2>1 DEF Elements
<1>2. CASE fresh # {}
  <2>1. fresh \in SUBSET Nat
    OBVIOUS
  <2>2. \E i \in fresh : \A j \in fresh : i <= j
    BY <1>2, <2>1, Least
  <2>3. first \in fresh /\ \A j \in fresh : first <= j
    BY <2>2
  <2>4. Pruned(seq, entries, time) = SubSeq(seq, first, Len(seq))
    BY <1>2 DEF Pruned
  <2> HIDE DEF first
  <2>5. first \in 1..Len(seq) /\ Len(seq) \in Nat
    BY <2>3
  <2>6. \A i \in first..Len(seq) : seq[i] \in S
    BY <2>5, ElementOfSeq
  <2>7. /\ SubSeq(seq, first, Len(seq)) \in Seq(S)
        /\ Len(SubSeq(seq, first, Len(seq))) = Len(seq) - first + 1
        /\ \A i \in 1..(Len(seq) - first + 1) :
              SubSeq(seq, first, Len(seq))[i] = seq[first + i - 1]
    BY <2>5, <2>6, SubSeqProperties
  <2>8. ASSUME NEW i \in fresh
        PROVE  seq[i] \in Elements(SubSeq(seq, first, Len(seq)))
    <3>1. first <= i /\ i <= Len(seq) /\ i \in Nat
      BY <2>3, <2>8
    <3>2. i - first + 1 \in 1..(Len(seq) - first + 1)
      BY <2>5, <3>1
    <3>3. SubSeq(seq, first, Len(seq))[i - first + 1] = seq[i]
      <4>1. first + (i - first + 1) - 1 = i
        BY <2>5, <3>1
      <4> QED
        BY <2>7, <3>2, <4>1
    <3> QED
      BY <2>7, <3>2, <3>3 DEF Elements
  <2>9. Elements(SubSeq(seq, first, Len(seq))) \subseteq Elements(seq)
    <3>1. SUFFICES ASSUME NEW i \in 1..(Len(seq) - first + 1)
                   PROVE  seq[first + i - 1] \in Elements(seq)
      BY <2>7 DEF Elements
    <3>2. first + i - 1 \in 1..Len(seq)
      BY <2>5
    <3> QED
      BY <3>2 DEF Elements
  <2>10. ASSUME NEW x \in Elements(seq), ~Expired(entries[x], time)
         PROVE  x \in Elements(SubSeq(seq, first, Len(seq)))
    <3>1. PICK i \in 1..Len(seq) : seq[i] = x
      BY <2>10 DEF Elements
    <3> QED
      BY <2>8, <2>10, <3>1
  <2> QED
    BY <2>4, <2>7, <2>9, <2>10
<1> QED
  BY <1>1, <1>2

Charge == [at : Nat, tokens : 0..MaxTokens, capped : BOOLEAN]

\* No thread has read a time that is still to come.
ClocksPast == \A t \in Threads : now[t] <= clock

WindowInv == TypeOK /\ ClocksPast /\ WindowComplete

LEMMA WindowInit == Init => WindowInv
<1> SUFFICES ASSUME Init PROVE WindowInv
  OBVIOUS
<1>1. TypeOK
  BY VelocityAssumption DEF Init, TypeOK, Steps
<1>2. ClocksPast
  BY DEF Init, ClocksPast
<1>3. WindowComplete
  BY DEF Init, WindowComplete, Recent
<1> QED
  BY <1>1, <1>2, <1>3 DEF WindowInv

\* What is recent has not expired for a thread with an older time.
LEMMA RecentKept ==
    ASSUME NEW entry \in Charge, NEW c \in Nat, NEW time \in Nat,
           entry.at >= c - Window, time <= c
    PROVE  ~Expired(entry, time)
<1>1. entry.at \in Nat /\ Window \in Nat
  BY VelocityAssumption DEF Charge
<1> QED
  BY <1>1 DEF Expired

LEMMA CountStep ==
    ASSUME WindowInv, NEW t \in Threads, Count(t)
    PROVE  WindowInv'
<1>1. TypeOK /\ ClocksPast /\ WindowComplete
  BY DEF WindowInv
<1>2. /\ window' \in Seq(1..Len(charges))
      /\ \A x \in Elements(window) :
            ~Expired(charges[x], now[t]) => x \in Elements(window')
  <2>1. window \in Seq(1..Len(charges))
    BY <1>1 DEF TypeOK
  <2>2. window' = Pruned(window, charges, now[t])
    BY DEF Count
  <2> QED
    BY <2>1, <2>2, PrunedKeeps
<1>3. UNCHANGED <<clock, now, tokens, cap, charges, calls>>
  BY DEF Count
<1>4. pc' \in [Threads -> Steps]
  BY <1>1 DEF Count, GoTo, TypeOK, Steps
<1>5. TypeOK'
  BY <1>1, <1>2, <1>3, <1>4 DEF TypeOK
<1>6. ClocksPast'
  BY <1>1, <1>3 DEF ClocksPast
<1>7. WindowComplete'
  <2>1. Recent' = Recent
    BY <1>3 DEF Recent
  <2>2. ASSUME NEW i \in Recent PROVE i \in Elements(window')
    <3>1. /\ charges \in Seq(Charge) /\ clock \in Nat /\ now[t] \in Nat
          /\ now[t] <= clock
      BY <1>1 DEF TypeOK, ClocksPast, Charge
    <3>2. charges[i] \in Charge /\ charges[i].at >= clock - Window
      BY <3>1, ElementOfSeq DEF Recent
    <3>3. ~Expired(charges[i], now[t])
      BY <3>1, <3>2, RecentKept
    <3>4. i \in Elements(window)
      BY <1>1 DEF WindowComplete, Elements
    <3> QED
      BY <1>2, <3>3, <3>4
  <2> QED
    BY <2>1, <2>2 DEF WindowComplete, Elements
<1> QED
  BY <1>5, <1>6, <1>7 DEF WindowInv

LEMMA AppendStep ==
    ASSUME WindowInv, NEW t \in Threads, AppendTokens(t)
    PROVE  WindowInv'
<1> DEFINE entry == [at |-> now[t], tokens |-> tokens[t],
                     capped |-> cap[t] # NoCap]
           n == Len(charges)
<1>1. TypeOK /\ ClocksPast /\ WindowComplete
  BY DEF WindowInv
<1>2. UNCHANGED <<clock, now, tokens, cap, calls>>
  BY DEF AppendTokens
<1>3. pc' \in [Threads -> Steps]
  BY <1>1 DEF AppendTokens, GoTo, TypeOK, Steps
<1>4. charges \in Seq(Charge) /\ n \in Nat /\ entry \in Charge
  BY <1>1 DEF TypeOK, Charge
<1>5. charges' = Append(charges, entry)
  BY DEF AppendTokens
<1> HIDE DEF entry
<1>6. /\ charges' \in Seq(Charge) /\ Len(charges') = n + 1
      /\ \A i \in 1..n : charges'[i] = charges[i]
      /\ charges'[n + 1] = entry
  BY <1>4, <1>5, AppendProperties
<1> DEFINE longer == Append(window, n + 1)
<1>7. /\ longer \in Seq(1..(n + 1))
      /\ Elements(longer) = Elements(window) \cup {n + 1}
  <2>1. window \in Seq(1..(n + 1)) /\ Len(window) \in Nat
    BY <1>1, <1>4, SeqMonotonic DEF TypeOK
  <2>2. n + 1 \in 1..(n + 1)
    BY <1>4
  <2>3. /\ longer \in Seq(1..(n + 1))
        /\ Len(longer) = Len(window) + 1
        /\ \A i \in 1..Len(window) : longer[i] = window[i]
        /\ longer[Len(window) + 1] = n + 1
    BY <2>1, <2>2, AppendProperties
  <2> HIDE DEF longer
  <2>4. 1..Len(longer) = (1..Len(window)) \cup {Len(window) + 1}
    BY <2>1, <2>3
  <2>5. Elements(longer) \subseteq Elements(window) \cup {n + 1}
    BY <2>3, <2>4 DEF Elements
  <2>6. ASSUME NEW i \in 1..Len(window) PROVE window[i] \in Elements(longer)
    <3>1. i \in 1..Len(longer) /\ longer[i] = window[i]
      BY <2>3, <2>4
    <3> QED
      BY <3>1 DEF Elements
  <2>7. n + 1 \in Elements(longer)
    BY <2>3, <2>4 DEF Elements
  <2>8. Elements(window) \subseteq Elements(longer)
    BY <2>6 DEF Elements
  <2> QED
    BY <2>3, <2>5, <2>7, <2>8
<1>8. window' = Pruned(longer, charges', now[t])
  BY <1>6 DEF AppendTokens
<1> HIDE DEF longer, n
<1>9. /\ window' \in Seq(1..(n + 1))
      /\ \A x \in Elements(longer) :
            ~Expired(charges'[x], now[t]) => x \in Elements(window')
  BY <1>7, <1>8, PrunedKeeps
<1>10. TypeOK'
  BY <1>1, <1>2, <1>3, <1>6, <1>9 DEF TypeOK, Charge
<1>11. ClocksPast'
  BY <1>1, <1>2 DEF ClocksPast
<1>12. ASSUME NEW i \in Recent' PROVE i \in Elements(window')
  <2>1. /\ i \in 1..(n + 1) /\ charges'[i].at >= clock - Window
        /\ clock \in Nat /\ now[t] \in Nat /\ now[t] <= clock
    BY <1>1, <1>2, <1>6 DEF Recent, TypeOK, ClocksPast
  <2>2. charges'[i] \in Charge
    BY <1>6, <2>1, ElementOfSeq
  <2>3. ~Expired(charges'[i], now[t])
    BY <2>1, <2>2, RecentKept
  <2>4. i \in Elements(longer)
    <3>1. CASE i = n + 1
      BY <1>7, <3>1
    <3>2. CASE i # n + 1
      <4>1. i \in 1..n
        BY <1>4, <2>1, <3>2
      <4>2. i \in Recent
        BY <1>2, <1>6, <2>1, <4>1 DEF Recent, n
      <4> QED
        BY <1>1, <1>7, <4>2 DEF WindowComplete, Elements
    <3> QED
      BY <3>1, <3>2
  <2> QED
    BY <1>9, <2>3, <2>4
<1>13. WindowComplete'
  BY <1>12 DEF WindowComplete, Elements
<1> QED
  BY <1>10, <1>11, <1>13 DEF WindowInv

LEMMA OtherSteps ==
    ASSUME WindowInv, Tick \/ (\E t \in Threads : Begin(t) \/ ReadClock(t))
    PROVE  WindowInv'
<1>1. TypeOK /\ ClocksPast /\ WindowComplete
  BY DEF WindowInv
<1>2. UNCHANGED <<window, charges>> /\ clock' \in Nat /\ clock' >= clock
  BY <1>1 DEF Tick, Begin, ReadClock, TypeOK
<1>3. /\ pc' \in [Threads -> Steps]
      /\ now' \in [Threads -> Nat]
      /\ \A t \in Threads : now'[t] <= clock'
  <2>1. CASE Tick
    BY <1>1, <2>1 DEF Tick, callVars, TypeOK, ClocksPast
  <2>2. ASSUME NEW t \in Threads, Begin(t)
        PROVE  pc' \in [Threads -> Steps] /\ UNCHANGED <<now, clock>>
    BY <1>1, <2>2 DEF Begin, GoTo, TypeOK, Steps
  <2>3. ASSUME NEW t \in Threads, ReadClock(t)
        PROVE  /\ pc' \in [Threads -> Steps]
               /\ now' = [now EXCEPT ![t] = clock]
               /\ clock' = clock
    BY <1>1, <2>3 DEF ReadClock, Monotonic, GoTo, TypeOK, Steps
  <2>4. clock \in Nat /\ now \in [Threads -> Nat]
    BY <1>1 DEF TypeOK
  <2> QED
    BY <1>1, <2>1, <2>2, <2>3, <2>4 DEF ClocksPast
<1>4. /\ tokens' \in [Threads -> 0..MaxTokens]
      /\ cap' \in [Threads -> (0..MaxCap) \cup {NoCap}]
      /\ calls' \in Nat
  <2>1. CASE Tick
    BY <1>1, <2>1 DEF Tick, callVars, TypeOK
  <2>2. ASSUME NEW t \in Threads, ReadClock(t)
        PROVE  UNCHANGED <<tokens, cap, calls>>
    BY <2>2 DEF ReadClock
  <2>3. ASSUME NEW t \in Threads, Begin(t)
        PROVE  /\ calls' \in Nat
               /\ \E n \in 0..MaxTokens : tokens' = [tokens EXCEPT ![t] = n]
               /\ \E c \in (0..MaxCap) \cup {NoCap} :
                     cap' = [cap EXCEPT ![t] = c]
    <3>1. PICK n \in Tokens, c \in Caps :
             /\ tokens' = [tokens EXCEPT ![t] = n]
             /\ cap' = [cap EXCEPT ![t] = c]
      BY <2>3 DEF Begin
    <3>2. n \in 0..MaxTokens /\ c \in (0..MaxCap) \cup {NoCap}
      BY VelocityAssumption
    <3>3. calls' \in Nat
      BY <1>1, <2>3 DEF Begin, TypeOK
    <3> QED
      BY <3>1, <3>2, <3>3
  <2> QED
    BY <1>1, <2>1, <2>2, <2>3 DEF TypeOK
<1>5. TypeOK'
  BY <1>1, <1>2, <1>3, <1>4 DEF TypeOK
<1>6. Recent' \subseteq Recent
  <2>1. \A i \in 1..Len(charges) : charges[i].at \in Nat
    <3>1. charges \in Seq(Charge)
      BY <1>1 DEF TypeOK, Charge
    <3>2. ASSUME NEW i \in 1..Len(charges) PROVE charges[i].at \in Nat
      <4>1. charges[i] \in Charge
        BY <3>1, ElementOfSeq
      <4> QED
        BY <4>1 DEF Charge
    <3> QED
      BY <3>2
  <2>2. Window \in Nat /\ clock \in Nat
    BY <1>1, VelocityAssumption DEF TypeOK
  <2> QED
    BY <1>2, <2>1, <2>2 DEF Recent
<1>7. WindowComplete'
  BY <1>1, <1>2, <1>6 DEF WindowComplete
<1> QED
  BY <1>3, <1>5, <1>7 DEF WindowInv, ClocksPast

LEMMA WindowStep == WindowInv /\ [Next]_vars => WindowInv'
<1> SUFFICES ASSUME WindowInv, [Next]_vars PROVE WindowInv'
  OBVIOUS
<1>1. CASE UNCHANGED vars
  BY <1>1 DEF vars, callVars, WindowInv, TypeOK, ClocksPast, WindowComplete, Recent
<1>2. CASE Next
  BY <1>2, OtherSteps, CountStep, AppendStep DEF Next
<1> QED
  BY <1>1, <1>2

LEMMA WindowInvariant == Spec => []WindowInv
BY WindowInit, WindowStep, PTL DEF Spec

\* The types of VelocityWindow's variables, in every reachable state.
THEOREM VelocityTypes == Spec => []TypeOK
BY WindowInvariant, PTL DEF WindowInv

\* A check never counts too little: whatever old times threads prune with, no
\* charge of the last Window seconds leaves the window.
THEOREM NothingRecentPruned == Spec => []WindowComplete
BY WindowInvariant, PTL DEF WindowInv

(***************************************************************************)
(* Sums.  TokensIn is defined by recursion on the entries, so each fact    *)
(* about it is proved of the first entry it could fail for.                *)
(***************************************************************************)
Share(entries, S, i) == IF i \in S THEN entries[i].tokens ELSE 0

IsSum(f, entries, S) ==
    /\ f \in [0..Len(entries) -> Nat]
    /\ f[0] = 0
    /\ \A i \in 1..Len(entries) : f[i] = f[i - 1] + Share(entries, S, i)

LEMMA ShareType ==
    ASSUME NEW entries \in Seq(Charge), NEW S, NEW i \in 1..Len(entries)
    PROVE  Share(entries, S, i) \in Nat
<1>1. PICK e \in Charge : e = entries[i]
  BY ElementOfSeq
<1>2. e.tokens \in 0..MaxTokens /\ MaxTokens \in Nat
  BY VelocityAssumption DEF Charge
<1> QED
  BY <1>1, <1>2 DEF Share

\* What holds of 0 and goes on from each number to the next holds up to n.
LEMMA UpTo ==
    ASSUME NEW n \in Nat, NEW H \in SUBSET Nat, 0 \in H,
           \A i \in 1..n : i - 1 \in H => i \in H
    PROVE  0..n \subseteq H
<1> DEFINE missing == {i \in 0..n : i \notin H}
<1>1. ASSUME missing # {} PROVE FALSE
  <2>1. missing \in SUBSET Nat
    OBVIOUS
  <2>2. PICK i \in missing : \A j \in missing : i <= j
    <3> HIDE DEF missing
    <3> QED
      BY <1>1, <2>1, Least
  <2>3. i \in 0..n /\ i \notin H
    OBVIOUS
  <2>4. i # 0 /\ i \in 1..n /\ i - 1 \in 0..n /\ ~(i <= i - 1)
    BY <2>3
  <2>5. i - 1 \in H
    BY <2>2, <2>4
  <2> QED
    BY <2>3, <2>4, <2>5
<1> QED
  BY <1>1

LEMMA SumExists ==
    ASSUME NEW entries \in Seq(Charge), NEW S
    PROVE  \E f : IsSum(f, entries, S)
<1> DEFINE n == Len(entries)
           Part(m, f) == /\ f \in [0..m -> Nat] /\ f[0] = 0
                         /\ \A i \in 1..m : f[i] = f[i - 1] + Share(entries, S, i)
           H == {m \in 0..n : \E f : Part(m, f)}
<1>1. n \in Nat
  OBVIOUS
<1>2. 0 \in H
  <2>1. Part(0, [i \in 0..0 |-> 0]) /\ 0 \in 0..n
    BY <1>1
  <2> HIDE DEF Part, n
  <2> QED
    BY <2>1
<1>3. ASSUME NEW m \in 1..n, m - 1 \in H PROVE m \in H
  <2>1. PICK f : Part(m - 1, f)
    BY <1>3
  <2>2. PICK w \in Nat : w = Share(entries, S, m)
    BY ShareType
  <2> DEFINE g == [i \in 0..m |-> IF i = m THEN f[m - 1] + w ELSE f[i]]
  <2>3. m \in Nat /\ m # 0 /\ m - 1 \in 0..(m - 1) /\ n \in Nat
    BY <1>1
  <2>4. f[m - 1] \in Nat /\ f[0] = 0 /\ \A i \in 0..(m - 1) : f[i] \in Nat
    BY <2>1, <2>3
  <2>5. g \in [0..m -> Nat]
    BY <2>3, <2>4
  <2>6. g[0] = 0
    BY <2>3, <2>4
  <2>7. ASSUME NEW i \in 1..m PROVE g[i] = g[i - 1] + Share(entries, S, i)
    <3>1. i - 1 \in 0..m /\ i - 1 # m /\ i \in 0..m
      BY <2>3
    <3>2. g[i - 1] = f[i - 1]
      BY <3>1
    <3>3. CASE i = m
      BY <2>2, <3>1, <3>2, <3>3
    <3>4. CASE i # m
      <4>1. i \in 1..(m - 1)
        BY <2>3, <3>4
      <4> QED
        BY <2>1, <3>1, <3>2, <3>4, <4>1
    <3> QED
      BY <3>3, <3>4
  <2> HIDE DEF g
  <2>8. Part(m, g)
    BY <2>5, <2>6, <2>7
  <2>9. m \in 0..n
    BY <1>1
  <2> HIDE DEF Part, n
  <2> QED
    BY <2>8, <2>9
<1>4. 0..n \subseteq H
  <2>1. H \in SUBSET Nat
    BY <1>1
  <2> HIDE DEF H, n
  <2> QED
    BY <1>1, <1>2, <1>3, <2>1, UpTo
<1>5. \E f : Part(n, f)
  BY <1>1, <1>4
<1> QED
  BY <1>5 DEF IsSum

LEMMA TokensInIs ==
    ASSUME NEW entries \in Seq(Charge), NEW S
    PROVE  \E f : IsSum(f, entries, S) /\ TokensIn(entries, S) = f[Len(entries)]
<1> DEFINE n == Len(entries)
           Defined(f) == f = [i \in 0..n |->
                                 IF i = 0 THEN 0 ELSE f[i - 1] + Share(entries, S, i)]
           upTo == CHOOSE f : Defined(f)
<1>1. n \in Nat
  OBVIOUS
<1>2. \E f : Defined(f)
  <2>1. PICK f : IsSum(f, entries, S)
    BY SumExists
  <2>2. \A i \in 0..n : i = 0 \/ i \in 1..n
    BY <1>1
  <2>3. \A i \in 0..n : f[i] = IF i = 0 THEN 0 ELSE f[i - 1] + Share(entries, S, i)
    BY <2>1, <2>2 DEF IsSum
  <2>4. f = [i \in 0..n |-> f[i]]
    BY <2>1 DEF IsSum
  <2> QED
    BY <2>3, <2>4
<1>3. Defined(upTo)
  BY <1>2
<1>4. TokensIn(entries, S) = upTo[n]
  BY DEF TokensIn, Share
<1> HIDE DEF upTo
<1>5. /\ upTo = [i \in 0..n |-> upTo[i]] /\ upTo[0] = 0
      /\ \A i \in 1..n : upTo[i] = upTo[i - 1] + Share(entries, S, i)
  BY <1>1, <1>3
<1>6. \A i \in 0..n : upTo[i] \in Nat
  <2> DEFINE H == {i \in 0..n : upTo[i] \in Nat}
  <2>1. 0 \in H /\ H \in SUBSET Nat
    BY <1>1, <1>5
  <2>2. ASSUME NEW i \in 1..n, i - 1 \in H PROVE i \in H
    <3>1. Share(entries, S, i) \in Nat /\ upTo[i - 1] \in Nat /\ i \in 0..n
      BY <1>1, <2>2, ShareType
    <3> QED
      BY <1>5, <3>1
  <2>3. 0..n \subseteq H
    <3> HIDE DEF H, n
    <3> QED
      BY <1>1, <2>1, <2>2, UpTo
  <2> QED
    BY <2>3
<1>7. IsSum(upTo, entries, S)
  BY <1>5, <1>6 DEF IsSum
<1> QED
  BY <1>4, <1>7

\* Over entries that agree up to m, fewer of them sum up to less.
LEMMA SumsCompare ==
    ASSUME NEW entries \in Seq(Charge), NEW longer \in Seq(Charge), NEW S, NEW T,
           NEW m \in Nat, m <= Len(entries), m <= Len(longer),
           \A i \in 1..m : longer[i] = entries[i] /\ (i \in T => i \in S),
           NEW f, IsSum(f, entries, S), NEW g, IsSum(g, longer, T)
    PROVE  g[m] <= f[m]
<1> DEFINE H == {i \in 0..m : g[i] <= f[i]}
<1>1. Len(entries) \in Nat /\ Len(longer) \in Nat
  OBVIOUS
<1>2. \A i \in 0..m : f[i] \in Nat /\ g[i] \in Nat
  <2>1. \A i \in 0..m : i \in 0..Len(entries) /\ i \in 0..Len(longer)
    BY <1>1
  <2> QED
    BY <2>1 DEF IsSum
<1>3. 0 \in H /\ H \in SUBSET Nat
  BY DEF IsSum
<1>4. ASSUME NEW i \in 1..m, i - 1 \in H PROVE i \in H
  <2>1. i \in 1..Len(entries) /\ i \in 1..Len(longer) /\ i - 1 \in 0..m /\ i \in 0..m
    BY <1>1
  <2>2. /\ f[i] = f[i - 1] + Share(entries, S, i)
        /\ g[i] = g[i - 1] + Share(longer, T, i)
    BY <2>1 DEF IsSum
  <2>3. Share(entries, S, i) \in Nat /\ Share(longer, T, i) \in Nat
    BY <2>1, ShareType
  <2>4. Share(longer, T, i) <= Share(entries, S, i)
    <3>1. longer[i] = entries[i] /\ (i \in T => i \in S)
      OBVIOUS
    <3>2. Share(longer, T, i) \in {0, Share(entries, S, i)}
      BY <3>1 DEF Share
    <3> QED
      BY <2>3, <3>2
  <2>5. g[i - 1] <= f[i - 1]
    BY <1>4
  <2>6. g[i] <= f[i]
    BY <1>2, <2>1, <2>2, <2>3, <2>4, <2>5
  <2> QED
    BY <2>1, <2>6
<1>5. 0..m \subseteq H
  <2> HIDE DEF H
  <2> QED
    BY <1>3, <1>4, UpTo
<1> QED
  BY <1>5

\* A sum is a number, and no larger than that of more entries.
LEMMA SumMonotone ==
    ASSUME NEW entries \in Seq(Charge), NEW S, NEW T,
           \A i \in 1..Len(entries) : i \in T => i \in S
    PROVE  /\ TokensIn(entries, S) \in Nat /\ TokensIn(entries, T) \in Nat
           /\ TokensIn(entries, T) <= TokensIn(entries, S)
<1>1. PICK n \in Nat : n = Len(entries)
  OBVIOUS
<1>2. PICK f : IsSum(f, entries, S) /\ TokensIn(entries, S) = f[n]
  BY <1>1, TokensInIs
<1>3. PICK g : IsSum(g, entries, T) /\ TokensIn(entries, T) = g[n]
  BY <1>1, TokensInIs
<1>4. n \in 0..n
  OBVIOUS
<1>5. f[n] \in Nat /\ g[n] \in Nat
  BY <1>1, <1>2, <1>3, <1>4 DEF IsSum
<1>6. g[n] <= f[n]
  <2>1. n <= n /\ \A i \in 1..n : entries[i] = entries[i] /\ (i \in T => i \in S)
    BY <1>1
  <2> QED
    BY <1>1, <1>2, <1>3, <2>1, SumsCompare
<1> QED
  BY <1>2, <1>3, <1>5, <1>6

\* One more entry adds its own tokens at the most.
LEMMA SumAppended ==
    ASSUME NEW entries \in Seq(Charge), NEW longer \in Seq(Charge), NEW S, NEW T,
           Len(longer) = Len(entries) + 1,
           \A i \in 1..Len(entries) : longer[i] = entries[i] /\ (i \in T => i \in S)
    PROVE  /\ TokensIn(longer, T) \in Nat /\ TokensIn(entries, S) \in Nat
           /\ TokensIn(longer, T)
                <= TokensIn(entries, S) + Share(longer, T, Len(entries) + 1)
<1>1. PICK n \in Nat : n = Len(entries)
  OBVIOUS
<1>2. PICK f : IsSum(f, entries, S) /\ TokensIn(entries, S) = f[n]
  BY <1>1, TokensInIs
<1>3. PICK g : IsSum(g, longer, T) /\ TokensIn(longer, T) = g[n + 1]
  BY <1>1, TokensInIs
<1>4. n \in 0..n /\ n \in 0..(n + 1) /\ n + 1 \in 0..(n + 1) /\ n + 1 \in 1..(n + 1)
      /\ (n + 1) - 1 = n /\ n <= n + 1
  OBVIOUS
<1>5. f[n] \in Nat /\ g[n] \in Nat /\ g[n + 1] \in Nat
  BY <1>1, <1>2, <1>3, <1>4 DEF IsSum
<1>6. g[n] <= f[n]
  <2>1. n <= n /\ n <= Len(longer)
        /\ \A i \in 1..n : longer[i] = entries[i] /\ (i \in T => i \in S)
    BY <1>1, <1>4
  <2> QED
    BY <1>1, <1>2, <1>3, <2>1, SumsCompare
<1>7. g[n + 1] = g[n] + Share(longer, T, n + 1)
  BY <1>1, <1>3, <1>4 DEF IsSum
<1>8. Share(longer, T, n + 1) \in Nat
  BY <1>1, <1>4, ShareType
<1> QED
  BY <1>1, <1>2, <1>3, <1>5, <1>6, <1>7, <1>8

(***************************************************************************)
(* The overshoot.  Cleared holds the calls that passed a check and are not *)
(* charged yet.  What was charged of late fits below the bound together    *)
(* with all of them at MaxTokens, or with one of them, the last that was   *)
(* checked, at its own tokens and the others at MaxTokens.                 *)
(***************************************************************************)
Cleared == {t \in Threads : pc[t] \in {"record", "append"} /\ cap[t] # NoCap}

Capped == {i \in Recent : charges[i].capped}
Load == TokensIn(charges, Capped)

Bound == MaxCap + (Cardinality(Threads) - 1) * MaxTokens

Fits(b, F, w) ==
    \/ b + MaxTokens * Cardinality(F) <= Bound
    \/ \E t \in F : b + w[t] + MaxTokens * (Cardinality(F) - 1) <= Bound

Weights == [Threads -> 0..MaxTokens]

LEMMA Finite ==
    ASSUME NEW F \in SUBSET Threads
    PROVE  /\ IsFiniteSet(F) /\ Cardinality(F) \in Nat
           /\ Cardinality(F) <= Cardinality(Threads)
BY VelocityAssumption, FS_Subset, FS_CardinalityType

LEMMA Product ==
    ASSUME NEW n \in Nat
    PROVE  /\ MaxTokens * n \in Nat
           /\ MaxTokens * (n + 1) = MaxTokens * n + MaxTokens
BY VelocityAssumption

LEMMA Monotone ==
    ASSUME NEW m \in Nat, NEW n \in Nat, m <= n
    PROVE  MaxTokens * m <= MaxTokens * n
<1>1. n - m \in Nat /\ MaxTokens * (n - m) \in Nat
  BY Product
<1>2. MaxTokens * n = MaxTokens * m + MaxTokens * (n - m)
  BY VelocityAssumption
<1> QED
  BY <1>1, <1>2, Product

LEMMA BoundIs ==
    \E n \in Nat : /\ Cardinality(Threads) = n + 1
                   /\ Bound = MaxCap + MaxTokens * n
                   /\ MaxCap \in Nat /\ MaxTokens * n \in Nat /\ Bound \in Nat
<1>1. Cardinality(Threads) \in Nat /\ Cardinality(Threads) # 0
  BY VelocityAssumption, FS_CardinalityType, FS_EmptySet
<1>2. PICK n \in Nat : n = Cardinality(Threads) - 1
  BY <1>1
<1>3. n * MaxTokens = MaxTokens * n /\ MaxTokens * n \in Nat /\ MaxCap \in Nat
  BY VelocityAssumption, Product
<1> QED
  BY <1>1, <1>2, <1>3 DEF Bound

\* What fits stays below the bound.
LEMMA FitsBound ==
    ASSUME NEW b \in Nat, NEW F \in SUBSET Threads, NEW w \in Weights, Fits(b, F, w)
    PROVE  b <= Bound
<1>1. Cardinality(F) \in Nat /\ MaxTokens * Cardinality(F) \in Nat /\ Bound \in Nat
  BY Finite, Product, BoundIs
<1>2. CASE b + MaxTokens * Cardinality(F) <= Bound
  BY <1>1, <1>2
<1>3. ASSUME NEW t \in F, b + w[t] + MaxTokens * (Cardinality(F) - 1) <= Bound
      PROVE  b <= Bound
  <2>1. Cardinality(F) - 1 \in Nat
    BY <1>1, Finite, FS_EmptySet
  <2>2. MaxTokens * (Cardinality(F) - 1) \in Nat
    BY <2>1, Product
  <2>3. w[t] \in Nat
    BY DEF Weights
  <2> QED
    BY <1>1, <1>3, <2>2, <2>3
<1> QED
  BY <1>2, <1>3 DEF Fits

\* Nothing new is charged: the same calls still fit.
LEMMA FitsSame ==
    ASSUME NEW b \in Nat, NEW c \in Nat, NEW F \in SUBSET Threads,
           NEW w \in Weights, NEW v \in Weights, Fits(b, F, w), c <= b,
           \A u \in F : v[u] = w[u]
    PROVE  Fits(c, F, v)
<1>1. Cardinality(F) \in Nat /\ MaxTokens * Cardinality(F) \in Nat /\ Bound \in Nat
  BY Finite, Product, BoundIs
<1>2. CASE b + MaxTokens * Cardinality(F) <= Bound
  BY <1>1, <1>2 DEF Fits
<1>3. ASSUME NEW t \in F, b + w[t] + MaxTokens * (Cardinality(F) - 1) <= Bound
      PROVE  Fits(c, F, v)
  <2>1. MaxTokens * (Cardinality(F) - 1) \in Int
    BY <1>1, VelocityAssumption
  <2>2. v[t] = w[t] /\ w[t] \in Nat
    BY DEF Weights
  <2>3. c + v[t] + MaxTokens * (Cardinality(F) - 1) <= Bound
    BY <1>1, <1>3, <2>1, <2>2
  <2> QED
    BY <2>3 DEF Fits
<1> QED
  BY <1>2, <1>3 DEF Fits

\* One of the calls is charged: the others still fit.
LEMMA FitsWithout ==
    ASSUME NEW b \in Nat, NEW c \in Nat, NEW F \in SUBSET Threads,
           NEW w \in Weights, NEW t \in F, Fits(b, F, w), c <= b + w[t]
    PROVE  Fits(c, F \ {t}, w)
<1> DEFINE n == Cardinality(F) - 1
<1>1. n \in Nat /\ Cardinality(F \ {t}) = n /\ Cardinality(F) = n + 1 /\ Cardinality(F) - 1 = n
  <2>1. IsFiniteSet(F) /\ Cardinality(F) \in Nat /\ F # {}
    BY Finite
  <2>2. Cardinality(F) # 0
    BY <2>1, FS_EmptySet
  <2>3. Cardinality(F \ {t}) = Cardinality(F) - 1
    BY <2>1, FS_RemoveElement
  <2> QED
    BY <2>1, <2>2, <2>3
<1> HIDE DEF n
<1>2. /\ w[t] \in Nat /\ w[t] <= MaxTokens /\ MaxTokens \in Nat /\ Bound \in Nat
      /\ MaxTokens * n \in Nat
  BY <1>1, VelocityAssumption, BoundIs, Product DEF Weights
<1>3. CASE b + MaxTokens * (n + 1) <= Bound
  <2>1. c + MaxTokens * n <= Bound
    BY <1>1, <1>2, <1>3, Product
  <2> QED
    BY <1>1, <2>1 DEF Fits
<1>4. CASE b + w[t] + MaxTokens * n <= Bound
  <2>1. c + MaxTokens * n <= Bound
    BY <1>2, <1>4
  <2> QED
    BY <1>1, <2>1 DEF Fits
<1>5. ASSUME NEW u \in F \ {t}, b + w[u] + MaxTokens * n <= Bound
      PROVE  Fits(c, F \ {t}, w)
  <2>1. n - 1 \in Nat /\ MaxTokens * n = MaxTokens * (n - 1) + MaxTokens
    <3>1. F \ {t} # {} /\ IsFiniteSet(F \ {t})
      BY <1>5, Finite
    <3>2. n # 0
      BY <1>1, <3>1, FS_EmptySet
    <3> QED
      BY <1>1, <3>2, Product
  <2>2. w[u] \in Nat /\ MaxTokens * (n - 1) \in Nat
    BY <1>5, <2>1, Product DEF Weights
  <2>3. c + w[u] + MaxTokens * (n - 1) <= Bound
    BY <1>2, <1>5, <2>1, <2>2
  <2> QED
    BY <1>1, <1>5, <2>3 DEF Fits
<1> QED
  BY <1>1, <1>3, <1>4, <1>5 DEF Fits

\* A call that passes its check fits with the others.
LEMMA FitsWith ==
    ASSUME NEW b \in Nat, NEW t \in Threads, NEW F \in SUBSET (Threads \ {t}),
           NEW w \in Weights, b + w[t] <= MaxCap
    PROVE  Fits(b, F \cup {t}, w)
<1>1. PICK n \in Nat : /\ Cardinality(Threads) = n + 1 /\ Bound = MaxCap + MaxTokens * n
                       /\ MaxCap \in Nat /\ MaxTokens * n \in Nat
  BY BoundIs
<1>2. /\ F \cup {t} \in SUBSET Threads /\ IsFiniteSet(F) /\ t \notin F
      /\ Cardinality(F) \in Nat
  BY Finite
<1>3. Cardinality(F \cup {t}) = Cardinality(F) + 1 /\ Cardinality(F \cup {t}) <= n + 1
  BY <1>1, <1>2, Finite, FS_AddElement
<1>4. Cardinality(F) <= n /\ Cardinality(F \cup {t}) - 1 = Cardinality(F)
  BY <1>2, <1>3
<1>5. MaxTokens * Cardinality(F) <= MaxTokens * n /\ MaxTokens * Cardinality(F) \in Nat
  BY <1>2, <1>4, Monotone, Product
<1>6. w[t] \in Nat
  BY DEF Weights
<1>7. b + w[t] + MaxTokens * Cardinality(F) <= Bound
  BY <1>1, <1>5, <1>6
<1> QED
  BY <1>4, <1>7 DEF Fits

\* Only a call under a cap is checked.
CapsRead == \A t \in Threads : pc[t] \in {"clock", "count"} => cap[t] # NoCap

OvershootInv == WindowInv /\ CapsRead /\ Fits(Load, Cleared, tokens)

\* What OvershootInv gives every step.
LEMMA OvershootTypes ==
    ASSUME OvershootInv
    PROVE  /\ TypeOK /\ WindowInv /\ CapsRead /\ Fits(Load, Cleared, tokens)
           /\ Cleared \in SUBSET Threads /\ tokens \in Weights
           /\ charges \in Seq(Charge) /\ Load \in Nat
<1>1. TypeOK /\ charges \in Seq(Charge)
  BY DEF OvershootInv, WindowInv, TypeOK, Charge
<1>2. Load \in Nat
  BY <1>1, SumMonotone DEF Load
<1> QED
  BY <1>1, <1>2 DEF OvershootInv, Cleared, Weights, TypeOK

\* Time goes on, or nothing happens that is charged.
LEMMA LoadShrinks ==
    ASSUME OvershootInv, WindowInv', CapsRead', charges' = charges, clock' >= clock,
           clock' \in Nat, Cleared' = Cleared, \A u \in Cleared : tokens'[u] = tokens[u]
    PROVE  OvershootInv'
<1>1. /\ Fits(Load, Cleared, tokens) /\ Cleared \in SUBSET Threads /\ tokens \in Weights
      /\ charges \in Seq(Charge) /\ Load \in Nat /\ clock \in Nat
  BY OvershootTypes DEF TypeOK
<1>2. tokens' \in Weights
  BY DEF WindowInv, TypeOK, Weights
<1>3. ASSUME NEW i \in 1..Len(charges), i \in Capped' PROVE i \in Capped
  <2>1. PICK e \in Charge : e = charges[i]
    BY <1>1, ElementOfSeq
  <2>2. e.at \in Nat /\ Window \in Nat
    BY VelocityAssumption DEF Charge
  <2>3. e.at >= clock' - Window /\ e.capped
    BY <1>3, <2>1 DEF Capped, Recent
  <2>4. e.at >= clock - Window
    BY <1>1, <2>2, <2>3
  <2> QED
    BY <2>1, <2>3, <2>4 DEF Capped, Recent
<1>4. Load' \in Nat /\ Load' <= Load
  <2> DEFINE later == Capped'
  <2>1. Load' = TokensIn(charges, later)
    BY DEF Load
  <2> HIDE DEF later
  <2>2. \A i \in 1..Len(charges) : i \in later => i \in Capped
    BY <1>3 DEF later
  <2>3. /\ TokensIn(charges, later) \in Nat
        /\ TokensIn(charges, later) <= TokensIn(charges, Capped)
    BY <1>1, <2>2, SumMonotone
  <2> QED
    BY <2>1, <2>3 DEF Load
<1>5. Fits(Load', Cleared, tokens')
  BY <1>1, <1>2, <1>4, FitsSame
<1> QED
  BY <1>5 DEF OvershootInv, Fits, Bound

\* A call that passes its check: everything recent was counted with it.
LEMMA CheckPasses ==
    ASSUME OvershootInv, WindowInv', CapsRead', NEW t \in Threads, Count(t),
           ~(Projected(t) > cap[t]), GoTo(t, "record")
    PROVE  OvershootInv'
<1>1. /\ TypeOK /\ CapsRead /\ Fits(Load, Cleared, tokens) /\ tokens \in Weights
      /\ Cleared \in SUBSET Threads /\ charges \in Seq(Charge) /\ Load \in Nat
  BY OvershootTypes
<1>2. UNCHANGED <<clock, now, tokens, cap, charges, calls>> /\ pc[t] = "count"
  BY DEF Count
<1>3. cap[t] \in 0..MaxCap /\ MaxCap \in Nat /\ tokens[t] \in Nat
  BY <1>1, <1>2, VelocityAssumption DEF TypeOK, CapsRead, Weights
<1> DEFINE counted == {window'[i] : i \in 1..Len(window')}
<1>4. Projected(t) = TokensIn(charges, counted) + tokens[t]
  BY DEF Projected, Total
<1>5. Recent \subseteq counted
  BY <1>2 DEF WindowInv, WindowComplete, Recent
<1>6. \A i \in 1..Len(charges) : i \in Capped => i \in counted
  BY <1>5 DEF Capped
<1> HIDE DEF counted
<1>7. TokensIn(charges, counted) \in Nat /\ Load <= TokensIn(charges, counted)
  BY <1>1, <1>6, SumMonotone DEF Load
<1>8. Load + tokens[t] <= MaxCap
  BY <1>1, <1>3, <1>4, <1>7
<1>9. Cleared' = Cleared \cup {t} /\ Cleared \in SUBSET (Threads \ {t})
  <2>1. pc' = [pc EXCEPT ![t] = "record"] /\ pc \in [Threads -> Steps]
    BY <1>1 DEF GoTo, TypeOK
  <2> QED
    BY <1>1, <1>2, <2>1 DEF Cleared, CapsRead
<1>10. Load' = Load
  BY <1>2 DEF Load, Capped, Recent
<1>11. Fits(Load, Cleared', tokens)
  BY <1>1, <1>8, <1>9, FitsWith
<1> QED
  BY <1>2, <1>10, <1>11 DEF OvershootInv, Fits, Bound

\* A call is charged: one that was checked leaves the cleared ones, and any
\* other is not counted.
LEMMA ChargeMade ==
    ASSUME OvershootInv, WindowInv', CapsRead', NEW t \in Threads, AppendTokens(t)
    PROVE  OvershootInv'
<1>1. /\ TypeOK /\ WindowInv /\ Fits(Load, Cleared, tokens) /\ tokens \in Weights
      /\ Cleared \in SUBSET Threads /\ charges \in Seq(Charge) /\ Load \in Nat
  BY OvershootTypes
<1>2. PICK n \in Nat : n = Len(charges)
  BY <1>1
<1> DEFINE entry == [at |-> now[t], tokens |-> tokens[t], capped |-> cap[t] # NoCap]
<1>3. /\ pc[t] = "append" /\ UNCHANGED <<clock, now, tokens, cap, calls>>
      /\ charges' = Append(charges, entry)
  BY DEF AppendTokens
<1>4. entry \in Charge
  BY <1>1 DEF TypeOK, Charge
<1>5. /\ charges' \in Seq(Charge) /\ Len(charges') = n + 1
      /\ \A i \in 1..n : charges'[i] = charges[i]
      /\ charges'[n + 1] = entry
  <2> HIDE DEF entry
  <2> QED
    BY <1>1, <1>2, <1>3, <1>4, AppendProperties
<1> DEFINE later == Capped'
<1>6. \A i \in 1..n : i \in later => i \in Capped
  BY <1>2, <1>3, <1>5 DEF Capped, Recent
<1>7. Load' = TokensIn(charges', later)
  BY DEF Load
<1>8. n + 1 \in later => t \in Cleared
  <2>1. n + 1 \in later => charges'[n + 1].capped
    BY DEF Capped
  <2>2. entry.capped = (cap[t] # NoCap)
    OBVIOUS
  <2>3. n + 1 \in later => cap[t] # NoCap
    BY <1>5, <2>1, <2>2
  <2> QED
    BY <1>3, <2>3 DEF Cleared
<1>9. Share(charges', later, n + 1) \in {0, tokens[t]}
  BY <1>5 DEF Share
<1>10. n + 1 \notin later => Share(charges', later, n + 1) = 0
  BY DEF Share
<1> HIDE DEF later
<1>11. /\ Load' \in Nat
       /\ Load' <= Load + Share(charges', later, n + 1)
  <2>1. \A i \in 1..Len(charges) :
           charges'[i] = charges[i] /\ (i \in later => i \in Capped)
    BY <1>2, <1>5, <1>6
  <2>2. Len(charges') = Len(charges) + 1
    BY <1>2, <1>5
  <2>3. /\ TokensIn(charges', later) \in Nat
        /\ TokensIn(charges', later)
             <= TokensIn(charges, Capped) + Share(charges', later, Len(charges) + 1)
    BY <1>1, <1>5, <2>1, <2>2, SumAppended
  <2> QED
    BY <1>2, <1>7, <2>3 DEF Load
<1>12. Cleared' = Cleared \ {t}
  <2>1. pc' = [pc EXCEPT ![t] = "idle"] /\ pc \in [Threads -> Steps]
    BY <1>1 DEF AppendTokens, GoTo, TypeOK
  <2> QED
    BY <1>3, <2>1 DEF Cleared
<1>13. tokens[t] \in Nat
  BY <1>1 DEF Weights
<1>14. Fits(Load', Cleared \ {t}, tokens)
  <2>1. CASE t \in Cleared
    <3>1. Load' <= Load + tokens[t]
      BY <1>1, <1>9, <1>11, <1>13
    <3> QED
      BY <1>1, <1>11, <2>1, <3>1, FitsWithout
  <2>2. CASE t \notin Cleared
    <3>1. Load' <= Load /\ Cleared \ {t} = Cleared
      BY <1>1, <1>8, <1>10, <1>11, <2>2
    <3> QED
      BY <1>1, <1>11, <3>1, FitsSame
  <2> QED
    BY <2>1, <2>2
<1> QED
  BY <1>3, <1>12, <1>14 DEF OvershootInv, Fits, Bound

LEMMA CapsStep ==
    ASSUME OvershootInv, [Next]_vars
    PROVE  CapsRead'
<1>1. pc \in [Threads -> Steps] /\ cap \in [Threads -> (0..MaxCap) \cup {NoCap}] /\ CapsRead
  BY OvershootTypes DEF TypeOK
<1>2. ASSUME NEW t \in Threads, Begin(t) PROVE CapsRead'
  <2>1. PICK c \in Caps : /\ cap' = [cap EXCEPT ![t] = c]
                          /\ pc' = [pc EXCEPT ![t] = IF c = NoCap THEN "record" ELSE "clock"]
    BY <1>2 DEF Begin, GoTo
  <2> QED
    BY <1>1, <2>1 DEF CapsRead
<1>3. ASSUME NEW t \in Threads, ReadClock(t) PROVE CapsRead'
  <2>1. /\ cap' = cap
        /\ \/ pc[t] = "clock" /\ pc' = [pc EXCEPT ![t] = "count"]
           \/ pc' = [pc EXCEPT ![t] = "append"]
    BY <1>3 DEF ReadClock, GoTo
  <2> QED
    BY <1>1, <2>1 DEF CapsRead
<1>4. ASSUME NEW t \in Threads, Count(t) \/ AppendTokens(t) PROVE CapsRead'
  <2>1. /\ cap' = cap
        /\ \E step \in {"record", "idle"} : pc' = [pc EXCEPT ![t] = step]
    BY <1>4 DEF Count, AppendTokens, GoTo
  <2> QED
    BY <1>1, <2>1 DEF CapsRead
<1>5. CASE Tick \/ UNCHANGED vars
  BY <1>1, <1>5 DEF Tick, vars, callVars, CapsRead
<1> QED
  BY <1>2, <1>3, <1>4, <1>5 DEF Next

LEMMA OvershootStep == OvershootInv /\ [Next]_vars => OvershootInv'
<1> SUFFICES ASSUME OvershootInv, [Next]_vars PROVE OvershootInv'
  OBVIOUS
<1>1. TypeOK /\ WindowInv /\ clock \in Nat /\ pc \in [Threads -> Steps]
      /\ cap \in [Threads -> (0..MaxCap) \cup {NoCap}]
      /\ tokens \in [Threads -> 0..MaxTokens]
  BY OvershootTypes DEF TypeOK
<1>2. WindowInv' /\ clock' \in Nat
  BY <1>1, WindowStep DEF WindowInv, TypeOK
<1>3. CapsRead'
  BY CapsStep
<1>4. CASE Tick \/ UNCHANGED vars
  <2>1. /\ charges' = charges /\ clock' >= clock /\ UNCHANGED <<pc, tokens, cap>>
    BY <1>1, <1>4 DEF Tick, vars, callVars
  <2>2. Cleared' = Cleared
    BY <2>1 DEF Cleared
  <2> QED
    BY <1>2, <1>3, <2>1, <2>2, LoadShrinks
<1>5. ASSUME NEW t \in Threads, Begin(t) PROVE OvershootInv'
  <2>1. PICK k \in Tokens, c \in Caps :
           /\ tokens' = [tokens EXCEPT ![t] = k] /\ cap' = [cap EXCEPT ![t] = c]
           /\ pc' = [pc EXCEPT ![t] = IF c = NoCap THEN "record" ELSE "clock"]
    BY <1>5 DEF Begin, GoTo
  <2>2. pc[t] = "idle" /\ charges' = charges /\ clock' = clock
    BY <1>5 DEF Begin
  <2>3. Cleared' = Cleared /\ t \notin Cleared
    BY <1>1, <2>1, <2>2 DEF Cleared
  <2>4. \A u \in Cleared : tokens'[u] = tokens[u]
    BY <1>1, <2>1, <2>3 DEF Cleared
  <2> QED
    BY <1>1, <1>2, <1>3, <2>2, <2>3, <2>4, LoadShrinks
<1>6. ASSUME NEW t \in Threads, ReadClock(t) PROVE OvershootInv'
  <2>1. /\ charges' = charges /\ clock' = clock /\ UNCHANGED <<tokens, cap>>
        /\ \/ pc[t] = "clock" /\ pc' = [pc EXCEPT ![t] = "count"]
           \/ pc[t] = "record" /\ pc' = [pc EXCEPT ![t] = "append"]
    BY <1>6 DEF ReadClock, GoTo
  <2>2. Cleared' = Cleared
    BY <1>1, <2>1 DEF Cleared
  <2> QED
    BY <1>1, <1>2, <1>3, <2>1, <2>2, LoadShrinks
<1>7. ASSUME NEW t \in Threads, Count(t) PROVE OvershootInv'
  <2>1. CASE GoTo(t, "idle")
    <3>1. /\ charges' = charges /\ clock' = clock /\ UNCHANGED <<tokens, cap>>
          /\ pc[t] = "count" /\ pc' = [pc EXCEPT ![t] = "idle"]
      BY <1>7, <2>1 DEF Count, GoTo
    <3>2. Cleared' = Cleared
      BY <1>1, <3>1 DEF Cleared
    <3> QED
      BY <1>1, <1>2, <1>3, <3>1, <3>2, LoadShrinks
  <2>2. CASE ~(Projected(t) > cap[t]) /\ GoTo(t, "record")
    BY <1>2, <1>3, <1>7, <2>2, CheckPasses
  <2> QED
    BY <1>7, <2>1, <2>2 DEF Count
<1>8. ASSUME NEW t \in Threads, AppendTokens(t) PROVE OvershootInv'
  BY <1>2, <1>3, <1>8, ChargeMade
<1> QED
  BY <1>4, <1>5, <1>6, <1>7, <1>8 DEF Next

LEMMA OvershootInit == Init => OvershootInv
<1> SUFFICES ASSUME Init PROVE OvershootInv
  OBVIOUS
<1>1. WindowInv /\ CapsRead
  BY WindowInit DEF Init, CapsRead
<1>2. Cleared = {} /\ tokens \in Weights
  BY <1>1 DEF Init, Cleared, WindowInv, TypeOK, Weights
<1>3. Load = 0
  <2>1. charges \in Seq(Charge) /\ Len(charges) = 0
    BY <1>1 DEF Init, WindowInv, TypeOK, Charge
  <2>2. PICK f : IsSum(f, charges, Capped) /\ TokensIn(charges, Capped) = f[Len(charges)]
    BY <2>1, TokensInIs
  <2> QED
    BY <2>1, <2>2 DEF IsSum, Load
<1>4. Cardinality({}) = 0 /\ MaxTokens * 0 = 0 /\ Bound \in Nat
  BY FS_EmptySet, VelocityAssumption, BoundIs
<1>5. Fits(Load, Cleared, tokens)
  BY <1>2, <1>3, <1>4 DEF Fits
<1> QED
  BY <1>1, <1>5 DEF OvershootInv

\* _enforce_policy and _update_policy_trackers: however many threads check the
\* velocity cap before any of them is charged, the checked calls of the last
\* Window seconds use no more than the highest cap and one call for each other
\* thread.
THEOREM VelocityOvershoot == Spec => []VelocityOvershootBounded
<1>1. OvershootInv => VelocityOvershootBounded
  <2> SUFFICES ASSUME OvershootInv PROVE VelocityOvershootBounded
    OBVIOUS
  <2>1. Load <= Bound
    BY OvershootTypes, FitsBound
  <2> QED
    BY <2>1 DEF Load, Capped, Bound, VelocityOvershootBounded
<1> QED
  BY <1>1, OvershootInit, OvershootStep, PTL DEF Spec
=============================================================================
