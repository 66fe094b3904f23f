--------------------------- MODULE DetectionProofs ---------------------------
(***************************************************************************)
(* First, of the detection pipeline: an event is shipped once per window,  *)
(* dropped only for one that was shipped within the window, and heard by   *)
(* everybody before its call may raise, for any number of threads,         *)
(* sessions, kinds of event and handlers and whatever the clock and the    *)
(* lazy cleanup do.  Then, of the detectors that decide what there is to   *)
(* ship: whatever the traffic and the thresholds, their verdicts do not    *)
(* depend on what must not matter, what they find alike was alike, and the *)
(* tool calls they report get nowhere.                                     *)
(***************************************************************************)
EXTENDS Detection, RuleSession, FiniteSetTheorems, SequenceTheorems,
        WellFoundedInduction, TLAPS

USE DEF callVars

(***************************************************************************)
(* Operators                                                               *)
(***************************************************************************)
\* A set of natural numbers has a first one.
LEMMA Least ==
    ASSUME NEW S \in SUBSET Nat, S # {}
    PROVE  \E i \in S : \A j \in S : i <= j
<1> DEFINE R == OpToRel(<, Nat)
<1>1. \A x, y \in Nat : <<x, y>> \in R <=> x < y
  BY DEF OpToRel
<1>2. IsWellFoundedOn(R, Nat)
  BY NatLessThanWellFounded
<1> HIDE DEF R
<1>3. PICK i \in S : \A j \in S : ~(<<j, i>> \in R)
  BY <1>2, WFMin
<1>4. ASSUME NEW j \in S PROVE i <= j
  <2>1. i \in Nat /\ j \in Nat /\ ~(j < i)
    BY <1>1, <1>3, <1>4
  <2> QED
    BY <2>1
<1> QED
  BY <1>4

\* Some events have a first one.
LEMMA FirstIsOne ==
    ASSUME NEW F \in SUBSET Kinds, F # {}
    PROVE  First(F) \in F
<1> DEFINE at == {i \in 1..Len(RuleOrder) : RuleOrder[i] \in F}
<1>1. at \in SUBSET Nat /\ Len(RuleOrder) \in Nat
  <2>1. RuleOrder \in Seq(Kinds)
    BY DetectionAssumption
  <2>2. Len(RuleOrder) \in Nat
    BY <2>1
  <2> QED
    BY <2>2
<1>2. at # {}
  <2>1. PICK k \in F : TRUE
    OBVIOUS
  <2>2. PICK i \in 1..Len(RuleOrder) : RuleOrder[i] = k
    BY DetectionAssumption
  <2> QED
    BY <2>2
<1>3. PICK i \in at : \A j \in at : i <= j
  <2> HIDE DEF at
  <2> QED
    BY <1>1, <1>2, Least
<1>4. \A j \in 1..(i - 1) : RuleOrder[j] \notin F
  BY <1>1, <1>3
<1> QED
  BY <1>3, <1>4 DEF First

LEMMA RangeIs ==
    ASSUME NEW S, NEW seq \in Seq(S)
    PROVE  Range(seq) = {seq[i] : i \in 1..Len(seq)} /\ Range(seq) \subseteq S
BY DEF Range

\* The rest of a list of more than one is not empty, and with its head it
\* is all of the list.
LEMMA TailIs ==
    ASSUME NEW S, NEW seq \in Seq(S), seq # <<>>
    PROVE  /\ Head(seq) \in S /\ Tail(seq) \in Seq(S)
           /\ Len(seq) > 1 => Tail(seq) # <<>>
           /\ Range(seq) \subseteq {Head(seq)} \cup Range(Tail(seq))
           /\ ~(Len(seq) > 1) => Range(seq) = {Head(seq)}
<1>1. PICK rest \in Seq(S) : rest = Tail(seq)
  BY HeadTailProperties
<1>2. /\ Head(seq) \in S /\ Head(seq) = seq[1] /\ Len(seq) \in Nat
      /\ Len(rest) = Len(seq) - 1 /\ \A i \in 1..Len(rest) : rest[i] = seq[i + 1]
  BY <1>1
<1>3. Len(seq) > 1 => rest # <<>>
  <2>1. Len(rest) = 0 => ~(Len(seq) > 1)
    BY <1>2, SMTT(30)
  <2> QED
    BY <2>1, EmptySeq
<1>4. ASSUME NEW i \in 1..Len(seq) PROVE seq[i] \in {Head(seq)} \cup Range(rest)
  <2>1. CASE i = 1
    BY <1>2, <2>1
  <2>2. CASE i # 1
    <3>1. i - 1 \in 1..Len(rest) /\ (i - 1) + 1 = i
      BY <1>2, <2>2
    <3>2. rest[i - 1] = seq[i]
      BY <1>2, <3>1
    <3>3. rest[i - 1] \in Range(rest)
      BY <3>1, RangeIs
    <3> QED
      BY <3>2, <3>3
  <2> QED
    BY <2>1, <2>2
<1>5. Range(seq) \subseteq {Head(seq)} \cup Range(rest)
  BY <1>4, RangeIs
<1>6. ~(Len(seq) > 1) => Range(seq) = {Head(seq)}
  <2>1. ~(Len(seq) > 1) => 1..Len(seq) = {1}
    BY <1>2, EmptySeq
  <2> QED
    BY <1>2, <2>1, RangeIs
<1> QED
  BY <1>1, <1>2, <1>3, <1>5, <1>6

\* Appending adds one element to the range.
LEMMA AppendedRange ==
    ASSUME NEW S, NEW seq \in Seq(S), NEW e \in S
    PROVE  Range(Append(seq, e)) = Range(seq) \cup {e}
<1>1. PICK longer \in Seq(S) : longer = Append(seq, e)
  BY AppendProperties
<1>2. /\ Len(longer) = Len(seq) + 1 /\ Len(seq) \in Nat
      /\ \A i \in 1..Len(seq) : longer[i] = seq[i]
      /\ longer[Len(seq) + 1] = e
  BY <1>1
<1>3. Range(longer) = {longer[i] : i \in 1..Len(longer)}
  BY RangeIs
<1>4. Range(seq) = {seq[i] : i \in 1..Len(seq)}
  BY RangeIs
<1>5. \A i \in 1..Len(longer) : i \in 1..Len(seq) \/ i = Len(seq) + 1
  BY <1>2
<1>6. \A i \in 1..Len(seq) : i \in 1..Len(longer)
  BY <1>2
<1>7. Len(seq) + 1 \in 1..Len(longer)
  BY <1>2
<1>8. Range(longer) \subseteq Range(seq) \cup {e}
  BY <1>2, <1>3, <1>4, <1>5
<1>9. Range(seq) \cup {e} \subseteq Range(longer)
  BY <1>2, <1>3, <1>4, <1>6, <1>7
<1> QED
  BY <1>1, <1>8, <1>9

\* list.remove
LEMMA RemovedType ==
    ASSUME NEW S, NEW seq \in Seq(S), NEW i \in 1..Len(seq)
    PROVE  RemoveAt(seq, i) \in Seq(S)
<1>1. SubSeq(seq, 1, i - 1) \in Seq(S) /\ SubSeq(seq, i + 1, Len(seq)) \in Seq(S)
  OBVIOUS
<1> QED
  BY <1>1 DEF RemoveAt

(***************************************************************************)
(* Types                                                                   *)
(***************************************************************************)
\* A thread in a call has a session and a time.
InCall == \A t \in Threads : pc[t] # "idle" => sid[t] \in Sessions

LEMMA FinishType ==
    ASSUME TypeOK, InCall, NEW t \in Threads, Finish(t)
    PROVE  /\ pc' \in [Threads -> Steps] /\ sid' \in [Threads -> Sessions \cup {NoSession}]
           /\ now' \in [Threads -> Nat] /\ events' \in [Threads -> SUBSET Kinds]
           /\ calling' \in [Threads -> Seq(Handlers \cup {Sink})]
           /\ mine' \in [Threads -> SUBSET Kinds]
           /\ heard' \in [Threads -> SUBSET ((Handlers \cup {Sink}) \X Kinds)]
           /\ steady' \in [Threads -> SUBSET Handlers]
           /\ pc'[t] = "idle"
           /\ \A u \in Threads : u # t =>
                 /\ pc'[u] = pc[u] /\ sid'[u] = sid[u] /\ now'[u] = now[u]
                 /\ events'[u] = events[u] /\ calling'[u] = calling[u] /\ mine'[u] = mine[u]
                 /\ heard'[u] = heard[u] /\ steady'[u] = steady[u]
<1>1. <<>> \in Seq(Handlers \cup {Sink})
  OBVIOUS
<1> QED
  BY <1>1 DEF TypeOK, Finish, Steps

LEMMA TypesStep ==
    ASSUME TypeOK, InCall, [Next]_vars
    PROVE  TypeOK' /\ InCall'
<1>1. CASE Tick
  BY <1>1 DEF Tick, TypeOK, InCall
<1>2. ASSUME NEW h \in Handlers, OnLeak(h) PROVE TypeOK' /\ InCall'
  BY <1>2 DEF OnLeak, TypeOK, InCall
<1>3. ASSUME NEW h \in Handlers, Unregister(h) PROVE TypeOK' /\ InCall'
  <2>1. handlers' \in Seq(Handlers)
    BY <1>3, RemovedType DEF Unregister, TypeOK
  <2> QED
    BY <1>3, <2>1 DEF Unregister, TypeOK, InCall
<1>4. ASSUME NEW t \in Threads, RunRules(t) PROVE TypeOK' /\ InCall'
  <2>1. PICK s \in Sessions, F \in Firings :
           sid' = [sid EXCEPT ![t] = s] /\ events' = [events EXCEPT ![t] = Preferred(F)]
    BY <1>4 DEF RunRules
  <2>2. Preferred(F) \in SUBSET Kinds
    BY DetectionAssumption DEF Preferred
  <2>3. Range(handlers) \in SUBSET Handlers
    BY RangeIs DEF TypeOK
  <2> QED
    BY <1>4, <2>1, <2>2, <2>3 DEF RunRules, TypeOK, InCall, Steps
<1>5. ASSUME NEW t \in Threads, Filter(t) PROVE TypeOK' /\ InCall'
  <2> DEFINE table == IF Window = 0 THEN recent ELSE Cleaned(now[t])
             keymap == table[sid[t]]
             lost == {k \in events[t] : Window > 0 /\ Duplicate(keymap, k, now[t])}
             kept == events[t] \ lost
  <2>1. /\ pc[t] = "filter" /\ sid[t] \in Sessions /\ now[t] \in Nat /\ events[t] \subseteq Kinds
        /\ UNCHANGED <<clock, handlers, calls>>
    BY <1>5 DEF Filter, TypeOK, InCall
  <2>2. table \in [Sessions -> [Kinds -> Nat \cup {Never}]]
    BY DEF TypeOK, Cleaned
  <2>3. recent' \in [Sessions -> [Kinds -> Nat \cup {Never}]]
    <3>1. Stamped(keymap, events[t], now[t]) \in [Kinds -> Nat \cup {Never}]
      BY <2>1, <2>2 DEF Stamped
    <3>2. recent' = IF Window = 0 THEN recent
                    ELSE [table EXCEPT ![sid[t]] = Stamped(keymap, events[t], now[t])]
      BY <1>5 DEF Filter
    <3> QED
      BY <2>2, <3>1, <3>2 DEF TypeOK
  <2>4. hushed' \subseteq Occurrences
    <3>1. hushed' = hushed \cup
                       {[session |-> sid[t], kind |-> k, time |-> now[t]] : k \in lost}
      BY <1>5 DEF Filter
    <3> QED
      BY <2>1, <3>1 DEF TypeOK, Occurrences
  <2>5. CASE kept = {}
    <3>1. Finish(t) /\ UNCHANGED shipped
      BY <1>5, <2>5 DEF Filter
    <3> QED
      BY <2>1, <2>3, <2>4, <3>1, FinishType DEF TypeOK, InCall
  <2>6. CASE kept # {}
    <3>1. /\ pc' = [pc EXCEPT ![t] = "take"] /\ events' = [events EXCEPT ![t] = kept]
          /\ mine' = [mine EXCEPT ![t] = kept]
          /\ shipped' = Append(shipped,
                [session |-> sid[t], kinds |-> kept, time |-> now[t]])
          /\ UNCHANGED <<sid, now, calling, heard, steady>>
      BY <1>5, <2>6 DEF Filter
    <3>2. kept \in SUBSET Kinds /\ [session |-> sid[t], kinds |-> kept, time |-> now[t]] \in Shipments
      BY <2>1 DEF Shipments
    <3> HIDE DEF kept
    <3>3. shipped' \in Seq(Shipments)
      BY <3>1, <3>2 DEF TypeOK
    <3> QED
      BY <2>1, <2>3, <2>4, <2>6, <3>1, <3>2, <3>3 DEF TypeOK, InCall, Steps
  <2> QED
    BY <2>5, <2>6
<1>6. ASSUME NEW t \in Threads, TakeHandlers(t) PROVE TypeOK' /\ InCall'
  <2>1. Append(handlers, Sink) \in Seq(Handlers \cup {Sink}) /\ Append(handlers, Sink) # <<>>
    <3>1. handlers \in Seq(Handlers \cup {Sink})
      BY DEF TypeOK
    <3> QED
      BY <3>1
  <2> QED
    BY <1>6, <2>1 DEF TakeHandlers, TypeOK, InCall, Steps
<1>7. ASSUME NEW t \in Threads, CallHandler(t) PROVE TypeOK' /\ InCall'
  <2>1. /\ pc[t] = "call" /\ events[t] # {} /\ events[t] \subseteq Kinds
        /\ calling[t] \in Seq(Handlers \cup {Sink}) /\ calling[t] # <<>>
    BY <1>7 DEF CallHandler, TypeOK
  <2>2. /\ First(events[t]) \in Kinds /\ Head(calling[t]) \in Handlers \cup {Sink}
        /\ Tail(calling[t]) \in Seq(Handlers \cup {Sink})
    BY <2>1, FirstIsOne
  <2>3. /\ heard' = [heard EXCEPT ![t] =
                        heard[t] \cup {<<Head(calling[t]), First(events[t])>>}]
        /\ calling' = [calling EXCEPT ![t] = Tail(calling[t])]
        /\ UNCHANGED <<clock, recent, handlers, sid, now, mine, steady, shipped, hushed, calls>>
    BY <1>7 DEF CallHandler
  <2>4. /\ heard' \in [Threads -> SUBSET ((Handlers \cup {Sink}) \X Kinds)]
        /\ calling' \in [Threads -> Seq(Handlers \cup {Sink})]
    BY <2>2, <2>3 DEF TypeOK
  <2>5. CASE Len(calling[t]) > 1
    <3>1. UNCHANGED <<pc, events>>
      BY <1>7, <2>5 DEF CallHandler
    <3>2. Tail(calling[t]) # <<>>
      BY <2>1, <2>5, TailIs
    <3> QED
      BY <2>3, <2>4, <3>1, <3>2 DEF TypeOK, InCall
  <2>6. CASE ~(Len(calling[t]) > 1)
    <3>1. /\ events' = [events EXCEPT ![t] = events[t] \ {First(events[t])}]
          /\ pc' = [pc EXCEPT ![t] = IF events'[t] = {} THEN "decide" ELSE "take"]
      BY <1>7, <2>6 DEF CallHandler, NextEvent
    <3>2. /\ pc' \in [Threads -> Steps] /\ events' \in [Threads -> SUBSET Kinds]
      BY <2>1, <3>1 DEF TypeOK, Steps
    <3>3. pc'[t] = (IF events'[t] = {} THEN "decide" ELSE "take")
      BY <3>1 DEF TypeOK
    <3>4. \A u \in Threads : u # t =>
             pc'[u] = pc[u] /\ events'[u] = events[u] /\ calling'[u] = calling[u]
      BY <2>3, <3>1 DEF TypeOK
    <3>5. \A u \in Threads : pc'[u] \in {"take", "call"} => events'[u] # {}
      BY <3>3, <3>4 DEF TypeOK
    <3>6. \A u \in Threads : pc'[u] = "call" => calling'[u] # <<>>
      BY <3>3, <3>4 DEF TypeOK
    <3>7. InCall'
      BY <2>1, <2>3, <3>4 DEF InCall
    <3> QED
      BY <2>3, <2>4, <3>2, <3>5, <3>6, <3>7 DEF TypeOK
  <2> QED
    BY <2>5, <2>6
<1>8. ASSUME NEW t \in Threads, Decide(t) PROVE TypeOK' /\ InCall'
  <2>1. Finish(t) /\ UNCHANGED <<clock, recent, handlers, shipped, hushed, calls>>
    BY <1>8 DEF Decide
  <2> QED
    BY <2>1, FinishType DEF TypeOK, InCall
<1>9. CASE UNCHANGED vars
  BY <1>9 DEF vars, TypeOK, InCall
<1> QED
  BY <1>1, <1>2, <1>3, <1>4, <1>5, <1>6, <1>7, <1>8, <1>9 DEF Next

LEMMA InitTypes == Init => TypeOK /\ InCall
<1>1. <<>> \in Seq(Handlers) /\ <<>> \in Seq(Handlers \cup {Sink}) /\ <<>> \in Seq(Shipments)
  OBVIOUS
<1> QED
  BY <1>1 DEF Init, TypeOK, InCall, Steps

(***************************************************************************)
(* The filter and what has been shipped                                    *)
(***************************************************************************)
\* No thread is ahead of the clock, and none comes to the lock too late.
ClocksRead ==
    \A t \in Threads :
        now[t] <= clock /\ (pc[t] = "filter" => clock - now[t] <= MaxStall)

\* Every stamp is the time of a shipment.
StampsShipped ==
    \A s \in Sessions, k \in Kinds : recent[s][k] # Never =>
        \E i \in 1..Len(shipped) :
            /\ shipped[i].session = s /\ k \in shipped[i].kinds
            /\ shipped[i].time = recent[s][k]

\* What is at least as old as its stamp, or older than the horizon without.
Remembered(shipment, k) ==
    LET stamp == recent[shipment.session][k]
    IN  IF stamp = Never THEN clock - shipment.time > Horizon
                         ELSE stamp >= shipment.time

ShipmentsStamped ==
    Window > 0 =>
        \A i \in 1..Len(shipped) : \A k \in shipped[i].kinds : Remembered(shipped[i], k)

FilterInv ==
    /\ TypeOK /\ InCall /\ ClocksRead
    /\ StampsShipped /\ ShipmentsStamped /\ OncePerWindow /\ DroppedForAReason

\* What _filter_duplicate_events does to one stamp: it stays, or goes because
\* it is older than the horizon, or is the time of an event just shipped.
StampMoves(t, kept, s, k) ==
    \/ recent'[s][k] = recent[s][k] /\ ~(s = sid[t] /\ k \in kept)
    \/ /\ recent'[s][k] = Never /\ recent[s][k] # Never
       /\ now[t] - recent[s][k] > Horizon
       /\ ~(s = sid[t] /\ k \in kept)
    \/ s = sid[t] /\ k \in kept /\ recent'[s][k] = now[t]

\* An event passes if it has no stamp or an old one.
Passes(t, k) ==
    recent[sid[t]][k] = Never \/ now[t] - recent[sid[t]][k] > Window

LEMMA FilterMoves ==
    ASSUME TypeOK, InCall, NEW t \in Threads, Filter(t)
    PROVE  \E kept \in SUBSET Kinds :
              /\ IF kept = {} THEN shipped' = shipped
                 ELSE shipped' = Append(shipped,
                         [session |-> sid[t], kinds |-> kept, time |-> now[t]])
              /\ Window = 0 => recent' = recent /\ hushed' = hushed
              /\ Window > 0 =>
                    /\ \A s \in Sessions, k \in Kinds : StampMoves(t, kept, s, k)
                    /\ \A k \in kept : Passes(t, k)
              /\ \A e \in hushed' : \/ e \in hushed
                                    \/ /\ e.session = sid[t] /\ e.time = now[t]
                                       /\ e.kind \in Kinds
                                       /\ recent[sid[t]][e.kind] # Never
                                       /\ now[t] - recent[sid[t]][e.kind] <= Window
<1> DEFINE table == IF Window = 0 THEN recent ELSE Cleaned(now[t])
           keymap == table[sid[t]]
           lost == {k \in events[t] : Window > 0 /\ Duplicate(keymap, k, now[t])}
           kept == events[t] \ lost
<1>1. /\ sid[t] \in Sessions /\ now[t] \in Nat /\ events[t] \subseteq Kinds
      /\ recent \in [Sessions -> [Kinds -> Nat \cup {Never}]]
      /\ Window \in Nat /\ Never \notin Nat /\ Horizon \in Nat /\ Horizon >= Window
  <2>1. /\ sid[t] \in Sessions /\ now[t] \in Nat /\ events[t] \subseteq Kinds
        /\ recent \in [Sessions -> [Kinds -> Nat \cup {Never}]]
    BY DEF Filter, TypeOK, InCall
  <2>2. Window \in Nat /\ Never \notin Nat /\ Horizon \in Nat /\ Horizon >= Window
    BY DetectionAssumption DEF Horizon
  <2> QED
    BY <2>1, <2>2
<1>2. recent' = IF Window = 0 THEN recent
                ELSE [table EXCEPT ![sid[t]] = Stamped(keymap, events[t], now[t])]
  BY DEF Filter
<1>3. hushed' = hushed \cup
                   {[session |-> sid[t], kind |-> k, time |-> now[t]] : k \in lost}
  BY DEF Filter
<1>4. IF kept = {} THEN shipped' = shipped
      ELSE shipped' = Append(shipped,
              [session |-> sid[t], kinds |-> kept, time |-> now[t]])
  BY DEF Filter
<1>5. ASSUME NEW s \in Sessions, NEW k \in Kinds, Window > 0
      PROVE  \/ table[s][k] = recent[s][k]
             \/ /\ table[s][k] = Never /\ recent[s][k] # Never
                /\ now[t] - recent[s][k] > Horizon
  <2>1. table[s] = IF Forgotten(recent[s], now[t]) THEN [j \in Kinds |-> Never]
                   ELSE recent[s]
    BY <1>5, <1>1 DEF Cleaned
  <2> HIDE DEF table
  <2>2. CASE Forgotten(recent[s], now[t])
    <3>1. table[s][k] = Never
      BY <2>1, <2>2
    <3>2. recent[s][k] # Never => now[t] - recent[s][k] > Horizon
      BY <2>2 DEF Forgotten
    <3> QED
      BY <3>1, <3>2
  <2> QED
    BY <2>1, <2>2
<1>6. kept \in SUBSET Kinds
  BY <1>1
<1>7. Window = 0 => recent' = recent /\ hushed' = hushed
  <2>1. Window = 0 => lost = {}
    BY <1>1
  <2> QED
    BY <1>2, <1>3, <2>1
<1>8. ASSUME NEW k \in kept, Window > 0 PROVE Passes(t, k)
  <2>1. k \in Kinds /\ ~Duplicate(keymap, k, now[t])
    BY <1>1, <1>8
  <2> HIDE DEF table
  <2>2. keymap[k] = Never \/ ~(now[t] - keymap[k] <= Window)
    BY <2>1 DEF Duplicate
  <2>3. recent[sid[t]][k] \in Nat \cup {Never}
    BY <1>1, <2>1
  <2>4. CASE keymap[k] = recent[sid[t]][k]
    BY <1>1, <2>2, <2>3, <2>4 DEF Passes
  <2>5. CASE /\ keymap[k] = Never /\ recent[sid[t]][k] # Never
             /\ now[t] - recent[sid[t]][k] > Horizon
    BY <1>1, <2>3, <2>5 DEF Passes
  <2> QED
    BY <1>1, <1>5, <1>8, <2>1, <2>4, <2>5
<1>9. ASSUME NEW s \in Sessions, NEW k \in Kinds, Window > 0
      PROVE  StampMoves(t, kept, s, k)
  <2>1. table \in [Sessions -> [Kinds -> Nat \cup {Never}]]
    BY DEF TypeOK, Cleaned
  <2>2. recent' = [table EXCEPT ![sid[t]] = Stamped(keymap, events[t], now[t])]
    BY <1>1, <1>2, <1>9
  <2>3. recent'[s][k] = IF s = sid[t] /\ k \in events[t] /\ ~Duplicate(keymap, k, now[t])
                        THEN now[t] ELSE table[s][k]
    <3> HIDE DEF table
    <3> QED
      BY <1>1, <2>1, <2>2 DEF Stamped
  <2>4. k \in kept <=> k \in events[t] /\ ~Duplicate(keymap, k, now[t])
    BY <1>9
  <2> HIDE DEF table, kept
  <2>5. CASE s = sid[t] /\ k \in kept
    BY <2>3, <2>4, <2>5 DEF StampMoves
  <2>6. CASE ~(s = sid[t] /\ k \in kept)
    <3>1. recent'[s][k] = table[s][k]
      BY <2>3, <2>4, <2>6
    <3> QED
      BY <1>5, <1>9, <2>6, <3>1 DEF StampMoves
  <2> QED
    BY <2>5, <2>6
<1>10. ASSUME NEW e \in hushed', e \notin hushed
       PROVE  /\ e.session = sid[t] /\ e.time = now[t] /\ e.kind \in Kinds
              /\ recent[sid[t]][e.kind] # Never
              /\ now[t] - recent[sid[t]][e.kind] <= Window
  <2>1. PICK k \in lost : e = [session |-> sid[t], kind |-> k, time |-> now[t]]
    BY <1>3, <1>10
  <2>2. k \in Kinds /\ Window > 0 /\ Duplicate(keymap, k, now[t])
    BY <1>1, <2>1
  <2> HIDE DEF table
  <2>3. keymap[k] # Never /\ now[t] - keymap[k] <= Window
    BY <2>2 DEF Duplicate
  <2>4. keymap[k] = recent[sid[t]][k]
    BY <1>1, <1>5, <2>2, <2>3
  <2> QED
    BY <2>1, <2>2, <2>3, <2>4
<1> HIDE DEF kept
<1> QED
  BY <1>4, <1>6, <1>7, <1>8, <1>9, <1>10

LEMMA ShippedIs ==
    ASSUME shipped \in Seq(Shipments), NEW i \in 1..Len(shipped)
    PROVE  /\ shipped[i].session \in Sessions /\ shipped[i].kinds \subseteq Kinds
           /\ shipped[i].time \in Nat
<1>1. shipped[i] \in Shipments
  OBVIOUS
<1>2. PICK e \in Shipments : e = shipped[i]
  BY <1>1
<1>3. e.session \in Sessions /\ e.kinds \subseteq Kinds /\ e.time \in Nat
  BY DEF Shipments
<1> QED
  BY <1>2, <1>3

\* A clock that goes on, and what does not filter, leaves all of it true.
LEMMA NoFilter ==
    ASSUME FilterInv, clock \in Nat, clock' \in Nat, clock' >= clock,
           UNCHANGED <<recent, shipped, hushed>>
    PROVE  StampsShipped' /\ ShipmentsStamped' /\ OncePerWindow' /\ DroppedForAReason'
<1>1. StampsShipped' /\ OncePerWindow' /\ DroppedForAReason'
  BY DEF FilterInv, StampsShipped, OncePerWindow, DroppedForAReason
<1>2. ASSUME NEW i \in 1..Len(shipped), NEW k \in shipped[i].kinds, Window > 0
      PROVE  Remembered(shipped[i], k)'
  <2>1. Remembered(shipped[i], k)
    BY <1>2 DEF FilterInv, ShipmentsStamped
  <2>2. shipped[i].time \in Nat /\ Horizon \in Nat
    <3>1. shipped[i].time \in Nat
      <4>1. shipped \in Seq(Shipments)
        BY DEF FilterInv, TypeOK
      <4>2. shipped[i] \in Shipments
        BY <1>2, <4>1
      <4> QED
        BY <4>2 DEF Shipments
    <3>2. Horizon \in Nat
      BY DetectionAssumption DEF Horizon
    <3> QED
      BY <3>1, <3>2
  <2>3. clock - shipped[i].time > Horizon => clock' - shipped[i].time > Horizon
    BY <2>2
  <2> QED
    BY <2>1, <2>3 DEF Remembered
<1>3. ShipmentsStamped'
  BY <1>2 DEF ShipmentsStamped
<1> QED
  BY <1>1, <1>3

\* Whatever passes the filter was shipped more than a window ago, or never.
LEMMA LongAgo ==
    ASSUME FilterInv, NEW t \in Threads, pc[t] = "filter", Window > 0,
           NEW i \in 1..Len(shipped), NEW k \in shipped[i].kinds,
           shipped[i].session = sid[t], Passes(t, k)
    PROVE  now[t] - shipped[i].time > Window
<1> DEFINE stamp == recent[sid[t]][k]
<1>1. /\ clock \in Nat /\ now[t] \in Nat /\ Horizon \in Nat /\ Window \in Nat
      /\ MaxStall \in Nat /\ MaxStall <= Horizon - Window
  BY DetectionAssumption DEF FilterInv, TypeOK, Horizon
<1>2. shipped[i].time \in Nat /\ k \in Kinds /\ sid[t] \in Sessions
  BY ShippedIs DEF FilterInv, TypeOK, InCall
<1>3. stamp \in Nat \cup {Never}
  BY <1>2 DEF FilterInv, TypeOK
<1>4. IF stamp = Never THEN clock - shipped[i].time > Horizon
                       ELSE stamp >= shipped[i].time
  BY DEF FilterInv, ShipmentsStamped, Remembered
<1>5. clock - now[t] <= MaxStall
  BY DEF FilterInv, ClocksRead
<1>6. stamp = Never \/ now[t] - stamp > Window
  BY DEF Passes
<1> HIDE DEF stamp
<1>7. CASE stamp = Never
  BY <1>1, <1>2, <1>4, <1>5, <1>7
<1>8. CASE stamp # Never
  <2>1. stamp \in Nat /\ stamp >= shipped[i].time /\ now[t] - stamp > Window
    BY <1>3, <1>4, <1>6, <1>8
  <2> QED
    BY <1>1, <1>2, <2>1
<1> QED
  BY <1>7, <1>8

LEMMA FilterStep ==
    ASSUME FilterInv, NEW t \in Threads, Filter(t)
    PROVE  StampsShipped' /\ ShipmentsStamped' /\ OncePerWindow' /\ DroppedForAReason'
<1>1. PICK kept \in SUBSET Kinds :
         /\ IF kept = {} THEN shipped' = shipped
            ELSE shipped' = Append(shipped,
                    [session |-> sid[t], kinds |-> kept, time |-> now[t]])
         /\ Window = 0 => recent' = recent /\ hushed' = hushed
         /\ Window > 0 =>
               /\ \A s \in Sessions, k \in Kinds : StampMoves(t, kept, s, k)
               /\ \A k \in kept : Passes(t, k)
         /\ \A e \in hushed' : \/ e \in hushed
                               \/ /\ e.session = sid[t] /\ e.time = now[t]
                                  /\ e.kind \in Kinds
                                  /\ recent[sid[t]][e.kind] # Never
                                  /\ now[t] - recent[sid[t]][e.kind] <= Window
  BY FilterMoves DEF FilterInv
<1>2. /\ pc[t] = "filter" /\ clock' = clock /\ clock \in Nat /\ now[t] \in Nat /\ now[t] <= clock
      /\ sid[t] \in Sessions /\ shipped \in Seq(Shipments)
      /\ Window \in Nat /\ Horizon \in Nat /\ Never \notin Nat
  BY DetectionAssumption DEF Filter, FilterInv, TypeOK, InCall, ClocksRead, Horizon
<1> DEFINE entry == [session |-> sid[t], kinds |-> kept, time |-> now[t]]
<1>3. entry \in Shipments /\ entry.session = sid[t] /\ entry.kinds = kept /\ entry.time = now[t]
  BY <1>2 DEF Shipments
<1>4. PICK n \in Nat : n = Len(shipped)
  BY <1>2
<1>5. \A i \in 1..n : i \in 1..Len(shipped') /\ shipped'[i] = shipped[i]
  <2>1. CASE kept = {}
    <3>1. shipped' = shipped
      BY <1>1, <2>1
    <3> QED
      BY <1>4, <3>1
  <2>2. CASE kept # {}
    <3>1. shipped' = Append(shipped, entry)
      BY <1>1, <2>2
    <3> HIDE DEF entry
    <3>2. shipped \in Seq(Shipments) /\ entry \in Shipments
      BY <1>2, <1>3
    <3> QED
      BY <1>4, <3>1, <3>2
  <2> QED
    BY <2>1, <2>2
<1>6. kept # {} => n + 1 \in 1..Len(shipped') /\ shipped'[n + 1] = entry
  BY <1>1, <1>2, <1>3, <1>4
<1>7. \A i \in 1..Len(shipped') :
         i \in 1..n \/ (i = n + 1 /\ kept # {} /\ shipped'[i] = entry)
  BY <1>1, <1>2, <1>3, <1>4
<1>8. \A i \in 1..n : shipped[i].time \in Nat /\ shipped[i].kinds \subseteq Kinds
                      /\ shipped[i].session \in Sessions
  BY <1>2, <1>4, ShippedIs
<1> HIDE DEF entry
<1>9. ASSUME NEW s \in Sessions, NEW k \in Kinds, recent'[s][k] # Never
      PROVE  \E i \in 1..Len(shipped') :
                /\ shipped'[i].session = s /\ k \in shipped'[i].kinds
                /\ shipped'[i].time = recent'[s][k]
  <2>1. CASE recent'[s][k] = recent[s][k]
    <3>1. PICK i \in 1..n : /\ shipped[i].session = s /\ k \in shipped[i].kinds
                            /\ shipped[i].time = recent[s][k]
      BY <1>4, <1>9, <2>1 DEF FilterInv, StampsShipped
    <3>2. i \in 1..Len(shipped') /\ shipped'[i] = shipped[i]
      BY <1>5
    <3> QED
      BY <2>1, <3>1, <3>2
  <2>2. CASE recent'[s][k] # recent[s][k]
    <3>1. Window > 0
      BY <1>1, <1>2, <2>2
    <3>2. s = sid[t] /\ k \in kept /\ recent'[s][k] = now[t]
      BY <1>1, <1>9, <2>2, <3>1 DEF StampMoves
    <3> QED
      BY <1>3, <1>6, <3>2
  <2> QED
    BY <2>1, <2>2
<1>10. ASSUME Window > 0, NEW i \in 1..Len(shipped'), NEW k \in shipped'[i].kinds
       PROVE  Remembered(shipped[i], k)'
  <2>1. CASE i \in 1..n
    <3> DEFINE s == shipped[i].session
    <3>1. /\ shipped'[i] = shipped[i] /\ k \in shipped[i].kinds /\ k \in Kinds
          /\ s \in Sessions /\ shipped[i].time \in Nat
      BY <1>5, <1>8, <1>10, <2>1
    <3>2. /\ recent[s][k] \in Nat \cup {Never}
          /\ IF recent[s][k] = Never THEN clock - shipped[i].time > Horizon
                                     ELSE recent[s][k] >= shipped[i].time
      BY <1>4, <1>10, <2>1, <3>1 DEF FilterInv, TypeOK, ShipmentsStamped, Remembered
    <3>3. StampMoves(t, kept, s, k)
      BY <1>1, <1>10, <3>1
    <3>4. CASE recent'[s][k] = recent[s][k]
      BY <1>2, <3>1, <3>2, <3>4 DEF Remembered
    <3>5. CASE /\ recent'[s][k] = Never /\ recent[s][k] # Never
               /\ now[t] - recent[s][k] > Horizon
      <4>1. clock - shipped[i].time > Horizon
        <5> HIDE DEF s
        <5>1. recent[s][k] \in Nat /\ recent[s][k] >= shipped[i].time
          BY <3>2, <3>5
        <5> QED
          BY <1>2, <3>1, <3>5, <5>1
      <4> QED
        BY <1>2, <3>1, <3>5, <4>1 DEF Remembered
    <3>6. CASE s = sid[t] /\ k \in kept /\ recent'[s][k] = now[t]
      <4>1. now[t] - shipped[i].time > Window
        BY <1>1, <1>2, <1>4, <1>10, <2>1, <3>1, <3>6, LongAgo
      <4>2. now[t] >= shipped[i].time /\ now[t] # Never
        BY <1>2, <3>1, <4>1
      <4> QED
        BY <3>1, <3>6, <4>2 DEF Remembered
    <3> QED
      BY <3>3, <3>4, <3>5, <3>6 DEF StampMoves
  <2>2. CASE i = n + 1 /\ kept # {} /\ shipped'[i] = entry
    <3>1. k \in kept /\ k \in Kinds
      BY <1>3, <1>10, <2>2
    <3>2. recent'[sid[t]][k] = now[t]
      BY <1>1, <1>2, <1>10, <3>1 DEF StampMoves
    <3>3. now[t] # Never /\ now[t] >= now[t]
      BY <1>2
    <3> QED
      BY <1>3, <2>2, <3>2, <3>3 DEF Remembered
  <2> QED
    BY <1>7, <1>10, <2>1, <2>2
<1>11. ASSUME Window > 0, NEW i \in 1..Len(shipped'), NEW j \in 1..Len(shipped'), i < j,
              shipped'[i].session = shipped'[j].session,
              shipped'[i].kinds \cap shipped'[j].kinds # {}
       PROVE  shipped'[j].time - shipped'[i].time > Window
  <2>1. i \in 1..n /\ shipped'[i] = shipped[i]
    BY <1>4, <1>5, <1>7, <1>11
  <2>2. CASE j \in 1..n
    <3>1. shipped'[j] = shipped[j]
      BY <1>5, <2>2
    <3> QED
      BY <1>4, <1>11, <2>1, <2>2, <3>1 DEF FilterInv, OncePerWindow
  <2>3. CASE j = n + 1 /\ kept # {} /\ shipped'[j] = entry
    <3>1. PICK k : k \in shipped[i].kinds /\ k \in kept
      BY <1>3, <1>11, <2>1, <2>3
    <3>2. Passes(t, k)
      BY <1>1, <1>11, <3>1
    <3>3. now[t] - shipped[i].time > Window
      BY <1>2, <1>3, <1>4, <1>11, <2>1, <2>3, <3>1, <3>2, LongAgo
    <3> QED
      BY <1>3, <2>1, <2>3, <3>3
  <2> QED
    BY <1>7, <1>11, <2>2, <2>3
<1>12. ASSUME NEW e \in hushed'
       PROVE  \E i \in 1..Len(shipped') :
                 /\ shipped'[i].session = e.session /\ e.kind \in shipped'[i].kinds
                 /\ shipped'[i].time >= e.time - Window
  <2>1. PICK i \in 1..n : /\ shipped[i].session = e.session /\ e.kind \in shipped[i].kinds
                          /\ shipped[i].time >= e.time - Window
    <3>1. CASE e \in hushed
      BY <1>4, <3>1 DEF FilterInv, DroppedForAReason
    <3>2. CASE /\ e.session = sid[t] /\ e.time = now[t] /\ e.kind \in Kinds
               /\ recent[sid[t]][e.kind] # Never
               /\ now[t] - recent[sid[t]][e.kind] <= Window
      <4>1. PICK i \in 1..n : /\ shipped[i].session = sid[t] /\ e.kind \in shipped[i].kinds
                              /\ shipped[i].time = recent[sid[t]][e.kind]
        BY <1>2, <1>4, <3>2 DEF FilterInv, StampsShipped
      <4>2. now[t] - shipped[i].time <= Window /\ shipped[i].time \in Nat
        BY <1>8, <3>2, <4>1
      <4>3. shipped[i].time >= now[t] - Window
        BY <1>2, <4>2
      <4> QED
        BY <3>2, <4>1, <4>3
    <3> QED
      BY <1>1, <1>12, <3>1, <3>2
  <2>2. i \in 1..Len(shipped') /\ shipped'[i] = shipped[i]
    BY <1>5
  <2> QED
    BY <2>1, <2>2
<1> QED
  BY <1>9, <1>10, <1>11, <1>12
     DEF StampsShipped, ShipmentsStamped, OncePerWindow, DroppedForAReason

LEMMA FilterInvInit == Init => FilterInv
<1>1. Len(<<>>) = 0
  OBVIOUS
<1> QED
  BY <1>1, InitTypes, DetectionAssumption
     DEF Init, FilterInv, ClocksRead, StampsShipped, ShipmentsStamped, OncePerWindow,
         DroppedForAReason

LEMMA ClocksStep ==
    ASSUME FilterInv, [Next]_vars
    PROVE  ClocksRead' /\ clock \in Nat /\ clock' \in Nat /\ clock' >= clock
<1>1. clock \in Nat /\ MaxStall \in Nat /\ now \in [Threads -> Nat] /\ pc \in [Threads -> Steps]
  BY DetectionAssumption DEF FilterInv, TypeOK
<1>2. CASE Tick
  <2>1. clock' = clock + 1 /\ UNCHANGED <<pc, now>>
    BY <1>2 DEF Tick
  <2>2. \A t \in Threads : pc[t] = "filter" => clock - now[t] < MaxStall
    BY <1>2 DEF Tick
  <2> QED
    BY <1>1, <2>1, <2>2 DEF FilterInv, ClocksRead
<1>3. ASSUME NEW t \in Threads, clock' = clock,
             \A u \in Threads : u # t => pc'[u] = pc[u] /\ now'[u] = now[u],
             now'[t] \in {0, clock, now[t]}, pc'[t] = "filter" => now'[t] = clock
      PROVE  ClocksRead' /\ clock \in Nat /\ clock' \in Nat /\ clock' >= clock
  BY <1>1, <1>3 DEF FilterInv, ClocksRead
<1>4. ASSUME NEW h \in Handlers, OnLeak(h) \/ Unregister(h)
      PROVE  ClocksRead' /\ clock \in Nat /\ clock' \in Nat /\ clock' >= clock
  BY <1>1, <1>4 DEF OnLeak, Unregister, FilterInv, ClocksRead
<1>5. ASSUME NEW t \in Threads, RunRules(t)
      PROVE  ClocksRead' /\ clock \in Nat /\ clock' \in Nat /\ clock' >= clock
  BY <1>1, <1>3, <1>5 DEF RunRules
<1>6. ASSUME NEW t \in Threads, Filter(t)
      PROVE  ClocksRead' /\ clock \in Nat /\ clock' \in Nat /\ clock' >= clock
  <2>1. clock' = clock
    BY <1>6 DEF Filter
  <2>2. CASE Finish(t)
    BY <1>1, <1>3, <2>1, <2>2 DEF Finish
  <2>3. CASE pc' = [pc EXCEPT ![t] = "take"] /\ UNCHANGED now
    BY <1>1, <1>3, <2>1, <2>3
  <2> QED
    BY <1>6, <2>2, <2>3 DEF Filter
<1>7. ASSUME NEW t \in Threads, TakeHandlers(t)
      PROVE  ClocksRead' /\ clock \in Nat /\ clock' \in Nat /\ clock' >= clock
  BY <1>1, <1>3, <1>7 DEF TakeHandlers
<1>8. ASSUME NEW t \in Threads, CallHandler(t)
      PROVE  ClocksRead' /\ clock \in Nat /\ clock' \in Nat /\ clock' >= clock
  <2>1. clock' = clock /\ now' = now /\ pc[t] = "call"
    BY <1>8 DEF CallHandler
  <2>2. CASE pc' = pc
    BY <1>1, <1>3, <2>1, <2>2
  <2>3. CASE NextEvent(t)
    BY <1>1, <1>3, <2>1, <2>3 DEF NextEvent
  <2> QED
    BY <1>8, <2>2, <2>3 DEF CallHandler
<1>9. ASSUME NEW t \in Threads, Decide(t)
      PROVE  ClocksRead' /\ clock \in Nat /\ clock' \in Nat /\ clock' >= clock
  BY <1>1, <1>3, <1>9 DEF Decide, Finish
<1>10. CASE UNCHANGED vars
  BY <1>1, <1>10 DEF vars, FilterInv, ClocksRead
<1> QED
  BY <1>2, <1>4, <1>5, <1>6, <1>7, <1>8, <1>9, <1>10 DEF Next

LEMMA FilterInvStep == FilterInv /\ [Next]_vars => FilterInv'
<1> SUFFICES ASSUME FilterInv, [Next]_vars PROVE FilterInv'
  OBVIOUS
<1>1. TypeOK' /\ InCall'
  BY TypesStep DEF FilterInv
<1>2. ClocksRead' /\ clock \in Nat /\ clock' \in Nat /\ clock' >= clock
  BY ClocksStep
<1>3. (\E t \in Threads : Filter(t)) \/ UNCHANGED <<recent, shipped, hushed>>
  BY DEF Next, vars, Tick, OnLeak, Unregister, RunRules, TakeHandlers, CallHandler, Decide
<1>4. StampsShipped' /\ ShipmentsStamped' /\ OncePerWindow' /\ DroppedForAReason'
  BY <1>2, <1>3, FilterStep, NoFilter
<1> QED
  BY <1>1, <1>2, <1>4 DEF FilterInv

LEMMA FilterIsSound == Spec => []FilterInv
BY FilterInvInit, FilterInvStep, PTL DEF Spec

\* The same event is not shipped twice for a session within the window,
\* however many threads filter with whatever times they have read, as long as
\* none of them comes to the lock later than the cleanup allows for
\* (_filter_duplicate_events).
THEOREM ShippedOnce == Spec => []ShippedOncePerWindow
<1>1. FilterInv => ShippedOncePerWindow
  BY DEF FilterInv, ShippedOncePerWindow
<1> QED
  BY <1>1, FilterIsSound, PTL

\* An event is dropped only for one that was shipped at most a window earlier
\* (_filter_duplicate_events): what goes on leaking is reported again.
THEOREM DroppedOnlyAsDuplicates == Spec => []DroppedForAReason
<1>1. FilterInv => DroppedForAReason
  BY DEF FilterInv
<1> QED
  BY <1>1, FilterIsSound, PTL

(***************************************************************************)
(* Who has heard                                                           *)
(***************************************************************************)
\* Of the handlers that have stayed registered, each has been called for
\* every event the thread is done with, and, for the one it is at, has been
\* called or is still to be.
HeardBy(t) ==
    /\ steady[t] \subseteq Range(handlers)
    /\ pc[t] \in {"take", "call", "decide"} =>
          \A k \in mine[t] \ events[t], h \in steady[t] \cup {Sink} : <<h, k>> \in heard[t]
    /\ pc[t] = "decide" => events[t] = {}
    /\ pc[t] = "call" =>
          \A h \in steady[t] \cup {Sink} :
              <<h, First(events[t])>> \in heard[t] \/ h \in Range(calling[t])

HeardInv == TypeOK /\ InCall /\ \A t \in Threads : HeardBy(t)

\* A thread that does nothing, while handlers only join, keeps what it has.
LEMMA HeardKept ==
    ASSUME NEW t \in Threads, HeardBy(t), Range(handlers) \subseteq Range(handlers'),
           pc'[t] = pc[t], events'[t] = events[t], calling'[t] = calling[t],
           mine'[t] = mine[t], heard'[t] = heard[t], steady'[t] = steady[t]
    PROVE  HeardBy(t)'
BY DEF HeardBy

LEMMA HeardFinish ==
    ASSUME TypeOK, InCall, NEW t \in Threads, Finish(t),
           \A u \in Threads : HeardBy(u), handlers' = handlers, NEW u \in Threads
    PROVE  HeardBy(u)'
<1>1. CASE u = t
  <2>1. pc'[t] = "idle" /\ steady'[t] = {}
    BY DEF Finish, TypeOK
  <2> QED
    BY <1>1, <2>1 DEF HeardBy
<1>2. CASE u # t
  BY <1>2, FinishType, HeardKept
<1> QED
  BY <1>1, <1>2

LEMMA CallHeard ==
    ASSUME HeardInv, NEW t \in Threads, CallHandler(t)
    PROVE  HeardBy(t)'
<1>1. /\ pc[t] = "call" /\ events[t] # {} /\ events[t] \subseteq Kinds
      /\ calling[t] \in Seq(Handlers \cup {Sink}) /\ calling[t] # <<>>
  BY DEF CallHandler, HeardInv, TypeOK
<1>2. PICK k : k = First(events[t])
  OBVIOUS
<1>3. k \in events[t]
  BY <1>1, <1>2, FirstIsOne
<1>4. /\ heard'[t] = heard[t] \cup {<<Head(calling[t]), k>>}
      /\ calling'[t] = Tail(calling[t])
      /\ mine'[t] = mine[t] /\ steady'[t] = steady[t] /\ handlers' = handlers
  BY <1>2 DEF CallHandler, HeardInv, TypeOK
<1>5. /\ Range(calling[t]) \subseteq {Head(calling[t])} \cup Range(calling'[t])
      /\ ~(Len(calling[t]) > 1) => Range(calling[t]) = {Head(calling[t])}
  BY <1>1, <1>4, TailIs
<1>6. /\ steady[t] \subseteq Range(handlers)
      /\ \A j \in mine[t] \ events[t], h \in steady[t] \cup {Sink} : <<h, j>> \in heard[t]
      /\ \A h \in steady[t] \cup {Sink} : <<h, k>> \in heard[t] \/ h \in Range(calling[t])
  BY <1>1, <1>2 DEF HeardInv, HeardBy
<1>7. CASE Len(calling[t]) > 1
  <2>1. pc'[t] = pc[t] /\ events'[t] = events[t]
    BY <1>7 DEF CallHandler
  <2> QED
    BY <1>1, <1>2, <1>4, <1>5, <1>6, <2>1 DEF HeardBy
<1>8. CASE ~(Len(calling[t]) > 1)
  <2>1. /\ events'[t] = events[t] \ {k}
        /\ pc'[t] = IF events'[t] = {} THEN "decide" ELSE "take"
    BY <1>2, <1>8 DEF CallHandler, NextEvent, HeardInv, TypeOK
  <2>2. \A h \in steady[t] \cup {Sink} : <<h, k>> \in heard'[t]
    BY <1>4, <1>5, <1>6, <1>8
  <2>3. \A j \in mine'[t] \ events'[t], h \in steady'[t] \cup {Sink} : <<h, j>> \in heard'[t]
    BY <1>4, <1>6, <2>1, <2>2
  <2> QED
    BY <1>4, <1>6, <2>1, <2>3 DEF HeardBy
<1> QED
  BY <1>7, <1>8

LEMMA HeardStep == HeardInv /\ [Next]_vars => HeardInv'
<1> SUFFICES ASSUME HeardInv, [Next]_vars PROVE HeardInv'
  OBVIOUS
<1> TypeOK /\ InCall /\ (\A t \in Threads : HeardBy(t)) /\ handlers \in Seq(Handlers)
  BY DEF HeardInv, TypeOK
<1>1. TypeOK' /\ InCall'
  BY TypesStep
<1>2. ASSUME NEW u \in Threads PROVE HeardBy(u)'
  <2>1. CASE Tick
    BY <2>1, HeardKept DEF Tick
  <2>2. ASSUME NEW h \in Handlers, OnLeak(h) PROVE HeardBy(u)'
    <3>1. Range(handlers') = Range(handlers) \cup {h}
      BY <2>2, AppendedRange DEF OnLeak
    <3> QED
      BY <2>2, <3>1, HeardKept DEF OnLeak
  <2>3. ASSUME NEW h \in Handlers, Unregister(h) PROVE HeardBy(u)'
    <3>1. /\ steady'[u] = steady[u] \cap Range(handlers')
          /\ UNCHANGED <<pc, events, calling, mine, heard>>
      BY <2>3 DEF Unregister
    <3> QED
      BY <3>1 DEF HeardBy
  <2>4. ASSUME NEW t \in Threads, RunRules(t) PROVE HeardBy(u)'
    <3>1. /\ handlers' = handlers /\ pc'[t] = "filter" /\ steady'[t] = Range(handlers)
          /\ \A v \in Threads : v # t => /\ pc'[v] = pc[v] /\ events'[v] = events[v]
                                         /\ steady'[v] = steady[v]
          /\ UNCHANGED <<calling, mine, heard>>
      BY <2>4 DEF RunRules, TypeOK
    <3>2. CASE u = t
      BY <3>1, <3>2 DEF HeardBy
    <3>3. CASE u # t
      BY <3>1, <3>3, HeardKept
    <3> QED
      BY <3>2, <3>3
  <2>5. ASSUME NEW t \in Threads, Filter(t) PROVE HeardBy(u)'
    <3>1. handlers' = handlers
      BY <2>5 DEF Filter
    <3>2. CASE Finish(t)
      BY <3>1, <3>2, HeardFinish
    <3>3. ASSUME NEW kept, pc' = [pc EXCEPT ![t] = "take"],
                 events' = [events EXCEPT ![t] = kept], mine' = [mine EXCEPT ![t] = kept],
                 UNCHANGED <<calling, heard, steady>>
          PROVE  HeardBy(u)'
      <4>1. CASE u = t
        <5>1. pc'[t] = "take" /\ mine'[t] \ events'[t] = {}
          BY <3>3 DEF TypeOK
        <5> QED
          BY <3>1, <3>3, <4>1, <5>1 DEF HeardBy
      <4>2. CASE u # t
        BY <3>1, <3>3, <4>2, HeardKept DEF TypeOK
      <4> QED
        BY <4>1, <4>2
    <3>4. Finish(t) \/ \E kept : /\ pc' = [pc EXCEPT ![t] = "take"]
                                 /\ events' = [events EXCEPT ![t] = kept]
                                 /\ mine' = [mine EXCEPT ![t] = kept]
                                 /\ UNCHANGED <<calling, heard, steady>>
      BY <2>5 DEF Filter
    <3> QED
      BY <3>2, <3>3, <3>4
  <2>6. ASSUME NEW t \in Threads, TakeHandlers(t) PROVE HeardBy(u)'
    <3>1. /\ handlers' = handlers /\ pc[t] = "take" /\ pc'[t] = "call"
          /\ calling'[t] = Append(handlers, Sink)
          /\ \A v \in Threads : v # t => pc'[v] = pc[v] /\ calling'[v] = calling[v]
          /\ UNCHANGED <<events, mine, heard, steady>>
      BY <2>6 DEF TakeHandlers, TypeOK
    <3>2. CASE u = t
      <4>1. handlers \in Seq(Handlers \cup {Sink})
        OBVIOUS
      <4>2. Range(calling'[t]) = Range(handlers) \cup {Sink}
        BY <3>1, <4>1, AppendedRange
      <4> QED
        BY <3>1, <3>2, <4>2 DEF HeardBy
    <3>3. CASE u # t
      BY <3>1, <3>3, HeardKept
    <3> QED
      BY <3>2, <3>3
  <2>7. ASSUME NEW t \in Threads, CallHandler(t) PROVE HeardBy(u)'
    <3>1. CASE u = t
      BY <2>7, <3>1, CallHeard
    <3>2. CASE u # t
      <4>1. /\ handlers' = handlers /\ pc'[u] = pc[u] /\ events'[u] = events[u]
            /\ calling'[u] = calling[u] /\ mine'[u] = mine[u] /\ heard'[u] = heard[u]
            /\ steady'[u] = steady[u]
        BY <2>7, <3>2 DEF CallHandler, NextEvent, TypeOK
      <4> QED
        BY <4>1, HeardKept
    <3> QED
      BY <3>1, <3>2
  <2>8. ASSUME NEW t \in Threads, Decide(t) PROVE HeardBy(u)'
    BY <2>8, HeardFinish DEF Decide
  <2>9. CASE UNCHANGED vars
    BY <2>9, HeardKept DEF vars
  <2> QED
    BY <2>1, <2>2, <2>3, <2>4, <2>5, <2>6, <2>7, <2>8, <2>9 DEF Next
<1> QED
  BY <1>1, <1>2 DEF HeardInv

LEMMA HeardInit == Init => HeardInv
<1>1. PICK none \in Seq(Handlers) : none = <<>> /\ Len(none) = 0
  BY EmptySeq
<1>2. Range(none) = {none[i] : i \in 1..Len(none)}
  BY RangeIs
<1>3. Range(<<>>) = {}
  BY <1>1, <1>2
<1> QED
  BY <1>3, InitTypes DEF Init, HeardInv, HeardBy

\* When record_call comes to return or raise, every handler that has been
\* registered all along and the cloud sink have been called for each of its
\* events (_run_handlers), whoever registers and unregisters meanwhile.
THEOREM EverybodyHearsFirst == Spec => []AllHearBeforeTheRaise
<1>1. HeardInv => AllHearBeforeTheRaise
  BY DEF HeardInv, HeardBy, AllHearBeforeTheRaise
<1> QED
  BY <1>1, HeardInit, HeardStep, PTL DEF Spec

(***************************************************************************)
(* The detectors: positions, selections and sums                           *)
(***************************************************************************)
\* What holds of 0 and goes on from each number to the next holds up to n.
LEMMA StepByStep ==
    ASSUME NEW n \in Nat, NEW H \in SUBSET Nat, 0 \in H,
           \A i \in 1..n : i - 1 \in H => i \in H
    PROVE  0..n \subseteq H
<1> DEFINE missing == {i \in 0..n : i \notin H}
<1>1. ASSUME missing # {} PROVE FALSE
  <2>1. missing \in SUBSET Nat
    OBVIOUS
  <2>2. PICK i \in missing : \A j \in missing : i <= j
    <3> HIDE DEF missing
    <3> QED
      BY <1>1, <2>1, Least
  <2>3. i \in 0..n /\ i \notin H
    OBVIOUS
  <2>4. i # 0 /\ i \in 1..n /\ i - 1 \in 0..n /\ ~(i <= i - 1)
    BY <2>3
  <2>5. i - 1 \in H
    BY <2>2, <2>4
  <2> QED
    BY <2>3, <2>4, <2>5
<1> QED
  BY <1>1

UpTo(S, k) == {j \in S : j <= k}

\* The later of two positions has more up to it, and the i-th has i.
LEMMA Ranks ==
    ASSUME NEW S \in SUBSET Nat, IsFiniteSet(S)
    PROVE  /\ \A k \in S : Cardinality(UpTo(S, k)) \in 1..Cardinality(S)
           /\ \A k, l \in S : k < l => Cardinality(UpTo(S, k)) < Cardinality(UpTo(S, l))
           /\ \A i \in 1..Cardinality(S) : \E k \in S : Cardinality(UpTo(S, k)) = i
<1> DEFINE n == Cardinality(S)
           rank(k) == Cardinality(UpTo(S, k))
<1>1. n \in Nat
  BY FS_CardinalityType
<1>2. ASSUME NEW k \in S
      PROVE  IsFiniteSet(UpTo(S, k)) /\ rank(k) \in 1..n
  <2>1. UpTo(S, k) \in SUBSET S /\ k \in UpTo(S, k)
    BY DEF UpTo
  <2>2. IsFiniteSet(UpTo(S, k)) /\ rank(k) <= n
    BY <2>1, FS_Subset
  <2>3. rank(k) \in Nat /\ rank(k) # 0
    BY <2>1, <2>2, FS_CardinalityType, FS_EmptySet
  <2> QED
    BY <1>1, <2>2, <2>3
<1>3. ASSUME NEW k \in S, NEW l \in S, k < l
      PROVE  rank(k) < rank(l)
  <2>1. UpTo(S, k) \in SUBSET UpTo(S, l) /\ l \in UpTo(S, l) /\ l \notin UpTo(S, k)
    <3>1. \A j \in S : j <= k => j <= l
      BY <1>3
    <3>2. l <= l /\ ~(l <= k)
      BY <1>3
    <3> QED
      BY <3>1, <3>2 DEF UpTo
  <2>2. rank(k) <= rank(l) /\ rank(k) # rank(l)
    BY <1>2, <2>1, FS_Subset
  <2> QED
    BY <1>1, <1>2, <2>2
<1>4. ASSUME NEW i \in 1..n
      PROVE  \E k \in S : rank(k) = i
  <2> DEFINE f == [k \in S |-> rank(k)]
  <2>1. f \in [S -> 1..n]
    BY <1>2
  <2>2. ASSUME NEW k \in S, NEW l \in S, f[k] = f[l] PROVE k = l
    <3>1. rank(k) = rank(l) /\ rank(k) \in Nat
      BY <1>2, <2>2
    <3>2. k \in Nat /\ l \in Nat /\ ~(k < l) /\ ~(l < k)
      BY <1>3, <3>1
    <3> QED
      BY <3>2
  <2>3. f \in Injection(S, 1..n)
    BY <2>1, <2>2 DEF Injection, IsInjective
  <2>4. IsFiniteSet(1..n) /\ Cardinality(1..n) = n
    BY <1>1, FS_Interval
  <2> HIDE DEF f
  <2>5. f \in Surjection(S, 1..n)
    BY <2>3, <2>4, FS_Injection
  <2>6. \E k \in S : f[k] = i
    BY <2>5 DEF Surjection
  <2> QED
    BY <2>6 DEF f
<1> QED
  BY <1>2, <1>3, <1>4

\* Ascending has at i the only position that is the i-th.
LEMMA AscendingIs ==
    ASSUME NEW S \in SUBSET Nat, IsFiniteSet(S)
    PROVE  /\ Cardinality(S) \in Nat
           /\ DOMAIN Ascending(S) = 1..Cardinality(S)
           /\ Ascending(S) = [i \in 1..Cardinality(S) |-> Ascending(S)[i]]
           /\ \A i \in 1..Cardinality(S) :
                 Ascending(S)[i] \in S /\ Cardinality(UpTo(S, Ascending(S)[i])) = i
           /\ \A k \in S : Ascending(S)[Cardinality(UpTo(S, k))] = k
<1>1. Cardinality(S) \in Nat
  BY FS_CardinalityType
<1>2. DOMAIN Ascending(S) = 1..Cardinality(S)
  BY DEF Ascending
<1>3. ASSUME NEW i \in 1..Cardinality(S)
      PROVE  Ascending(S)[i] \in S /\ Cardinality(UpTo(S, Ascending(S)[i])) = i
  <2>1. Ascending(S)[i] = CHOOSE k \in S : Cardinality(UpTo(S, k)) = i
    BY DEF Ascending, UpTo
  <2>2. \E k \in S : Cardinality(UpTo(S, k)) = i
    BY Ranks
  <2> QED
    BY <2>1, <2>2
<1>4. ASSUME NEW k \in S
      PROVE  Ascending(S)[Cardinality(UpTo(S, k))] = k
  <2>1. PICK i \in 1..Cardinality(S) : i = Cardinality(UpTo(S, k))
    BY Ranks
  <2>2. PICK l \in S : l = Ascending(S)[i] /\ Cardinality(UpTo(S, l)) = i
    BY <1>3
  <2>3. ~(k < l) /\ ~(l < k)
    BY <2>1, <2>2, Ranks
  <2> QED
    BY <2>1, <2>2, <2>3
<1>5. Ascending(S) = [i \in 1..Cardinality(S) |-> Ascending(S)[i]]
  BY DEF Ascending
<1> QED
  BY <1>1, <1>2, <1>3, <1>4, <1>5

LEMMA AscendingGrows ==
    ASSUME NEW S \in SUBSET Nat, IsFiniteSet(S),
           NEW i \in 1..Cardinality(S), NEW j \in 1..Cardinality(S), i < j
    PROVE  Ascending(S)[i] < Ascending(S)[j]
<1>1. PICK k \in S : k = Ascending(S)[i] /\ Cardinality(UpTo(S, k)) = i
  BY AscendingIs
<1>2. PICK l \in S : l = Ascending(S)[j] /\ Cardinality(UpTo(S, l)) = j
  BY AscendingIs
<1>3. i \in Nat /\ j \in Nat
  BY AscendingIs
<1>4. ~(l < k) /\ k # l
  BY <1>1, <1>2, <1>3, Ranks
<1> QED
  BY <1>1, <1>2, <1>4

\* What is picked of a sequence is a sequence, of what is at the positions and in
\* their order.
LEMMA PickedIs ==
    ASSUME NEW X, NEW s \in Seq(X), NEW S \in SUBSET (1..Len(s))
    PROVE  /\ IsFiniteSet(S) /\ Cardinality(S) \in Nat
           /\ Picked(s, S) \in Seq(X) /\ Len(Picked(s, S)) = Cardinality(S)
           /\ \A k \in 1..Cardinality(S) :
                 Ascending(S)[k] \in S /\ Picked(s, S)[k] = s[Ascending(S)[k]]
           /\ \A i \in S : \E k \in 1..Cardinality(S) : Ascending(S)[k] = i
           /\ \A k, l \in 1..Cardinality(S) : k < l => Ascending(S)[k] < Ascending(S)[l]
<1> DEFINE n == Cardinality(S)
           t == Picked(s, S)
<1>1. Len(s) \in Nat /\ S \in SUBSET Nat
  OBVIOUS
<1>2. IsFiniteSet(S)
  <2>1. IsFiniteSet(1..Len(s))
    BY <1>1, FS_Interval
  <2> QED
    BY <2>1, FS_Subset
<1>3. n \in Nat /\ \A k \in 1..n : Ascending(S)[k] \in S
  BY <1>1, <1>2, AscendingIs
<1>4. ASSUME NEW i \in S PROVE \E k \in 1..n : Ascending(S)[k] = i
  BY <1>1, <1>2, AscendingIs, Ranks
<1>5. \A k, l \in 1..n : k < l => Ascending(S)[k] < Ascending(S)[l]
  BY <1>1, <1>2, AscendingGrows
<1>6. t = [k \in 1..n |-> s[Ascending(S)[k]]]
  BY DEF Picked
<1>7. ASSUME NEW k \in 1..n PROVE s[Ascending(S)[k]] \in X
  <2>1. Ascending(S)[k] \in 1..Len(s)
    BY <1>3
  <2> QED
    BY <2>1
<1> HIDE DEF n, t
<1>8. t \in [1..n -> X]
  BY <1>6, <1>7
<1>9. t \in Seq(X) /\ Len(t) = n
  BY <1>3, <1>8
<1> QED
  BY <1>2, <1>3, <1>4, <1>5, <1>6, <1>9 DEF n, t

(***************************************************************************)
(* Sums                                                                    *)
(***************************************************************************)
Sums(s) == [k \in 0..Len(s) |-> SumOfFirst(s, k)]

IsSums(f, s, n) ==
    /\ f \in [0..n -> Nat] /\ f[0] = 0
    /\ \A i \in 1..n : f[i] = f[i - 1] + s[i]

LEMMA SumsExist ==
    ASSUME NEW s \in Seq(Nat)
    PROVE  \E f : IsSums(f, s, Len(s))
<1> DEFINE n == Len(s)
           H == {m \in 0..n : \E f : IsSums(f, s, m)}
<1>1. n \in Nat
  OBVIOUS
<1>2. 0 \in H
  <2>1. IsSums([i \in 0..0 |-> 0], s, 0) /\ 0 \in 0..n
    BY <1>1 DEF IsSums
  <2> QED
    BY <2>1
<1>3. ASSUME NEW m \in 1..n, m - 1 \in H PROVE m \in H
  <2>1. PICK f : IsSums(f, s, m - 1)
    BY <1>3
  <2>2. PICK w \in Nat : w = s[m]
    BY <1>1
  <2> DEFINE g == [i \in 0..m |-> IF i = m THEN f[m - 1] + w ELSE f[i]]
  <2>3. m \in Nat /\ m # 0 /\ m - 1 \in 0..(m - 1)
    BY <1>1
  <2>4. f[m - 1] \in Nat /\ f[0] = 0 /\ \A i \in 0..(m - 1) : f[i] \in Nat
    BY <2>1, <2>3 DEF IsSums
  <2>5. g \in [0..m -> Nat] /\ g[0] = 0
    BY <2>3, <2>4
  <2>6. ASSUME NEW i \in 1..m PROVE g[i] = g[i - 1] + s[i]
    <3>1. i - 1 \in 0..m /\ i - 1 # m /\ i \in 0..m
      BY <2>3
    <3>2. g[i - 1] = f[i - 1]
      BY <3>1
    <3>3. CASE i = m
      BY <2>2, <3>1, <3>2, <3>3
    <3>4. CASE i # m
      <4>1. i \in 1..(m - 1)
        BY <2>3, <3>4
      <4> QED
        BY <2>1, <3>1, <3>2, <3>4, <4>1 DEF IsSums
    <3> QED
      BY <3>3, <3>4
  <2> HIDE DEF g
  <2>7. IsSums(g, s, m)
    BY <2>5, <2>6 DEF IsSums
  <2>8. m \in 0..n
    BY <1>1
  <2> QED
    BY <2>7, <2>8
<1>4. 0..n \subseteq H
  <2>1. H \in SUBSET Nat
    BY <1>1
  <2> HIDE DEF H, n
  <2> QED
    BY <1>1, <1>2, <1>3, <2>1, StepByStep
<1> QED
  BY <1>1, <1>4

LEMMA SumsAre ==
    ASSUME NEW s \in Seq(Nat)
    PROVE  IsSums(Sums(s), s, Len(s))
<1> DEFINE n == Len(s)
           Defined(f) == f = [i \in 0..n |-> IF i = 0 THEN 0 ELSE f[i - 1] + s[i]]
           upTo == CHOOSE f : Defined(f)
<1>1. n \in Nat
  OBVIOUS
<1>2. \E f : Defined(f)
  <2>1. PICK f : IsSums(f, s, n)
    BY SumsExist
  <2>2. \A i \in 0..n : i = 0 \/ i \in 1..n
    BY <1>1
  <2>3. \A i \in 0..n : f[i] = IF i = 0 THEN 0 ELSE f[i - 1] + s[i]
    BY <2>1, <2>2 DEF IsSums
  <2>4. f = [i \in 0..n |-> f[i]]
    BY <2>1 DEF IsSums
  <2> QED
    BY <2>3, <2>4
<1>3. Defined(upTo)
  BY <1>2
<1>4. ASSUME NEW k \in 0..n PROVE SumOfFirst(s, k) = upTo[k]
  BY DEF SumOfFirst
<1> HIDE DEF upTo
<1>5. /\ upTo = [i \in 0..n |-> upTo[i]] /\ upTo[0] = 0
      /\ \A i \in 1..n : upTo[i] = upTo[i - 1] + s[i]
  BY <1>1, <1>3
<1>6. \A i \in 0..n : upTo[i] \in Nat
  <2> DEFINE H == {i \in 0..n : upTo[i] \in Nat}
  <2>1. 0 \in H /\ H \in SUBSET Nat
    BY <1>1, <1>5
  <2>2. ASSUME NEW i \in 1..n, i - 1 \in H PROVE i \in H
    <3>1. s[i] \in Nat /\ upTo[i - 1] \in Nat /\ i \in 0..n
      BY <1>1, <2>2
    <3>2. upTo[i] = upTo[i - 1] + s[i]
      BY <1>5
    <3> QED
      BY <3>1, <3>2
  <2>3. 0..n \subseteq H
    <3> HIDE DEF H, n
    <3> QED
      BY <1>1, <2>1, <2>2, StepByStep
  <2> QED
    BY <2>3
<1>7. Sums(s) = upTo
  BY <1>4, <1>5 DEF Sums
<1> QED
  BY <1>5, <1>6, <1>7 DEF IsSums


(***************************************************************************)
(* Sequences                                                               *)
(***************************************************************************)
LEMMA SeqIs ==
    ASSUME NEW X, NEW s \in Seq(X)
    PROVE  /\ IsSeq(s) /\ Range(s) \subseteq X
           /\ Range(s) = {s[i] : i \in 1..Len(s)}
           /\ DOMAIN s = 1..Len(s) /\ Len(s) \in Nat
<1>1. DOMAIN s = 1..Len(s) /\ Len(s) \in Nat /\ s \in [1..Len(s) -> X]
  OBVIOUS
<1>2. Range(s) = {s[i] : i \in 1..Len(s)} /\ Range(s) \subseteq X
  BY <1>1 DEF Range
<1>3. s = [i \in 1..Len(s) |-> s[i]] /\ \A i \in 1..Len(s) : s[i] \in Range(s)
  BY <1>1, <1>2
<1>4. s \in Seq(Range(s))
  BY <1>1, <1>3
<1> QED
  BY <1>1, <1>2, <1>4 DEF IsSeq

\* Lists put one after the other make a list.
LEMMA FlattenIs ==
    ASSUME NEW X, NEW ss \in Seq(Seq(X))
    PROVE  FlattenSeq(ss) \in Seq(X)
<1> DEFINE n == Len(ss)
           Defined(f) ==
               f = [i \in 1..n |-> IF i = 1 THEN ss[i] ELSE f[i - 1] \o ss[i]]
           flatten == CHOOSE f : Defined(f)
           Part(f, m) ==
               /\ f \in [1..m -> Seq(X)]
               /\ \A i \in 1..m : f[i] = IF i = 1 THEN ss[i] ELSE f[i - 1] \o ss[i]
           H == {m \in 0..n : \E f : Part(f, m)}
<1>1. n \in Nat /\ H \in SUBSET Nat
  OBVIOUS
<1>2. 0 \in H
  <2>1. Part(<<>>, 0) /\ 0 \in 0..n
    BY <1>1
  <2> QED
    BY <2>1
<1>3. ASSUME NEW m \in 1..n, m - 1 \in H PROVE m \in H
  <2>1. PICK f : Part(f, m - 1)
    BY <1>3
  <2>2. m \in Nat /\ m # 0 /\ ss[m] \in Seq(X) /\ m \in 0..n
    BY <1>1
  <2> DEFINE new == IF m = 1 THEN ss[m] ELSE f[m - 1] \o ss[m]
             g == [i \in 1..m |-> IF i = m THEN new ELSE f[i]]
  <2>3. new \in Seq(X)
    <3>1. CASE m = 1
      BY <2>2, <3>1
    <3>2. CASE m # 1
      <4>1. m - 1 \in 1..(m - 1)
        BY <2>2, <3>2
      <4>2. f[m - 1] \in Seq(X)
        BY <2>1, <4>1
      <4>3. f[m - 1] \o ss[m] \in Seq(X)
        BY <2>2, <4>2
      <4> QED
        BY <3>2, <4>3
    <3> QED
      BY <3>1, <3>2
  <2>4. ASSUME NEW i \in 1..m
        PROVE  g[i] \in Seq(X) /\ g[i] = IF i = 1 THEN ss[i] ELSE g[i - 1] \o ss[i]
    <3>1. CASE i = m
      <4>1. g[i] = new
        BY <3>1
      <4>2. m # 1 => g[m - 1] = f[m - 1]
        BY <2>2
      <4> QED
        BY <2>3, <3>1, <4>1, <4>2
    <3>2. CASE i # m
      <4>1. i \in 1..(m - 1)
        BY <2>2, <3>2
      <4>2. g[i] = f[i] /\ (i # 1 => g[i - 1] = f[i - 1])
        BY <2>2, <3>2
      <4> QED
        BY <2>1, <4>1, <4>2
    <3> QED
      BY <3>1, <3>2
  <2>5. g = [i \in 1..m |-> g[i]]
    OBVIOUS
  <2> HIDE DEF g
  <2>6. Part(g, m)
    BY <2>4, <2>5
  <2> QED
    BY <2>2, <2>6
<1>4. PICK f : Part(f, n)
  <2>1. 0..n \subseteq H
    <3> HIDE DEF H, n
    <3> QED
      BY <1>1, <1>2, <1>3, StepByStep
  <2>2. n \in 0..n
    BY <1>1
  <2>3. n \in H
    BY <2>1, <2>2
  <2> HIDE DEF Part
  <2> QED
    BY <2>3
<1>5. Defined(f)
  <2>1. f = [i \in 1..n |-> f[i]]
    BY <1>4
  <2> QED
    BY <1>4, <2>1
<1>6. Defined(flatten)
  BY <1>5
<1>7. FlattenSeq(ss) = IF n = 0 THEN ss ELSE flatten[n]
  BY DEF FlattenSeq
<1> HIDE DEF flatten
<1>8. ASSUME n # 0 PROVE flatten[n] \in Seq(X)
  <2> DEFINE K == {m \in 0..n : m # 0 => flatten[m] \in Seq(X)}
  <2>1. 0 \in K /\ K \in SUBSET Nat
    BY <1>1
  <2>2. ASSUME NEW m \in 1..n, m - 1 \in K PROVE m \in K
    <3>1. ss[m] \in Seq(X) /\ m \in 0..n
      BY <1>1
    <3>2. flatten[m] = IF m = 1 THEN ss[m] ELSE flatten[m - 1] \o ss[m]
      BY <1>6, <1>1
    <3>3. m # 1 => flatten[m - 1] \in Seq(X)
      BY <1>1, <2>2
    <3>4. m # 1 => flatten[m - 1] \o ss[m] \in Seq(X)
      BY <3>1, <3>3
    <3>5. flatten[m] \in Seq(X)
      BY <3>1, <3>2, <3>4
    <3> QED
      BY <3>1, <3>5
  <2>3. 0..n \subseteq K
    <3> HIDE DEF K, n
    <3> QED
      BY <1>1, <2>1, <2>2, StepByStep
  <2> QED
    BY <1>1, <1>8, <2>3
<1>9. n = 0 => ss = <<>>
  OBVIOUS
<1> QED
  BY <1>7, <1>8, <1>9

LEMMA AppendIs ==
    ASSUME NEW s, IsSeq(s), NEW e
    PROVE  IsSeq(Append(s, e)) /\ Range(Append(s, e)) \subseteq Range(s) \cup {e}
<1> DEFINE X == Range(s) \cup {e}
<1>1. s \in Seq(X)
  BY DEF IsSeq
<1>a. e \in X
  OBVIOUS
<1> HIDE DEF X
<1>2. PICK t \in Seq(X) : t = Append(s, e)
  BY <1>1, <1>a, AppendProperties
<1>3. IsSeq(t) /\ Range(t) \subseteq X
  BY <1>2, SeqIs
<1> QED
  BY <1>2, <1>3 DEF X

LEMMA ConcatIs ==
    ASSUME NEW s, NEW t, IsSeq(s), IsSeq(t)
    PROVE  IsSeq(s \o t) /\ Range(s \o t) \subseteq Range(s) \cup Range(t)
<1> DEFINE X == Range(s) \cup Range(t)
<1>1. s \in Seq(X) /\ t \in Seq(X)
  BY DEF IsSeq
<1> HIDE DEF X
<1>2. PICK u \in Seq(X) : u = s \o t
  BY <1>1, ConcatProperties
<1>3. IsSeq(u) /\ Range(u) \subseteq X
  BY <1>2, SeqIs
<1> QED
  BY <1>2, <1>3 DEF X

\* The last n of a sequence are a sequence of some of it, and are not none.
LEMMA LastNIs ==
    ASSUME NEW s, IsSeq(s), NEW n \in Nat
    PROVE  /\ IsSeq(LastN(s, n)) /\ Range(LastN(s, n)) \subseteq Range(s)
           /\ s # <<>> => LastN(s, n) # <<>>
<1> DEFINE X == Range(s)
<1>1. s \in Seq(X) /\ Len(s) \in Nat
  BY DEF IsSeq
<1>2. PICK t \in Seq(X) : t = LastN(s, n) /\ (s # <<>> => t # <<>>)
  <2>1. CASE n = 0 \/ n >= Len(s)
    BY <1>1, <2>1 DEF LastN
  <2>2. CASE ~(n = 0 \/ n >= Len(s))
    <3>1. LastN(s, n) = SubSeq(s, Len(s) - n + 1, Len(s))
      BY <2>2 DEF LastN
    <3> DEFINE m == Len(s) - n + 1
    <3>2. m \in Int /\ Len(s) \in Int /\ m <= Len(s) /\ Len(s) - m + 1 # 0
      BY <1>1, <2>2
    <3>3. \A i \in m..Len(s) : s[i] \in X
      <4>1. \A i \in m..Len(s) : i \in 1..Len(s)
        BY <1>1, <2>2
      <4> HIDE DEF X, m
      <4> QED
        BY <1>1, <4>1
    <3> HIDE DEF X, m
    <3>4. /\ SubSeq(s, m, Len(s)) \in Seq(X)
          /\ Len(SubSeq(s, m, Len(s))) = Len(s) - m + 1
      BY <3>2, <3>3, SubSeqProperties
    <3>5. SubSeq(s, m, Len(s)) # <<>>
      BY <3>2, <3>4
    <3> QED
      BY <3>1, <3>4, <3>5 DEF m
  <2> QED
    BY <2>1, <2>2
<1> HIDE DEF X
<1>3. IsSeq(t) /\ Range(t) \subseteq X
  BY <1>2, SeqIs
<1> QED
  BY <1>2, <1>3 DEF X

(***************************************************************************)
(* The calls of a session                                                  *)
(***************************************************************************)
IsCall(c) ==
    /\ IsRequest(c)
    /\ c.tool_calls \in Seq(ToolUses)
    /\ Hashes(c) \subseteq Subjects

CallsInv ==
    /\ family \in Families
    /\ IsSeq(history) /\ \A c \in Range(history) : IsCall(c)
    /\ IsSeq(buffer) /\ \A c \in Range(buffer) : IsCall(c)

LEMMA BlankIs ==
    /\ DOMAIN Blank =
          {"timestamp", "provider", "method", "model", "prompt_tokens",
           "completion_tokens", "request_hash", "tool_calls",
           "user_facing_output", "input", "messages", "contents", "tools",
           "base_url", "text_hash", "voice_id", "channels", "multichannel",
           "details"}
BY DEF Blank

\* What a menu offers is a call.
LEMMA MenuIs ==
    ASSUME family \in Families, NEW c \in Menu[family]
    PROVE  IsCall(c)
<1>1. c \in Menus
  BY DEF Menus
<1>2. IsRequest(c)
  BY <1>1, MenuAssumption
<1>3. Range(c.tool_calls) \subseteq ToolUses
  BY <1>1 DEF ToolUses
<1>4. c.tool_calls \in Seq(ToolUses)
  <2>1. c.tool_calls \in Seq(Range(c.tool_calls))
    BY <1>2 DEF IsRequest, IsSeq
  <2> QED
    BY <1>3, <2>1
<1>5. Hashes(c) \subseteq Subjects
  BY <1>1 DEF Subjects
<1> QED
  BY <1>2, <1>4, <1>5 DEF IsCall

\* A later record with the same fields is a call as well.
LEMMA StampedIs ==
    ASSUME NEW c, IsCall(c), NEW time
    PROVE  IsCall([c EXCEPT !.timestamp = time])
<1> DEFINE r == [c EXCEPT !.timestamp = time]
<1>1. DOMAIN c = DOMAIN Blank
  BY DEF IsCall, IsRequest
<1>2. /\ DOMAIN r = DOMAIN Blank
      /\ r.model = c.model /\ r.messages = c.messages /\ r.contents = c.contents
      /\ r.tools = c.tools /\ r.tool_calls = c.tool_calls
      /\ r.prompt_tokens = c.prompt_tokens /\ r.completion_tokens = c.completion_tokens
      /\ r.request_hash = c.request_hash /\ r.text_hash = c.text_hash /\ r.input = c.input
  BY <1>1, BlankIs
<1> HIDE DEF r
<1> QED
  BY <1>2 DEF IsCall, IsRequest, Hashes

LEMMA ConversationIs ==
    ASSUME NEW c, IsCall(c), NEW before, IsSeq(before),
           \A m \in Range(before) : IsMessage(m)
    PROVE  IsCall([c EXCEPT !.messages = before \o @])
<1> DEFINE r == [c EXCEPT !.messages = before \o @]
<1>1. DOMAIN c = DOMAIN Blank /\ IsSeq(c.messages)
      /\ \A m \in Range(c.messages) : IsMessage(m)
  BY DEF IsCall, IsRequest
<1>2. /\ DOMAIN r = DOMAIN Blank /\ r.messages = before \o c.messages
      /\ r.model = c.model /\ r.contents = c.contents
      /\ r.tools = c.tools /\ r.tool_calls = c.tool_calls
      /\ r.prompt_tokens = c.prompt_tokens /\ r.completion_tokens = c.completion_tokens
      /\ r.request_hash = c.request_hash /\ r.text_hash = c.text_hash /\ r.input = c.input
  BY <1>1, BlankIs
<1>3. IsSeq(r.messages) /\ \A m \in Range(r.messages) : IsMessage(m)
  <2>1. /\ IsSeq(before \o c.messages)
        /\ Range(before \o c.messages) \subseteq Range(before) \cup Range(c.messages)
    BY <1>1, ConcatIs
  <2> QED
    BY <1>1, <1>2, <2>1
<1> HIDE DEF r
<1> QED
  BY <1>2, <1>3 DEF IsCall, IsRequest, Hashes

\* A further record is a call as well.
LEMMA Append1Keeps ==
    ASSUME CallsInv, NEW c, IsCall(c), NEW gap, Append1(c, gap)
    PROVE  CallsInv'
<1>1. PICK r : IsCall(r) /\ history' = Append(history, r)
                /\ buffer' = LastN(Append(buffer, r), BufferSize[family])
                /\ family' = family
  BY StampedIs DEF Append1
<1>2. BufferSize[family] \in Nat
  BY SessionAssumption DEF CallsInv
<1>3. IsSeq(history') /\ Range(history') \subseteq Range(history) \cup {r}
  BY <1>1, AppendIs DEF CallsInv
<1>4. PICK b : b = Append(buffer, r) /\ IsSeq(b) /\ Range(b) \subseteq Range(buffer) \cup {r}
  BY AppendIs DEF CallsInv
<1>5. IsSeq(buffer') /\ Range(buffer') \subseteq Range(b)
  BY <1>1, <1>2, <1>4, LastNIs
<1> QED
  BY <1>1, <1>3, <1>4, <1>5 DEF CallsInv

\* The last record of a session there is anything of is one of it.
LEMMA LastIs ==
    ASSUME NEW s, IsSeq(s), s # <<>>
    PROVE  Len(s) \in DOMAIN s /\ Last(s) \in Range(s)
<1>1. s \in Seq(Range(s))
  BY DEF IsSeq
<1>2. Len(s) \in 1..Len(s) /\ DOMAIN s = 1..Len(s)
  BY <1>1
<1> QED
  BY <1>2 DEF Last, Range

\* What a session has and the tracer keeps are calls of the menu, later and with
\* the conversation before them (Tracer.append).
THEOREM SessionHasCalls == SessionSpec => []CallsInv
<1>1. SessionInit => CallsInv
  <2> SUFFICES ASSUME SessionInit PROVE CallsInv
    OBVIOUS
  <2>1. IsSeq(<<>>) /\ Range(<<>>) = {}
    BY DEF IsSeq, Range
  <2> QED
    BY <2>1 DEF SessionInit, CallsInv
<1>2. CallsInv /\ [SessionNext]_sessionVars => CallsInv'
  <2> SUFFICES ASSUME CallsInv, [SessionNext]_sessionVars PROVE CallsInv'
    OBVIOUS
  <2>1. ASSUME NEW c \in Menu[family], NEW gap \in Gaps[family], Call(c, gap)
        PROVE  CallsInv'
    <3>1. IsCall(c)
      BY MenuIs DEF CallsInv
    <3> QED
      BY <2>1, <3>1, Append1Keeps DEF Call
  <2>2. ASSUME NEW c \in Menu[family], NEW gap \in Gaps[family], Converse(c, gap)
        PROVE  CallsInv'
    <3> DEFINE before == IF history = <<>> THEN <<>> ELSE Last(history).messages
    <3>1. IsCall(c)
      BY MenuIs DEF CallsInv
    <3>2. IsSeq(before) /\ \A m \in Range(before) : IsMessage(m)
      <4>1. CASE history = <<>>
        BY <4>1 DEF IsSeq, Range
      <4>2. CASE history # <<>>
        <5>1. IsCall(Last(history))
          BY <4>2, LastIs DEF CallsInv
        <5> QED
          BY <4>2, <5>1 DEF IsCall, IsRequest
      <4> QED
        BY <4>1, <4>2
    <3>3. Append1([c EXCEPT !.messages = before \o @], gap)
      BY <2>2 DEF Converse
    <3> HIDE DEF before
    <3>4. PICK d : d = [c EXCEPT !.messages = before \o @] /\ IsCall(d)
      BY <3>1, <3>2, ConversationIs
    <3> QED
      BY <3>3, <3>4, Append1Keeps
  <2>3. CASE UNCHANGED sessionVars
    BY <2>3 DEF CallsInv, sessionVars
  <2> QED
    BY <2>1, <2>2, <2>3 DEF SessionNext
<1> QED
  BY <1>1, <1>2, PTL DEF SessionSpec

\* A report is not the silence.
LEMMA ReportIsSome ==
    ASSUME NEW type \in EventTypes, NEW subject \in Subjects,
           NEW count \in Nat, NEW confidence \in Int, NEW wasted \in Int
    PROVE  Leak(type, subject, count, confidence, wasted) # None
<1> DEFINE event == Leak(type, subject, count, confidence, wasted)
<1>1. event \in [type : EventTypes, subject : Subjects, count : Nat,
                 confidence : Int, wasted : Int]
  BY DEF Leak
<1> HIDE DEF event
<1> QED
  BY <1>1, MenuAssumption DEF event

(***************************************************************************)
(* Sums                                                                    *)
(***************************************************************************)
\* The later sum is the larger one.
LEMMA SumsGrow ==
    ASSUME NEW s \in Seq(Nat), NEW j \in 0..Len(s), NEW i \in 0..j
    PROVE  /\ SumOfFirst(s, i) \in Nat /\ SumOfFirst(s, j) \in Nat
           /\ SumOfFirst(s, i) <= SumOfFirst(s, j)
<1> DEFINE n == Len(s)
           P == Sums(s)
           H == {m \in 0..n : \A k \in 0..m : P[k] <= P[m]}
<1>1. n \in Nat /\ H \in SUBSET Nat
  OBVIOUS
<1>2. IsSums(P, s, n) /\ \A k \in 0..n : P[k] = SumOfFirst(s, k)
  BY SumsAre DEF Sums
<1> HIDE DEF P
<1>3. \A k \in 0..n : P[k] \in Nat
  BY <1>2 DEF IsSums
<1>4. 0 \in H
  BY <1>1, <1>3
<1>5. ASSUME NEW m \in 1..n, m - 1 \in H PROVE m \in H
  <2>1. m \in Nat /\ s[m] \in Nat /\ P[m] = P[m - 1] + s[m] /\ m - 1 \in 0..n /\ m \in 0..n
    BY <1>1, <1>2 DEF IsSums
  <2>2. ASSUME NEW k \in 0..m PROVE P[k] <= P[m]
    <3>1. CASE k = m
      BY <1>3, <2>1, <3>1
    <3>2. CASE k # m
      <4>1. k \in 0..(m - 1) /\ k \in 0..n
        BY <1>1, <2>1, <3>2
      <4>2. P[k] <= P[m - 1]
        BY <1>5, <4>1
      <4>3. P[k] \in Nat /\ P[m - 1] \in Nat
        BY <1>3, <2>1, <4>1
      <4> QED
        BY <2>1, <4>2, <4>3
    <3> QED
      BY <3>1, <3>2
  <2> QED
    BY <2>1, <2>2
<1>6. j \in H
  <2>1. 0..n \subseteq H
    <3> HIDE DEF H, n
    <3> QED
      BY <1>1, <1>4, <1>5, StepByStep
  <2> QED
    BY <2>1
<1>7. i \in 0..n
  BY <1>1
<1> QED
  BY <1>2, <1>3, <1>6, <1>7

\* A sum does not depend on the order.
LEMMA SumReversed ==
    ASSUME NEW s \in Seq(Nat)
    PROVE  /\ Reverse(s) \in Seq(Nat) /\ Len(Reverse(s)) = Len(s)
           /\ SumSeq(Reverse(s)) = SumSeq(s) /\ SumSeq(s) \in Nat
<1> DEFINE n == Len(s)
           t == Reverse(s)
           P == Sums(s)
           Q == Sums(t)
           H == {k \in 0..n : Q[k] + P[n - k] = P[n]}
<1>1. n \in Nat /\ H \in SUBSET Nat
  OBVIOUS
<1>2. t \in Seq(Nat) /\ Len(t) = n /\ \A i \in 1..n : t[i] = s[n - i + 1]
  <2>1. t = [i \in 1..n |-> s[n - i + 1]]
    BY DEF Reverse
  <2>2. \A i \in 1..n : s[n - i + 1] \in Nat
    BY <1>1
  <2> HIDE DEF t, n
  <2> QED
    BY <1>1, <2>1, <2>2
<1>3. IsSums(P, s, n) /\ P[n] = SumSeq(s)
  BY <1>1, SumsAre DEF Sums, SumSeq
<1> HIDE DEF t
<1>4. IsSums(Q, t, n) /\ Q[n] = SumSeq(t)
  BY <1>1, <1>2, SumsAre DEF Sums, SumSeq
<1> HIDE DEF P, Q
<1>5. \A k \in 0..n : P[k] \in Nat /\ Q[k] \in Nat
  BY <1>3, <1>4 DEF IsSums
<1>6. 0 \in H
  BY <1>1, <1>4, <1>5 DEF IsSums
<1>7. ASSUME NEW k \in 1..n, k - 1 \in H PROVE k \in H
  <2>1. k \in Nat /\ k \in 0..n /\ k - 1 \in 0..n /\ n - k \in 0..n
        /\ n - k + 1 \in 1..n /\ n - (k - 1) = n - k + 1 /\ (n - k + 1) - 1 = n - k
    BY <1>1
  <2>2. PICK w \in Nat : w = s[n - k + 1]
    BY <2>1
  <2>3. Q[k] = Q[k - 1] + w
    BY <1>2, <1>4, <2>2 DEF IsSums
  <2>4. P[n - k + 1] = P[n - k] + w
    BY <1>3, <2>1, <2>2 DEF IsSums
  <2>a. Q[k - 1] + P[n - (k - 1)] = P[n]
    BY <1>7
  <2>5. Q[k - 1] + P[n - k + 1] = P[n]
    BY <2>a, <2>1
  <2>6. PICK x \in Nat, y \in Nat : x = Q[k - 1] /\ y = P[n - k]
    BY <1>5, <2>1
  <2>b. Q[k] = x + w /\ P[n - k + 1] = y + w
    BY <2>3, <2>4, <2>6
  <2>c. P[n] = x + (y + w)
    BY <2>5, <2>6, <2>b
  <2>7. Q[k] + P[n - k] = P[n]
    <3>1. (x + w) + y = x + (y + w)
      OBVIOUS
    <3> HIDE DEF n
    <3> QED
      BY <2>6, <2>b, <2>c, <3>1, Zenon
  <2> QED
    BY <2>1, <2>7
<1>8. n \in H
  <2>1. 0..n \subseteq H
    <3> HIDE DEF H, n
    <3> QED
      BY <1>1, <1>6, <1>7, StepByStep
  <2>2. n \in 0..n
    BY <1>1
  <2> QED
    BY <2>1, <2>2
<1>9. P[0] = 0 /\ n - n = 0 /\ Q[n] + P[n - n] = P[n]
  BY <1>1, <1>3, <1>8 DEF IsSums
<1> QED
  BY <1>1, <1>2, <1>3, <1>4, <1>5, <1>9 DEF t

(***************************************************************************)
(* tool_definition_bloat                                                   *)
(***************************************************************************)
Sizes(tools) == MapSeq(tools, LAMBDA t : IF t = Unserialisable THEN 0 ELSE t)

\* The tools of a call weigh something, more with each of them.
LEMMA SizesAre ==
    ASSUME NEW tools \in Seq(Nat \cup {Unserialisable})
    PROVE  Sizes(tools) \in Seq(Nat) /\ Len(Sizes(tools)) = Len(tools)
<1>1. Sizes(tools) = [i \in 1..Len(tools) |->
                         IF tools[i] = Unserialisable THEN 0 ELSE tools[i]]
  BY DEF Sizes, MapSeq
<1>2. Len(tools) \in Nat /\ \A i \in 1..Len(tools) :
          (IF tools[i] = Unserialisable THEN 0 ELSE tools[i]) \in Nat
  OBVIOUS
<1> QED
  BY <1>1, <1>2

\* Whether the serialisation is cut short is a matter of the sum alone, and so is,
\* if it is not, what it comes to.
LEMMA SerialisedIs ==
    ASSUME NEW tools \in Seq(Nat \cup {Unserialisable}), tools # <<>>
    PROVE  LET sized == SerialiseToolsBounded(tools)
               sum == SumSeq(Sizes(tools))
           IN  /\ sized.definition_bytes \in Nat
               /\ sized.short_circuited <=> sum > MaxTotalBytes
               /\ ~sized.short_circuited => sized.definition_bytes = sum
<1> DEFINE n == Len(tools)
           s == Sizes(tools)
           over == {k \in 1..n : SumOfFirst(s, k) > MaxTotalBytes}
           at == IF over = {} THEN n ELSE Min(over)
<1>1. s \in Seq(Nat) /\ Len(s) = n /\ n \in Nat /\ n # 0
  BY SizesAre
<1>2. SerialiseToolsBounded(tools) =
          [definition_bytes |-> SumOfFirst(s, at), short_circuited |-> over # {}]
  <2>1. DOMAIN tools = 1..n
    BY <1>1
  <2> QED
    BY <2>1 DEF SerialiseToolsBounded, Sizes
<1>3. SumSeq(s) = SumOfFirst(s, n)
  BY <1>1 DEF SumSeq
<1> HIDE DEF s
<1>4. MaxTotalBytes \in Nat
  BY ToolAssumption
<1>5. over # {} <=> SumOfFirst(s, n) > MaxTotalBytes
  <2>1. ASSUME NEW k \in over PROVE SumOfFirst(s, n) > MaxTotalBytes
    <3>1. k \in 0..n /\ n \in 0..n /\ SumOfFirst(s, k) > MaxTotalBytes
      BY <1>1
    <3>2. /\ SumOfFirst(s, k) \in Nat /\ SumOfFirst(s, n) \in Nat
          /\ SumOfFirst(s, k) <= SumOfFirst(s, n)
      BY <1>1, <3>1, SumsGrow
    <3> QED
      BY <1>4, <3>1, <3>2
  <2>2. n \in 1..n
    BY <1>1
  <2> QED
    BY <2>1, <2>2
<1>6. at \in 0..n
  <2>1. CASE over = {}
    BY <1>1, <2>1
  <2>2. CASE over # {}
    <3>1. over \in SUBSET Nat
      BY <1>1
    <3>2. PICK k \in over : \A j \in over : k <= j
      <4> HIDE DEF over
      <4> QED
        BY <2>2, <3>1, Least
    <3>3. Min(over) \in over
      <4> HIDE DEF over
      <4> QED
        BY <3>2 DEF Min
    <3> QED
      BY <1>1, <2>2, <3>3
  <2> QED
    BY <2>1, <2>2
<1>7. SumOfFirst(s, at) \in Nat
  <2> HIDE DEF at
  <2>1. at \in 0..at /\ at \in 0..Len(s)
    BY <1>1, <1>6
  <2> QED
    BY <1>1, <2>1, SumsGrow
<1>8. /\ SerialiseToolsBounded(tools).definition_bytes = SumOfFirst(s, at)
      /\ SerialiseToolsBounded(tools).short_circuited = (over # {})
  <2> HIDE DEF over, at
  <2> QED
    BY <1>2
<1>9. ~(over # {}) => at = n
  OBVIOUS
<1> HIDE DEF over, at
<1> QED
  BY <1>3, <1>5, <1>7, <1>8, <1>9 DEF s

\* tool_definition_bloat is silent for few and small tools only.
LEMMA BloatIsSilent ==
    ASSUME NEW session, session # <<>>, NEW n \in Nat, n = Len(session),
           Last(session).tools \in Seq(Nat \cup {Unserialisable})
    PROVE  LET tools == Last(session).tools
               sum == SumSeq(Sizes(tools))
           IN  ToolDefinitionBloat(session) = None <=>
                  \/ tools = <<>>
                  \/ /\ ~(sum > MaxTotalBytes)
                     /\ Len(tools) < ToolCountThreshold /\ sum < BytesThreshold
<1> DEFINE tools == Last(session).tools
           sum == SumSeq(Sizes(tools))
           sized == SerialiseToolsBounded(tools)
           bytes == sized.definition_bytes
           sure == IF /\ Severe(Len(tools), ToolCountThreshold)
                      /\ Severe(bytes, BytesThreshold) THEN 95 ELSE 85
           wasted == (bytes \div 4) * LargerOf(Len(session), 1)
           truncated == Leak("tool_definition_bloat", "truncated", Len(tools), 50, 0)
           evaluated == Leak("tool_definition_bloat", "evaluated", Len(tools), sure, wasted)
<1>1. tools \in Seq(Nat \cup {Unserialisable}) /\ Len(tools) \in Nat
  OBVIOUS
<1>2. tools # <<>> =>
          /\ bytes \in Nat
          /\ sized.short_circuited <=> sum > MaxTotalBytes
          /\ ~sized.short_circuited => bytes = sum
  <2> HIDE DEF tools
  <2> QED
    BY <1>1, SerialisedIs
<1>3. ToolDefinitionBloat(session) =
          IF session = <<>> \/ tools = <<>> THEN None
          ELSE IF sized.short_circuited THEN truncated
          ELSE IF Len(tools) < ToolCountThreshold /\ bytes < BytesThreshold THEN None
          ELSE evaluated
  BY DEF ToolDefinitionBloat
<1>a. /\ "tool_definition_bloat" \in EventTypes
      /\ "truncated" \in Subjects /\ "evaluated" \in Subjects
  BY DEF EventTypes, Subjects
<1>4. truncated # None
  <2> HIDE DEF tools
  <2>1. 0 \in Int /\ 50 \in Int
    OBVIOUS
  <2> QED
    BY <1>1, <1>a, <2>1, ReportIsSome
<1>5. tools # <<>> => evaluated # None
  <2> HIDE DEF tools, sized
  <2> SUFFICES ASSUME tools # <<>> PROVE evaluated # None
    OBVIOUS
  <2>1. PICK m \in Nat : m = bytes
    BY <1>2
  <2>2. m \div 4 \in Nat
    OBVIOUS
  <2>3. PICK l \in Nat : l = LargerOf(Len(session), 1)
    BY DEF LargerOf
  <2>4. wasted \in Nat
    <3>1. \A x, y \in Nat : x * y \in Nat
      OBVIOUS
    <3> QED
      BY <2>1, <2>2, <2>3, <3>1
  <2>5. sure \in Int /\ wasted \in Int
    BY <2>4
  <2> HIDE DEF sure, wasted
  <2> QED
    BY <1>1, <1>a, <2>4, <2>5, ReportIsSome
<1> HIDE DEF tools, sized, truncated, evaluated, sum
<1>6. ToolDefinitionBloat(session) = None <=>
          \/ tools = <<>>
          \/ ~(sum > MaxTotalBytes) /\ Len(tools) < ToolCountThreshold /\ sum < BytesThreshold
  BY <1>2, <1>3, <1>4, <1>5
<1> QED
  BY <1>6 DEF tools, sum

\* The same tools in another order are judged the same.
LEMMA BloatReversed ==
    ASSUME NEW session, NEW other, session # <<>>, other # <<>>,
           Len(other) = Len(session),
           Last(session).tools \in Seq(Nat \cup {Unserialisable}),
           Last(other).tools = Reverse(Last(session).tools)
    PROVE  ToolDefinitionBloat(other) = ToolDefinitionBloat(session)
<1> DEFINE tools == Last(session).tools
           turned == Reverse(tools)
<1>1. tools \in Seq(Nat \cup {Unserialisable}) /\ Last(other).tools = turned
  OBVIOUS
<1> HIDE DEF tools
<1>2. /\ turned \in Seq(Nat \cup {Unserialisable}) /\ Len(turned) = Len(tools)
      /\ turned = <<>> <=> tools = <<>>
  <2> DEFINE n == Len(tools)
  <2>1. turned = [i \in 1..n |-> tools[n - i + 1]] /\ n \in Nat
    BY <1>1 DEF Reverse
  <2>2. \A i \in 1..n : tools[n - i + 1] \in Nat \cup {Unserialisable}
    <3>1. \A i \in 1..n : n - i + 1 \in 1..n
      BY <2>1
    <3> QED
      BY <1>1, <3>1
  <2> HIDE DEF turned, n
  <2>3. turned \in Seq(Nat \cup {Unserialisable}) /\ Len(turned) = n
    BY <2>1, <2>2
  <2> QED
    BY <1>1, <2>3 DEF n
<1>3. Sizes(turned) = Reverse(Sizes(tools))
  <2> DEFINE n == Len(tools)
             size(t) == IF t = Unserialisable THEN 0 ELSE t
  <2>1. n \in Nat /\ \A i \in 1..n : n - i + 1 \in 1..n
    BY <1>1
  <2>2. turned = [i \in 1..n |-> tools[n - i + 1]]
    BY DEF Reverse
  <2>3. Sizes(tools) = [i \in 1..n |-> size(tools[i])]
    BY <1>1 DEF Sizes, MapSeq
  <2>4. Sizes(turned) = [i \in 1..n |-> size(turned[i])]
    BY <1>1, <1>2 DEF Sizes, MapSeq
  <2>5. Reverse(Sizes(tools)) = [i \in 1..n |-> Sizes(tools)[n - i + 1]]
    BY <1>1, SizesAre DEF Reverse
  <2> HIDE DEF turned, n
  <2>6. \A i \in 1..n : size(turned[i]) = Sizes(tools)[n - i + 1]
    BY <2>1, <2>2, <2>3
  <2> QED
    BY <2>4, <2>5, <2>6
<1>4. SumSeq(Sizes(turned)) = SumSeq(Sizes(tools))
  <2>1. Sizes(tools) \in Seq(Nat)
    BY <1>1, SizesAre
  <2> QED
    BY <1>3, <2>1, SumReversed
<1>5. tools # <<>> =>
          LET a == SerialiseToolsBounded(tools)
              b == SerialiseToolsBounded(turned)
          IN  /\ a.short_circuited <=> b.short_circuited
              /\ ~a.short_circuited => a.definition_bytes = b.definition_bytes
  <2> HIDE DEF turned
  <2> QED
    BY <1>1, <1>2, <1>4, SerialisedIs
<1> HIDE DEF turned
<1>6. Last(session).tools = tools
  BY DEF tools
<1> QED
  BY <1>1, <1>2, <1>5, <1>6 DEF ToolDefinitionBloat

\* A sequence whose last element is replaced.
LEMMA LastReplaced ==
    ASSUME NEW s, IsSeq(s), s # <<>>, NEW t,
           DOMAIN t = DOMAIN s, IsSeq(t)
    PROVE  Len(t) = Len(s) /\ Last(t) = t[Len(s)] /\ t # <<>>
<1>1. s \in Seq(Range(s)) /\ t \in Seq(Range(t))
  BY DEF IsSeq
<1>2. DOMAIN s = 1..Len(s) /\ DOMAIN t = 1..Len(t) /\ Len(s) \in Nat /\ Len(t) \in Nat
  BY <1>1
<1>3. Len(s) # 0
  BY <1>1
<1>4. Len(t) = Len(s)
  BY <1>2
<1>5. t # <<>>
  BY <1>1, <1>3, <1>4
<1> QED
  BY <1>4, <1>5 DEF Last

LEMMA ExceptIsSeq ==
    ASSUME NEW s, IsSeq(s), NEW i, NEW e
    PROVE  IsSeq([s EXCEPT ![i] = e]) /\ DOMAIN [s EXCEPT ![i] = e] = DOMAIN s
<1> DEFINE X == Range(s) \cup {e}
<1>1. s \in Seq(X) /\ e \in X
  BY DEF IsSeq
<1> HIDE DEF X
<1>2. PICK t \in Seq(X) : t = [s EXCEPT ![i] = e] /\ DOMAIN t = DOMAIN s
  <2>1. DOMAIN s = 1..Len(s) /\ Len(s) \in Nat
    BY <1>1
  <2>2. [s EXCEPT ![i] = e] = [j \in 1..Len(s) |-> IF j = i THEN e ELSE s[j]]
    BY <1>1, <2>1
  <2>3. [j \in 1..Len(s) |-> IF j = i THEN e ELSE s[j]] \in Seq(X)
    BY <1>1, <2>1
  <2> QED
    BY <2>1, <2>2, <2>3
<1> QED
  BY <1>2, SeqIs

(***************************************************************************)
(* Verdicts                                                                *)
(***************************************************************************)
\* The order of the tools does not matter.
LEMMA OrderOfTools ==
    ASSUME CallsInv
    PROVE  BloatOrderFree
<1> DEFINE turned == [buffer EXCEPT ![Len(buffer)].tools = Reverse(@)]
<1>1. ToolDefinitionBloat(turned) = ToolDefinitionBloat(buffer)
  <2>1. CASE buffer = <<>>
    <3>1. turned = buffer
      BY <2>1
    <3> QED
      BY <3>1
  <2>2. CASE buffer # <<>>
    <3> DEFINE c == Last(buffer)
               d == [c EXCEPT !.tools = Reverse(@)]
    <3>1. IsCall(c) /\ IsSeq(buffer) /\ Len(buffer) \in DOMAIN buffer
      BY <2>2, LastIs DEF CallsInv
    <3>2. turned = [buffer EXCEPT ![Len(buffer)] = d]
      BY DEF Last
    <3>3. turned[Len(buffer)] = d /\ IsSeq(turned) /\ DOMAIN turned = DOMAIN buffer
      BY <3>1, <3>2, ExceptIsSeq
    <3> HIDE DEF turned
    <3>4. Len(turned) = Len(buffer) /\ Last(turned) = d /\ turned # <<>>
      BY <2>2, <3>1, <3>3, LastReplaced
    <3>5. "tools" \in DOMAIN c /\ IsSeq(c.tools)
          /\ Range(c.tools) \subseteq Nat \cup {Unserialisable}
      BY <3>1, BlankIs DEF IsCall, IsRequest
    <3>6. d.tools = Reverse(c.tools)
      BY <3>5
    <3> HIDE DEF c, d
    <3>7. c.tools \in Seq(Nat \cup {Unserialisable})
      BY <3>5 DEF IsSeq
    <3> QED
      BY <2>2, <3>4, <3>6, <3>7, BloatReversed DEF c
  <2> QED
    BY <2>1, <2>2
<1> HIDE DEF turned
<1>2. turned = [buffer EXCEPT ![Len(buffer)].tools = Reverse(@)]
  BY DEF turned
<1> QED
  BY <1>1, <1>2 DEF BloatOrderFree

\* The name starts at k, without the virtual keys in front.
Starts(model, k) ==
    /\ k = Len(model) \/ model[k] \notin VirtualKeys
    /\ \A j \in 1..k - 1 : model[j] \in VirtualKeys

\* Past the virtual keys, a name loses a vendor at most.
LEMMA NormalizedIs ==
    ASSUME NEW X, NEW model \in Seq(X), NEW i \in 1..Len(model), NEW url,
           Starts(model, i)
    PROVE  NormalizeModelName(model, url) =
              LET name == SubSeq(model, i, Len(model))
              IN  IF Len(name) > 1 /\ (name[1] \in Vendors \/ url \in GatewayHosts)
                  THEN Tail(name) ELSE name
<1>1. Len(model) \in Nat /\ DOMAIN model = 1..Len(model) /\ model # <<>>
  OBVIOUS
<1>2. ASSUME NEW k \in 1..Len(model), NEW l \in 1..Len(model),
             Starts(model, k), Starts(model, l)
      PROVE  ~(k < l)
  <2> SUFFICES ASSUME k < l PROVE FALSE
    OBVIOUS
  <2>1. PICK n \in Nat : n = Len(model)
    BY <1>1
  <2>2. k \in 1..n /\ l \in 1..n
    BY <2>1
  <2>3. k \in 1..(l - 1) /\ k # n
    BY <1>2, <2>2
  <2> QED
    BY <1>2, <2>1, <2>3 DEF Starts
<1>3. ASSUME NEW k \in 1..Len(model), Starts(model, k) PROVE k = i
  <2>1. ~(k < i) /\ ~(i < k)
    BY <1>2, <1>3
  <2> QED
    BY <1>1, <2>1
<1>4. (CHOOSE k \in DOMAIN model : Starts(model, k)) = i
  BY <1>1, <1>3
<1> QED
  BY <1>1, <1>4 DEF NormalizeModelName, Starts

LEMMA EndIs ==
    ASSUME NEW X, NEW m \in Seq(X), NEW i \in 1..Len(m)
    PROVE  LET t == SubSeq(m, i, Len(m))
           IN  /\ t \in Seq(X) /\ Len(t) = Len(m) - i + 1
               /\ \A j \in 1..Len(t) : t[j] = m[i + j - 1]
<1>1. i \in Int /\ Len(m) \in Int /\ i <= Len(m)
  OBVIOUS
<1>2. \A j \in i..Len(m) : m[j] \in X
  OBVIOUS
<1> QED
  BY <1>1, <1>2, SubSeqProperties

LEMMA OneIs ==
    ASSUME NEW X, NEW s \in Seq(X), Len(s) = 1
    PROVE  s = <<s[1]>> /\ s[1] \in X
<1>1. 1 \in 1..Len(s) /\ s[1] \in X
  OBVIOUS
<1>2. <<s[1]>> \in Seq(X) /\ Len(<<s[1]>>) = Len(s)
      /\ \A i \in 1..Len(s) : <<s[1]>>[i] = s[i]
  BY <1>1
<1>3. s = <<s[1]>>
  BY <1>2, SeqEqual
<1> QED
  BY <1>1, <1>3

LEMMA TailOfTwo ==
    ASSUME NEW X, NEW s \in Seq(X), Len(s) = 2
    PROVE  Tail(s) \in Seq(X) /\ Len(Tail(s)) = 1 /\ Tail(s)[1] = s[2]
<1>1. s # <<>>
  OBVIOUS
<1>2. /\ Tail(s) \in Seq(X) /\ Len(Tail(s)) = Len(s) - 1
      /\ \A i \in 1..Len(Tail(s)) : Tail(s)[i] = s[i + 1]
  BY <1>1, HeadTailProperties
<1> QED
  BY <1>2

\* The last one of a name is what it comes to, by itself or after a vendor.
LEMMA NormalToLast ==
    ASSUME NEW X, NEW model \in Seq(X), NEW i \in 1..Len(model),
           model[Len(model)] \notin VirtualKeys,
           \A j \in 1..i - 1 : model[j] \in VirtualKeys,
           i = Len(model) \/ (i = Len(model) - 1 /\ model[i] \in Vendors \ VirtualKeys)
    PROVE  NormalizeModelName(model, None) = <<model[Len(model)]>>
<1> DEFINE name == SubSeq(model, i, Len(model))
<1>1. Len(model) \in Nat /\ i \in Nat
  OBVIOUS
<1>2. NormalizeModelName(model, None) =
          IF Len(name) > 1 /\ (name[1] \in Vendors \/ None \in GatewayHosts)
          THEN Tail(name) ELSE name
  <2>1. Starts(model, i)
    BY DEF Starts
  <2> QED
    BY <2>1, NormalizedIs
<1>3. /\ name \in Seq(X) /\ Len(name) = Len(model) - i + 1
      /\ \A j \in 1..Len(name) : name[j] = model[i + j - 1]
  BY EndIs
<1> HIDE DEF name
<1>4. CASE i = Len(model)
  <2>1. Len(name) = 1 /\ name[1] = model[Len(model)]
    BY <1>1, <1>3, <1>4
  <2>2. name = <<name[1]>>
    BY <1>3, <2>1, OneIs
  <2> QED
    BY <1>2, <2>1, <2>2
<1>5. CASE i = Len(model) - 1 /\ model[i] \in Vendors \ VirtualKeys
  <2>1. Len(name) = 2 /\ name[1] = model[i] /\ name[2] = model[Len(model)]
    BY <1>1, <1>3, <1>5
  <2>2. Tail(name) \in Seq(X) /\ Len(Tail(name)) = 1 /\ Tail(name)[1] = name[2]
    BY <1>3, <2>1, TailOfTwo
  <2>3. Tail(name) = <<Tail(name)[1]>>
    BY <2>2, OneIs
  <2>4. NormalizeModelName(model, None) = Tail(name)
    BY <1>2, <1>5, <2>1
  <2> QED
    BY <2>1, <2>2, <2>3, <2>4
<1> QED
  BY <1>4, <1>5

LEMMA RouteToTheSame ==
    ASSUME NEW X, NEW own \in Seq(X), Len(own) = 1, own[1] \notin VirtualKeys,
           NEW v \in Vendors, NEW k \in VirtualKeys
    PROVE  /\ NormalizeModelName(own, None) = own
           /\ NormalizeModelName(<<v>> \o own, None) = own
           /\ NormalizeModelName(<<k>> \o own, None) = own
           /\ NormalizeModelName(<<k, v>> \o own, None) = own
<1> DEFINE Y == X \cup Vendors \cup VirtualKeys
<1>1. own = <<own[1]>> /\ own \in Seq(Y) /\ v \in Y /\ k \in Y
  <2>1. own = <<own[1]>> /\ own[1] \in Y /\ v \in Y /\ k \in Y
    BY OneIs
  <2> HIDE DEF Y
  <2>2. <<own[1]>> \in Seq(Y)
    BY <2>1
  <2> QED
    BY <2>1, <2>2
<1> HIDE DEF Y
<1>2. NormalizeModelName(own, None) = own
  <2>1. Len(own) \in 1..Len(own) /\ \A j \in 1..Len(own) - 1 : own[j] \in VirtualKeys
    OBVIOUS
  <2> QED
    BY <1>1, <2>1, NormalToLast
<1>3. ASSUME NEW u \in Y, u \in VirtualKeys \/ u \in Vendors
      PROVE  NormalizeModelName(<<u>> \o own, None) = own
  <2>1. PICK m \in Seq(Y) : /\ m = <<u>> \o own
                            /\ Len(m) = 2 /\ m[1] = u /\ m[2] = own[1]
    <3> DEFINE t == <<u>>
    <3>1. t \in Seq(Y) /\ Len(t) = 1 /\ t[1] = u /\ 1 \in 1..2 /\ 2 \in 1..2
      OBVIOUS
    <3> HIDE DEF t
    <3>2. t \o own \in Seq(Y) /\ Len(t \o own) = 2
          /\ \A i \in 1..2 : (t \o own)[i] = IF i <= 1 THEN t[i] ELSE own[i - 1]
      <4>1. Len(t) + Len(own) = 2
        BY <3>1
      <4>2. /\ t \o own \in Seq(Y) /\ Len(t \o own) = Len(t) + Len(own)
            /\ \A i \in 1..Len(t) + Len(own) :
                  (t \o own)[i] = IF i <= Len(t) THEN t[i] ELSE own[i - Len(t)]
        <5>1. t \in Seq(Y) /\ own \in Seq(Y)
          BY <1>1, <3>1
        <5> QED
          BY <5>1, ConcatProperties, Zenon
      <4> QED
        BY <3>1, <4>1, <4>2
    <3>3. (t \o own)[1] = u /\ (t \o own)[2] = own[1]
      BY <3>1, <3>2
    <3> QED
      BY <3>2, <3>3 DEF t
  <2>2. CASE u \in VirtualKeys
    <3>1. 2 \in 1..Len(m) /\ \A j \in 1..2 - 1 : m[j] \in VirtualKeys
      BY <2>1, <2>2
    <3> QED
      BY <1>1, <2>1, <3>1, NormalToLast
  <2>3. CASE u \notin VirtualKeys
    <3>1. 1 \in 1..Len(m) /\ \A j \in 1..1 - 1 : m[j] \in VirtualKeys
      BY <2>1
    <3>2. 1 = Len(m) - 1 /\ m[1] \in Vendors \ VirtualKeys
      BY <1>3, <2>1, <2>3
    <3> QED
      BY <1>1, <2>1, <3>1, <3>2, NormalToLast
  <2> QED
    BY <2>2, <2>3
<1>4. NormalizeModelName(<<k, v>> \o own, None) = own
  <2>1. PICK m \in Seq(Y) : /\ m = <<k, v>> \o own
                            /\ Len(m) = 3 /\ m[1] = k /\ m[2] = v /\ m[3] = own[1]
    <3> DEFINE t == <<k, v>>
    <3>1. /\ t \in Seq(Y) /\ Len(t) = 2 /\ t[1] = k /\ t[2] = v
          /\ 1 \in 1..3 /\ 2 \in 1..3 /\ 3 \in 1..3
      BY <1>1
    <3> HIDE DEF t
    <3>2. t \o own \in Seq(Y) /\ Len(t \o own) = 3
          /\ \A i \in 1..3 : (t \o own)[i] = IF i <= 2 THEN t[i] ELSE own[i - 2]
      <4>1. Len(t) + Len(own) = 3 /\ \A i : i - Len(t) = i - 2
        BY <3>1
      <4>2. /\ t \o own \in Seq(Y) /\ Len(t \o own) = Len(t) + Len(own)
            /\ \A i \in 1..Len(t) + Len(own) :
                  (t \o own)[i] = IF i <= Len(t) THEN t[i] ELSE own[i - Len(t)]
        <5>1. t \in Seq(Y) /\ own \in Seq(Y)
          BY <1>1, <3>1
        <5> QED
          BY <5>1, ConcatProperties, Zenon
      <4> QED
        BY <3>1, <4>1, <4>2
    <3>3. (t \o own)[1] = k /\ (t \o own)[2] = v /\ (t \o own)[3] = own[1]
      BY <3>1, <3>2
    <3> QED
      BY <3>2, <3>3 DEF t
  <2>2. CASE v \in VirtualKeys
    <3>1. 3 \in 1..Len(m) /\ \A j \in 1..3 - 1 : m[j] \in VirtualKeys
      BY <2>1, <2>2
    <3> QED
      BY <1>1, <2>1, <3>1, NormalToLast
  <2>3. CASE v \notin VirtualKeys
    <3>1. 2 \in 1..Len(m) /\ \A j \in 1..2 - 1 : m[j] \in VirtualKeys
      BY <2>1
    <3>2. 2 = Len(m) - 1 /\ m[2] \in Vendors \ VirtualKeys
      BY <2>1, <2>3
    <3> QED
      BY <1>1, <2>1, <3>1, <3>2, NormalToLast
  <2> QED
    BY <2>2, <2>3
<1> QED
  BY <1>1, <1>2, <1>3, <1>4

\* ModelMisroute reads the last call, and of its route only what is left of it.
LEMMA MisrouteOf ==
    ASSUME NEW s, NEW t, s # <<>>, t # <<>>,
           NormalizeModelName(Last(s).model, Last(s).base_url) =
               NormalizeModelName(Last(t).model, Last(t).base_url),
           Last(s).prompt_tokens = Last(t).prompt_tokens,
           Last(s).completion_tokens = Last(t).completion_tokens,
           Last(s).messages = Last(t).messages
    PROVE  ModelMisroute(s) = ModelMisroute(t)
BY DEF ModelMisroute

\* Nor does the route to a model.
LEMMA RoutesAgree ==
    ASSUME CallsInv
    PROVE  GatewaySameVerdict
<1> DEFINE own == Last(buffer).model
           called(name) ==
               [buffer EXCEPT ![Len(buffer)].model = name, ![Len(buffer)].base_url = None]
<1> SUFFICES ASSUME buffer # <<>>, Len(own) = 1, own[1] \notin VirtualKeys,
                    NEW v \in Vendors, NEW k \in VirtualKeys
             PROVE  /\ ModelMisroute(called(<<v>> \o own)) = ModelMisroute(called(own))
                    /\ ModelMisroute(called(<<k>> \o own)) = ModelMisroute(called(own))
                    /\ ModelMisroute(called(<<k, v>> \o own)) = ModelMisroute(called(own))
  BY DEF GatewaySameVerdict
<1>1. IsCall(Last(buffer)) /\ IsSeq(buffer) /\ Len(buffer) \in DOMAIN buffer
  BY LastIs DEF CallsInv
<1>2. ASSUME NEW name
      PROVE  /\ called(name) # <<>>
             /\ Last(called(name)).model = name /\ Last(called(name)).base_url = None
             /\ Last(called(name)).prompt_tokens = Last(buffer).prompt_tokens
             /\ Last(called(name)).completion_tokens = Last(buffer).completion_tokens
             /\ Last(called(name)).messages = Last(buffer).messages
  <2> DEFINE c == Last(buffer)
             d == [c EXCEPT !.model = name, !.base_url = None]
             t == called(name)
  <2>1. t = [buffer EXCEPT ![Len(buffer)] = d]
    BY <1>1 DEF Last
  <2>2. t[Len(buffer)] = d /\ IsSeq(t) /\ DOMAIN t = DOMAIN buffer
    BY <1>1, <2>1, ExceptIsSeq
  <2> HIDE DEF t, called
  <2>3. Last(t) = d /\ t # <<>>
    BY <1>1, <2>2, LastReplaced
  <2>4. DOMAIN c = DOMAIN Blank
    BY <1>1 DEF IsCall, IsRequest
  <2>5. /\ d.model = name /\ d.base_url = None /\ d.prompt_tokens = c.prompt_tokens
        /\ d.completion_tokens = c.completion_tokens /\ d.messages = c.messages
    BY <2>4, BlankIs
  <2> HIDE DEF c, d
  <2> QED
    BY <2>3, <2>5 DEF t, c
<1>3. own \in Seq(Range(own))
  BY <1>1 DEF IsCall, IsRequest, IsSeq
<1> HIDE DEF called, own
<1>4. /\ NormalizeModelName(own, None) = own
      /\ NormalizeModelName(<<v>> \o own, None) = own
      /\ NormalizeModelName(<<k>> \o own, None) = own
      /\ NormalizeModelName(<<k, v>> \o own, None) = own
  BY <1>3, RouteToTheSame
<1>5. ASSUME NEW name, NormalizeModelName(name, None) = own
      PROVE  ModelMisroute(called(name)) = ModelMisroute(called(own))
  BY <1>2, <1>4, <1>5, MisrouteOf
<1> QED
  BY <1>4, <1>5

\* Nor do the calls before the last one.
LEMMA OfOneCall ==
    ASSUME CallsInv
    PROVE  LastCallOnly
<1> SUFFICES ASSUME buffer # <<>> PROVE LastCallOnly
  BY DEF LastCallOnly
<1> DEFINE alone == <<Last(buffer)>>
<1>1. Last(alone) = Last(buffer) /\ alone # <<>> /\ Len(alone) = 1
  BY DEF Last
<1>2. (ToolDefinitionBloat(buffer) = None) = (ToolDefinitionBloat(alone) = None)
  <2>1. IsCall(Last(buffer)) /\ Len(buffer) \in Nat
    BY LastIs DEF CallsInv, IsSeq
  <2>2. IsSeq(Last(buffer).tools)
        /\ Range(Last(buffer).tools) \subseteq Nat \cup {Unserialisable}
    BY <2>1 DEF IsCall, IsRequest
  <2>3. Last(buffer).tools \in Seq(Nat \cup {Unserialisable})
    BY <2>2 DEF IsSeq
  <2> HIDE DEF alone
  <2> QED
    <3>1. Last(alone).tools = Last(buffer).tools
      BY <1>1
    <3>2. PICK n \in Nat : n = Len(buffer)
      BY <2>1
    <3>3. ToolDefinitionBloat(buffer) = None <=>
              \/ Last(buffer).tools = <<>>
              \/ /\ ~(SumSeq(Sizes(Last(buffer).tools)) > MaxTotalBytes)
                 /\ Len(Last(buffer).tools) < ToolCountThreshold
                 /\ SumSeq(Sizes(Last(buffer).tools)) < BytesThreshold
      BY <2>3, <3>2, BloatIsSilent
    <3>4. ToolDefinitionBloat(alone) = None <=>
              \/ Last(alone).tools = <<>>
              \/ /\ ~(SumSeq(Sizes(Last(alone).tools)) > MaxTotalBytes)
                 /\ Len(Last(alone).tools) < ToolCountThreshold
                 /\ SumSeq(Sizes(Last(alone).tools)) < BytesThreshold
      BY <1>1, <2>3, BloatIsSilent
    <3> QED
      BY <3>1, <3>3, <3>4
<1> HIDE DEF alone
<1>3. ModelMisroute(buffer) = ModelMisroute(alone)
  BY <1>1, MisrouteOf
<1>4. VisionHighDetailMisroute(buffer) = VisionHighDetailMisroute(alone)
  BY <1>1 DEF VisionHighDetailMisroute
<1>5. VisionCostConcentration(buffer) = VisionCostConcentration(alone)
  BY <1>1 DEF VisionCostConcentration
<1>6. AudioMultichannelDoubling(buffer) = AudioMultichannelDoubling(alone)
  BY <1>1 DEF AudioMultichannelDoubling
<1>7. RepairLoop(buffer) = RepairLoop(alone)
  BY <1>1 DEF RepairLoop
<1>8. alone = <<Last(buffer)>>
  BY DEF alone
<1> QED
  BY <1>2, <1>3, <1>4, <1>5, <1>6, <1>7, <1>8 DEF LastCallOnly

\* Whatever a session calls, the order of its tools, the route to its model and the
\* calls before its last one change no verdict on that one.
THEOREM VerdictsDoNotDrift == SessionSpec => []VerdictsStable
<1>1. CallsInv => VerdictsStable
  BY OrderOfTools, RoutesAgree, OfOneCall DEF VerdictsStable
<1> QED
  BY <1>1, SessionHasCalls, PTL

\* Numbers up to n have a last one.
LEMMA Greatest ==
    ASSUME NEW n \in Nat, NEW S \in SUBSET (0..n), S # {}
    PROVE  \E i \in S : \A j \in S : i >= j
<1> DEFINE T == {n - i : i \in S}
<1>1. T \in SUBSET Nat /\ T # {}
  <2>1. \A i \in S : n - i \in Nat
    OBVIOUS
  <2>2. PICK i \in S : TRUE
    OBVIOUS
  <2>3. n - i \in T
    BY <2>2
  <2> QED
    BY <2>1, <2>3
<1>2. PICK k \in T : \A j \in T : k <= j
  <2> HIDE DEF T
  <2> QED
    BY <1>1, Least
<1>3. PICK i \in S : k = n - i
  BY <1>2
<1>4. ASSUME NEW j \in S PROVE i >= j
  <2>1. n - j \in T
    OBVIOUS
  <2>2. i \in Nat /\ j \in Nat
    <3> HIDE DEF T
    <3> QED
      OBVIOUS
  <2>3. n - i <= n - j
    BY <1>2, <1>3, <2>1
  <2> HIDE DEF T
  <2> QED
    BY <2>2, <2>3
<1> QED
  BY <1>4

LEMMA MaxIs ==
    ASSUME NEW n \in Nat, NEW S \in SUBSET (0..n), S # {}
    PROVE  Max(S) \in S /\ \A j \in S : Max(S) >= j
BY Greatest DEF Max

LEMMA MinIs ==
    ASSUME NEW S \in SUBSET Nat, S # {}
    PROVE  Min(S) \in S /\ \A j \in S : Min(S) <= j
BY Least DEF Min

(***************************************************************************)
(* Sums of sequences that are alike                                        *)
(***************************************************************************)
\* One sequence is 840 times the other one.
Scaled(t, s, n) == \A i \in 1..n : t[i] = 840 * s[i]

LEMMA SumsScaled ==
    ASSUME NEW n \in Nat, NEW s \in [1..n -> Nat], NEW t, Scaled(t, s, n),
           NEW p, IsSums(p, s, n), NEW q, IsSums(q, t, n)
    PROVE  q[n] = 840 * p[n] /\ p[n] \in Nat
<1> DEFINE H == {k \in 0..n : q[k] = 840 * p[k]}
<1>1. n \in 0..n /\ H \in SUBSET Nat /\ \A i \in 0..n : p[i] \in Nat
  BY DEF IsSums
<1>2. 0 \in H
  <2>1. p[0] = 0 /\ q[0] = 0
    BY DEF IsSums
  <2> QED
    BY <2>1
<1>3. \A i \in 1..n : p[i] = p[i - 1] + s[i] /\ q[i] = q[i - 1] + t[i]
  BY DEF IsSums
<1>4. ASSUME NEW k \in 1..n, k - 1 \in H PROVE k \in H
  <2>1. k - 1 \in 0..n /\ k \in 0..n
    OBVIOUS
  <2>2. q[k - 1] = 840 * p[k - 1] /\ t[k] = 840 * s[k]
    BY <1>4 DEF Scaled
  <2>3. PICK x \in Nat : x = p[k - 1]
    BY <1>1, <2>1
  <2>4. PICK y \in Nat : y = s[k]
    OBVIOUS
  <2>5. p[k] = x + y
    BY <1>3, <2>3, <2>4
  <2>6. q[k] = 840 * x + 840 * y
    BY <1>3, <2>2, <2>3, <2>4
  <2> QED
    BY <2>1, <2>5, <2>6
<1>5. 0..n \subseteq H
  <2> HIDE DEF H
  <2> QED
    BY <1>1, <1>2, <1>4, StepByStep
<1> QED
  BY <1>1, <1>5

\* And so are their sums.
LEMMA SumScaled ==
    ASSUME NEW s \in Seq(Nat), NEW t \in Seq(Nat), Len(t) = Len(s),
           Scaled(t, s, Len(s))
    PROVE  SumSeq(t) = 840 * SumSeq(s) /\ SumSeq(s) \in Nat
<1>1. PICK n \in Nat : n = Len(s)
  OBVIOUS
<1>2. s \in [1..n -> Nat] /\ n \in 0..n /\ Scaled(t, s, n)
  BY <1>1
<1>3. IsSums(Sums(s), s, n) /\ IsSums(Sums(t), t, n)
  BY <1>1, SumsAre
<1>4. Sums(t)[n] = 840 * Sums(s)[n] /\ Sums(s)[n] \in Nat
  BY <1>2, <1>3, SumsScaled
<1>5. Sums(s)[n] = SumSeq(s) /\ Sums(t)[n] = SumSeq(t)
  BY <1>1, <1>2 DEF Sums, SumSeq
<1> QED
  BY <1>4, <1>5

\* A sum is at least each of its numbers.
LEMMA SumAtLeast ==
    ASSUME NEW s \in Seq(Nat), NEW k \in 1..Len(s)
    PROVE  SumSeq(s) \in Nat /\ s[k] <= SumSeq(s)
<1>1. PICK n \in Nat : n = Len(s)
  OBVIOUS
<1>2. k \in 1..n /\ k - 1 \in 0..n /\ k \in 0..n /\ n \in 0..n /\ k - 1 \in 0..k
  BY <1>1
<1>3. IsSums(Sums(s), s, n)
  BY <1>1, SumsAre
<1>4. /\ Sums(s)[k] = SumOfFirst(s, k) /\ Sums(s)[k - 1] = SumOfFirst(s, k - 1)
  BY <1>1, <1>2 DEF Sums
<1>5. SumOfFirst(s, k) = SumOfFirst(s, k - 1) + s[k]
  BY <1>2, <1>3, <1>4 DEF IsSums
<1>6. /\ SumOfFirst(s, k) \in Nat /\ SumOfFirst(s, n) \in Nat
      /\ SumOfFirst(s, k) <= SumOfFirst(s, n)
  BY <1>1, <1>2, SumsGrow
<1>7. SumOfFirst(s, k - 1) \in Nat
  BY <1>1, <1>2, SumsGrow
<1>8. s[k] \in Nat
  BY <1>1, <1>2
<1>9. s[k] <= SumOfFirst(s, n)
  BY <1>5, <1>6, <1>7, <1>8
<1> QED
  BY <1>1, <1>6, <1>9 DEF SumSeq

LEMMA SumOfTwo ==
    ASSUME NEW s \in Seq(Nat), Len(s) >= 2
    PROVE  SumOfFirst(s, 2) = s[1] + s[2]
<1>1. PICK n \in Nat : n = Len(s)
  OBVIOUS
<1>2. 0 \in 0..n /\ 1 \in 1..n /\ 2 \in 1..n /\ 1 \in 0..n /\ 2 \in 0..n
  BY <1>1
<1>3. IsSums(Sums(s), s, n)
  BY <1>1, SumsAre
<1>4. Sums(s)[0] = 0 /\ Sums(s)[1] = Sums(s)[1 - 1] + s[1]
      /\ Sums(s)[2] = Sums(s)[2 - 1] + s[2]
  BY <1>2, <1>3 DEF IsSums
<1>5. Sums(s)[2] = SumOfFirst(s, 2)
  BY <1>1, <1>2 DEF Sums
<1>6. s[1] \in Nat /\ s[2] \in Nat
  BY <1>1, <1>2
<1> QED
  BY <1>4, <1>5, <1>6

\* Where every number of one sequence is below T hundredths of the other one's.
Below(s, o, T, n) == \A i \in 1..n : 100 * s[i] + o[i] <= T * o[i]

LEMMA Distributes ==
    ASSUME NEW T \in Nat, NEW x \in Nat, NEW y \in Nat
    PROVE  T * (x + y) = T * x + T * y /\ T * x \in Nat /\ T * y \in Nat
OBVIOUS

LEMMA SumsBelow ==
    ASSUME NEW T \in Nat, NEW n \in Nat, NEW s \in [1..n -> Nat], NEW o \in [1..n -> Nat],
           Below(s, o, T, n), NEW p, IsSums(p, s, n), NEW q, IsSums(q, o, n)
    PROVE  100 * p[n] + q[n] <= T * q[n]
<1> DEFINE H == {k \in 0..n : 100 * p[k] + q[k] <= T * q[k]}
<1>1. n \in 0..n /\ H \in SUBSET Nat /\ \A i \in 0..n : p[i] \in Nat /\ q[i] \in Nat
  BY DEF IsSums
<1>2. 0 \in H
  <2>1. p[0] = 0 /\ q[0] = 0
    BY DEF IsSums
  <2>2. 100 * 0 + 0 <= T * 0
    OBVIOUS
  <2> QED
    BY <2>1, <2>2
<1>3. \A i \in 1..n : p[i] = p[i - 1] + s[i] /\ q[i] = q[i - 1] + o[i]
  BY DEF IsSums
<1>4. ASSUME NEW k \in 1..n, k - 1 \in H PROVE k \in H
  <2>1. k - 1 \in 0..n /\ k \in 0..n
    OBVIOUS
  <2>2. 100 * p[k - 1] + q[k - 1] <= T * q[k - 1] /\ 100 * s[k] + o[k] <= T * o[k]
    BY <1>4 DEF Below
  <2>3. PICK x \in Nat, y \in Nat : x = p[k - 1] /\ y = q[k - 1]
    BY <1>1, <2>1
  <2>4. PICK u \in Nat, w \in Nat : u = s[k] /\ w = o[k]
    OBVIOUS
  <2>5. p[k] = x + u /\ q[k] = y + w
    BY <1>3, <2>3, <2>4
  <2>6. PICK a \in Nat, b \in Nat : a = T * y /\ b = T * w
    BY Distributes
  <2>7. T * (y + w) = a + b
    BY <2>6, Distributes
  <2>8. 100 * x + y <= a /\ 100 * u + w <= b
    BY <2>2, <2>3, <2>4, <2>6
  <2>9. 100 * (x + u) + (y + w) <= T * (y + w)
    BY <2>7, <2>8
  <2> QED
    BY <2>1, <2>5, <2>9
<1>5. 0..n \subseteq H
  <2> HIDE DEF H
  <2> QED
    BY <1>1, <1>2, <1>4, StepByStep
<1> QED
  BY <1>1, <1>5

\* And so are their sums.
LEMMA SumBelow ==
    ASSUME NEW T \in Nat, NEW s \in Seq(Nat), NEW o \in Seq(Nat), Len(o) = Len(s),
           Below(s, o, T, Len(s))
    PROVE  /\ 100 * SumSeq(s) + SumSeq(o) <= T * SumSeq(o)
           /\ SumSeq(s) \in Nat /\ SumSeq(o) \in Nat
<1>1. PICK n \in Nat : n = Len(s)
  OBVIOUS
<1>2. s \in [1..n -> Nat] /\ o \in [1..n -> Nat] /\ n \in 0..n /\ Below(s, o, T, n)
  BY <1>1
<1>3. IsSums(Sums(s), s, n) /\ IsSums(Sums(o), o, n)
  BY <1>1, SumsAre
<1>4. 100 * Sums(s)[n] + Sums(o)[n] <= T * Sums(o)[n]
  BY <1>2, <1>3, SumsBelow
<1>5. Sums(s)[n] \in Nat /\ Sums(o)[n] \in Nat
  BY <1>2, <1>3 DEF IsSums
<1>6. Sums(s)[n] = SumSeq(s) /\ Sums(o)[n] = SumSeq(o)
  BY <1>1, <1>2 DEF Sums, SumSeq
<1> QED
  BY <1>4, <1>5, <1>6

(***************************************************************************)
(* Means over pairs: v has a number for each of c times c                  *)
(***************************************************************************)
Square(c) == (1..c) \X (1..c)
Ones(c) == [p \in Square(c) |-> 1]
RowOf(v, j) == [i \in 1..j - 1 |-> v[<<i, j>>]]
RowsOf(v, c) == [j \in 1..c |-> SumSeq(RowOf(v, j))]
PairSum(v, c) == SumSeq(RowsOf(v, c))

IsRow(s, v, j, c) ==
    /\ s \in Seq(Nat) /\ Len(s) = j - 1
    /\ \A i \in 1..j - 1 : s[i] = v[<<i, j>>] /\ i \in 1..c

LEMMA RowIs ==
    ASSUME NEW c \in Nat, NEW v \in [Square(c) -> Nat], NEW j \in 1..c
    PROVE  IsRow(RowOf(v, j), v, j, c) /\ SumSeq(RowOf(v, j)) \in Nat
<1>1. j - 1 \in Nat /\ \A i \in 1..j - 1 : i \in 1..c
  OBVIOUS
<1>2. \A i \in 1..j - 1 : v[<<i, j>>] \in Nat
  BY <1>1 DEF Square
<1>3. RowOf(v, j) \in Seq(Nat) /\ Len(RowOf(v, j)) = j - 1
  BY <1>1, <1>2 DEF RowOf
<1>4. \A i \in 1..j - 1 : RowOf(v, j)[i] = v[<<i, j>>]
  BY DEF RowOf
<1>5. PICK s \in Seq(Nat) : s = RowOf(v, j)
  BY <1>3
<1>6. SumSeq(s) \in Nat
  <2>1. Len(s) \in 0..Len(s) /\ 0 \in 0..Len(s)
    OBVIOUS
  <2> QED
    BY <2>1, SumsGrow DEF SumSeq
<1>7. IsRow(RowOf(v, j), v, j, c)
  BY <1>1, <1>3, <1>4 DEF IsRow
<1> QED
  BY <1>5, <1>6, <1>7

LEMMA RowsAre ==
    ASSUME NEW c \in Nat, NEW v \in [Square(c) -> Nat]
    PROVE  /\ RowsOf(v, c) \in Seq(Nat) /\ Len(RowsOf(v, c)) = c
           /\ \A j \in 1..c : RowsOf(v, c)[j] = SumSeq(RowOf(v, j))
<1>1. \A j \in 1..c : SumSeq(RowOf(v, j)) \in Nat
  BY RowIs
<1> QED
  BY <1>1 DEF RowsOf

LEMMA OnesAre ==
    ASSUME NEW c \in Nat
    PROVE  Ones(c) \in [Square(c) -> Nat] /\ \A i, j \in 1..c : Ones(c)[<<i, j>>] = 1
BY DEF Ones, Square

\* Two or more have a pair.
LEMMA SomePairs ==
    ASSUME NEW c \in Nat, c >= 2
    PROVE  PairSum(Ones(c), c) \in Nat /\ PairSum(Ones(c), c) # 0
<1>1. PICK o \in [Square(c) -> Nat] : o = Ones(c) /\ \A i, j \in 1..c : o[<<i, j>>] = 1
  BY OnesAre
<1>2. 1 \in 1..c /\ 2 \in 1..c /\ 1 \in 1..2 - 1
  OBVIOUS
<1>3. PICK row \in Seq(Nat) : row = RowOf(o, 2) /\ Len(row) = 1 /\ row[1] = 1
  <2>1. PICK s : s = RowOf(o, 2) /\ IsRow(s, o, 2, c)
    BY <1>2, RowIs
  <2>2. s \in Seq(Nat) /\ Len(s) = 1 /\ s[1] = o[<<1, 2>>]
    BY <1>2, <2>1 DEF IsRow
  <2> QED
    BY <1>1, <1>2, <2>1, <2>2
<1>4. SumSeq(row) \in Nat /\ 1 <= SumSeq(row)
  <2>1. 1 \in 1..Len(row)
    BY <1>3
  <2> QED
    BY <1>3, <2>1, SumAtLeast
<1>5. PICK rows \in Seq(Nat) : rows = RowsOf(o, c) /\ Len(rows) = c /\ rows[2] = SumSeq(row)
  BY <1>2, <1>3, RowsAre
<1>6. SumSeq(rows) \in Nat /\ rows[2] <= SumSeq(rows)
  <2>1. 2 \in 1..Len(rows)
    BY <1>2, <1>5
  <2> QED
    BY <2>1, SumAtLeast
<1>7. SumSeq(rows) # 0
  BY <1>4, <1>5, <1>6
<1> QED
  BY <1>1, <1>5, <1>6, <1>7 DEF PairSum

AllAre(v, x, c) == \A i, j \in 1..c : v[<<i, j>>] = x

\* If all are 840 the sum is 840 for each pair.
LEMMA AllWhole ==
    ASSUME NEW c \in Nat, NEW v \in [Square(c) -> Nat], AllAre(v, 840, c)
    PROVE  PairSum(v, c) = 840 * PairSum(Ones(c), c)
<1>1. PICK o \in [Square(c) -> Nat] : o = Ones(c) /\ \A i, j \in 1..c : o[<<i, j>>] = 1
  BY OnesAre
<1>2. PICK rows \in Seq(Nat) : rows = RowsOf(o, c) /\ Len(rows) = c
         /\ \A j \in 1..c : rows[j] = SumSeq(RowOf(o, j))
  BY RowsAre
<1>3. PICK large \in Seq(Nat) : large = RowsOf(v, c) /\ Len(large) = c
         /\ \A j \in 1..c : large[j] = SumSeq(RowOf(v, j))
  BY RowsAre
<1>4. ASSUME NEW j \in 1..c PROVE large[j] = 840 * rows[j]
  <2>1. PICK s \in Seq(Nat) : s = RowOf(o, j) /\ IsRow(s, o, j, c)
    BY RowIs DEF IsRow
  <2>2. PICK t \in Seq(Nat) : t = RowOf(v, j) /\ IsRow(t, v, j, c)
    BY RowIs DEF IsRow
  <2>3. \A i \in 1..j - 1 : s[i] = 1 /\ t[i] = 840
    <3> SUFFICES ASSUME NEW i \in 1..j - 1 PROVE s[i] = 1 /\ t[i] = 840
      OBVIOUS
    <3>1. i \in 1..c /\ s[i] = o[<<i, j>>] /\ t[i] = v[<<i, j>>]
      BY <2>1, <2>2 DEF IsRow
    <3>2. o[<<i, j>>] = 1
      BY <1>1, <3>1
    <3>3. v[<<i, j>>] = 840
      BY <3>1 DEF AllAre
    <3> QED
      BY <3>1, <3>2, <3>3
  <2>4. Scaled(t, s, Len(s)) /\ Len(t) = Len(s)
    BY <2>1, <2>2, <2>3 DEF Scaled, IsRow
  <2>5. SumSeq(t) = 840 * SumSeq(s)
    BY <2>4, SumScaled
  <2> QED
    BY <1>2, <1>3, <2>1, <2>2, <2>5
<1>5. Scaled(large, rows, Len(rows)) /\ Len(large) = Len(rows)
  BY <1>2, <1>3, <1>4 DEF Scaled
<1>6. SumSeq(large) = 840 * SumSeq(rows)
  BY <1>5, SumScaled
<1> QED
  BY <1>1, <1>2, <1>3, <1>6 DEF PairSum

\* If the mean reaches T hundredths, some pair does.
LEMMA SomePairReaches ==
    ASSUME NEW c \in Nat, c >= 2, NEW v \in [Square(c) -> Nat], NEW T \in Nat,
           ~(100 * PairSum(v, c) < T * PairSum(Ones(c), c))
    PROVE  \E i, j \in 1..c : i < j /\ ~(100 * v[<<i, j>>] < T)
<1> SUFFICES ASSUME \A i, j \in 1..c : i < j => 100 * v[<<i, j>>] < T
             PROVE  FALSE
  OBVIOUS
<1>1. PICK o \in [Square(c) -> Nat] : o = Ones(c) /\ \A i, j \in 1..c : o[<<i, j>>] = 1
  BY OnesAre
<1>2. PICK rows \in Seq(Nat) : rows = RowsOf(o, c) /\ Len(rows) = c
         /\ \A j \in 1..c : rows[j] = SumSeq(RowOf(o, j))
  BY RowsAre
<1>3. PICK sums \in Seq(Nat) : sums = RowsOf(v, c) /\ Len(sums) = c
         /\ \A j \in 1..c : sums[j] = SumSeq(RowOf(v, j))
  BY RowsAre
<1>4. ASSUME NEW j \in 1..c PROVE 100 * sums[j] + rows[j] <= T * rows[j]
  <2>1. PICK s \in Seq(Nat) : s = RowOf(v, j) /\ IsRow(s, v, j, c)
    BY RowIs DEF IsRow
  <2>2. PICK t \in Seq(Nat) : t = RowOf(o, j) /\ IsRow(t, o, j, c)
    BY RowIs DEF IsRow
  <2>3. ASSUME NEW i \in 1..Len(s) PROVE 100 * s[i] + t[i] <= T * t[i]
    <3>1. i \in 1..j - 1 /\ i \in 1..c /\ i < j
      BY <2>1 DEF IsRow
    <3>2. PICK x \in Nat : x = s[i]
      OBVIOUS
    <3>3. 100 * x < T /\ t[i] = 1
      BY <1>1, <2>1, <2>2, <3>1, <3>2 DEF IsRow
    <3>4. 100 * x + 1 <= T * 1
      BY <3>3
    <3> QED
      BY <3>2, <3>3, <3>4
  <2>4. Below(s, t, T, Len(s)) /\ Len(t) = Len(s)
    BY <2>1, <2>2, <2>3 DEF Below, IsRow
  <2>5. 100 * SumSeq(s) + SumSeq(t) <= T * SumSeq(t)
    BY <2>4, SumBelow
  <2> QED
    BY <1>2, <1>3, <2>1, <2>2, <2>5
<1>5. Below(sums, rows, T, Len(sums)) /\ Len(rows) = Len(sums)
  BY <1>2, <1>3, <1>4 DEF Below
<1>6. /\ 100 * SumSeq(sums) + SumSeq(rows) <= T * SumSeq(rows)
      /\ SumSeq(sums) \in Nat /\ SumSeq(rows) \in Nat
  BY <1>5, SumBelow
<1>7. SumSeq(rows) # 0 /\ ~(100 * SumSeq(sums) < T * SumSeq(rows))
  BY <1>1, <1>2, <1>3, SomePairs DEF PairSum
<1>8. PICK a \in Nat, b \in Nat : a = SumSeq(sums) /\ b = SumSeq(rows)
  BY <1>6
<1>9. PICK d \in Nat : d = T * b
  BY Distributes
<1>10. 100 * a + b <= d /\ b # 0 /\ ~(100 * a < d)
  BY <1>6, <1>7, <1>8, <1>9
<1> QED
  BY <1>10

(***************************************************************************)
(* Means of cosines                                                        *)
(***************************************************************************)
IsLikeness(likeness, D) == likeness \in [(SUBSET D) \X D \X D -> 0..Scale]

Cosines(likeness, texts) ==
    [p \in Square(Len(texts)) |->
        Cosine(likeness, Range(texts), texts[p[1]], texts[p[2]])]

LEMMA CosinesAre ==
    ASSUME NEW D, NEW likeness, IsLikeness(likeness, D), NEW texts \in Seq(D)
    PROVE  /\ Cosines(likeness, texts) \in [Square(Len(texts)) -> Nat]
           /\ \A i, j \in 1..Len(texts) :
                 Cosines(likeness, texts)[<<i, j>>] =
                     Cosine(likeness, Range(texts), texts[i], texts[j])
<1>1. Range(texts) \in SUBSET D
  BY SeqIs
<1>2. ASSUME NEW a \in D, NEW b \in D
      PROVE  Cosine(likeness, Range(texts), a, b) \in Nat
  <2>1. PICK corpus \in SUBSET D : corpus = Range(texts)
    BY <1>1
  <2>2. likeness[<<corpus, a, b>>] \in 0..Scale
    <3>1. <<corpus, a, b>> \in (SUBSET D) \X D \X D
      OBVIOUS
    <3>2. likeness \in [(SUBSET D) \X D \X D -> 0..Scale]
      BY DEF IsLikeness
    <3> QED
      BY <3>1, <3>2
  <2>3. likeness[<<corpus, a, b>>] \in Nat /\ Scale \in Nat
    <3>1. Scale \in Nat
      BY DEF Scale
    <3>2. PICK x \in 0..Scale : x = likeness[<<corpus, a, b>>]
      BY <2>2
    <3> QED
      BY <3>1, <3>2
  <2> QED
    BY <2>1, <2>3 DEF Cosine
<1>3. \A i \in 1..Len(texts) : texts[i] \in D
  OBVIOUS
<1>4. \A p \in Square(Len(texts)) : p[1] \in 1..Len(texts) /\ p[2] \in 1..Len(texts)
  BY DEF Square
<1>5. \A p \in Square(Len(texts)) :
          Cosine(likeness, Range(texts), texts[p[1]], texts[p[2]]) \in Nat
  BY <1>2, <1>3, <1>4
<1>6. Cosines(likeness, texts) \in [Square(Len(texts)) -> Nat]
  BY <1>5 DEF Cosines
<1>7. ASSUME NEW i \in 1..Len(texts), NEW j \in 1..Len(texts)
      PROVE  Cosines(likeness, texts)[<<i, j>>] =
                 Cosine(likeness, Range(texts), texts[i], texts[j])
  <2>1. <<i, j>> \in Square(Len(texts)) /\ <<i, j>>[1] = i /\ <<i, j>>[2] = j
    BY DEF Square
  <2> QED
    BY <2>1 DEF Cosines
<1> QED
  BY <1>6, <1>7

LEMMA MeanCosineIs ==
    ASSUME NEW D, NEW likeness, IsLikeness(likeness, D), NEW texts \in Seq(D),
           NEW c \in Nat, c = Len(texts)
    PROVE  /\ MeanCosine(likeness, texts).total = PairSum(Cosines(likeness, texts), c)
           /\ MeanCosine(likeness, texts).pairs = PairSum(Ones(c), c)
<1>1. DOMAIN texts = 1..c
  OBVIOUS
<1>2. PICK v \in [Square(c) -> Nat] : v = Cosines(likeness, texts)
         /\ \A i, j \in 1..c : v[<<i, j>>] = Cosine(likeness, Range(texts), texts[i], texts[j])
  BY CosinesAre
<1>3. PICK o \in [Square(c) -> Nat] : o = Ones(c) /\ \A i, j \in 1..c : o[<<i, j>>] = 1
  BY OnesAre
<1>4. ASSUME NEW j \in 1..c
      PROVE  /\ [i \in 1..j - 1 |-> Cosine(likeness, Range(texts), texts[i], texts[j])]
                    = RowOf(v, j)
             /\ [i \in 1..j - 1 |-> 1] = RowOf(o, j)
  <2>1. \A i \in 1..j - 1 : i \in 1..c
    OBVIOUS
  <2>2. \A i \in 1..j - 1 : v[<<i, j>>] = Cosine(likeness, Range(texts), texts[i], texts[j])
    BY <1>2, <2>1
  <2>3. \A i \in 1..j - 1 : o[<<i, j>>] = 1
    BY <1>3, <2>1
  <2> QED
    BY <2>2, <2>3 DEF RowOf
<1>5. MeanCosine(likeness, texts).total = SumSeq(RowsOf(v, c))
  <2>1. MeanCosine(likeness, texts).total =
            SumSeq([j \in 1..c |->
                SumSeq([i \in 1..j - 1 |->
                    Cosine(likeness, Range(texts), texts[i], texts[j])])])
    BY <1>1 DEF MeanCosine, SumOverPairs
  <2> QED
    BY <1>4, <2>1 DEF RowsOf
<1>6. MeanCosine(likeness, texts).pairs = SumSeq(RowsOf(o, c))
  <2>1. MeanCosine(likeness, texts).pairs =
            SumSeq([j \in 1..c |-> SumSeq([i \in 1..j - 1 |-> 1])])
    BY <1>1 DEF MeanCosine, SumOverPairs
  <2> QED
    BY <1>4, <2>1 DEF RowsOf
<1> QED
  BY <1>2, <1>3, <1>5, <1>6 DEF PairSum

(***************************************************************************)
(* repair_loop                                                             *)
(***************************************************************************)
LEMMA AgentBefore ==
    ASSUME NEW turns, NEW i \in Nat, i # 0, LastAgentBefore(turns, i) # 0
    PROVE  /\ LastAgentBefore(turns, i) \in 1..(i - 1)
           /\ turns[LastAgentBefore(turns, i)].role = "assistant"
<1> DEFINE at == {j \in 1..i - 1 : turns[j].role = "assistant"}
<1>1. LastAgentBefore(turns, i) = IF at # {} THEN Max(at) ELSE 0
  BY DEF LastAgentBefore, SelectLastInSubSeq
<1>2. at # {} /\ LastAgentBefore(turns, i) = Max(at)
  BY <1>1
<1>3. at \in SUBSET (0..(i - 1)) /\ i - 1 \in Nat
  OBVIOUS
<1>4. Max(at) \in at
  <2> HIDE DEF at
  <2> QED
    BY <1>2, <1>3, MaxIs
<1> QED
  BY <1>2, <1>4

LEMMA AgentAfter ==
    ASSUME NEW turns, NEW i \in Nat, i # 0, AgentAtOrAfter(turns, i) # 0,
           NEW n \in Nat, n = Len(turns)
    PROVE  /\ AgentAtOrAfter(turns, i) \in i..n
           /\ turns[AgentAtOrAfter(turns, i)].role = "assistant"
<1> DEFINE at == {j \in i..Len(turns) : turns[j].role = "assistant"}
<1>1. AgentAtOrAfter(turns, i) = IF at # {} THEN Min(at) ELSE 0
  BY DEF AgentAtOrAfter, SelectInSubSeq
<1>2. at # {} /\ AgentAtOrAfter(turns, i) = Min(at)
  BY <1>1
<1>3. at \in SUBSET Nat
  OBVIOUS
<1>4. Min(at) \in at
  <2> HIDE DEF at
  <2> QED
    BY <1>2, <1>3, MinIs
<1> QED
  BY <1>2, <1>4

\* What is compared is what agents said.
LEMMA RegeneratedByAgents ==
    ASSUME NEW turns, IsSeq(turns)
    PROVE  /\ Len(turns) \in Nat
           /\ Corrections(turns) \subseteq 1..Len(turns)
           /\ Regenerations(turns) \subseteq
                 {j \in 1..Len(turns) : turns[j].role = "assistant"}
<1>1. Len(turns) \in Nat /\ DOMAIN turns = 1..Len(turns)
  BY DEF IsSeq
<1>2. Corrections(turns) \subseteq 1..Len(turns)
  BY <1>1 DEF Corrections
<1>3. ASSUME NEW j \in Regenerations(turns)
      PROVE  j \in 1..Len(turns) /\ turns[j].role = "assistant"
  <2>1. PICK i \in Corrections(turns) :
            j \in {LastAgentBefore(turns, i), AgentAtOrAfter(turns, i + 1)} \ {0}
    <3> DEFINE both(i) == {LastAgentBefore(turns, i), AgentAtOrAfter(turns, i + 1)}
    <3>1. j \in UNION {both(i) : i \in Corrections(turns)} /\ j # 0
      BY DEF Regenerations
    <3> HIDE DEF both
    <3>2. PICK i \in Corrections(turns) : j \in both(i)
      BY <3>1
    <3> QED
      BY <3>1, <3>2 DEF both
  <2>2. i \in 1..Len(turns) /\ i \in Nat /\ i # 0 /\ i + 1 \in Nat /\ i + 1 # 0
    BY <1>1, <1>2
  <2>3. CASE j = LastAgentBefore(turns, i)
    <3>1. j \in 1..(i - 1) /\ turns[j].role = "assistant"
      BY <2>1, <2>2, <2>3, AgentBefore
    <3> QED
      BY <1>1, <2>2, <3>1
  <2>4. CASE j = AgentAtOrAfter(turns, i + 1)
    <3>1. j \in (i + 1)..Len(turns) /\ turns[j].role = "assistant"
      BY <1>1, <2>1, <2>2, <2>4, AgentAfter
    <3> QED
      BY <1>1, <2>2, <3>1
  <2> QED
    BY <2>1, <2>3, <2>4
<1> QED
  BY <1>1, <1>2, <1>3

\* What was said at some turns, in order.
LEMMA DraftsAre ==
    ASSUME NEW turns, IsSeq(turns), NEW at \in SUBSET (1..Len(turns)),
           \A j \in at : turns[j].text.draft \in Drafts
    PROVE  /\ Cardinality(at) \in Nat
           /\ DraftsAt(turns, at) \in Seq(Drafts)
           /\ Len(DraftsAt(turns, at)) = Cardinality(at)
           /\ \A k \in 1..Cardinality(at) :
                 /\ Ascending(at)[k] \in at
                 /\ DraftsAt(turns, at)[k] = turns[Ascending(at)[k]].text.draft
           /\ \A k, l \in 1..Cardinality(at) :
                 k < l => Ascending(at)[k] < Ascending(at)[l]
<1>1. turns \in Seq(Range(turns))
  BY DEF IsSeq
<1>2. PICK n \in Nat : n = Cardinality(at)
  BY <1>1, PickedIs
<1>3. /\ \A k \in 1..n : Ascending(at)[k] \in at
      /\ \A k, l \in 1..n : k < l => Ascending(at)[k] < Ascending(at)[l]
  BY <1>1, <1>2, PickedIs
<1>4. Picked(turns, at) = [k \in 1..n |-> turns[Ascending(at)[k]]]
  BY <1>2 DEF Picked
<1>5. DraftsAt(turns, at) = [k \in 1..n |-> turns[Ascending(at)[k]].text.draft]
  BY <1>4 DEF DraftsAt, MapSeq
<1>6. \A k \in 1..n : turns[Ascending(at)[k]].text.draft \in Drafts
  BY <1>3
<1>7. DraftsAt(turns, at) \in Seq(Drafts) /\ Len(DraftsAt(turns, at)) = n
  BY <1>5, <1>6
<1>8. \A k \in 1..n : DraftsAt(turns, at)[k] = turns[Ascending(at)[k]].text.draft
  BY <1>5
<1> QED
  BY <1>2, <1>3, <1>7, <1>8

\* If the texts reach the threshold on average two of them do.
LEMMA SomeAlike ==
    ASSUME NEW turns, IsSeq(turns), NEW at \in SUBSET (1..Len(turns)),
           \A j \in at : turns[j].text.draft \in Drafts, ~(Cardinality(at) < 2),
           ~(100 * Alikeness(turns, at).total
                 < SimilarityThreshold * Scale * Alikeness(turns, at).pairs)
    PROVE  \E i, j \in at : \E corpus \in SUBSET {turns[k].text.draft : k \in at} :
              /\ i < j
              /\ 100 * Cosine(DraftLikeness, corpus, turns[i].text.draft,
                              turns[j].text.draft) >= SimilarityThreshold * Scale
<1> DEFINE A == Ascending(at)
<1>1. PICK c \in Nat : c = Cardinality(at)
  BY DraftsAre
<1>2. PICK texts \in Seq(Drafts) : texts = DraftsAt(turns, at)
  BY DraftsAre
<1>3. /\ Len(texts) = c
      /\ \A k \in 1..c : A[k] \in at /\ texts[k] = turns[A[k]].text.draft
      /\ \A k, l \in 1..c : k < l => A[k] < A[l]
  BY <1>1, <1>2, DraftsAre
<1> HIDE DEF A
<1>4. IsLikeness(DraftLikeness, Drafts)
  BY RequestAssumption DEF IsLikeness
<1>5. PICK v \in [Square(c) -> Nat] : v = Cosines(DraftLikeness, texts)
         /\ \A i, j \in 1..c :
               v[<<i, j>>] = Cosine(DraftLikeness, Range(texts), texts[i], texts[j])
  <2>1. Len(texts) = c
    BY <1>3
  <2>2. /\ Cosines(DraftLikeness, texts) \in [Square(Len(texts)) -> Nat]
        /\ \A i, j \in 1..Len(texts) :
              Cosines(DraftLikeness, texts)[<<i, j>>]
                  = Cosine(DraftLikeness, Range(texts), texts[i], texts[j])
    BY <1>4, CosinesAre
  <2> QED
    BY <2>1, <2>2
<1>6. PICK T \in Nat : T = SimilarityThreshold * Scale
  <2>1. SimilarityThreshold \in 0..100
    BY RequestAssumption
  <2>2. SimilarityThreshold * Scale \in Nat
    BY <2>1 DEF Scale
  <2> QED
    BY <2>2
<1>7. ~(100 * PairSum(v, c) < T * PairSum(Ones(c), c))
  BY <1>2, <1>3, <1>4, <1>5, <1>6, MeanCosineIs DEF Alikeness
<1>8. PICK i \in 1..c, j \in 1..c : i < j /\ ~(100 * v[<<i, j>>] < T)
  <2>1. c >= 2
    BY <1>1
  <2> QED
    BY <1>7, <2>1, SomePairReaches
<1>9. v[<<i, j>>] \in Nat
  BY DEF Square
<1>10. 100 * v[<<i, j>>] >= T
  BY <1>8, <1>9
<1>11. Range(texts) \in SUBSET {turns[k].text.draft : k \in at}
  <2>1. DOMAIN texts = 1..c
    BY <1>3
  <2> QED
    BY <1>3, <2>1 DEF Range
<1>12. PICK a \in at, b \in at : a = A[i] /\ b = A[j] /\ a < b
  BY <1>3, <1>8
<1>13. texts[i] = turns[a].text.draft /\ texts[j] = turns[b].text.draft
  BY <1>3, <1>12
<1>14. 100 * Cosine(DraftLikeness, Range(texts), turns[a].text.draft,
                    turns[b].text.draft) >= SimilarityThreshold * Scale
  BY <1>5, <1>6, <1>10, <1>13
<1> QED
  BY <1>11, <1>12, <1>14

\* A repair loop has corrections and an agent that said much the same twice.
LEMMA RepairsRepeat ==
    ASSUME CallsInv
    PROVE  RepairNeedsRepetition
<1> DEFINE messages == Last(buffer).messages
           turns == LastN(messages, WindowTurns)
           parsed == ParseTurns(turns)
           S == {i \in DOMAIN turns :
                    turns[i].role \in {"user", "assistant"} /\ turns[i].text # None}
           A == Ascending(S)
           said == {i \in DOMAIN turns : turns[i].role = "assistant" /\ turns[i].text # None}
           D == {i \in DOMAIN turns :
                   /\ turns[i].role = "user" /\ turns[i].text # None
                   /\ turns[i].text.corrects
                   /\ \E j \in said : j < i}
           C == Corrections(parsed)
           R == Regenerations(parsed)
           mean == Alikeness(parsed, R)
<1> SUFFICES ASSUME RepairLoop(buffer) # None
             PROVE  /\ Cardinality(D) >= MinCorrections
                    /\ \E i, j \in said :
                       \E corpus \in SUBSET {turns[k].text.draft : k \in said} :
                          /\ i < j
                          /\ 100 * Cosine(DraftLikeness, corpus, turns[i].text.draft,
                                          turns[j].text.draft)
                                >= SimilarityThreshold * Scale
  BY DEF RepairNeedsRepetition
<1>1. /\ buffer # <<>> /\ ~(Cardinality(C) < MinCorrections)
      /\ ~(Cardinality(R) < 2)
      /\ ~(100 * mean.total < SimilarityThreshold * Scale * mean.pairs)
  BY DEF RepairLoop
<1>2. IsSeq(turns) /\ \A m \in Range(turns) : IsMessage(m)
  <2>1. /\ IsSeq(messages) /\ WindowTurns \in Nat
        /\ \A m \in Range(messages) : IsMessage(m)
    BY <1>1, LastIs, RequestAssumption DEF CallsInv, IsCall, IsRequest
  <2> HIDE DEF messages
  <2> QED
    BY <2>1, LastNIs
<1> HIDE DEF messages, turns
<1>3. turns \in Seq(Range(turns)) /\ DOMAIN turns = 1..Len(turns) /\ Len(turns) \in Nat
  BY <1>2 DEF IsSeq
<1>4. parsed = Picked(turns, S) /\ S \in SUBSET (1..Len(turns))
  BY <1>3 DEF ParseTurns, Where
<1> HIDE DEF S, parsed
<1>5. /\ Cardinality(S) \in Nat /\ parsed \in Seq(Range(turns))
      /\ Len(parsed) = Cardinality(S)
      /\ \A k \in 1..Len(parsed) : A[k] \in S /\ parsed[k] = turns[A[k]]
      /\ \A k, l \in 1..Len(parsed) : k < l => A[k] < A[l]
  <2>1. /\ Cardinality(S) \in Nat /\ parsed \in Seq(Range(turns))
        /\ Len(parsed) = Cardinality(S)
    BY <1>3, <1>4, PickedIs
  <2>2. \A k \in 1..Cardinality(S) : A[k] \in S /\ parsed[k] = turns[A[k]]
    BY <1>3, <1>4, PickedIs
  <2>3. \A k, l \in 1..Cardinality(S) : k < l => A[k] < A[l]
    BY <1>3, <1>4, PickedIs
  <2> HIDE DEF A
  <2> QED
    BY <2>1, <2>2, <2>3
<1>6. ASSUME NEW k \in 1..Len(parsed)
      PROVE  /\ A[k] \in 1..Len(turns) /\ turns[A[k]].text # None
             /\ parsed[k].role = "assistant" => A[k] \in said
  BY <1>3, <1>5 DEF S
<1>7. /\ Len(parsed) \in Nat /\ C \subseteq 1..Len(parsed)
      /\ R \subseteq {j \in 1..Len(parsed) : parsed[j].role = "assistant"}
  <2>1. IsSeq(parsed)
    BY <1>5, SeqIs
  <2> QED
    BY <2>1, RegeneratedByAgents
<1> HIDE DEF A, said
<1>8. ASSUME NEW k \in C PROVE A[k] \in D
  <2>1. k \in 1..Len(parsed) /\ k \in Nat /\ k # 0
    BY <1>7
  <2> DEFINE j == LastAgentBefore(parsed, k)
  <2>2. parsed[k].role = "user" /\ parsed[k].text.corrects /\ j # 0
    BY DEF Corrections
  <2>3. j \in 1..(k - 1) /\ parsed[j].role = "assistant"
    BY <2>1, <2>2, AgentBefore
  <2> HIDE DEF j
  <2>4. j \in 1..Len(parsed) /\ j < k
    BY <1>7, <2>1, <2>3
  <2>5. A[j] \in said /\ A[j] < A[k]
    BY <1>5, <1>6, <2>1, <2>3, <2>4
  <2> QED
    BY <1>3, <1>5, <1>6, <2>1, <2>2, <2>5
<1>9. Cardinality(D) >= MinCorrections
  <2> DEFINE f == [k \in C |-> A[k]]
  <2>1. f \in [C -> D]
    BY <1>8
  <2>2. ASSUME NEW k \in C, NEW l \in C, f[k] = f[l] PROVE k = l
    <3>1. k \in 1..Len(parsed) /\ l \in 1..Len(parsed)
      BY <1>7
    <3>2. A[k] = A[l] /\ A[k] \in Nat
      BY <1>3, <1>6, <2>2, <3>1
    <3>3. ~(k < l) /\ ~(l < k)
      BY <1>5, <3>1, <3>2
    <3> QED
      BY <1>7, <3>1, <3>3
  <2>3. f \in Injection(C, D)
    BY <2>1, <2>2 DEF Injection, IsInjective
  <2>4. IsFiniteSet(D)
    <3>1. IsFiniteSet(1..Len(turns)) /\ D \in SUBSET (1..Len(turns))
      BY <1>3, FS_Interval
    <3> QED
      BY <3>1, FS_Subset
  <2> HIDE DEF f, C, D
  <2>5. IsFiniteSet(C) /\ Cardinality(C) <= Cardinality(D)
    BY <2>3, <2>4, FS_Injection
  <2>6. Cardinality(C) \in Nat /\ Cardinality(D) \in Nat /\ MinCorrections \in Nat
    BY <2>4, <2>5, FS_CardinalityType, RequestAssumption
  <2> QED
    BY <1>1, <2>5, <2>6
<1>10. \E i, j \in said : \E corpus \in SUBSET {turns[k].text.draft : k \in said} :
          /\ i < j
          /\ 100 * Cosine(DraftLikeness, corpus, turns[i].text.draft,
                          turns[j].text.draft) >= SimilarityThreshold * Scale
  <2>1. R \in SUBSET (1..Len(parsed)) /\ IsSeq(parsed)
    BY <1>5, <1>7, SeqIs
  <2>2. ASSUME NEW k \in R
        PROVE  A[k] \in said /\ parsed[k] = turns[A[k]] /\ parsed[k].text.draft \in Drafts
    <3>1. k \in 1..Len(parsed) /\ parsed[k].role = "assistant"
      BY <1>7
    <3>2. A[k] \in said /\ A[k] \in 1..Len(turns) /\ parsed[k] = turns[A[k]]
          /\ turns[A[k]].text # None
      BY <1>5, <1>6, <3>1
    <3>3. IsMessage(turns[A[k]])
      BY <1>2, <1>3, <3>2 DEF Range
    <3> QED
      BY <3>1, <3>2, <3>3 DEF IsMessage
  <2>3. PICK k \in R, l \in R : \E corpus \in SUBSET {parsed[m].text.draft : m \in R} :
            /\ k < l
            /\ 100 * Cosine(DraftLikeness, corpus, parsed[k].text.draft,
                            parsed[l].text.draft) >= SimilarityThreshold * Scale
    <3> HIDE DEF R
    <3> QED
      BY <1>1, <2>1, <2>2, SomeAlike
  <2>4. PICK corpus \in SUBSET {parsed[m].text.draft : m \in R} :
            /\ k < l
            /\ 100 * Cosine(DraftLikeness, corpus, parsed[k].text.draft,
                            parsed[l].text.draft) >= SimilarityThreshold * Scale
    BY <2>3
  <2>5. A[k] \in said /\ A[l] \in said /\ A[k] < A[l]
    BY <1>5, <1>7, <2>2, <2>4
  <2>6. corpus \in SUBSET {turns[m].text.draft : m \in said}
    <3> HIDE DEF R
    <3> QED
      BY <2>2
  <2>7. parsed[k] = turns[A[k]] /\ parsed[l] = turns[A[l]]
    BY <2>2
  <2> QED
    BY <2>4, <2>5, <2>6, <2>7
<1> QED
  BY <1>9, <1>10

LEMMA FunctionIs ==
    ASSUME NEW n \in Nat, NEW t, t = [i \in 1..n |-> t[i]]
    PROVE  /\ IsSeq(t) /\ Len(t) = n /\ DOMAIN t = 1..n
           /\ Range(t) = {t[i] : i \in 1..n}
<1> DEFINE X == {t[i] : i \in 1..n}
<1>1. \A i \in 1..n : t[i] \in X
  OBVIOUS
<1> HIDE DEF X
<1>2. t \in Seq(X) /\ Len(t) = n
  BY <1>1
<1>3. IsSeq(t) /\ DOMAIN t = 1..n
  BY <1>2, SeqIs
<1>4. Range(t) = {t[i] : i \in 1..n}
  BY <1>3 DEF Range
<1> QED
  BY <1>2, <1>3, <1>4

\* Lists of lists, the lists given one by one.
LEMMA FlattenedIs ==
    ASSUME NEW n \in Nat, NEW t, t = [i \in 1..n |-> t[i]],
           \A i \in 1..n : IsSeq(t[i])
    PROVE  IsSeq(FlattenSeq(t))
<1> DEFINE X == UNION {Range(t[i]) : i \in 1..n}
<1>1. ASSUME NEW i \in 1..n PROVE t[i] \in Seq(X)
  <2>1. Range(t[i]) \subseteq X /\ t[i] \in Seq(Range(t[i]))
    BY DEF IsSeq
  <2> HIDE DEF X
  <2> QED
    BY <2>1
<1> HIDE DEF X
<1>2. t \in Seq(Seq(X))
  BY <1>1
<1>3. FlattenSeq(t) \in Seq(X)
  BY <1>2, FlattenIs
<1> QED
  BY <1>3, SeqIs

\* The images of a call are a list.
LEMMA ImagesAre ==
    ASSUME NEW c, IsRequest(c)
    PROVE  IsSeq(ExtractImageRecords(c))
<1> DEFINE entry(e) == <<e.inline>> \o e.parts
           listed == MapSeq(c.messages, LAMBDA m : m.blocks)
           blocks == FlattenSeq(listed)
           entries == MapSeq(c.contents, entry)
           images == MapSeq(blocks, LAMBDA b : b.image) \o FlattenSeq(entries)
           S == {i \in DOMAIN images : images[i] # None}
           record(i) == [sha256 |-> ImageHash(i), phash |-> PerceptualHash(i)]
           records == MapSeq(Picked(images, S), record)
<1>1. /\ IsSeq(c.messages) /\ \A m \in Range(c.messages) : IsSeq(m.blocks)
      /\ IsSeq(c.contents) /\ \A e \in Range(c.contents) : IsSeq(e.parts)
  BY DEF IsRequest, IsMessage
<1>2. IsSeq(blocks)
  <2> DEFINE n == Len(c.messages)
  <2>1. n \in Nat /\ DOMAIN c.messages = 1..n
    BY <1>1 DEF IsSeq
  <2>2. listed = [i \in 1..n |-> c.messages[i].blocks]
    BY <2>1 DEF MapSeq
  <2>3. \A i \in 1..n : IsSeq(listed[i])
    BY <1>1, <2>1, <2>2 DEF Range
  <2> HIDE DEF listed, n
  <2>4. listed = [i \in 1..n |-> listed[i]]
    BY <2>2
  <2> QED
    BY <2>1, <2>3, <2>4, FlattenedIs
<1> HIDE DEF blocks
<1>3. IsSeq(MapSeq(blocks, LAMBDA b : b.image))
  <2> DEFINE n == Len(blocks)
             t == MapSeq(blocks, LAMBDA b : b.image)
  <2>1. n \in Nat /\ DOMAIN blocks = 1..n
    BY <1>2 DEF IsSeq
  <2>2. t = [i \in 1..n |-> t[i]]
    BY <2>1 DEF MapSeq
  <2> HIDE DEF t, n
  <2>3. IsSeq(t)
    BY <2>1, <2>2, FunctionIs
  <2> QED
    BY <2>3 DEF t
<1>4. IsSeq(FlattenSeq(entries))
  <2> DEFINE n == Len(c.contents)
  <2>1. n \in Nat /\ DOMAIN c.contents = 1..n
    BY <1>1 DEF IsSeq
  <2>2. entries = [i \in 1..n |-> entry(c.contents[i])]
    BY <2>1 DEF MapSeq
  <2>3. ASSUME NEW i \in 1..n PROVE IsSeq(entries[i])
    <3> DEFINE e == c.contents[i]
               one == <<e.inline>>
    <3>1. IsSeq(e.parts)
      BY <1>1, <2>1 DEF Range
    <3>2. IsSeq(one)
      <4>1. one \in Seq({e.inline})
        OBVIOUS
      <4> QED
        BY <4>1, SeqIs
    <3> HIDE DEF one
    <3>3. IsSeq(one \o e.parts)
      BY <3>1, <3>2, ConcatIs
    <3>4. entries[i] = one \o e.parts
      BY <2>2 DEF one
    <3> QED
      BY <3>3, <3>4
  <2> HIDE DEF entries, n
  <2>4. entries = [i \in 1..n |-> entries[i]]
    BY <2>2
  <2> QED
    BY <2>1, <2>3, <2>4, FlattenedIs
<1> HIDE DEF entries
<1>5. IsSeq(images)
  BY <1>3, <1>4, ConcatIs
<1>6. ExtractImageRecords(c) = records
  BY DEF ExtractImageRecords, Where, blocks, entries
<1> HIDE DEF images
<1>7. PICK kept : kept = Picked(images, S) /\ IsSeq(kept)
  <2>1. images \in Seq(Range(images)) /\ S \in SUBSET (1..Len(images))
    BY <1>5 DEF IsSeq
  <2> HIDE DEF S
  <2>2. Picked(images, S) \in Seq(Range(images))
    BY <2>1, PickedIs
  <2> QED
    BY <2>2, SeqIs
<1>8. IsSeq(records)
  <2> DEFINE n == Len(kept)
  <2>1. n \in Nat /\ DOMAIN kept = 1..n
    BY <1>7 DEF IsSeq
  <2>2. records = [i \in 1..n |-> records[i]]
    BY <1>7, <2>1 DEF MapSeq
  <2> HIDE DEF records, n
  <2> QED
    BY <2>1, <2>2, FunctionIs
<1> QED
  BY <1>6, <1>8

(***************************************************************************)
(* How many of the last calls in a row                                     *)
(***************************************************************************)
LastOf(I) == IF I # {} THEN Max(I) ELSE 0

\* The last of some positions, 0 if there are none.
LEMMA LastOfIs ==
    ASSUME NEW n \in Nat, NEW I \in SUBSET (1..n)
    PROVE  /\ LastOf(I) \in 0..n
           /\ \A i \in LastOf(I) + 1..n : i \notin I
           /\ \A l \in 0..n : (\A i \in l + 1..n : i \notin I) => LastOf(I) <= l
<1>1. CASE I = {}
  <2>1. LastOf(I) = 0
    BY <1>1 DEF LastOf
  <2> QED
    BY <1>1, <2>1
<1>2. CASE I # {}
  <2>1. LastOf(I) \in I /\ \A j \in I : LastOf(I) >= j
    <3>1. I \in SUBSET (0..n)
      OBVIOUS
    <3> QED
      BY <1>2, <3>1, MaxIs DEF LastOf
  <2>2. PICK m \in 1..n : m = LastOf(I)
    BY <2>1
  <2>3. ASSUME NEW i \in m + 1..n PROVE i \notin I
    BY <2>1, <2>2
  <2>4. ASSUME NEW l \in 0..n, \A i \in l + 1..n : i \notin I PROVE m <= l
    <3> SUFFICES ASSUME l < m PROVE FALSE
      OBVIOUS
    <3>1. m \in l + 1..n
      OBVIOUS
    <3> QED
      BY <2>1, <2>2, <2>4, <3>1
  <2> QED
    BY <2>2, <2>3, <2>4
<1> QED
  BY <1>1, <1>2

\* The calls that lack a hash, and those that lack one near it.
Without(perCall, h) ==
    {i \in 1..Len(perCall) : ~\E r \in Range(perCall[i]) : r.sha256 = h}
NotNear(perCall, h) ==
    {i \in 1..Len(perCall) : ~\E r \in Range(perCall[i]) :
        r.phash # None /\ HashDistance(h, r.phash) <= MaxDistance}

Sent(perCall, h) == Len(perCall) - LastOf(Without(perCall, h))
Near(perCall, h) == Len(perCall) - LastOf(NotNear(perCall, h))

\* The exact matches, as the hashes sent in enough of the last calls.
LEMMA ExactAre ==
    ASSUME NEW perCall
    PROVE  ExactMatches(perCall) =
              {ReUpload("exact", h, Sent(perCall, h), 70) :
               h \in {r.sha256 : r \in {x \in Range(Last(perCall)) :
                                          Sent(perCall, x.sha256) >= MinImageCalls}}}
BY DEF ExactMatches, Consecutive, SelectLastInSeq, Sent, Without, LastOf

\* The perceptual match is an image of the last call.
LEMMA PerceptualIs ==
    ASSUME NEW perCall, IsSeq(Last(perCall)),
           PerceptualMatch(perCall) # None
    PROVE  \E r \in Range(Last(perCall)) :
              /\ r.phash # None
              /\ PerceptualMatch(perCall) =
                    ReUpload("perceptual", r.phash, Near(perCall, r.phash), 65)
<1> DEFINE last == Last(perCall)
           all == MapSeq(last, LAMBDA r : r.phash)
           S == {i \in DOMAIN all : all[i] # None}
           hashes == Picked(all, S)
           report(h) == IF Near(perCall, h) < MinImageCalls THEN None
                        ELSE ReUpload("perceptual", h, Near(perCall, h), 65)
           I == {i \in 1..Len(hashes) : report(hashes[i]) # None}
           hit == IF I # {} THEN Min(I) ELSE 0
<1>1. PerceptualMatch(perCall) = IF hit = 0 THEN None ELSE report(hashes[hit])
  BY DEF PerceptualMatch, Consecutive, SelectLastInSeq, FirstReported, SelectInSeq,
         Where, Near, NotNear, LastOf
<1> HIDE DEF report
<1>2. all = [i \in 1..Len(last) |-> last[i].phash] /\ Len(last) \in Nat
  <2>1. DOMAIN last = 1..Len(last) /\ Len(last) \in Nat
    BY DEF IsSeq
  <2> QED
    BY <2>1 DEF MapSeq
<1>3. IsSeq(all) /\ Len(all) = Len(last) /\ DOMAIN all = 1..Len(last)
  <2> HIDE DEF all
  <2>1. all = [i \in 1..Len(last) |-> all[i]]
    BY <1>2
  <2> QED
    BY <1>2, <2>1, FunctionIs
<1> HIDE DEF all
<1>4. /\ Len(hashes) \in Nat
      /\ \A k \in 1..Len(hashes) : \E i \in S : hashes[k] = all[i]
  <2>1. all \in Seq(Range(all)) /\ S \in SUBSET (1..Len(all))
    BY <1>3 DEF IsSeq
  <2> HIDE DEF S
  <2>2. /\ Cardinality(S) \in Nat /\ Len(Picked(all, S)) = Cardinality(S)
        /\ \A k \in 1..Cardinality(S) :
              Ascending(S)[k] \in S /\ Picked(all, S)[k] = all[Ascending(S)[k]]
    BY <2>1, PickedIs
  <2> QED
    BY <2>2
<1> HIDE DEF hashes
<1>5. I # {} /\ hit = Min(I) /\ PerceptualMatch(perCall) = report(hashes[hit])
  BY <1>1
<1>6. hit \in I
  <2>1. I \in SUBSET Nat
    OBVIOUS
  <2> HIDE DEF I
  <2> QED
    BY <1>5, <2>1, MinIs
<1>7. PICK i \in S : hashes[hit] = all[i]
  BY <1>4, <1>6
<1>8. i \in 1..Len(last) /\ all[i] # None /\ all[i] = last[i].phash
  BY <1>2, <1>3
<1>9. last[i] \in Range(last)
  BY <1>8 DEF Range, IsSeq
<1>10. report(all[i]) # None /\ PerceptualMatch(perCall) = report(all[i])
  BY <1>5, <1>6, <1>7
<1>11. report(all[i]) = ReUpload("perceptual", all[i], Near(perCall, all[i]), 65)
  BY <1>10 DEF report
<1> QED
  BY <1>8, <1>9, <1>10, <1>11


\* The calls in the window are some of the calls.
LEMMA RecentIs ==
    ASSUME NEW s, IsSeq(s), NEW window
    PROVE  IsSeq(RecentWithin(s, window)) /\ Range(RecentWithin(s, window)) \subseteq Range(s)
<1> DEFINE S == {i \in DOMAIN s : Elapsed(Last(s), s[i]) <= window}
<1>1. RecentWithin(s, window) = Picked(s, S)
  BY DEF RecentWithin, Where
<1>2. s \in Seq(Range(s)) /\ S \in SUBSET (1..Len(s))
  BY DEF IsSeq
<1> HIDE DEF S
<1>3. Picked(s, S) \in Seq(Range(s))
  BY <1>2, PickedIs
<1> QED
  BY <1>1, <1>3, SeqIs

LEMMA ReUploadIs ==
    ASSUME NEW type, NEW h, NEW n, NEW base
    PROVE  /\ ReUpload(type, h, n, base).type = type
           /\ ReUpload(type, h, n, base).subject = h
           /\ ReUpload(type, h, n, base).count = n
BY DEF ReUpload, Leak

\* Images that are reported were sent, and those sent often enough are reported.
LEMMA UploadsMatch ==
    ASSUME CallsInv
    PROVE  ReUploadTrue
<1> DEFINE inWindow == RecentWithin(buffer, ImageWindow)
           n == Len(inWindow)
           images(i) == Range(ExtractImageRecords(inWindow[i]))
           has(i, h, p) == \E r \in images(i) :
               \/ r.sha256 = h
               \/ p # None /\ r.phash # None /\ HashDistance(p, r.phash) <= MaxDistance
           newest == Range(ExtractImageRecords(Last(inWindow)))
           perCall == MapSeq(inWindow, ExtractImageRecords)
<1>1. IsSeq(inWindow) /\ \A c \in Range(inWindow) : IsCall(c)
  BY RecentIs DEF CallsInv
<1> HIDE DEF inWindow
<1>2. n \in Nat /\ DOMAIN inWindow = 1..n
  BY <1>1 DEF IsSeq
<1>3. /\ perCall = [i \in 1..n |-> ExtractImageRecords(inWindow[i])]
      /\ Len(perCall) = n
  <2>1. perCall = [i \in 1..n |-> ExtractImageRecords(inWindow[i])]
    BY <1>2 DEF MapSeq
  <2> HIDE DEF perCall, n
  <2>2. perCall = [i \in 1..n |-> perCall[i]]
    BY <2>1
  <2> QED
    BY <1>2, <2>1, <2>2, FunctionIs
<1>4. \A i \in 1..n : Range(perCall[i]) = images(i)
  BY <1>3
<1>5. ASSUME n # 0
      PROVE  /\ Last(perCall) = ExtractImageRecords(Last(inWindow))
             /\ IsSeq(Last(perCall)) /\ n \in 1..n
  <2>1. n \in 1..n
    BY <1>2, <1>5
  <2>2. Last(perCall) = ExtractImageRecords(inWindow[n]) /\ inWindow[n] = Last(inWindow)
    BY <1>3, <2>1 DEF Last
  <2>3. IsRequest(inWindow[n])
    BY <1>1, <1>2, <2>1 DEF Range, IsCall
  <2> QED
    BY <2>1, <2>2, <2>3, ImagesAre
<1>6. VisionReUpload(buffer) =
          IF n < MinImageCalls \/ Last(perCall) = <<>> THEN {}
          ELSE IF ExactMatches(perCall) # {} THEN ExactMatches(perCall)
          ELSE {PerceptualMatch(perCall)} \ {None}
  BY DEF VisionReUpload, inWindow
<1>7. MinImageCalls \in Nat /\ MinImageCalls # 0
  BY RequestAssumption
<1> HIDE DEF perCall
<1>8. ASSUME NEW e \in VisionReUpload(buffer), NEW i \in n - e.count + 1..n
      PROVE  \E r \in newest :
                /\ e.subject = IF e.type = "exact" THEN r.sha256 ELSE r.phash
                /\ has(i, r.sha256, r.phash)
  <2>1. n # 0 /\ (e \in ExactMatches(perCall)
                  \/ (e = PerceptualMatch(perCall) /\ e # None))
    <3>1. /\ ~(n < MinImageCalls)
          /\ e \in ExactMatches(perCall) \/ (e = PerceptualMatch(perCall) /\ e # None)
      BY <1>6
    <3>2. n # 0
      BY <1>2, <1>7, <3>1
    <3> QED
      BY <3>1, <3>2
  <2>2. /\ newest = Range(Last(perCall)) /\ IsSeq(Last(perCall))
    BY <1>5, <2>1
  <2> HIDE DEF newest
  <2>3. CASE e \in ExactMatches(perCall)
    <3>1. PICK r \in newest : e = ReUpload("exact", r.sha256, Sent(perCall, r.sha256), 70)
      BY <2>2, <2>3, ExactAre
    <3> DEFINE h == r.sha256
               I == Without(perCall, h)
    <3>2. e.subject = h /\ e.type = "exact" /\ e.count = n - LastOf(I)
      BY <1>3, <3>1, ReUploadIs DEF Sent
    <3>3. I \in SUBSET (1..n)
      BY <1>3 DEF Without
    <3> HIDE DEF I
    <3>4. LastOf(I) \in 0..n /\ \A j \in LastOf(I) + 1..n : j \notin I
      BY <1>2, <3>3, LastOfIs
    <3>5. i \in LastOf(I) + 1..n /\ i \in 1..n
      BY <1>2, <3>2, <3>4
    <3>6. i \notin I /\ i \in 1..n
      BY <3>4, <3>5
    <3>7. \E x \in images(i) : x.sha256 = h
      BY <1>3, <1>4, <3>6 DEF I, Without
    <3> QED
      BY <3>2, <3>7
  <2>4. CASE e = PerceptualMatch(perCall) /\ e # None
    <3>1. PICK r \in newest :
              /\ r.phash # None
              /\ e = ReUpload("perceptual", r.phash, Near(perCall, r.phash), 65)
      BY <2>2, <2>4, PerceptualIs
    <3> DEFINE p == r.phash
               I == NotNear(perCall, p)
    <3>2. e.subject = p /\ e.type # "exact" /\ e.count = n - LastOf(I)
      BY <1>3, <3>1, ReUploadIs DEF Near
    <3>3. I \in SUBSET (1..n)
      BY <1>3 DEF NotNear
    <3> HIDE DEF I
    <3>4. LastOf(I) \in 0..n /\ \A j \in LastOf(I) + 1..n : j \notin I
      BY <1>2, <3>3, LastOfIs
    <3>5. i \in LastOf(I) + 1..n /\ i \in 1..n
      BY <1>2, <3>2, <3>4
    <3>6. i \notin I /\ i \in 1..n
      BY <3>4, <3>5
    <3>7. \E x \in images(i) : x.phash # None /\ HashDistance(p, x.phash) <= MaxDistance
      BY <1>3, <1>4, <3>6 DEF I, NotNear
    <3> QED
      BY <3>1, <3>2, <3>7
  <2> QED
    BY <2>1, <2>3, <2>4
<1>9. ASSUME n >= MinImageCalls,
             NEW r \in newest, \A i \in n - MinImageCalls + 1..n : has(i, r.sha256, None)
      PROVE  VisionReUpload(buffer) # {}
  <2> DEFINE h == r.sha256
             I == Without(perCall, h)
  <2>1. n # 0 /\ ~(n < MinImageCalls)
    BY <1>2, <1>7, <1>9
  <2>2. newest = Range(Last(perCall))
    BY <1>5, <2>1
  <2>3. I \in SUBSET (1..n)
    BY <1>3 DEF Without
  <2>4. ASSUME NEW i \in n - MinImageCalls + 1..n PROVE i \notin I
    <3>1. \E x \in images(i) : x.sha256 = h
      BY <1>9
    <3>2. i \in 1..n
      BY <1>2, <1>7, <1>9
    <3> QED
      BY <1>4, <3>1, <3>2 DEF Without
  <2> HIDE DEF I
  <2>5. n - MinImageCalls \in 0..n
    BY <1>2, <1>7, <1>9
  <2>6. LastOf(I) \in 0..n /\ LastOf(I) <= n - MinImageCalls
    BY <1>2, <2>3, <2>4, <2>5, LastOfIs
  <2>7. n - LastOf(I) >= MinImageCalls
    BY <1>2, <1>7, <2>6
  <2>8. Sent(perCall, r.sha256) >= MinImageCalls
    BY <1>3, <2>7 DEF Sent, I
  <2> HIDE DEF newest
  <2>9. ExactMatches(perCall) # {}
    <3> DEFINE hashes == {x.sha256 : x \in {y \in Range(Last(perCall)) :
                                              Sent(perCall, y.sha256) >= MinImageCalls}}
    <3>1. r.sha256 \in hashes
      BY <2>2, <2>8
    <3>2. ExactMatches(perCall) = {ReUpload("exact", x, Sent(perCall, x), 70) : x \in hashes}
      BY ExactAre
    <3> HIDE DEF hashes
    <3> QED
      BY <3>1, <3>2
  <2>10. Last(perCall) # <<>>
    BY <2>2 DEF Range
  <2> QED
    BY <1>6, <2>1, <2>9, <2>10
<1> QED
  BY <1>8, <1>9 DEF ReUploadTrue, inWindow

\* What is found alike was alike, in any conversation, with any images and for any
\* similarity of texts: the user corrected the agent often enough and two of the
\* agent's answers are as alike as the threshold asks, and an image was in as many
\* of the last calls as the report says.
THEOREM MatchesAreTrue == SessionSpec => []MatchesTrue
<1>1. CallsInv => MatchesTrue
  BY RepairsRepeat, UploadsMatch DEF MatchesTrue
<1> QED
  BY <1>1, SessionHasCalls, PTL

(***************************************************************************)
(* tool_loop                                                               *)
(***************************************************************************)
\* Arguments have finitely many tokens, and some if they have keys.
LEMMA TokensAre ==
    ASSUME NEW args, IsArguments(args)
    PROVE  /\ IsFiniteSet(TokensOf(args)) /\ Bytes(args) \in Nat
           /\ DOMAIN args # {} => TokensOf(args) # {}
<1> DEFINE value(k) == IF IsNumber(args[k]) THEN {<<"number", args[k].number>>}
                       ELSE {<<"word", w>> : w \in args[k].text}
           tokens(k) == {<<"key", k>>} \cup value(k)
           sets == {tokens(k) : k \in DOMAIN args}
<1>1. TokensOf(args) = UNION sets
  BY DEF TokensOf
<1>2. ASSUME NEW k \in DOMAIN args PROVE IsFiniteSet(tokens(k))
  <2>1. IsFiniteSet(value(k))
    <3>1. CASE IsNumber(args[k])
      <4>1. value(k) = {<<"number", args[k].number>>}
        BY <3>1
      <4> QED
        BY <4>1, FS_Singleton, Zenon
    <3>2. CASE ~IsNumber(args[k])
      <4> DEFINE text == args[k].text
                 words == {<<"word", w>> : w \in text}
                 f == [w \in text |-> <<"word", w>>]
      <4>1. IsFiniteSet(text)
        BY <3>2 DEF IsArguments
      <4>2. f \in Surjection(text, words)
        BY DEF Surjection
      <4> HIDE DEF f, words, text
      <4>3. IsFiniteSet(words)
        BY <4>1, <4>2, FS_Surjection
      <4> QED
        BY <3>2, <4>3 DEF words, text
    <3> QED
      BY <3>1, <3>2
  <2>2. IsFiniteSet({<<"key", k>>})
    BY FS_Singleton, Zenon
  <2> HIDE DEF value
  <2> QED
    BY <2>1, <2>2, FS_Union
<1>3. IsFiniteSet(sets)
  <2> DEFINE f == [k \in DOMAIN args |-> tokens(k)]
  <2>1. IsFiniteSet(DOMAIN args)
    BY DEF IsArguments
  <2> HIDE DEF tokens
  <2>2. f \in Surjection(DOMAIN args, sets)
    BY DEF Surjection
  <2> HIDE DEF f, sets
  <2> QED
    BY <2>1, <2>2, FS_Surjection
<1>4. IsFiniteSet(TokensOf(args))
  <2>1. \A T \in sets : IsFiniteSet(T)
    <3> HIDE DEF tokens
    <3> QED
      BY <1>2
  <2> HIDE DEF sets
  <2> QED
    BY <1>1, <1>3, <2>1, FS_UNION
<1>5. Cardinality(TokensOf(args)) \in Nat
  BY <1>4, FS_CardinalityType
<1>6. Bytes(args) \in Nat
  BY <1>5 DEF Bytes
<1>7. ASSUME DOMAIN args # {} PROVE TokensOf(args) # {}
  <2>1. PICK k \in DOMAIN args : TRUE
    BY <1>7
  <2>2. <<"key", k>> \in tokens(k) /\ tokens(k) \in sets
    BY <2>1
  <2> HIDE DEF sets, tokens
  <2> QED
    BY <1>1, <2>2
<1> QED
  BY <1>4, <1>6, <1>7

\* Tokens are wholly like themselves.
LEMMA LikeItself ==
    ASSUME NEW T, IsFiniteSet(T), T # {}
    PROVE  Jaccard(T, T) = 840
<1>1. T \cap T = T /\ T \cup T = T
  OBVIOUS
<1>2. Cardinality(T) \in Nat /\ Cardinality(T) # 0
  BY FS_CardinalityType, FS_EmptySet
<1>3. \A n \in Nat : n # 0 => (n * 840) \div n = 840
  OBVIOUS
<1>4. Jaccard(T, T) = (Cardinality(T) * 840) \div Cardinality(T)
  <2>1. PICK a : a = T \cap T
    OBVIOUS
  <2>2. PICK b : b = T \cup T
    OBVIOUS
  <2>3. a = T /\ b = T
    BY <1>1, <2>1, <2>2
  <2>4. Jaccard(T, T) = (Cardinality(a) * 840) \div Cardinality(b)
    BY <2>1, <2>2 DEF Jaccard, Scale
  <2> QED
    BY <2>3, <2>4
<1> QED
  BY <1>2, <1>3, <1>4

\* A mean similarity of one.
WhollyAlike(mean) == mean.pairs \in Nat \ {0} /\ mean.total = 840 * mean.pairs

\* Sets of tokens that are all the same are wholly alike.
LEMMA SameTokens ==
    ASSUME NEW c \in Nat, c >= 2, NEW T, IsFiniteSet(T), T # {},
           NEW sets, sets = [i \in 1..c |-> T]
    PROVE  WhollyAlike(MeanJaccard(sets))
<1>1. DOMAIN sets = 1..c /\ \A i \in 1..c : sets[i] = T
  OBVIOUS
<1>2. PICK v \in [Square(c) -> Nat] : AllAre(v, 840, c)
  <2> DEFINE w == [p \in Square(c) |-> 840]
  <2>1. w \in [Square(c) -> Nat] /\ AllAre(w, 840, c)
    BY DEF Square, AllAre
  <2> QED
    BY <2>1
<1>3. PICK o \in [Square(c) -> Nat] : o = Ones(c) /\ \A i, j \in 1..c : o[<<i, j>>] = 1
  BY OnesAre
<1>4. ASSUME NEW j \in 1..c
      PROVE  /\ [i \in 1..j - 1 |-> IF sets[i] = {} \/ sets[j] = {} THEN 0 ELSE 1]
                    = RowOf(o, j)
             /\ [i \in 1..j - 1 |-> IF sets[i] = {} \/ sets[j] = {} THEN 0
                                    ELSE Jaccard(sets[i], sets[j])] = RowOf(v, j)
  <2>1. \A i \in 1..j - 1 : i \in 1..c
    OBVIOUS
  <2>2. \A i \in 1..j - 1 : /\ sets[i] # {} /\ sets[j] # {} /\ Jaccard(sets[i], sets[j]) = 840
                            /\ v[<<i, j>>] = 840 /\ o[<<i, j>>] = 1
    BY <1>1, <1>2, <1>3, <2>1, LikeItself DEF AllAre
  <2> QED
    BY <2>2 DEF RowOf
<1>5. MeanJaccard(sets).pairs = PairSum(o, c)
  <2>1. MeanJaccard(sets).pairs =
            SumSeq([j \in 1..c |->
                SumSeq([i \in 1..j - 1 |->
                    IF sets[i] = {} \/ sets[j] = {} THEN 0 ELSE 1])])
    BY <1>1 DEF MeanJaccard, SumOverPairs
  <2> QED
    BY <1>4, <2>1 DEF RowsOf, PairSum
<1>6. MeanJaccard(sets).total = PairSum(v, c)
  <2>1. MeanJaccard(sets).total =
            SumSeq([j \in 1..c |->
                SumSeq([i \in 1..j - 1 |->
                    IF sets[i] = {} \/ sets[j] = {} THEN 0
                    ELSE Jaccard(sets[i], sets[j])])])
    BY <1>1 DEF MeanJaccard, SumOverPairs
  <2> QED
    BY <1>4, <2>1 DEF RowsOf, PairSum
<1>7. PairSum(v, c) = 840 * PairSum(Ones(c), c)
  BY <1>2, AllWhole
<1>8. PairSum(Ones(c), c) \in Nat /\ PairSum(Ones(c), c) # 0
  BY SomePairs
<1> QED
  BY <1>3, <1>5, <1>6, <1>7, <1>8 DEF WhollyAlike

\* And so is one and the same text.
LEMMA SameTexts ==
    ASSUME NEW c \in Nat, c >= 2, NEW D, NEW x \in D, NEW likeness, IsLikeness(likeness, D),
           NEW texts, texts = [i \in 1..c |-> x]
    PROVE  WhollyAlike(MeanCosine(likeness, texts))
<1>1. texts \in Seq(D) /\ Len(texts) = c /\ \A i \in 1..c : texts[i] = x
  OBVIOUS
<1>2. PICK v \in [Square(c) -> Nat] : v = Cosines(likeness, texts)
         /\ \A i, j \in 1..c : v[<<i, j>>] = Cosine(likeness, Range(texts), texts[i], texts[j])
  BY <1>1, CosinesAre
<1>3. AllAre(v, 840, c)
  <2> SUFFICES ASSUME NEW i \in 1..c, NEW j \in 1..c PROVE v[<<i, j>>] = 840
    BY DEF AllAre
  <2>1. v[<<i, j>>] = Cosine(likeness, Range(texts), x, x)
    BY <1>1, <1>2
  <2>2. Cosine(likeness, Range(texts), x, x) = 840
    BY DEF Cosine, Scale
  <2> QED
    BY <2>1, <2>2
<1>4. PairSum(v, c) = 840 * PairSum(Ones(c), c)
  BY <1>3, AllWhole
<1>5. PairSum(Ones(c), c) \in Nat /\ PairSum(Ones(c), c) # 0
  BY SomePairs
<1>6. /\ MeanCosine(likeness, texts).total = PairSum(v, c)
      /\ MeanCosine(likeness, texts).pairs = PairSum(Ones(c), c)
  BY <1>1, <1>2, MeanCosineIs
<1> QED
  BY <1>4, <1>5, <1>6 DEF WhollyAlike

\* Every value of a sequence is seen a first time.
LEMMA FirstSeenHas ==
    ASSUME NEW X, NEW s \in Seq(X)
    PROVE  /\ FirstSeen(s) \in Seq(X)
           /\ \A i \in 1..Len(s) : \E k \in 1..Len(FirstSeen(s)) : FirstSeen(s)[k] = s[i]
           /\ \A k \in 1..Len(FirstSeen(s)) : \E i \in 1..Len(s) : FirstSeen(s)[k] = s[i]
<1> DEFINE F == {i \in DOMAIN s : \A j \in 1..i - 1 : s[j] # s[i]}
<1>1. Len(s) \in Nat /\ DOMAIN s = 1..Len(s) /\ F \in SUBSET (1..Len(s))
  OBVIOUS
<1>2. FirstSeen(s) = Picked(s, F)
  BY DEF FirstSeen
<1>3. ASSUME NEW i \in 1..Len(s) PROVE \E j \in F : s[j] = s[i]
  <2> DEFINE S == {h \in 1..Len(s) : s[h] = s[i]}
  <2>1. S \in SUBSET Nat /\ i \in S
    BY <1>1
  <2>2. PICK j \in S : \A h \in S : j <= h
    <3> HIDE DEF S
    <3> QED
      BY <2>1, Least
  <2>3. ASSUME NEW h \in 1..j - 1 PROVE s[h] # s[j]
    <3>1. h \in 1..Len(s) /\ ~(j <= h) /\ s[j] = s[i]
      BY <1>1, <2>2
    <3> QED
      BY <2>2, <3>1
  <2> QED
    BY <1>1, <2>2, <2>3
<1> HIDE DEF F
<1>4. /\ Picked(s, F) \in Seq(X) /\ Len(Picked(s, F)) = Cardinality(F)
      /\ \A k \in 1..Cardinality(F) :
            Ascending(F)[k] \in F /\ Picked(s, F)[k] = s[Ascending(F)[k]]
      /\ \A i \in F : \E k \in 1..Cardinality(F) : Ascending(F)[k] = i
  BY <1>1, PickedIs
<1>5. ASSUME NEW i \in 1..Len(s) PROVE \E k \in 1..Cardinality(F) : Picked(s, F)[k] = s[i]
  <2>1. PICK j \in F : s[j] = s[i]
    BY <1>3
  <2>2. PICK k \in 1..Cardinality(F) : Ascending(F)[k] = j
    BY <1>4
  <2> QED
    BY <1>4, <2>1, <2>2
<1>6. \A k \in 1..Cardinality(F) : \E i \in 1..Len(s) : Picked(s, F)[k] = s[i]
  BY <1>1, <1>4
<1> QED
  BY <1>2, <1>4, <1>5, <1>6

LEMMA UsesAre ==
    ASSUME NEW t \in ToolUses
    PROVE  t.arguments \in Arguments /\ IsArguments(t.arguments)
BY MenuAssumption DEF ToolUses, IsRequest

\* The tool calls in the window are calls that some menu has.
LEMMA ToolsInWindow ==
    ASSUME CallsInv, NEW window
    PROVE  ToolCalls(RecentWithin(buffer, window)) \in Seq(ToolUses)
<1>1. PICK inWindow : inWindow = RecentWithin(buffer, window)
  OBVIOUS
<1>2. IsSeq(inWindow) /\ Range(inWindow) \subseteq Range(buffer)
  BY <1>1, RecentIs DEF CallsInv
<1>3. \A c \in Range(inWindow) : c.tool_calls \in Seq(ToolUses)
  BY <1>2 DEF CallsInv, IsCall
<1>4. PICK listed : listed = MapSeq(inWindow, LAMBDA c : c.tool_calls)
  OBVIOUS
<1>5. listed \in Seq(Seq(ToolUses))
  <2>1. PICK n \in Nat : n = Len(inWindow)
    BY <1>2 DEF IsSeq
  <2>2. DOMAIN inWindow = 1..n
    BY <1>2, <2>1 DEF IsSeq
  <2>3. listed = [i \in 1..n |-> inWindow[i].tool_calls]
    BY <1>4, <2>2 DEF MapSeq
  <2>4. \A i \in 1..n : inWindow[i].tool_calls \in Seq(ToolUses)
    BY <1>3, <2>2 DEF Range
  <2> QED
    BY <2>3, <2>4
<1>6. FlattenSeq(listed) \in Seq(ToolUses)
  BY <1>5, FlattenIs
<1>7. ToolCalls(inWindow) = FlattenSeq(listed)
  BY <1>4 DEF ToolCalls
<1> QED
  BY <1>1, <1>6, <1>7

\* The calls of one tool.
LEMMA CallsOfIs ==
    ASSUME CallsInv, NEW n, NEW window
    PROVE  LET all == ToolCalls(RecentWithin(buffer, window))
               uses == CallsOf(n, window)
           IN  /\ uses \in Seq(ToolUses)
               /\ \A i \in 1..Len(uses) : uses[i].name = n
               /\ uses # <<>> <=> \E i \in 1..Len(all) : all[i].name = n
<1>1. PICK all \in Seq(ToolUses) : all = ToolCalls(RecentWithin(buffer, window))
  BY ToolsInWindow
<1> DEFINE S == {i \in DOMAIN all : all[i].name = n}
<1>2. CallsOf(n, window) = Picked(all, S)
  BY <1>1 DEF CallsOf, Where
<1>3. S \in SUBSET (1..Len(all)) /\ \A i \in S : all[i].name = n
  OBVIOUS
<1>4. S # {} <=> \E i \in 1..Len(all) : all[i].name = n
  OBVIOUS
<1> HIDE DEF S
<1>5. /\ Picked(all, S) \in Seq(ToolUses)
      /\ Len(Picked(all, S)) = Cardinality(S) /\ Cardinality(S) \in Nat
      /\ \A k \in 1..Cardinality(S) :
            Ascending(S)[k] \in S /\ Picked(all, S)[k] = all[Ascending(S)[k]]
      /\ \A i \in S : \E k \in 1..Cardinality(S) : Ascending(S)[k] = i
  BY <1>3, PickedIs
<1>6. PICK uses \in Seq(ToolUses) : uses = Picked(all, S)
  BY <1>5
<1>7. \A i \in 1..Len(uses) : uses[i].name = n
  <2> SUFFICES ASSUME NEW i \in 1..Len(uses) PROVE uses[i].name = n
    OBVIOUS
  <2>1. i \in 1..Cardinality(S)
    BY <1>5, <1>6
  <2>2. PICK j \in S : uses[i] = all[j]
    BY <1>5, <1>6, <2>1
  <2> QED
    BY <1>3, <2>2
<1>8. uses # <<>> <=> S # {}
  <2>1. uses # <<>> <=> Len(uses) # 0
    OBVIOUS
  <2>2. ASSUME NEW i \in S PROVE Cardinality(S) # 0
    BY <1>5
  <2>3. ASSUME Cardinality(S) # 0 PROVE S # {}
    <3>1. 1 \in 1..Cardinality(S)
      BY <1>5, <2>3
    <3> QED
      BY <1>5, <3>1
  <2> QED
    BY <1>5, <1>6, <2>1, <2>2, <2>3
<1> QED
  BY <1>1, <1>2, <1>4, <1>6, <1>7, <1>8

NamesOf(all) == MapSeq(all, LAMBDA tc : tc.name)
NamesIn(all) == {all[i].name : i \in 1..Len(all)}

\* Every name is a key.
LEMMA NamesAreKeys ==
    ASSUME NEW all \in Seq(ToolUses), NEW keys, keys = FirstSeen(NamesOf(all))
    PROVE  /\ keys \in Seq(NamesIn(all))
           /\ \A n \in NamesIn(all) : \E k \in 1..Len(keys) : keys[k] = n
<1>1. /\ NamesOf(all) \in Seq(NamesIn(all)) /\ Len(NamesOf(all)) = Len(all)
      /\ \A i \in 1..Len(all) : NamesOf(all)[i] = all[i].name
  <2>1. PICK m \in Nat : m = Len(all) /\ DOMAIN all = 1..m
    OBVIOUS
  <2>2. NamesOf(all) = [i \in 1..m |-> all[i].name]
    BY <2>1 DEF NamesOf, MapSeq
  <2>3. \A i \in 1..m : all[i].name \in NamesIn(all)
    BY <2>1 DEF NamesIn
  <2> QED
    BY <2>1, <2>2, <2>3
<1>2. /\ keys \in Seq(NamesIn(all))
      /\ \A i \in 1..Len(NamesOf(all)) : \E k \in 1..Len(keys) : keys[k] = NamesOf(all)[i]
  BY <1>1, FirstSeenHas
<1>3. \A i \in 1..Len(all) : \E k \in 1..Len(keys) : keys[k] = all[i].name
  BY <1>1, <1>2
<1> QED
  BY <1>2, <1>3 DEF NamesIn

\* The keys that R has a report of, and the report of the first one.
Reported(keys, R) == {k \in 1..Len(keys) : R[keys[k]] # None}
FirstReport(keys, R) ==
    IF Reported(keys, R) = {} THEN None ELSE R[keys[Min(Reported(keys, R))]]

\* The first report is one of a tool's, and there is one if any tool has one.
LEMMA FirstReportIs ==
    ASSUME NEW N, NEW keys \in Seq(N), NEW R,
           \A n \in N : \E k \in 1..Len(keys) : keys[k] = n
    PROVE  /\ FirstReport(keys, R) # None =>
                  \E n \in N : R[n] # None /\ FirstReport(keys, R) = R[n]
           /\ (\E n \in N : R[n] # None) => FirstReport(keys, R) # None
<1> DEFINE hits == Reported(keys, R)
<1>1. hits # {} => Min(hits) \in hits
  <2>1. hits \in SUBSET Nat
    BY DEF Reported
  <2> HIDE DEF hits
  <2> QED
    BY <2>1, MinIs
<1>2. \A k \in hits : keys[k] \in N /\ R[keys[k]] # None
  BY DEF Reported
<1>3. ASSUME NEW n \in N, R[n] # None PROVE hits # {}
  <2>1. PICK k \in 1..Len(keys) : keys[k] = n
    OBVIOUS
  <2>2. k \in hits
    BY <1>3, <2>1 DEF Reported
  <2> QED
    BY <2>2
<1>4. FirstReport(keys, R) = IF hits = {} THEN None ELSE R[keys[Min(hits)]]
  BY DEF FirstReport
<1> HIDE DEF hits
<1> QED
  BY <1>1, <1>2, <1>3, <1>4

\* What tool_loop and retrieval_thrash say of one tool.
ToolReport(n) ==
    LET uses == CallsOf(n, LoopWindow)
        mean == MeanSimilarity(LoopMetric, uses)
    IN  IF \/ Len(uses) < MinLoopCalls
           \/ n \in PollingTools
           \/ IsMonotonicPagination(uses)
           \/ Excess(mean, LoopThreshold) < 0
        THEN None
        ELSE Leak("tool_loop", n, Len(uses),
                  SimilarityConfidence(60, 99, mean, LoopThreshold), 0)

ThrashReport(n) ==
    LET uses == CallsOf(n, ThrashWindow)
        mean == MeanSimilarity(ThrashMetric, uses)
    IN  IF \/ ~IsRetrievalTool(n)
           \/ Len(uses) < MinThrashCalls
           \/ Excess(mean, ThrashThreshold) < 0
        THEN None
        ELSE Leak("retrieval_thrash", n, Len(uses),
                  SimilarityConfidence(55, 95, mean, ThrashThreshold), 0)

\* Each reports one of the tools there is something to say about, if any.
LEMMA LoopReport ==
    ASSUME CallsInv
    PROVE  LET names == NamesIn(ToolCalls(RecentWithin(buffer, LoopWindow)))
           IN  /\ ToolLoop(buffer) # None =>
                      \E n \in names : ToolReport(n) # None /\ ToolLoop(buffer) = ToolReport(n)
               /\ (\E n \in names : ToolReport(n) # None) => ToolLoop(buffer) # None
<1>1. PICK all \in Seq(ToolUses) : all = ToolCalls(RecentWithin(buffer, LoopWindow))
  BY ToolsInWindow
<1>2. PICK keys : keys = FirstSeen(NamesOf(all))
  OBVIOUS
<1>3. /\ keys \in Seq(NamesIn(all))
      /\ \A n \in NamesIn(all) : \E k \in 1..Len(keys) : keys[k] = n
  BY <1>2, NamesAreKeys
<1> DEFINE R == [n \in NamesIn(all) |-> ToolReport(n)]
           hits == {k \in 1..Len(keys) : ToolReport(keys[k]) # None}
<1>4. \A k \in 1..Len(keys) : R[keys[k]] = ToolReport(keys[k])
  BY <1>3
<1>5. hits = Reported(keys, R)
  BY <1>4 DEF Reported
<1>6. hits # {} => Min(hits) \in 1..Len(keys) /\ Min(hits) # 0
  <2>1. hits \in SUBSET Nat /\ hits \subseteq 1..Len(keys)
    OBVIOUS
  <2> HIDE DEF hits, R
  <2>2. hits # {} => Min(hits) \in hits
    BY <2>1, MinIs
  <2>3. \A k \in 1..Len(keys) : k # 0
    BY <1>3
  <2> QED
    BY <2>1, <2>2, <2>3
<1>7. ToolLoop(buffer) =
          LET hit == IF hits # {} THEN Min(hits) ELSE 0
          IN  IF hit = 0 THEN None ELSE ToolReport(keys[hit])
  BY <1>1, <1>2 DEF ToolLoop, FirstReported, SelectInSeq, ToolReport, CallsOf, NamesOf
<1> HIDE DEF hits, R
<1>8. ToolLoop(buffer) = FirstReport(keys, R)
  BY <1>4, <1>5, <1>6, <1>7 DEF FirstReport
<1>9. \A n \in NamesIn(all) : R[n] = ToolReport(n)
  BY DEF R
<1>11. PICK names : names = NamesIn(all)
  OBVIOUS
<1>12. names = NamesIn(ToolCalls(RecentWithin(buffer, LoopWindow)))
  BY <1>1, <1>11
<1>10. /\ FirstReport(keys, R) # None =>
             \E n \in NamesIn(all) : R[n] # None /\ FirstReport(keys, R) = R[n]
       /\ (\E n \in NamesIn(all) : R[n] # None) => FirstReport(keys, R) # None
  BY <1>3, FirstReportIs
<1>13. /\ ToolLoop(buffer) # None =>
             \E n \in names : ToolReport(n) # None /\ ToolLoop(buffer) = ToolReport(n)
       /\ (\E n \in names : ToolReport(n) # None) => ToolLoop(buffer) # None
  BY <1>8, <1>9, <1>10, <1>11
<1> QED
  BY <1>12, <1>13

LEMMA ThrashIsReported ==
    ASSUME CallsInv,
           NEW n \in NamesIn(ToolCalls(RecentWithin(buffer, ThrashWindow))),
           ThrashReport(n) # None
    PROVE  RetrievalThrash(buffer) # None
<1>1. PICK all \in Seq(ToolUses) : all = ToolCalls(RecentWithin(buffer, ThrashWindow))
  BY ToolsInWindow
<1>2. PICK keys : keys = FirstSeen(NamesOf(all))
  OBVIOUS
<1>3. /\ keys \in Seq(NamesIn(all))
      /\ \A m \in NamesIn(all) : \E k \in 1..Len(keys) : keys[k] = m
  BY <1>2, NamesAreKeys
<1> DEFINE R == [m \in NamesIn(all) |-> ThrashReport(m)]
           hits == {k \in 1..Len(keys) : ThrashReport(keys[k]) # None}
<1>4. \A k \in 1..Len(keys) : R[keys[k]] = ThrashReport(keys[k])
  BY <1>3
<1>5. hits = Reported(keys, R)
  BY <1>4 DEF Reported
<1>6. hits # {} => Min(hits) \in 1..Len(keys) /\ Min(hits) # 0
  <2>1. hits \in SUBSET Nat /\ hits \subseteq 1..Len(keys)
    OBVIOUS
  <2> HIDE DEF hits, R
  <2>2. hits # {} => Min(hits) \in hits
    BY <2>1, MinIs
  <2>3. \A k \in 1..Len(keys) : k # 0
    BY <1>3
  <2> QED
    BY <2>1, <2>2, <2>3
<1>7. RetrievalThrash(buffer) =
          LET hit == IF hits # {} THEN Min(hits) ELSE 0
          IN  IF hit = 0 THEN None ELSE ThrashReport(keys[hit])
  BY <1>1, <1>2 DEF RetrievalThrash, FirstReported, SelectInSeq, ThrashReport, CallsOf, NamesOf
<1> HIDE DEF hits, R
<1>8. RetrievalThrash(buffer) = FirstReport(keys, R)
  BY <1>4, <1>5, <1>6, <1>7 DEF FirstReport
<1>9. R[n] = ThrashReport(n) /\ n \in NamesIn(all)
  BY <1>1 DEF R
<1>10. (\E m \in NamesIn(all) : R[m] # None) => FirstReport(keys, R) # None
  BY <1>3, FirstReportIs
<1> QED
  BY <1>8, <1>9, <1>10

\* An agent that walks through pages is not reported.
LEMMA PagesLeftAlone ==
    ASSUME CallsInv
    PROVE  PaginationSpared
<1> SUFFICES ASSUME ToolLoop(buffer) # None,
                    NEW n, ToolLoop(buffer).subject = n,
                    NEW keys, keys = DOMAIN CallsOf(n, LoopWindow)[1].arguments,
                    \A i \in DOMAIN CallsOf(n, LoopWindow) :
                        DOMAIN CallsOf(n, LoopWindow)[i].arguments = keys,
                    NEW k \in keys, Advances(CallsOf(n, LoopWindow), k)
             PROVE  FALSE
  BY DEF PaginationSpared
<1>1. PICK name : ToolReport(name) # None /\ ToolLoop(buffer) = ToolReport(name)
  BY LoopReport
<1>2. /\ ~IsMonotonicPagination(CallsOf(name, LoopWindow))
      /\ ToolReport(name).subject = name
  BY <1>1 DEF ToolReport, Leak
<1>3. name = n
  BY <1>1, <1>2
<1>4. PICK uses \in Seq(ToolUses) : uses = CallsOf(n, LoopWindow)
  BY CallsOfIs
<1>5. /\ keys = DOMAIN uses[1].arguments
      /\ \A i \in DOMAIN uses : DOMAIN uses[i].arguments = keys
      /\ Advances(uses, k)
  BY <1>4
<1>6. PICK m \in Nat : m = Len(uses) /\ DOMAIN uses = 1..m
  OBVIOUS
<1>7. m >= 2
  BY <1>5, <1>6 DEF Advances
<1> DEFINE args == MapSeq(uses, LAMBDA c : c.arguments)
<1>8. args = [i \in 1..m |-> uses[i].arguments]
  BY <1>6 DEF MapSeq
<1>9. DOMAIN args = 1..m /\ Len(args) = m /\ \A i \in 1..m : args[i] = uses[i].arguments
  BY <1>8
<1> HIDE DEF args
<1>10. /\ \A i \in 1..m : IsNumber(args[i][k])
       /\ \A i, j \in 1..m : i < j => args[i][k].number < args[j][k].number
       /\ \A i, j \in 1..m : i < j => \A o \in keys \ {k} : args[i][o] = args[j][o]
  <2>1. \A i \in 1..m : IsNumber(uses[i].arguments[k])
    BY <1>5, <1>6 DEF Advances
  <2>2. \A i, j \in 1..m : i < j =>
            uses[i].arguments[k].number < uses[j].arguments[k].number
    BY <1>5, <1>6 DEF Advances
  <2>3. \A i, j \in 1..m : i < j => \A o \in DOMAIN uses[i].arguments \ {k} :
            uses[i].arguments[o] = uses[j].arguments[o]
    BY <1>5, <1>6 DEF Advances
  <2>4. \A i \in 1..m : DOMAIN uses[i].arguments = keys
    BY <1>5, <1>6
  <2>5. \A i, j \in 1..m : i < j => args[i][k].number < args[j][k].number
    BY <1>9, <2>2
  <2>6. \A i, j \in 1..m : i < j => \A o \in keys \ {k} : args[i][o] = args[j][o]
    BY <1>9, <2>3, <2>4
  <2> QED
    BY <1>9, <2>1, <2>5, <2>6
<1>11. \A i \in 1..m - 1 : args[i][k].number < args[i + 1][k].number
  <2> SUFFICES ASSUME NEW i \in 1..m - 1
               PROVE  args[i][k].number < args[i + 1][k].number
    OBVIOUS
  <2>1. i \in 1..m /\ i + 1 \in 1..m /\ i < i + 1
    BY <1>7
  <2> QED
    BY <1>10, <2>1
<1>12. \A o \in keys \ {k}, i \in 1..m : args[i][o] = args[1][o]
  <2> SUFFICES ASSUME NEW o \in keys \ {k}, NEW i \in 1..m, i # 1
               PROVE  args[i][o] = args[1][o]
    OBVIOUS
  <2>1. 1 \in 1..m /\ 1 < i
    BY <1>7
  <2> QED
    BY <1>10, <2>1
<1>13. \A i \in 1..m : DOMAIN args[i] = keys
  BY <1>5, <1>6, <1>9
<1>14. 1 \in 1..m /\ DOMAIN args[1] = keys /\ keys # {}
  BY <1>7, <1>13
<1>15. IsMonotonicPagination(uses)
  <2>1. IsMonotonicPagination(uses) <=>
            /\ Len(uses) >= 2
            /\ DOMAIN args[1] # {}
            /\ \A i \in DOMAIN args : DOMAIN args[i] = DOMAIN args[1]
            /\ \E o \in {p \in DOMAIN args[1] : \A i \in DOMAIN args : IsNumber(args[i][p])} :
                /\ \A i \in 1..Len(args) - 1 : args[i][o].number < args[i + 1][o].number
                /\ \A p \in DOMAIN args[1] \ {o}, i \in DOMAIN args :
                       args[i][p] = args[1][p]
    BY DEF IsMonotonicPagination, args
  <2>2. k \in {p \in keys : \A i \in 1..m : IsNumber(args[i][p])}
    BY <1>10
  <2> QED
    BY <1>6, <1>7, <1>9, <1>11, <1>12, <1>13, <1>14, <2>1, <2>2
<1> QED
  BY <1>2, <1>3, <1>4, <1>15

\* The corpus of calls that are all alike has two of them at least.
LEMMA CorpusOfAlike ==
    ASSUME NEW uses \in Seq(ToolUses), Len(uses) >= 2,
           \A i \in 1..Len(uses) : uses[i] = uses[1],
           2 * Bytes(uses[1].arguments) <= MaxCorpus
    PROVE  \E c \in Nat : /\ c >= 2
                          /\ WithinCorpus(uses) \in Seq(ToolUses)
                          /\ Len(WithinCorpus(uses)) = c
                          /\ \A i \in 1..c : WithinCorpus(uses)[i] = uses[1]
<1>1. PICK m \in Nat : m = Len(uses) /\ DOMAIN uses = 1..m
  OBVIOUS
<1>2. 1 \in 1..m /\ 2 \in 1..m /\ uses[1] \in ToolUses /\ uses[2] = uses[1]
  BY <1>1
<1>3. PICK b \in Nat : b = Bytes(uses[1].arguments)
  BY <1>2, UsesAre, TokensAre
<1> DEFINE sizes == MapSeq(uses, LAMBDA c : Bytes(c.arguments))
           over == {n \in 2..Len(uses) : SumOfFirst(sizes, n) > MaxCorpus}
<1>4. sizes \in Seq(Nat) /\ Len(sizes) = m /\ sizes[1] = b /\ sizes[2] = b
  <2>1. sizes = [i \in 1..m |-> Bytes(uses[i].arguments)]
    BY <1>1 DEF MapSeq
  <2>2. \A i \in 1..m : Bytes(uses[i].arguments) = b
    BY <1>1, <1>3
  <2> HIDE DEF sizes
  <2>3. sizes = [i \in 1..m |-> b]
    BY <2>1, <2>2
  <2> QED
    BY <1>2, <2>3
<1> HIDE DEF sizes
<1>5. SumOfFirst(sizes, 2) = b + b
  <2>1. Len(sizes) >= 2
    BY <1>1, <1>4
  <2> QED
    BY <1>4, <2>1, SumOfTwo
<1>6. 2 \notin over /\ over \in SUBSET (2..m)
  <2>1. b + b <= MaxCorpus /\ MaxCorpus \in Nat
    BY <1>3, ToolAssumption
  <2> QED
    BY <1>1, <1>5, <2>1
<1>7. WithinCorpus(uses) = IF over = {} THEN uses ELSE SubSeq(uses, 1, Min(over) - 1)
  BY DEF WithinCorpus, sizes
<1> HIDE DEF over
<1>8. CASE over = {}
  <2>1. WithinCorpus(uses) = uses
    BY <1>7, <1>8
  <2> QED
    BY <1>1, <2>1
<1>9. CASE over # {}
  <2>1. PICK e \in 2..m : e = Min(over) /\ e # 2
    <3>1. over \in SUBSET Nat
      BY <1>6
    <3>2. Min(over) \in over
      BY <1>9, <3>1, MinIs
    <3> QED
      BY <1>6, <3>2
  <2>2. e - 1 \in Nat /\ e - 1 >= 2 /\ e - 1 <= m
    BY <2>1
  <2>3. WithinCorpus(uses) = SubSeq(uses, 1, e - 1)
    BY <1>7, <1>9, <2>1
  <2>4. /\ SubSeq(uses, 1, e - 1) \in Seq(ToolUses) /\ Len(SubSeq(uses, 1, e - 1)) = e - 1
        /\ \A i \in 1..e - 1 : SubSeq(uses, 1, e - 1)[i] = uses[i]
    BY <1>1, <2>2
  <2>5. \A i \in 1..e - 1 : uses[i] = uses[1]
    BY <1>1, <2>2
  <2> QED
    BY <2>2, <2>3, <2>4, <2>5
<1> QED
  BY <1>8, <1>9

\* Calls that are all alike are wholly similar, by n-grams whatever the arguments
\* are and by tokens if there are any.
LEMMA AlikeAreSimilar ==
    ASSUME NEW uses \in Seq(ToolUses), Len(uses) >= 2,
           \A i \in 1..Len(uses) : uses[i] = uses[1],
           2 * Bytes(uses[1].arguments) <= MaxCorpus,
           NEW metric, metric # "tfidf_charngram" => DOMAIN uses[1].arguments # {}
    PROVE  WhollyAlike(MeanSimilarity(metric, uses))
<1>1. PICK c \in Nat : /\ c >= 2
                       /\ WithinCorpus(uses) \in Seq(ToolUses)
                       /\ Len(WithinCorpus(uses)) = c
                       /\ \A i \in 1..c : WithinCorpus(uses)[i] = uses[1]
  BY CorpusOfAlike
<1>2. PICK corpus \in Seq(ToolUses) : corpus = WithinCorpus(uses)
  BY <1>1
<1>3. Len(corpus) = c /\ DOMAIN corpus = 1..c /\ \A i \in 1..c : corpus[i] = uses[1]
  BY <1>1, <1>2
<1>4. PICK x : x = uses[1].arguments
  OBVIOUS
<1>5. x \in Arguments /\ IsArguments(x)
  <2>1. uses[1] \in ToolUses
    OBVIOUS
  <2> QED
    BY <1>4, <2>1, UsesAre
<1>6. PICK texts : texts = MapSeq(corpus, LAMBDA t : t.arguments)
  OBVIOUS
<1>7. PICK sets : sets = MapSeq(corpus, LAMBDA t : TokensOf(t.arguments))
  OBVIOUS
<1>8. texts = [i \in 1..c |-> x] /\ sets = [i \in 1..c |-> TokensOf(x)]
  <2>1. /\ texts = [i \in 1..c |-> corpus[i].arguments]
        /\ sets = [i \in 1..c |-> TokensOf(corpus[i].arguments)]
    BY <1>3, <1>6, <1>7 DEF MapSeq
  <2>2. \A i \in 1..c : corpus[i].arguments = x
    BY <1>3, <1>4
  <2> QED
    BY <2>1, <2>2
<1>9. PICK mean : mean = IF metric = "tfidf_charngram" THEN MeanCosine(ArgumentLikeness, texts)
                         ELSE MeanJaccard(sets)
  OBVIOUS
<1>10. WhollyAlike(mean)
  <2>1. CASE metric = "tfidf_charngram"
    <3>1. IsLikeness(ArgumentLikeness, Arguments)
      BY ToolAssumption DEF IsLikeness
    <3>2. WhollyAlike(MeanCosine(ArgumentLikeness, texts))
      BY <1>1, <1>5, <1>8, <3>1, SameTexts
    <3> QED
      BY <1>9, <2>1, <3>2
  <2>2. CASE metric # "tfidf_charngram"
    <3>1. IsFiniteSet(TokensOf(x)) /\ TokensOf(x) # {}
      BY <1>4, <1>5, <2>2, TokensAre
    <3>2. WhollyAlike(MeanJaccard(sets))
      BY <1>1, <1>8, <3>1, SameTokens
    <3> QED
      BY <1>9, <2>2, <3>2
  <2> QED
    BY <2>1, <2>2
<1>11. MeanSimilarity(metric, uses) =
           IF Len(corpus) < 2 \/ mean.pairs = 0 THEN [total |-> 0, pairs |-> 1] ELSE mean
  BY <1>2, <1>6, <1>7, <1>9 DEF MeanSimilarity
<1>12. ~(Len(corpus) < 2) /\ mean.pairs # 0
  BY <1>1, <1>3, <1>10 DEF WhollyAlike
<1> QED
  BY <1>10, <1>11, <1>12

\* Such calls are no pagination.
LEMMA AlikeStandStill ==
    ASSUME NEW uses \in Seq(ToolUses), Len(uses) >= 2,
           \A i \in 1..Len(uses) : uses[i] = uses[1]
    PROVE  ~IsMonotonicPagination(uses)
<1>1. PICK m \in Nat : m = Len(uses) /\ DOMAIN uses = 1..m
  OBVIOUS
<1>2. 1 \in 1..m /\ 2 \in 1..m /\ 1 \in 1..m - 1 /\ uses[1] \in ToolUses /\ uses[2] = uses[1]
  BY <1>1
<1> DEFINE args == MapSeq(uses, LAMBDA c : c.arguments)
<1>3. args = [i \in 1..m |-> uses[i].arguments]
  BY <1>1 DEF MapSeq
<1> HIDE DEF args
<1>4. PICK a : a = uses[1].arguments
  OBVIOUS
<1>5. IsArguments(a)
  BY <1>2, <1>4, UsesAre
<1>6. DOMAIN args = 1..m /\ Len(args) = m /\ args[1] = a /\ args[2] = a
  BY <1>2, <1>3, <1>4
<1> SUFFICES ASSUME IsMonotonicPagination(uses) PROVE FALSE
  OBVIOUS
<1>7. PICK k \in DOMAIN args[1] :
         /\ \A i \in DOMAIN args : IsNumber(args[i][k])
         /\ \A i \in 1..Len(args) - 1 : args[i][k].number < args[i + 1][k].number
  BY DEF IsMonotonicPagination, args
<1>8. k \in DOMAIN a /\ IsNumber(a[k])
  BY <1>2, <1>6, <1>7
<1>9. PICK x \in Int : x = a[k].number
  BY <1>5, <1>8 DEF IsArguments
<1>10. args[1][k].number < args[1 + 1][k].number
  BY <1>2, <1>6, <1>7
<1>11. x < x
  BY <1>6, <1>9, <1>10
<1> QED
  BY <1>11

\* What is wholly similar is above every threshold.
LEMMA WhollySimilar ==
    ASSUME NEW threshold \in 0..100, NEW mean, WhollyAlike(mean), NEW base \in Nat,
           NEW cap \in Nat
    PROVE  /\ Excess(mean, threshold) \in Nat
           /\ SimilarityConfidence(base, cap, mean, threshold) \in Int
<1> DEFINE p == mean.pairs
<1>0. p \in Nat /\ p # 0 /\ mean.total = 840 * p
  BY DEF WhollyAlike
<1> HIDE DEF p
<1>1. Excess(mean, threshold) = 100 * (840 * p) - (threshold * 840) * p
  BY <1>0 DEF Excess, Scale, p
<1>2. \A q, r \in Nat : q <= 84000 => 100 * (840 * r) - q * r \in Nat
  OBVIOUS
<1>3. threshold * 840 \in Nat /\ threshold * 840 <= 84000
  OBVIOUS
<1>4. PICK e \in Nat : e = Excess(mean, threshold)
  BY <1>0, <1>1, <1>2, <1>3
<1>5. SimilarityConfidence(base, cap, mean, threshold) =
          SmallerOf(base + (4 * e) \div (840 * p), cap)
  BY <1>4 DEF SimilarityConfidence, Scale, p
<1>6. \A x, y \in Nat : y # 0 => x \div y \in Int
  OBVIOUS
<1>7. 4 * e \in Nat /\ 840 * p \in Nat /\ 840 * p # 0
  BY <1>0
<1>8. PICK d \in Int : d = (4 * e) \div (840 * p)
  BY <1>6, <1>7
<1>9. SmallerOf(base + d, cap) \in Int
  BY DEF SmallerOf
<1> QED
  BY <1>4, <1>5, <1>8, <1>9

\* What is repeated is of a tool in the window, gets nowhere and is wholly alike.
LEMMA RepeatedIs ==
    ASSUME CallsInv, NEW n, NEW window, NEW metric, NEW least \in Nat,
           Repeated(metric, CallsOf(n, window), least)
    PROVE  LET uses == CallsOf(n, window)
           IN  /\ Len(uses) \in Nat /\ ~(Len(uses) < least)
               /\ n \in Subjects /\ n \in NamesIn(ToolCalls(RecentWithin(buffer, window)))
               /\ ~IsMonotonicPagination(uses)
               /\ WhollyAlike(MeanSimilarity(metric, uses))
<1>1. PICK uses \in Seq(ToolUses) : uses = CallsOf(n, window)
  BY CallsOfIs
<1>2. /\ Len(uses) >= LargerOf(least, 2) /\ \A j \in DOMAIN uses : uses[j] = uses[1]
      /\ 2 * Bytes(uses[1].arguments) <= MaxCorpus
      /\ metric # "tfidf_charngram" => DOMAIN uses[1].arguments # {}
  BY <1>1 DEF Repeated
<1>3. PICK m \in Nat : m = Len(uses) /\ DOMAIN uses = 1..m
  OBVIOUS
<1>4. m >= 2 /\ ~(m < least)
  BY <1>2, <1>3 DEF LargerOf
<1>5. uses[1] \in ToolUses /\ uses[1].name = n /\ uses # <<>>
  <2>1. 1 \in 1..m
    BY <1>4
  <2>2. uses[1] \in ToolUses /\ uses # <<>>
    BY <1>3, <2>1
  <2>3. \A i \in 1..Len(uses) : uses[i].name = n
    BY <1>1, CallsOfIs
  <2> QED
    BY <1>3, <2>1, <2>2, <2>3
<1>6. Len(uses) >= 2 /\ \A i \in 1..Len(uses) : uses[i] = uses[1]
  BY <1>2, <1>3, <1>4
<1>7. ~IsMonotonicPagination(uses)
  BY <1>6, AlikeStandStill
<1>8. WhollyAlike(MeanSimilarity(metric, uses))
  BY <1>2, <1>6, AlikeAreSimilar
<1>9. n \in Subjects
  BY <1>5 DEF Subjects
<1>10. n \in NamesIn(ToolCalls(RecentWithin(buffer, window)))
  <2>1. PICK all : all = ToolCalls(RecentWithin(buffer, window))
    OBVIOUS
  <2>2. \E i \in 1..Len(all) : all[i].name = n
    BY <1>1, <1>5, <2>1, CallsOfIs
  <2> QED
    BY <2>1, <2>2 DEF NamesIn
<1> QED
  BY <1>1, <1>3, <1>4, <1>7, <1>8, <1>9, <1>10

\* A tool called again and again with the same arguments is reported, and so is one
\* that retrieves.
LEMMA LoopsReported ==
    ASSUME CallsInv, NEW n, n \notin PollingTools,
           Repeated(LoopMetric, CallsOf(n, LoopWindow), MinLoopCalls)
    PROVE  ToolLoop(buffer) # None
<1>1. PICK uses : uses = CallsOf(n, LoopWindow)
  OBVIOUS
<1>2. PICK mean : mean = MeanSimilarity(LoopMetric, uses)
  OBVIOUS
<1>3. MinLoopCalls \in Nat /\ LoopThreshold \in 0..100
  BY ToolAssumption
<1>4. /\ Len(uses) \in Nat /\ ~(Len(uses) < MinLoopCalls)
      /\ n \in Subjects /\ n \in NamesIn(ToolCalls(RecentWithin(buffer, LoopWindow)))
      /\ ~IsMonotonicPagination(uses) /\ WhollyAlike(mean)
  BY <1>1, <1>2, <1>3, RepeatedIs
<1>5. PICK x \in Int : x = SimilarityConfidence(60, 99, mean, LoopThreshold)
  BY <1>3, <1>4, WhollySimilar
<1>6. ~(Excess(mean, LoopThreshold) < 0)
  <2>1. PICK e \in Nat : e = Excess(mean, LoopThreshold)
    BY <1>3, <1>4, WhollySimilar
  <2> QED
    BY <2>1
<1>7. ToolReport(n) = Leak("tool_loop", n, Len(uses), x, 0)
  BY <1>1, <1>2, <1>4, <1>5, <1>6 DEF ToolReport
<1>8. ToolReport(n) # None
  <2>1. "tool_loop" \in EventTypes /\ 0 \in Int
    BY DEF EventTypes
  <2> QED
    BY <1>4, <1>7, <2>1, ReportIsSome
<1> QED
  BY <1>4, <1>8, LoopReport

LEMMA ThrashesReported ==
    ASSUME CallsInv, NEW n, IsRetrievalTool(n),
           Repeated(ThrashMetric, CallsOf(n, ThrashWindow), MinThrashCalls)
    PROVE  RetrievalThrash(buffer) # None
<1>1. PICK uses : uses = CallsOf(n, ThrashWindow)
  OBVIOUS
<1>2. PICK mean : mean = MeanSimilarity(ThrashMetric, uses)
  OBVIOUS
<1>3. MinThrashCalls \in Nat /\ ThrashThreshold \in 0..100
  BY ToolAssumption
<1>4. /\ Len(uses) \in Nat /\ ~(Len(uses) < MinThrashCalls)
      /\ n \in Subjects /\ n \in NamesIn(ToolCalls(RecentWithin(buffer, ThrashWindow)))
      /\ WhollyAlike(mean)
  BY <1>1, <1>2, <1>3, RepeatedIs
<1>5. PICK x \in Int : x = SimilarityConfidence(55, 95, mean, ThrashThreshold)
  BY <1>3, <1>4, WhollySimilar
<1>6. ~(Excess(mean, ThrashThreshold) < 0)
  <2>1. PICK e \in Nat : e = Excess(mean, ThrashThreshold)
    BY <1>3, <1>4, WhollySimilar
  <2> QED
    BY <2>1
<1>7. ThrashReport(n) = Leak("retrieval_thrash", n, Len(uses), x, 0)
  BY <1>1, <1>2, <1>4, <1>5, <1>6 DEF ThrashReport
<1>8. ThrashReport(n) # None
  <2>1. "retrieval_thrash" \in EventTypes /\ 0 \in Int
    BY DEF EventTypes
  <2> QED
    BY <1>4, <1>7, <2>1, ReportIsSome
<1> QED
  BY <1>4, <1>8, ThrashIsReported

LEMMA RepetitionsReported ==
    ASSUME CallsInv
    PROVE  RepetitionReported
BY LoopsReported, ThrashesReported DEF RepetitionReported

\* ToolLoopRule reports no pagination, and it and RetrievalThrashRule report every
\* repetition, under either metric and for any likeness of n-grams.
THEOREM LoopsAreTrue == SessionSpec => []LoopsTrue
<1>1. CallsInv => LoopsTrue
  BY PagesLeftAlone, RepetitionsReported DEF LoopsTrue
<1> QED
  BY <1>1, SessionHasCalls, PTL

(***************************************************************************)
(* The calls that are counted: what the buffer has of the history          *)
(***************************************************************************)
\* The last n of a sequence, position by position.
LEMMA LastNAt ==
    ASSUME NEW s, IsSeq(s), NEW n \in Nat \ {0}
    PROVE  /\ IsSeq(LastN(s, n)) /\ Len(s) \in Nat
           /\ Len(LastN(s, n)) = SmallerOf(Len(s), n)
           /\ \A p \in 1..Len(LastN(s, n)) :
                 LastN(s, n)[p] = s[Len(s) - Len(LastN(s, n)) + p]
<1> DEFINE X == Range(s)
<1>1. s \in Seq(X) /\ Len(s) \in Nat
  BY DEF IsSeq
<1>2. IsSeq(LastN(s, n))
  BY LastNIs
<1>3. CASE n >= Len(s)
  <2>1. LastN(s, n) = s
    BY <1>3 DEF LastN
  <2>2. SmallerOf(Len(s), n) = Len(s)
    BY <1>1, <1>3 DEF SmallerOf
  <2> HIDE DEF X
  <2>3. \A p \in 1..Len(s) : Len(s) - Len(s) + p = p
    BY <1>1
  <2> QED
    BY <1>1, <1>2, <2>1, <2>2, <2>3
<1>4. CASE ~(n >= Len(s))
  <2> DEFINE m == Len(s) - n + 1
  <2>1. LastN(s, n) = SubSeq(s, m, Len(s))
    BY <1>4 DEF LastN
  <2>2. m \in 1..Len(s) /\ Len(s) - m + 1 = n /\ SmallerOf(Len(s), n) = n
    BY <1>1, <1>4 DEF SmallerOf
  <2> HIDE DEF m, X
  <2>3. /\ Len(SubSeq(s, m, Len(s))) = Len(s) - m + 1
        /\ \A p \in 1..Len(SubSeq(s, m, Len(s))) :
              SubSeq(s, m, Len(s))[p] = s[m + p - 1]
    BY <1>1, <2>2, EndIs
  <2>4. \A p \in 1..n : m + p - 1 = Len(s) - n + p
    BY <1>1 DEF m
  <2> QED
    BY <1>1, <1>2, <2>1, <2>2, <2>3, <2>4
<1> QED
  BY <1>3, <1>4

\* The buffer has the end of the history, as much of it as fits.
BufferInv ==
    /\ CallsInv
    /\ MaxSessionCalls[family] \in Nat /\ Len(history) <= MaxSessionCalls[family]
    /\ \A i \in 1..Len(history) : history[i].timestamp \in Int
    /\ Len(buffer) = SmallerOf(Len(history), BufferSize[family])
    /\ \A p \in 1..Len(buffer) : buffer[p] = history[Len(history) - Len(buffer) + p]

\* A longer sequence has what the shorter one had, and one more.
LEMMA AppendAt ==
    ASSUME NEW s, IsSeq(s), NEW e
    PROVE  /\ IsSeq(Append(s, e)) /\ Len(s) \in Nat /\ Len(Append(s, e)) = Len(s) + 1
           /\ \A i \in 1..Len(s) : Append(s, e)[i] = s[i]
           /\ Append(s, e)[Len(s) + 1] = e
<1> DEFINE X == Range(s) \cup {e}
<1>1. s \in Seq(X) /\ e \in X
  BY DEF IsSeq
<1> HIDE DEF X
<1>2. PICK t \in Seq(X) : t = Append(s, e)
  BY <1>1, AppendProperties
<1>3. /\ Len(t) = Len(s) + 1 /\ Len(s) \in Nat
      /\ \A i \in 1..Len(s) : t[i] = s[i]
      /\ t[Len(s) + 1] = e
  BY <1>1, <1>2
<1>4. IsSeq(t)
  BY <1>2, SeqIs
<1> QED
  BY <1>2, <1>3, <1>4

\* The records before were stamped with a time.
LEMMA StampIsTime ==
    ASSUME BufferInv, NEW gap \in Int
    PROVE  (IF history = <<>> THEN 0 ELSE Last(history).timestamp) + gap \in Int
<1>1. CASE history = <<>>
  BY <1>1
<1>2. CASE history # <<>>
  <2>1. Len(history) \in DOMAIN history /\ history \in Seq(Range(history))
    BY <1>2, LastIs DEF BufferInv, CallsInv, IsSeq
  <2>2. Len(history) \in 1..Len(history)
    BY <2>1
  <2>3. Last(history).timestamp \in Int
    BY <2>2 DEF BufferInv, Last
  <2> QED
    BY <1>2, <2>3
<1> QED
  BY <1>1, <1>2

LEMMA Append1Buffers ==
    ASSUME BufferInv, NEW c, IsCall(c), NEW gap \in Int, Append1(c, gap)
    PROVE  BufferInv'
<1> DEFINE time == (IF history = <<>> THEN 0 ELSE Last(history).timestamp) + gap
<1>1. PICK r : r = [c EXCEPT !.timestamp = time]
  OBVIOUS
<1>2. /\ history' = Append(history, r) /\ family' = family
      /\ buffer' = LastN(Append(buffer, r), BufferSize[family])
      /\ Len(history) < MaxSessionCalls[family]
  BY <1>1 DEF Append1
<1>3. r.timestamp \in Int
  <2>1. "timestamp" \in DOMAIN c
    BY BlankIs DEF IsCall, IsRequest
  <2>2. time \in Int
    BY StampIsTime
  <2> HIDE DEF time
  <2> QED
    BY <1>1, <2>1, <2>2
<1> HIDE DEF time
<1>4. CallsInv'
  BY Append1Keeps DEF BufferInv
<1>5. BufferSize[family] \in Nat \ {0} /\ MaxSessionCalls[family] \in Nat
  BY SessionAssumption DEF BufferInv, CallsInv
<1>6. IsSeq(history) /\ IsSeq(buffer)
  BY DEF BufferInv, CallsInv
<1>7. PICK n \in Nat : n = Len(history)
  BY <1>6, AppendAt
<1>8. PICK size \in Nat \ {0} : size = BufferSize[family]
  BY <1>5
<1>9. PICK b : b = Append(buffer, r)
  OBVIOUS
<1>10. /\ Len(history') = n + 1 /\ history'[n + 1] = r
       /\ \A i \in 1..n : history'[i] = history[i]
  BY <1>2, <1>6, <1>7, AppendAt
<1>11. PICK m \in Nat : m = Len(buffer) /\ m = SmallerOf(n, size) /\ m <= n
  BY <1>7, <1>8 DEF BufferInv, SmallerOf
<1>12. /\ IsSeq(b) /\ Len(b) = m + 1 /\ b[m + 1] = r
       /\ \A p \in 1..m : b[p] = buffer[p]
  <2>1. /\ IsSeq(Append(buffer, r)) /\ Len(Append(buffer, r)) = Len(buffer) + 1
        /\ \A p \in 1..Len(buffer) : Append(buffer, r)[p] = buffer[p]
        /\ Append(buffer, r)[Len(buffer) + 1] = r
    BY <1>6, AppendAt
  <2> QED
    BY <1>9, <1>11, <2>1
<1>a. /\ buffer' = LastN(b, size)
      /\ Len(LastN(b, size)) = SmallerOf(Len(b), size)
      /\ \A p \in 1..Len(LastN(b, size)) :
            LastN(b, size)[p] = b[Len(b) - Len(LastN(b, size)) + p]
  <2>1. buffer' = LastN(b, size)
    BY <1>2, <1>8, <1>9
  <2>2. /\ Len(LastN(b, size)) = SmallerOf(Len(b), size)
        /\ \A p \in 1..Len(LastN(b, size)) :
              LastN(b, size)[p] = b[Len(b) - Len(LastN(b, size)) + p]
    BY <1>12, LastNAt
  <2> QED
    BY <2>1, <2>2
<1>13. \A p \in 1..m + 1 : b[p] = history'[n - m + p]
  <2>1. ASSUME NEW p \in 1..m PROVE b[p] = history'[n - m + p]
    <3>1. b[p] = history[n - m + p]
      BY <1>7, <1>11, <1>12 DEF BufferInv
    <3>2. n - m + p \in 1..n
      BY <1>11
    <3> QED
      BY <1>10, <3>1, <3>2
  <2>3. \A p \in 1..m + 1 : p \in 1..m \/ p = m + 1
    OBVIOUS
  <2> SUFFICES ASSUME NEW p \in 1..m + 1 PROVE b[p] = history'[n - m + p]
    OBVIOUS
  <2>4. CASE p \in 1..m
    BY <2>1, <2>4
  <2>5. CASE p = m + 1
    <3>1. n - m + p = n + 1 /\ b[p] = r
      BY <1>12, <2>5
    <3> QED
      BY <1>10, <3>1
  <2> QED
    BY <2>3, <2>4, <2>5
<1>14. PICK l \in Nat : l = Len(buffer') /\ l = SmallerOf(m + 1, size)
  <2>1. Len(buffer') = SmallerOf(m + 1, size)
    BY <1>12, <1>a
  <2>2. SmallerOf(m + 1, size) \in Nat
    BY DEF SmallerOf
  <2> QED
    BY <2>1, <2>2
<1>15. \A p \in 1..l : buffer'[p] = b[m + 1 - l + p]
  <2>1. PICK e : e = LastN(b, size)
    OBVIOUS
  <2>2. buffer' = e /\ Len(e) = l
    BY <1>14, <1>a, <2>1
  <2>3. \A p \in 1..Len(e) : e[p] = b[Len(b) - Len(e) + p]
    BY <1>a, <2>1
  <2>4. \A p \in 1..l : e[p] = b[m + 1 - l + p]
    BY <1>12, <2>2, <2>3
  <2> QED
    BY <2>2, <2>4
<1>16. \A p \in 1..l : buffer'[p] = history'[n + 1 - l + p]
  <2>1. ASSUME NEW p \in 1..l PROVE buffer'[p] = history'[n + 1 - l + p]
    <3>1. m + 1 - l + p \in 1..m + 1
      BY <1>14 DEF SmallerOf
    <3>2. n - m + (m + 1 - l + p) = n + 1 - l + p
      OBVIOUS
    <3> QED
      BY <1>13, <1>15, <3>1, <3>2
  <2> QED
    BY <2>1
<1>17. l = SmallerOf(n + 1, size)
  BY <1>11, <1>14 DEF SmallerOf
<1>18. \A i \in 1..n + 1 : history'[i].timestamp \in Int
  <2>1. \A i \in 1..n + 1 : i \in 1..n \/ i = n + 1
    OBVIOUS
  <2>2. \A i \in 1..n : history[i].timestamp \in Int
    BY <1>7 DEF BufferInv
  <2> QED
    BY <1>3, <1>10, <2>1, <2>2
<1>19. n < MaxSessionCalls[family] => n + 1 <= MaxSessionCalls[family]
  BY <1>5
<1>20. MaxSessionCalls[family'] \in Nat /\ Len(history') <= MaxSessionCalls[family']
  BY <1>2, <1>5, <1>7, <1>10, <1>19
<1>21. \A i \in 1..Len(history') : history'[i].timestamp \in Int
  BY <1>10, <1>18
<1>22. Len(buffer') = SmallerOf(Len(history'), BufferSize[family'])
  BY <1>2, <1>8, <1>10, <1>14, <1>17
<1>23. \A p \in 1..Len(buffer') : buffer'[p] = history'[Len(history') - Len(buffer') + p]
  BY <1>10, <1>14, <1>16
<1> QED
  BY <1>4, <1>20, <1>21, <1>22, <1>23 DEF BufferInv

\* The conversation so far is a list of messages.
LEMMA BeforeIs ==
    ASSUME CallsInv, NEW before,
           before = IF history = <<>> THEN <<>> ELSE Last(history).messages
    PROVE  IsSeq(before) /\ \A m \in Range(before) : IsMessage(m)
<1>1. CASE history = <<>>
  BY <1>1 DEF IsSeq, Range
<1>2. CASE history # <<>>
  <2>1. IsCall(Last(history))
    BY <1>2, LastIs DEF CallsInv
  <2> QED
    BY <1>2, <2>1 DEF IsCall, IsRequest
<1> QED
  BY <1>1, <1>2

LEMMA BuffersEnd == SessionSpec => []BufferInv
<1>1. SessionInit => BufferInv
  <2> SUFFICES ASSUME SessionInit PROVE BufferInv
    OBVIOUS
  <2>1. IsSeq(<<>>) /\ Range(<<>>) = {} /\ Len(<<>>) = 0
    BY DEF IsSeq, Range
  <2>2. CallsInv
    BY <2>1 DEF SessionInit, CallsInv
  <2>3. BufferSize[family] \in Nat \ {0} /\ MaxSessionCalls[family] \in Nat
    BY SessionAssumption DEF SessionInit
  <2>4. SmallerOf(0, BufferSize[family]) = 0
    BY <2>3 DEF SmallerOf
  <2> QED
    BY <2>1, <2>2, <2>3, <2>4 DEF SessionInit, BufferInv
<1>2. BufferInv /\ [SessionNext]_sessionVars => BufferInv'
  <2> SUFFICES ASSUME BufferInv, [SessionNext]_sessionVars PROVE BufferInv'
    OBVIOUS
  <2>0. CallsInv /\ family \in Families
    BY DEF BufferInv, CallsInv
  <2>1. ASSUME NEW c \in Menu[family], NEW gap \in Gaps[family], Call(c, gap)
        PROVE  BufferInv'
    <3>1. IsCall(c) /\ gap \in Int
      BY <2>0, MenuIs, SessionAssumption
    <3> QED
      BY <2>1, <3>1, Append1Buffers DEF Call
  <2>2. ASSUME NEW c \in Menu[family], NEW gap \in Gaps[family], Converse(c, gap)
        PROVE  BufferInv'
    <3>1. IsCall(c) /\ gap \in Int
      BY <2>0, MenuIs, SessionAssumption
    <3>2. PICK before : before = IF history = <<>> THEN <<>> ELSE Last(history).messages
      OBVIOUS
    <3>3. IsSeq(before) /\ \A m \in Range(before) : IsMessage(m)
      BY <2>0, <3>2, BeforeIs
    <3>4. PICK d : d = [c EXCEPT !.messages = before \o @] /\ IsCall(d)
      BY <3>1, <3>3, ConversationIs
    <3>5. Append1(d, gap)
      BY <2>2, <3>2, <3>4 DEF Converse
    <3> QED
      BY <3>1, <3>4, <3>5, Append1Buffers
  <2>3. CASE UNCHANGED sessionVars
    BY <2>3 DEF BufferInv, CallsInv, sessionVars
  <2> QED
    BY <2>1, <2>2, <2>3 DEF SessionNext
<1> QED
  BY <1>1, <1>2, PTL DEF SessionSpec

(***************************************************************************)
(* Selections of a sequence, and where what they have comes from           *)
(***************************************************************************)
\* t has what s has at the positions in at, in their order; pos says where.
Placed(t, s, at, pos) ==
    /\ pos \in [1..Len(t) -> at]
    /\ \A i \in at : \E k \in 1..Len(t) : pos[k] = i
    /\ \A k, l \in 1..Len(t) : k < l => pos[k] < pos[l]
    /\ \A k \in 1..Len(t) : t[k] = s[pos[k]]

\* There are as many of them as there are positions.
LEMMA PlacedCounts ==
    ASSUME NEW n \in Nat, NEW t, n = Len(t), NEW s, NEW at \in SUBSET Nat, NEW pos,
           Placed(t, s, at, pos)
    PROVE  IsFiniteSet(at) /\ Cardinality(at) = n
<1>1. /\ pos \in [1..n -> at]
      /\ \A i \in at : \E k \in 1..n : pos[k] = i
      /\ \A k, l \in 1..n : k < l => pos[k] < pos[l]
  BY DEF Placed
<1>2. ASSUME NEW k \in 1..n, NEW l \in 1..n, pos[k] = pos[l] PROVE k = l
  <2>1. pos[k] \in at
    BY <1>1
  <2>2. PICK i \in Nat : i = pos[k] /\ i = pos[l]
    BY <1>2, <2>1
  <2>3. ~(pos[k] < pos[l]) /\ ~(pos[l] < pos[k])
    BY <2>2
  <2>4. ~(k < l) /\ ~(l < k)
    BY <1>1, <2>3
  <2> QED
    BY <2>4
<1>3. pos \in Bijection(1..n, at)
  BY <1>1, <1>2 DEF Bijection, Injection, IsInjective, Surjection
<1>4. IsFiniteSet(1..n) /\ Cardinality(1..n) = n
  <2>1. 1 \in Int /\ n \in Int
    OBVIOUS
  <2>2. IsFiniteSet(1..n) /\ Cardinality(1..n) = IF 1 > n THEN 0 ELSE n - 1 + 1
    BY <2>1, FS_Interval
  <2> QED
    BY <2>2
<1>5. ExistsBijection(1..n, at)
  BY <1>3 DEF ExistsBijection
<1> QED
  BY <1>4, <1>5, FS_Bijection

\* T are the places where the selection has what is at some of the positions.
Selects(T, some, pos, n) == \A k \in 1..n : k \in T <=> pos[k] \in some

\* What is picked of a selection is a selection.
LEMMA PlacedPicked ==
    ASSUME NEW X, NEW t \in Seq(X), NEW s, NEW at \in SUBSET Nat, NEW pos,
           Placed(t, s, at, pos), NEW T \in SUBSET (1..Len(t)), NEW some \in SUBSET at,
           Selects(T, some, pos, Len(t))
    PROVE  /\ Picked(t, T) \in Seq(X)
           /\ \E there : Placed(Picked(t, T), s, some, there)
<1> DEFINE m == Cardinality(T)
           u == Picked(t, T)
           there == [j \in 1..m |-> pos[Ascending(T)[j]]]
<1>1. /\ m \in Nat /\ u \in Seq(X) /\ Len(u) = m
      /\ \A j \in 1..m : Ascending(T)[j] \in T /\ u[j] = t[Ascending(T)[j]]
      /\ \A k \in T : \E j \in 1..m : Ascending(T)[j] = k
      /\ \A j, l \in 1..m : j < l => Ascending(T)[j] < Ascending(T)[l]
  BY PickedIs
<1> HIDE DEF m, u
<1>2. /\ pos \in [1..Len(t) -> at]
      /\ \A i \in at : \E k \in 1..Len(t) : pos[k] = i
      /\ \A k, l \in 1..Len(t) : k < l => pos[k] < pos[l]
      /\ \A k \in 1..Len(t) : t[k] = s[pos[k]]
      /\ \A k \in 1..Len(t) : k \in T <=> pos[k] \in some
  BY DEF Placed, Selects
<1>3. ASSUME NEW j \in 1..m
      PROVE  Ascending(T)[j] \in 1..Len(t) /\ there[j] \in some /\ u[j] = s[there[j]]
  <2>1. PICK k \in 1..Len(t) : k = Ascending(T)[j] /\ k \in T
    BY <1>1
  <2>2. there[j] = pos[k]
    BY <2>1
  <2>3. u[j] = t[k]
    BY <1>1, <2>1
  <2>4. pos[k] \in some /\ t[k] = s[pos[k]]
    BY <1>2, <2>1
  <2> HIDE DEF there
  <2>5. there[j] \in some
    BY <2>2, <2>4
  <2>6. u[j] = s[there[j]]
    BY <2>2, <2>3, <2>4
  <2> QED
    BY <2>1, <2>5, <2>6
<1>4. there \in [1..m -> some]
  BY <1>3
<1>5. ASSUME NEW i \in some PROVE \E j \in 1..m : there[j] = i
  <2>1. PICK k \in 1..Len(t) : pos[k] = i
    BY <1>2
  <2>a. k \in T
    BY <1>2, <2>1
  <2>2. PICK j \in 1..m : Ascending(T)[j] = k
    BY <1>1, <2>a
  <2> QED
    BY <2>1, <2>2
<1>6. ASSUME NEW j \in 1..m, NEW l \in 1..m, j < l PROVE there[j] < there[l]
  <2>1. Ascending(T)[j] < Ascending(T)[l]
    BY <1>1, <1>6
  <2> QED
    BY <1>2, <1>3, <2>1
<1>7. Placed(u, s, some, there)
  <2> HIDE DEF there
  <2> QED
    BY <1>1, <1>3, <1>4, <1>5, <1>6 DEF Placed
<1> QED
  BY <1>1, <1>7 DEF u

\* Every sequence is a selection of itself.
LEMMA PlacedItself ==
    ASSUME NEW X, NEW t \in Seq(X)
    PROVE  Placed(t, t, 1..Len(t), [k \in 1..Len(t) |-> k])
BY DEF Placed

(***************************************************************************)
(* The groups of a selection                                               *)
(***************************************************************************)
FirstHit(keys, R) ==
    LET hits == {k \in 1..Len(keys) : R[keys[k]] # None}
    IN  IF hits = {} THEN None ELSE R[keys[Min(hits)]]

\* Of the keys there is something to say about, the one that came first is
\* reported.
LEMMA FirstHitIs ==
    ASSUME NEW K, NEW ks \in Seq(K), NEW R
    PROVE  LET hits == {i \in 1..Len(ks) : R[ks[i]] # None}
           IN  IF hits = {} THEN FirstHit(FirstSeen(ks), R) = None
               ELSE \E i \in hits : /\ FirstHit(FirstSeen(ks), R) = R[ks[i]]
                                    /\ \A j \in hits : i <= j
<1> DEFINE n == Len(ks)
           F == {i \in DOMAIN ks : \A j \in 1..i - 1 : ks[j] # ks[i]}
           keys == FirstSeen(ks)
           m == Cardinality(F)
           first == {k \in 1..Len(keys) : R[keys[k]] # None}
           hits == {i \in 1..n : R[ks[i]] # None}
<1>1. n \in Nat /\ DOMAIN ks = 1..n /\ F \in SUBSET (1..n)
  OBVIOUS
<1>2. keys = Picked(ks, F)
  BY DEF FirstSeen
<1> HIDE DEF keys
<1>3. /\ m \in Nat /\ Len(keys) = m
      /\ \A k \in 1..m : Ascending(F)[k] \in F /\ keys[k] = ks[Ascending(F)[k]]
      /\ \A i \in F : \E k \in 1..m : Ascending(F)[k] = i
      /\ \A k, l \in 1..m : k < l => Ascending(F)[k] < Ascending(F)[l]
  <2> HIDE DEF F, first, hits
  <2>1. m \in Nat /\ Len(keys) = m
    BY <1>1, <1>2, PickedIs
  <2>2. \A k \in 1..m : Ascending(F)[k] \in F /\ keys[k] = ks[Ascending(F)[k]]
    BY <1>1, <1>2, PickedIs
  <2>3. \A i \in F : \E k \in 1..m : Ascending(F)[k] = i
    BY <1>1, <1>2, PickedIs
  <2>4. \A k, l \in 1..m : k < l => Ascending(F)[k] < Ascending(F)[l]
    BY <1>1, <1>2, PickedIs
  <2> HIDE DEF m
  <2> QED
    BY <2>1, <2>2, <2>3, <2>4
<1>4. ASSUME NEW i \in 1..n PROVE \E j \in F : ks[j] = ks[i] /\ j <= i
  <2> DEFINE S == {h \in 1..n : ks[h] = ks[i]}
  <2>1. S \in SUBSET Nat /\ i \in S
    BY <1>1
  <2>2. PICK j \in S : \A h \in S : j <= h
    <3> HIDE DEF S
    <3> QED
      BY <2>1, Least
  <2>3. ASSUME NEW h \in 1..j - 1 PROVE ks[h] # ks[j]
    <3>1. h \in 1..n /\ ~(j <= h) /\ ks[j] = ks[i]
      BY <1>1, <2>2
    <3> QED
      BY <2>2, <3>1
  <2> QED
    BY <1>1, <2>1, <2>2, <2>3
<1>5. ASSUME NEW j \in hits
      PROVE  \E k \in first : Ascending(F)[k] \in F /\ Ascending(F)[k] <= j
  <2>1. PICK i \in F : ks[i] = ks[j] /\ i <= j
    BY <1>4
  <2>2. PICK k \in 1..m : Ascending(F)[k] = i
    BY <1>3
  <2>3. keys[k] = ks[j]
    BY <1>3, <2>1, <2>2
  <2> QED
    BY <1>3, <2>1, <2>2, <2>3
<1>6. first \in SUBSET Nat
  BY <1>3
<1>7. FirstHit(keys, R) = IF first = {} THEN None ELSE R[keys[Min(first)]]
  BY DEF FirstHit
<1>8. ASSUME hits = {} PROVE FirstHit(keys, R) = None
  <2>1. ASSUME NEW k \in first PROVE FALSE
    <3>1. k \in 1..m /\ R[keys[k]] # None
      BY <1>3
    <3>2. Ascending(F)[k] \in 1..n /\ keys[k] = ks[Ascending(F)[k]]
      BY <1>1, <1>3, <3>1
    <3> QED
      BY <1>8, <3>1, <3>2
  <2>2. first = {}
    BY <2>1
  <2> HIDE DEF first
  <2> QED
    BY <1>7, <2>2
<1>9. ASSUME hits # {}
      PROVE  \E i \in hits : FirstHit(keys, R) = R[ks[i]] /\ \A j \in hits : i <= j
  <2>1. first # {}
    BY <1>5, <1>9
  <2>2. PICK k \in first : k = Min(first) /\ \A l \in first : k <= l
    <3> HIDE DEF first
    <3> QED
      BY <1>6, <2>1, MinIs
  <2>3. k \in 1..m /\ R[keys[k]] # None
    BY <1>3
  <2>4. PICK i \in 1..n : i = Ascending(F)[k] /\ keys[k] = ks[i]
    BY <1>1, <1>3, <2>3
  <2>5. i \in hits
    BY <2>3, <2>4
  <2>6. ASSUME NEW j \in hits PROVE i <= j
    <3>1. PICK l \in first : Ascending(F)[l] \in F /\ Ascending(F)[l] <= j
      BY <1>5
    <3>2. l \in 1..m /\ k <= l
      BY <1>3, <2>2
    <3>3. PICK h \in 1..n : h = Ascending(F)[l] /\ h <= j
      BY <1>1, <3>1
    <3>4. CASE k = l
      BY <2>4, <3>3, <3>4
    <3>5. CASE k # l
      <4>1. k < l
        BY <1>3, <2>3, <3>2, <3>5
      <4>2. i < h
        BY <1>3, <2>3, <2>4, <3>2, <3>3, <4>1
      <4> QED
        BY <3>3, <4>2
    <3> QED
      BY <3>4, <3>5
  <2>7. FirstHit(keys, R) = R[ks[i]]
    <3> HIDE DEF first
    <3> QED
      BY <1>7, <2>1, <2>2, <2>4
  <2> HIDE DEF hits, first
  <2> QED
    BY <2>5, <2>6, <2>7
<1> QED
  BY <1>8, <1>9 DEF hits, keys

\* The keys of what has been selected, G says the key at each position.
KeysOf(ks, G, pos, n) == Len(ks) = n /\ \A k \in 1..n : ks[k] = G[pos[k]]

GroupAt(at, G, h) == {i \in at : G[i] = h}

\* What a report R says of each of the groups, whose sizes Z has.
SaysOf(R, at, G, Z, least) ==
    \A h \in {G[i] : i \in at} :
        /\ R[h] # None <=> Z[h] >= least
        /\ R[h] # None => R[h].subject = h /\ R[h].count = Cardinality(GroupAt(at, G, h))

TheFirst(event, at, G, Z, least) ==
    LET large == {h \in {G[i] : i \in at} : Z[h] >= least}
    IN  IF large = {} THEN event = None
        ELSE /\ event # None
             /\ event.subject \in large
             /\ event.count = Cardinality(GroupAt(at, G, event.subject))
             /\ \A h \in large : Min(GroupAt(at, G, event.subject)) <= Min(GroupAt(at, G, h))

\* Of the groups that are large enough the one that began first is reported.
LEMMA GroupsReported ==
    ASSUME NEW n \in Nat, NEW t, n = Len(t), NEW s, NEW at \in SUBSET Nat, NEW pos,
           Placed(t, s, at, pos), NEW K, NEW ks \in Seq(K), NEW G, KeysOf(ks, G, pos, n),
           NEW R, NEW Z, NEW least, SaysOf(R, at, G, Z, least)
    PROVE  TheFirst(FirstHit(FirstSeen(ks), R), at, G, Z, least)
<1> DEFINE event == FirstHit(FirstSeen(ks), R)
           hits == {i \in 1..Len(ks) : R[ks[i]] # None}
           large == {h \in {G[i] : i \in at} : Z[h] >= least}
<1>1. IF hits = {} THEN event = None
      ELSE \E i \in hits : event = R[ks[i]] /\ \A j \in hits : i <= j
  BY FirstHitIs
<1> HIDE DEF event
<1>2. /\ pos \in [1..n -> at]
      /\ \A i \in at : \E k \in 1..n : pos[k] = i
      /\ \A k, l \in 1..n : k < l => pos[k] < pos[l]
  BY DEF Placed
<1>3. Len(ks) = n /\ \A k \in 1..n : ks[k] = G[pos[k]] /\ pos[k] \in at
  BY <1>2 DEF KeysOf
<1>4. ASSUME NEW h \in large
      PROVE  \E k \in hits : ks[k] = h /\ pos[k] = Min(GroupAt(at, G, h))
  <2>1. GroupAt(at, G, h) \in SUBSET Nat /\ GroupAt(at, G, h) # {}
    BY DEF GroupAt
  <2>2. PICK i \in GroupAt(at, G, h) : i = Min(GroupAt(at, G, h))
    BY <2>1, MinIs
  <2>3. i \in at /\ G[i] = h
    BY DEF GroupAt
  <2>4. PICK k \in 1..n : pos[k] = i
    BY <1>2, <2>3
  <2>5. ks[k] = h /\ R[h] # None
    BY <1>3, <2>3, <2>4 DEF SaysOf
  <2> QED
    BY <1>3, <2>2, <2>4, <2>5
<1>5. ASSUME NEW k \in hits
      PROVE  /\ ks[k] \in large /\ k \in 1..n
             /\ pos[k] \in GroupAt(at, G, ks[k])
             /\ R[ks[k]] # None /\ R[ks[k]].subject = ks[k]
             /\ R[ks[k]].count = Cardinality(GroupAt(at, G, ks[k]))
  <2>1. k \in 1..n /\ pos[k] \in at /\ ks[k] = G[pos[k]] /\ R[ks[k]] # None
    BY <1>3
  <2>2. ks[k] \in {G[i] : i \in at}
    BY <2>1
  <2> QED
    BY <2>1, <2>2 DEF SaysOf, GroupAt
<1>6. CASE large = {}
  <2>1. hits = {}
    BY <1>5, <1>6
  <2> QED
    BY <1>1, <1>6, <2>1 DEF TheFirst, event
<1>7. CASE large # {}
  <2>1. hits # {}
    BY <1>4, <1>7
  <2>2. PICK x \in hits : event = R[ks[x]] /\ \A j \in hits : x <= j
    BY <1>1, <2>1
  <2>3. PICK h \in large : h = ks[x]
    BY <1>5
  <2>4. event # None /\ event.subject = h /\ event.count = Cardinality(GroupAt(at, G, h))
    BY <1>5, <2>2, <2>3
  <2>5. PICK i \in Nat : /\ i = Min(GroupAt(at, G, h)) /\ \A j \in GroupAt(at, G, h) : i <= j
    <3>1. GroupAt(at, G, h) \in SUBSET Nat /\ GroupAt(at, G, h) # {}
      BY DEF GroupAt
    <3> QED
      BY <3>1, MinIs
  <2>6. ASSUME NEW l \in large PROVE i <= Min(GroupAt(at, G, l))
    <3>1. PICK y \in hits : ks[y] = l /\ pos[y] = Min(GroupAt(at, G, l))
      BY <1>4
    <3>2. x \in 1..n /\ y \in 1..n /\ x <= y
      BY <1>5, <2>2, <3>1
    <3>3. PICK px \in Nat, py \in Nat : px = pos[x] /\ py = pos[y]
      BY <1>3, <3>2
    <3>4. px <= py
      <4>1. CASE x = y
        BY <3>3, <4>1
      <4>2. CASE x # y
        <5>1. x < y
          BY <3>2, <4>2
        <5>2. pos[x] < pos[y]
          BY <1>2, <3>2, <5>1
        <5> QED
          BY <3>3, <5>2
      <4> QED
        BY <4>1, <4>2
    <3>5. i <= px
      BY <1>5, <2>3, <2>5, <3>3
    <3> QED
      BY <3>1, <3>3, <3>4, <3>5
  <2>7. \A l \in large : Min(GroupAt(at, G, h)) <= Min(GroupAt(at, G, l))
    BY <2>5, <2>6
  <2> HIDE DEF hits
  <2> QED
    BY <1>7, <2>4, <2>7 DEF TheFirst, event
<1> QED
  BY <1>6, <1>7

(***************************************************************************)
(* What is selected of the buffer                                          *)
(***************************************************************************)
Dropped == Len(history) - Len(buffer)

LEMMA BufferPlaced ==
    ASSUME BufferInv
    PROVE  /\ buffer \in Seq(Range(buffer)) /\ Len(buffer) \in Nat
           /\ Len(history) \in Nat /\ DOMAIN history = 1..Len(history) /\ Dropped \in Nat
           /\ \A i \in 1..Len(history) :
                 i > Len(history) - BufferSize[family] <=> i > Dropped
           /\ Placed(buffer, history, {i \in 1..Len(history) : i > Dropped},
                     [p \in 1..Len(buffer) |-> Dropped + p])
           /\ history # <<>> =>
                 buffer # <<>> /\ Last(buffer) = Last(history) /\ Last(history).timestamp \in Int
<1>1. PICK n \in Nat, m \in Nat, size \in Nat \ {0} :
         n = Len(history) /\ m = Len(buffer) /\ size = BufferSize[family]
  <2>1. Len(history) \in Nat /\ Len(buffer) \in Nat
    BY DEF BufferInv, CallsInv, IsSeq
  <2>2. BufferSize[family] \in Nat \ {0}
    BY SessionAssumption DEF BufferInv, CallsInv
  <2> QED
    BY <2>1, <2>2
<1>2. buffer \in Seq(Range(buffer)) /\ history \in Seq(Range(history))
  BY DEF BufferInv, CallsInv, IsSeq
<1>3. m = SmallerOf(n, size)
  BY <1>1 DEF BufferInv
<1>4. PICK d \in Nat : d = n - m /\ d = Dropped
  <2>1. n - m \in Nat
    BY <1>3 DEF SmallerOf
  <2> QED
    BY <1>1, <2>1 DEF Dropped
<1>5. \A i \in 1..n : i > n - size <=> i > d
  BY <1>3, <1>4 DEF SmallerOf
<1> DEFINE at == {i \in 1..n : i > d}
           pos == [p \in 1..m |-> d + p]
<1>6. \A p \in 1..m : buffer[p] = history[d + p]
  BY <1>1, <1>4 DEF BufferInv, Dropped
<1>7. pos \in [1..m -> at]
  BY <1>4
<1>8. ASSUME NEW i \in at PROVE \E p \in 1..m : pos[p] = i
  <2>1. i - d \in 1..m /\ d + (i - d) = i
    BY <1>4
  <2> QED
    BY <2>1
<1>9. \A p, q \in 1..m : p < q => pos[p] < pos[q]
  OBVIOUS
<1>10. \A p \in 1..m : buffer[p] = history[pos[p]]
  BY <1>6
<1>11. Placed(buffer, history, at, pos)
  <2> HIDE DEF at, pos
  <2> QED
    BY <1>1, <1>7, <1>8, <1>9, <1>10 DEF Placed
<1>12. ASSUME history # <<>>
       PROVE  buffer # <<>> /\ Last(buffer) = Last(history) /\ Last(history).timestamp \in Int
  <2>1. n # 0
    BY <1>1, <1>2, <1>12
  <2>2. m \in 1..m /\ d + m = n /\ n \in 1..n
    BY <1>3, <1>4, <2>1 DEF SmallerOf
  <2>3. buffer # <<>>
    BY <1>1, <1>2, <2>2
  <2>4. buffer[m] = history[n]
    BY <1>6, <2>2
  <2>5. history[n].timestamp \in Int
    BY <1>1, <2>2 DEF BufferInv
  <2> QED
    BY <1>1, <2>3, <2>4, <2>5 DEF Last
<1>13. DOMAIN history = 1..Len(history)
  BY <1>2
<1> QED
  BY <1>1, <1>2, <1>4, <1>5, <1>11, <1>12, <1>13

\* T are the places of one key.
PlacesOf(T, ks, h, n) == T = {k \in 1..n : ks[k] = h}

\* A group of what has been selected has as many calls as positions.
LEMMA GroupPlaced ==
    ASSUME NEW X, NEW t \in Seq(X), NEW s, NEW at \in SUBSET Nat, NEW pos,
           Placed(t, s, at, pos), NEW ks, NEW G, KeysOf(ks, G, pos, Len(t)),
           NEW h, NEW T, PlacesOf(T, ks, h, Len(t))
    PROVE  /\ Picked(t, T) \in Seq(X)
           /\ Len(Picked(t, T)) = Cardinality(GroupAt(at, G, h))
           /\ \E there : Placed(Picked(t, T), s, GroupAt(at, G, h), there)
<1>1. T \in SUBSET (1..Len(t)) /\ GroupAt(at, G, h) \in SUBSET at
  BY DEF GroupAt, PlacesOf
<1>2. Selects(T, GroupAt(at, G, h), pos, Len(t))
  <2>1. \A k \in 1..Len(t) : pos[k] \in at /\ ks[k] = G[pos[k]]
    BY DEF Placed, KeysOf
  <2> QED
    BY <2>1 DEF Selects, GroupAt, PlacesOf
<1>3. /\ Picked(t, T) \in Seq(X)
      /\ \E there : Placed(Picked(t, T), s, GroupAt(at, G, h), there)
  BY <1>1, <1>2, PlacedPicked
<1>4. PICK there : Placed(Picked(t, T), s, GroupAt(at, G, h), there)
  BY <1>3
<1>a. PICK n \in Nat : n = Len(Picked(t, T))
  BY <1>3
<1>5. GroupAt(at, G, h) \in SUBSET Nat
  BY <1>1
<1>6. Cardinality(GroupAt(at, G, h)) = n
  BY <1>4, <1>a, <1>5, PlacedCounts
<1> QED
  BY <1>3, <1>a, <1>6

\* The calls of the buffer that a test picks, and where in the history they are.
Matching(T, some) ==
    /\ T \subseteq 1..Len(buffer)
    /\ some \subseteq {i \in 1..Len(history) : i > Dropped}
    /\ \A p \in 1..Len(buffer) : p \in T <=> Dropped + p \in some

LEMMA SelectionPlaced ==
    ASSUME BufferInv, NEW T, NEW some, Matching(T, some)
    PROVE  /\ Picked(buffer, T) \in Seq(Range(buffer))
           /\ some \in SUBSET Nat
           /\ \E pos : Placed(Picked(buffer, T), history, some, pos)
<1> DEFINE at == {i \in 1..Len(history) : i > Dropped}
           pos == [p \in 1..Len(buffer) |-> Dropped + p]
<1>1. /\ buffer \in Seq(Range(buffer)) /\ Placed(buffer, history, at, pos)
      /\ at \in SUBSET Nat
  BY BufferPlaced
<1>2. T \in SUBSET (1..Len(buffer)) /\ some \in SUBSET at
  BY DEF Matching
<1>3. Selects(T, some, pos, Len(buffer))
  BY DEF Matching, Selects
<1> HIDE DEF at, pos
<1>4. some \in SUBSET Nat
  BY <1>1, <1>2
<1> QED
  BY <1>1, <1>2, <1>3, <1>4, PlacedPicked

\* The calls in the window are those kept of it.
LEMMA WindowMatches ==
    ASSUME BufferInv, history # <<>>, NEW window,
           NEW T, T = {p \in 1..Len(buffer) : Elapsed(Last(buffer), buffer[p]) <= window}
    PROVE  /\ Matching(T, Kept(window))
           /\ RecentWithin(buffer, window) = Picked(buffer, T)
<1>1. /\ DOMAIN buffer = 1..Len(buffer) /\ DOMAIN history = 1..Len(history)
      /\ \A i \in 1..Len(history) :
            i > Len(history) - BufferSize[family] <=> i > Dropped
      /\ Last(buffer) = Last(history)
  BY BufferPlaced
<1>2. \A p \in 1..Len(buffer) : buffer[p] = history[Dropped + p] /\ Dropped + p \in 1..Len(history)
                                /\ Dropped + p > Dropped
  <2>1. Placed(buffer, history, {i \in 1..Len(history) : i > Dropped},
               [p \in 1..Len(buffer) |-> Dropped + p])
    BY BufferPlaced
  <2> QED
    BY <2>1 DEF Placed
<1>3. Kept(window) = {i \in 1..Len(history) :
                         i > Dropped /\ Last(history).timestamp - history[i].timestamp <= window}
  BY <1>1 DEF Kept, Now
<1>4. \A p \in 1..Len(buffer) : p \in T <=> Dropped + p \in Kept(window)
  BY <1>1, <1>2, <1>3 DEF Elapsed
<1>5. RecentWithin(buffer, window) = Picked(buffer, T)
  BY <1>1 DEF RecentWithin, Where
<1> QED
  BY <1>3, <1>4, <1>5 DEF Matching

(***************************************************************************)
(* Calls grouped by what they have in a field                              *)
(***************************************************************************)
Fields == {"request_hash", "text_hash", "input"}

With(t, f, h) == Where(t, LAMBDA c : c[f] = h)
KeysIn(t, f) == MapSeq(t, LAMBDA c : c[f])

KeyAt(s, at, f) == [i \in at |-> s[i][f]]
KeysFrom(K, t, f) == \A h \in K : \E k \in 1..Len(t) : t[k][f] = h
GroupsIn(s, at, f) == {KeyAt(s, at, f)[i] : i \in at}

GroupsPlaced(X, t, s, at, f) ==
    \A h : /\ With(t, f, h) \in Seq(X)
           /\ Len(With(t, f, h)) = Cardinality(GroupAt(at, KeyAt(s, at, f), h))
           /\ \E there : Placed(With(t, f, h), s, GroupAt(at, KeyAt(s, at, f), h), there)

\* The keys are those of the places, and what has one of them is placed there.
LEMMA GroupedBy ==
    ASSUME NEW X, NEW t \in Seq(X), NEW s, NEW at \in SUBSET Nat, NEW pos,
           Placed(t, s, at, pos), NEW f
    PROVE  /\ KeysOf(KeysIn(t, f), KeyAt(s, at, f), pos, Len(t))
           /\ KeysIn(t, f) \in Seq(GroupsIn(s, at, f))
           /\ FirstSeen(KeysIn(t, f)) \in Seq(GroupsIn(s, at, f))
           /\ GroupsPlaced(X, t, s, at, f)
           /\ KeysFrom(GroupsIn(s, at, f), t, f)
<1> DEFINE G == KeyAt(s, at, f)
           ks == KeysIn(t, f)
           K == GroupsIn(s, at, f)
<1>1. DOMAIN t = 1..Len(t) /\ Len(t) \in Nat
  OBVIOUS
<1>2. ks = [k \in 1..Len(t) |-> t[k][f]]
  BY <1>1 DEF MapSeq, KeysIn
<1>3. \A k \in 1..Len(t) : pos[k] \in at /\ t[k] = s[pos[k]]
  BY DEF Placed
<1>4. \A k \in 1..Len(t) : ks[k] = G[pos[k]] /\ ks[k] = t[k][f]
  BY <1>2, <1>3 DEF KeyAt
<1>a. K = {G[i] : i \in at}
  BY DEF GroupsIn
<1> HIDE DEF G, ks, K
<1>5. ks \in Seq(K) /\ Len(ks) = Len(t)
  <2>1. \A k \in 1..Len(t) : ks[k] \in K
    BY <1>3, <1>4, <1>a
  <2> QED
    BY <1>1, <1>2, <2>1
<1>6. KeysOf(ks, G, pos, Len(t))
  BY <1>4, <1>5 DEF KeysOf
<1>7. ASSUME NEW h
      PROVE  /\ With(t, f, h) \in Seq(X)
             /\ Len(With(t, f, h)) = Cardinality(GroupAt(at, G, h))
             /\ \E there : Placed(With(t, f, h), s, GroupAt(at, G, h), there)
  <2>1. PICK T : T = {k \in 1..Len(t) : ks[k] = h}
    OBVIOUS
  <2>2. With(t, f, h) = Picked(t, T)
    <3>1. T = {k \in DOMAIN t : t[k][f] = h}
      BY <1>1, <1>4, <2>1
    <3> QED
      BY <3>1 DEF With, Where
  <2>3. PlacesOf(T, ks, h, Len(t))
    BY <2>1 DEF PlacesOf
  <2>4. /\ Picked(t, T) \in Seq(X)
        /\ Len(Picked(t, T)) = Cardinality(GroupAt(at, G, h))
        /\ \E there : Placed(Picked(t, T), s, GroupAt(at, G, h), there)
    BY <1>6, <2>3, GroupPlaced
  <2> QED
    BY <2>2, <2>4
<1>8. ASSUME NEW h \in K PROVE \E k \in 1..Len(t) : t[k][f] = h
  <2>1. PICK i \in at : h = G[i]
    BY <1>a
  <2>2. PICK k \in 1..Len(t) : pos[k] = i
    BY DEF Placed
  <2> QED
    BY <1>4, <2>1, <2>2
<1>9. FirstSeen(ks) \in Seq(K)
  BY <1>5, FirstSeenHas
<1> QED
  BY <1>5, <1>6, <1>7, <1>8, <1>9 DEF G, ks, K, KeysFrom, GroupsPlaced

\* The calls of the buffer are what a report can be about.
LEMMA CallsCount ==
    ASSUME CallsInv, NEW t \in Seq(Range(buffer))
    PROVE  /\ SumOver(t, Tokens) \in Nat /\ SumOver(t, LAMBDA c : c.prompt_tokens) \in Nat
           /\ \A k \in 1..Len(t), f \in Fields : t[k][f] \in Subjects
<1>1. DOMAIN t = 1..Len(t) /\ Len(t) \in Nat
  OBVIOUS
<1>2. ASSUME NEW k \in 1..Len(t)
      PROVE  /\ t[k].prompt_tokens \in Nat /\ Tokens(t[k]) \in Nat
             /\ Hashes(t[k]) \subseteq Subjects
  <2>1. IsCall(t[k])
    BY DEF CallsInv
  <2>2. t[k].prompt_tokens \in Nat /\ t[k].completion_tokens \in Nat
    BY <2>1 DEF IsCall, IsRequest
  <2> QED
    BY <2>1, <2>2 DEF IsCall, Tokens
<1>3. SumOver(t, Tokens) \in Nat
  <2>1. MapSeq(t, Tokens) = [k \in 1..Len(t) |-> Tokens(t[k])]
    BY <1>1 DEF MapSeq
  <2>2. PICK s \in Seq(Nat) : s = MapSeq(t, Tokens)
    <3>1. PICK n \in Nat : n = Len(t)
      BY <1>1
    <3>2. \A k \in 1..n : Tokens(t[k]) \in Nat
      BY <1>2, <3>1
    <3>3. [k \in 1..n |-> Tokens(t[k])] \in [1..n -> Nat]
      BY <3>2
    <3>4. [k \in 1..n |-> Tokens(t[k])] \in Seq(Nat)
      BY <3>3
    <3> QED
      BY <2>1, <3>1, <3>4
  <2>3. SumSeq(s) \in Nat
    BY SumReversed
  <2> QED
    BY <2>2, <2>3 DEF SumOver
<1>4. SumOver(t, LAMBDA c : c.prompt_tokens) \in Nat
  <2>1. MapSeq(t, LAMBDA c : c.prompt_tokens) = [k \in 1..Len(t) |-> t[k].prompt_tokens]
    BY <1>1 DEF MapSeq
  <2>2. PICK s \in Seq(Nat) : s = MapSeq(t, LAMBDA c : c.prompt_tokens)
    <3>1. PICK n \in Nat : n = Len(t)
      BY <1>1
    <3>2. \A k \in 1..n : t[k].prompt_tokens \in Nat
      BY <1>2, <3>1
    <3>3. [k \in 1..n |-> t[k].prompt_tokens] \in [1..n -> Nat]
      BY <3>2
    <3>4. [k \in 1..n |-> t[k].prompt_tokens] \in Seq(Nat)
      BY <3>3
    <3> QED
      BY <2>1, <3>1, <3>4
  <2>3. SumSeq(s) \in Nat
    BY SumReversed
  <2> QED
    BY <2>2, <2>3 DEF SumOver
<1>5. ASSUME NEW k \in 1..Len(t), NEW f \in Fields PROVE t[k][f] \in Subjects
  <2>1. t[k].request_hash \in Subjects /\ t[k].text_hash \in Subjects /\ t[k].input \in Subjects
    BY <1>2 DEF Hashes
  <2>2. CASE f = "request_hash"
    BY <2>1, <2>2
  <2>3. CASE f = "text_hash"
    BY <2>1, <2>3
  <2>4. CASE f = "input"
    BY <2>1, <2>4
  <2> QED
    BY <2>2, <2>3, <2>4 DEF Fields
<1> QED
  BY <1>3, <1>4, <1>5

\* What a detector says of the first group that it reports.
LEMMA FirstOfGroups ==
    ASSUME CallsInv, NEW t \in Seq(Range(buffer)), NEW s, NEW at \in SUBSET Nat, NEW pos,
           Placed(t, s, at, pos), NEW f \in Fields
    PROVE  /\ GroupsIn(s, at, f) \subseteq Subjects
           /\ \A R, Z, least : SaysOf(R, at, KeyAt(s, at, f), Z, least) =>
                 TheFirst(FirstHit(FirstSeen(KeysIn(t, f)), R), at, KeyAt(s, at, f), Z, least)
<1>1. GroupsIn(s, at, f) \subseteq Subjects
  <2>1. ASSUME NEW h \in GroupsIn(s, at, f) PROVE h \in Subjects
    <3>1. KeysFrom(GroupsIn(s, at, f), t, f)
      BY GroupedBy
    <3>2. PICK k \in 1..Len(t) : t[k][f] = h
      BY <3>1 DEF KeysFrom
    <3> QED
      BY <3>2, CallsCount
  <2> QED
    BY <2>1
<1>2. ASSUME NEW R, NEW Z, NEW least, SaysOf(R, at, KeyAt(s, at, f), Z, least)
      PROVE  TheFirst(FirstHit(FirstSeen(KeysIn(t, f)), R), at, KeyAt(s, at, f), Z, least)
  <2>1. PICK n \in Nat : n = Len(t)
    OBVIOUS
  <2>2. /\ KeysOf(KeysIn(t, f), KeyAt(s, at, f), pos, n)
        /\ KeysIn(t, f) \in Seq(GroupsIn(s, at, f))
    BY <2>1, GroupedBy
  <2> QED
    BY <1>2, <2>1, <2>2, GroupsReported
<1> QED
  BY <1>1, <1>2

HitsOf(keys, R) == {k \in 1..Len(keys) : R[keys[k]] # None}
HitOf(hits) == IF hits # {} THEN Min(hits) ELSE 0

\* The first key with a report is found.
LEMMA HitIs ==
    ASSUME NEW K, NEW keys \in Seq(K), NEW R
    PROVE  LET hit == HitOf(HitsOf(keys, R))
           IN  /\ FirstHit(keys, R) = IF hit = 0 THEN None ELSE R[keys[hit]]
               /\ hit = 0 \/ hit \in 1..Len(keys)
<1> DEFINE hits == {k \in 1..Len(keys) : R[keys[k]] # None}
<1>1. FirstHit(keys, R) = IF hits = {} THEN None ELSE R[keys[Min(hits)]]
  BY DEF FirstHit
<1>2. hits # {} => Min(hits) \in 1..Len(keys)
  <2>a. Len(keys) \in Nat
    OBVIOUS
  <2>1. hits \in SUBSET Nat
    BY <2>a
  <2>2. hits \subseteq 1..Len(keys)
    OBVIOUS
  <2> HIDE DEF hits
  <2> QED
    BY <2>1, <2>2, MinIs
<1>3. hits # {} => Min(hits) # 0
  BY <1>2
<1> HIDE DEF hits
<1>4. LET hit == IF hits # {} THEN Min(hits) ELSE 0
      IN  /\ FirstHit(keys, R) = IF hit = 0 THEN None ELSE R[keys[hit]]
          /\ hit = 0 \/ hit \in 1..Len(keys)
  BY <1>1, <1>2, <1>3
<1> QED
  BY <1>4 DEF hits, HitOf, HitsOf

(***************************************************************************)
(* retry_storm and rerank_thrash                                           *)
(***************************************************************************)
\* How often each request was made.
TimesOf(at) ==
    [h \in GroupsIn(history, at, "request_hash") |->
        Cardinality(GroupAt(at, KeyAt(history, at, "request_hash"), h))]

\* What is said of the groups of requests is what is to be said of them.
LEMMA FirstRequest ==
    ASSUME NEW event, NEW at, NEW least,
           TheFirst(event, at, KeyAt(history, at, "request_hash"), TimesOf(at), least)
    PROVE  ReportsTheFirst(event, at, LAMBDA c : c.request_hash, Cardinality, least)
<1> DEFINE G == KeyAt(history, at, "request_hash")
           group(h) == {i \in at : history[i].request_hash = h}
           hashes == {history[i].request_hash : i \in at}
           large == {h \in hashes : Cardinality(group(h)) >= least}
<1>1. \A i \in at : G[i] = history[i].request_hash
  BY DEF KeyAt
<1> HIDE DEF G
<1>2. hashes = {G[i] : i \in at} /\ hashes = GroupsIn(history, at, "request_hash")
  BY <1>1 DEF GroupsIn, G
<1>3. \A h : group(h) = GroupAt(at, G, h)
  BY <1>1 DEF GroupAt
<1>4. \A h \in hashes : TimesOf(at)[h] = Cardinality(group(h))
  BY <1>2, <1>3 DEF TimesOf, G
<1>5. large = {h \in {G[i] : i \in at} : TimesOf(at)[h] >= least}
  BY <1>2, <1>4
<1> HIDE DEF hashes, group
<1>6. IF large = {} THEN event = None
      ELSE /\ event # None /\ event.subject \in large
           /\ event.count = Cardinality(group(event.subject))
           /\ \A h \in large : Min(group(event.subject)) <= Min(group(h))
  <2>1. PICK L : L = large /\ L = {h \in {G[i] : i \in at} : TimesOf(at)[h] >= least}
    BY <1>5
  <2> HIDE DEF large
  <2>2. IF L = {} THEN event = None
        ELSE /\ event # None /\ event.subject \in L
             /\ event.count = Cardinality(GroupAt(at, G, event.subject))
             /\ \A h \in L : Min(GroupAt(at, G, event.subject)) <= Min(GroupAt(at, G, h))
    BY <2>1 DEF TheFirst, G
  <2> QED
    BY <2>1, <2>2, <1>3
<1> QED
  BY <1>6 DEF ReportsTheFirst, hashes, group

\* What retry_storm says of one request.
StormReport(t, h) ==
    LET n == Len(With(t, "request_hash", h))
    IN  IF n < MinRetries THEN None
        ELSE Leak("retry_storm", h, n, 90, SumOver(With(t, "request_hash", h), Tokens))

LEMMA StormIs ==
    ASSUME NEW t, t = RecentWithin(buffer, StormWindow), NEW K, NEW keys \in Seq(K),
           keys = FirstSeen(KeysIn(t, "request_hash")),
           NEW R, R = [h \in K |-> StormReport(t, h)]
    PROVE  RetryStorm(buffer) = FirstHit(keys, R)
<1> DEFINE hits == {k \in 1..Len(keys) : StormReport(t, keys[k]) # None}
           hit == HitOf(hits)
<1>1. RetryStorm(buffer) = IF hit = 0 THEN None ELSE StormReport(t, keys[hit])
  <2>1. RetryStorm(buffer) = FirstReported(FirstSeen(MapSeq(t, LAMBDA c : c.request_hash)),
                                           LAMBDA h : StormReport(t, h))
    BY DEF RetryStorm, StormReport, With
  <2> QED
    BY <2>1 DEF HitOf, FirstReported, SelectInSeq, KeysIn
<1>2. \A k \in 1..Len(keys) : R[keys[k]] = StormReport(t, keys[k])
  OBVIOUS
<1>3. hits = HitsOf(keys, R)
  BY <1>2 DEF HitsOf
<1> HIDE DEF hits
<1>4. /\ FirstHit(keys, R) = IF hit = 0 THEN None ELSE R[keys[hit]]
      /\ hit = 0 \/ hit \in 1..Len(keys)
  BY <1>3, HitIs
<1> QED
  BY <1>1, <1>2, <1>4

\* The storm reported is the first one.
LEMMA StormsReported ==
    ASSUME BufferInv, history # <<>>
    PROVE  ReportsTheFirst(RetryStorm(buffer), Kept(StormWindow),
                           LAMBDA c : c.request_hash, Cardinality, MinRetries)
<1> DEFINE f == "request_hash"
<1>1. PICK at : at = Kept(StormWindow)
  OBVIOUS
<1>2. PICK t : t = RecentWithin(buffer, StormWindow)
  OBVIOUS
<1>3. PICK T : T = {p \in 1..Len(buffer) : Elapsed(Last(buffer), buffer[p]) <= StormWindow}
  OBVIOUS
<1>4. Matching(T, at) /\ t = Picked(buffer, T)
  BY <1>1, <1>2, <1>3, WindowMatches
<1>5. t \in Seq(Range(buffer)) /\ at \in SUBSET Nat /\ \E pos : Placed(t, history, at, pos)
  BY <1>4, SelectionPlaced
<1>6. PICK pos : Placed(t, history, at, pos)
  BY <1>5
<1>7. PICK G : G = KeyAt(history, at, f)
  OBVIOUS
<1>8. PICK K : K = GroupsIn(history, at, f)
  OBVIOUS
<1>9. CallsInv /\ f \in Fields
  BY DEF BufferInv, Fields
<1>10. FirstSeen(KeysIn(t, f)) \in Seq(K)
  BY <1>5, <1>6, <1>8, GroupedBy
<1>a. \A h : /\ With(t, f, h) \in Seq(Range(buffer))
             /\ Len(With(t, f, h)) = Cardinality(GroupAt(at, G, h))
  <2>1. GroupsPlaced(Range(buffer), t, history, at, f)
    BY <1>5, <1>6, GroupedBy
  <2> QED
    BY <1>7, <2>1 DEF GroupsPlaced
<1>11. PICK R : R = [h \in K |-> StormReport(t, h)]
  OBVIOUS
<1>12. RetryStorm(buffer) = FirstHit(FirstSeen(KeysIn(t, f)), R)
  BY <1>2, <1>10, <1>11, StormIs
<1>14. K \subseteq Subjects
  BY <1>5, <1>6, <1>8, <1>9, FirstOfGroups
<1>15. SaysOf(R, at, G, TimesOf(at), MinRetries)
  <2>1. ASSUME NEW h \in K
        PROVE  /\ R[h] # None <=> TimesOf(at)[h] >= MinRetries
               /\ R[h] # None => R[h].subject = h /\ R[h].count = Cardinality(GroupAt(at, G, h))
    <3>1. PICK n \in Nat : n = Len(With(t, f, h))
      BY <1>a
    <3>2. n = Cardinality(GroupAt(at, G, h)) /\ n = TimesOf(at)[h]
      BY <1>7, <1>8, <1>a, <3>1 DEF TimesOf
    <3>3. PICK w \in Nat : w = SumOver(With(t, f, h), Tokens)
      BY <1>a, <1>9, CallsCount
    <3>4. R[h] = IF n < MinRetries THEN None ELSE Leak("retry_storm", h, n, 90, w)
      BY <1>11, <3>1, <3>3 DEF StormReport
    <3>5. Leak("retry_storm", h, n, 90, w) # None
      BY <1>14, ReportIsSome DEF EventTypes
    <3>6. MinRetries \in Nat
      BY RepetitionAssumption
    <3>7. /\ Leak("retry_storm", h, n, 90, w).subject = h
          /\ Leak("retry_storm", h, n, 90, w).count = n
      BY DEF Leak
    <3> QED
      BY <3>2, <3>4, <3>5, <3>6, <3>7
  <2> QED
    BY <1>7, <1>8, <2>1 DEF SaysOf, GroupsIn
<1>16. TheFirst(RetryStorm(buffer), at, G, TimesOf(at), MinRetries)
  BY <1>5, <1>6, <1>7, <1>9, <1>12, <1>15, FirstOfGroups
<1> QED
  BY <1>1, <1>7, <1>16, FirstRequest

\* The calls of the window are those kept.
LEMMA WindowPlaces ==
    ASSUME BufferInv, history # <<>>, NEW window
    PROVE  /\ Kept(window) \subseteq {i \in 1..Len(history) : i > Dropped}
           /\ \A p \in 1..Len(buffer) :
                 /\ buffer[p] = history[Dropped + p]
                 /\ Dropped + p \in Kept(window) <=> Elapsed(Last(buffer), buffer[p]) <= window
<1>1. PICK T : T = {p \in 1..Len(buffer) : Elapsed(Last(buffer), buffer[p]) <= window}
  OBVIOUS
<1>2. Matching(T, Kept(window))
  BY <1>1, WindowMatches
<1>3. \A p \in 1..Len(buffer) : buffer[p] = history[Dropped + p]
  BY DEF BufferInv, Dropped
<1> QED
  BY <1>1, <1>2, <1>3 DEF Matching

\* Where the reranks are.
RerankPlaces ==
    {i \in Kept(RerankWindow) :
        /\ history[i].provider = "cohere"
        /\ history[i].method = "rerank"
        /\ history[i].request_hash # None}

LEMMA ReranksMatch ==
    ASSUME BufferInv, history # <<>>,
           NEW T, T = {p \in 1..Len(buffer) : IsRerank(buffer, buffer[p])}
    PROVE  Matching(T, RerankPlaces)
<1>1. \A p \in 1..Len(buffer) : p \in T <=> Dropped + p \in RerankPlaces
  BY WindowPlaces DEF IsRerank, RerankPlaces
<1>2. RerankPlaces \subseteq {i \in 1..Len(history) : i > Dropped}
  BY WindowPlaces DEF RerankPlaces
<1> QED
  BY <1>1, <1>2 DEF Matching

\* What rerank_thrash says of one request.
RerankReport(t, h) ==
    LET n == Len(With(t, "request_hash", h))
    IN  IF n < MinReranks THEN None
        ELSE Leak("rerank_thrash", h, n, SmallerOf(75 + 5 * (n - MinReranks), 90), n - 1)

LEMMA RerankIs ==
    ASSUME NEW t, t = Where(buffer, LAMBDA c : IsRerank(buffer, c)), NEW K, NEW keys \in Seq(K),
           keys = FirstSeen(KeysIn(t, "request_hash")),
           NEW R, R = [h \in K |-> RerankReport(t, h)]
    PROVE  RerankThrash(buffer) = FirstHit(keys, R)
<1> DEFINE hits == {k \in 1..Len(keys) : RerankReport(t, keys[k]) # None}
           hit == HitOf(hits)
<1>1. RerankThrash(buffer) = IF hit = 0 THEN None ELSE RerankReport(t, keys[hit])
  <2>1. RerankThrash(buffer) = FirstReported(FirstSeen(MapSeq(t, LAMBDA c : c.request_hash)),
                                             LAMBDA h : RerankReport(t, h))
    BY DEF RerankThrash, RerankReport, With
  <2> QED
    BY <2>1 DEF HitOf, FirstReported, SelectInSeq, KeysIn
<1>2. \A k \in 1..Len(keys) : R[keys[k]] = RerankReport(t, keys[k])
  OBVIOUS
<1>3. hits = HitsOf(keys, R)
  BY <1>2 DEF HitsOf
<1> HIDE DEF hits
<1>4. /\ FirstHit(keys, R) = IF hit = 0 THEN None ELSE R[keys[hit]]
      /\ hit = 0 \/ hit \in 1..Len(keys)
  BY <1>3, HitIs
<1> QED
  BY <1>1, <1>2, <1>4

\* The reranks reported are the first ones.
LEMMA ReranksReported ==
    ASSUME BufferInv, history # <<>>
    PROVE  ReportsTheFirst(RerankThrash(buffer), RerankPlaces,
                           LAMBDA c : c.request_hash, Cardinality, MinReranks)
<1> DEFINE f == "request_hash"
<1>1. PICK at : at = RerankPlaces
  OBVIOUS
<1>2. PICK t : t = Where(buffer, LAMBDA c : IsRerank(buffer, c))
  OBVIOUS
<1>3. PICK T : T = {p \in 1..Len(buffer) : IsRerank(buffer, buffer[p])}
  OBVIOUS
<1>4. Matching(T, at) /\ t = Picked(buffer, T)
  <2>1. DOMAIN buffer = 1..Len(buffer)
    BY BufferPlaced
  <2>2. t = Picked(buffer, T)
    BY <1>2, <1>3, <2>1 DEF Where
  <2> QED
    BY <1>1, <1>3, <2>2, ReranksMatch
<1>5. t \in Seq(Range(buffer)) /\ at \in SUBSET Nat /\ \E pos : Placed(t, history, at, pos)
  BY <1>4, SelectionPlaced
<1>6. PICK pos : Placed(t, history, at, pos)
  BY <1>5
<1>7. PICK G : G = KeyAt(history, at, f)
  OBVIOUS
<1>8. PICK K : K = GroupsIn(history, at, f)
  OBVIOUS
<1>9. CallsInv /\ f \in Fields
  BY DEF BufferInv, Fields
<1>10. FirstSeen(KeysIn(t, f)) \in Seq(K)
  BY <1>5, <1>6, <1>8, GroupedBy
<1>a. \A h : /\ With(t, f, h) \in Seq(Range(buffer))
             /\ Len(With(t, f, h)) = Cardinality(GroupAt(at, G, h))
  <2>1. GroupsPlaced(Range(buffer), t, history, at, f)
    BY <1>5, <1>6, GroupedBy
  <2> QED
    BY <1>7, <2>1 DEF GroupsPlaced
<1>11. PICK R : R = [h \in K |-> RerankReport(t, h)]
  OBVIOUS
<1>12. RerankThrash(buffer) = FirstHit(FirstSeen(KeysIn(t, f)), R)
  BY <1>2, <1>10, <1>11, RerankIs
<1>14. K \subseteq Subjects
  BY <1>5, <1>6, <1>8, <1>9, FirstOfGroups
<1>15. SaysOf(R, at, G, TimesOf(at), MinReranks)
  <2>1. ASSUME NEW h \in K
        PROVE  /\ R[h] # None <=> TimesOf(at)[h] >= MinReranks
               /\ R[h] # None => R[h].subject = h /\ R[h].count = Cardinality(GroupAt(at, G, h))
    <3>1. PICK n \in Nat : n = Len(With(t, f, h))
      BY <1>a
    <3>2. n = Cardinality(GroupAt(at, G, h)) /\ n = TimesOf(at)[h]
      BY <1>7, <1>8, <1>a, <3>1 DEF TimesOf
    <3>3. PICK s \in Int, w \in Int : s = SmallerOf(75 + 5 * (n - MinReranks), 90) /\ w = n - 1
      <4>1. PICK low \in Nat : low = MinReranks
        BY RepetitionAssumption
      <4>2. PICK sure \in Int : sure = 75 + 5 * (n - low)
        OBVIOUS
      <4>3. SmallerOf(sure, 90) \in Int
        BY DEF SmallerOf
      <4> QED
        BY <4>1, <4>2, <4>3
    <3>4. R[h] = IF n < MinReranks THEN None ELSE Leak("rerank_thrash", h, n, s, w)
      BY <1>11, <3>1, <3>3 DEF RerankReport
    <3>5. Leak("rerank_thrash", h, n, s, w) # None
      BY <1>14, ReportIsSome DEF EventTypes
    <3>6. MinReranks \in Nat
      BY RepetitionAssumption
    <3>7. /\ Leak("rerank_thrash", h, n, s, w).subject = h
          /\ Leak("rerank_thrash", h, n, s, w).count = n
      BY DEF Leak
    <3> QED
      BY <3>2, <3>4, <3>5, <3>6, <3>7
  <2> QED
    BY <1>7, <1>8, <2>1 DEF SaysOf, GroupsIn
<1>16. TheFirst(RerankThrash(buffer), at, G, TimesOf(at), MinReranks)
  BY <1>5, <1>6, <1>7, <1>9, <1>12, <1>15, FirstOfGroups
<1> QED
  BY <1>1, <1>7, <1>16, FirstRequest

(***************************************************************************)
(* voice_switching_loop                                                    *)
(***************************************************************************)
\* In how many voices each text was spoken.
VoicesAt(at) == {history[i].voice_id : i \in at}
VoicesOf(at) ==
    [h \in GroupsIn(history, at, "text_hash") |->
        Cardinality(VoicesAt(GroupAt(at, KeyAt(history, at, "text_hash"), h)))]

\* What is said of the groups of texts is what is to be said of them.
LEMMA FirstText ==
    ASSUME NEW event, NEW at, NEW least,
           TheFirst(event, at, KeyAt(history, at, "text_hash"), VoicesOf(at), least)
    PROVE  ReportsTheFirst(event, at, LAMBDA c : c.text_hash,
                           LAMBDA p : Cardinality({history[i].voice_id : i \in p}), least)
<1> DEFINE G == KeyAt(history, at, "text_hash")
           group(h) == {i \in at : history[i].text_hash = h}
           hashes == {history[i].text_hash : i \in at}
           large == {h \in hashes : Cardinality(VoicesAt(group(h))) >= least}
<1>1. \A i \in at : G[i] = history[i].text_hash
  BY DEF KeyAt
<1> HIDE DEF G
<1>2. hashes = {G[i] : i \in at} /\ hashes = GroupsIn(history, at, "text_hash")
  BY <1>1 DEF GroupsIn, G
<1>3. \A h : group(h) = GroupAt(at, G, h)
  BY <1>1 DEF GroupAt
<1>4. \A h \in hashes : VoicesOf(at)[h] = Cardinality(VoicesAt(group(h)))
  BY <1>2, <1>3 DEF VoicesOf, G
<1>5. large = {h \in {G[i] : i \in at} : VoicesOf(at)[h] >= least}
  BY <1>2, <1>4
<1> HIDE DEF hashes, group
<1>6. IF large = {} THEN event = None
      ELSE /\ event # None /\ event.subject \in large
           /\ event.count = Cardinality(group(event.subject))
           /\ \A h \in large : Min(group(event.subject)) <= Min(group(h))
  <2>1. PICK L : L = large /\ L = {h \in {G[i] : i \in at} : VoicesOf(at)[h] >= least}
    BY <1>5
  <2> HIDE DEF large
  <2>2. IF L = {} THEN event = None
        ELSE /\ event # None /\ event.subject \in L
             /\ event.count = Cardinality(GroupAt(at, G, event.subject))
             /\ \A h \in L : Min(GroupAt(at, G, event.subject)) <= Min(GroupAt(at, G, h))
    BY <2>1 DEF TheFirst, G
  <2> QED
    BY <2>1, <2>2, <1>3
<1> QED
  BY <1>6 DEF ReportsTheFirst, hashes, group, VoicesAt

\* The voices of a group are those of its places.
LEMMA VoicesFinite ==
    ASSUME NEW X, NEW g \in Seq(X)
    PROVE  Cardinality(DistinctVoices(g)) \in Nat /\ (g = <<>> => Cardinality(DistinctVoices(g)) = 0)
<1>1. Len(g) \in Nat /\ 1 \in Int /\ Len(g) \in Int /\ DOMAIN g = 1..Len(g)
  OBVIOUS
<1>2. IsFiniteSet(DOMAIN g)
  BY <1>1, FS_Interval
<1>3. IsFiniteSet({g[i].voice_id : i \in DOMAIN g})
  <2>1. PICK F : F = [i \in DOMAIN g |-> g[i].voice_id]
    OBVIOUS
  <2>2. F \in [DOMAIN g -> {F[i] : i \in DOMAIN g}]
    BY <2>1
  <2>3. {F[i] : i \in DOMAIN g} = {g[i].voice_id : i \in DOMAIN g}
    BY <2>1
  <2>4. F \in Surjection(DOMAIN g, {F[i] : i \in DOMAIN g})
    BY <2>2 DEF Surjection
  <2> QED
    BY <1>2, <2>3, <2>4, FS_Surjection
<1>4. DistinctVoices(g) = {g[i].voice_id : i \in DOMAIN g}
  BY DEF DistinctVoices
<1>5. ASSUME g = <<>> PROVE DistinctVoices(g) = {}
  BY <1>4, <1>5
<1> QED
  BY <1>3, <1>4, <1>5, FS_CardinalityType, FS_EmptySet

LEMMA VoicesPlaced ==
    ASSUME NEW X, NEW g \in Seq(X), NEW at, NEW there, Placed(g, history, at, there)
    PROVE  DistinctVoices(g) = VoicesAt(at)
<1>1. DOMAIN g = 1..Len(g)
  OBVIOUS
<1>2. \A k \in 1..Len(g) : there[k] \in at /\ g[k] = history[there[k]]
  BY DEF Placed
<1>3. \A i \in at : \E k \in 1..Len(g) : there[k] = i
  BY DEF Placed
<1>4. DistinctVoices(g) \subseteq VoicesAt(at)
  BY <1>1, <1>2 DEF DistinctVoices, VoicesAt
<1>5. VoicesAt(at) \subseteq DistinctVoices(g)
  BY <1>1, <1>2, <1>3 DEF DistinctVoices, VoicesAt
<1> QED
  BY <1>4, <1>5

\* Where the voices are.
VoicePlaces ==
    {i \in Kept(VoiceWindow) :
        /\ history[i].provider = "elevenlabs"
        /\ history[i].method \in {"text_to_speech.convert", "text_to_speech.stream",
                                 "text_to_speech.convert_as_stream"}
        /\ history[i].text_hash # None /\ history[i].voice_id # None}

LEMMA VoicesMatch ==
    ASSUME BufferInv, history # <<>>,
           NEW T, T = {p \in 1..Len(buffer) : IsSpeech(buffer, buffer[p])}
    PROVE  Matching(T, VoicePlaces)
<1>1. \A p \in 1..Len(buffer) : p \in T <=> Dropped + p \in VoicePlaces
  BY WindowPlaces DEF IsSpeech, SpeechMethods, VoicePlaces
<1>2. VoicePlaces \subseteq {i \in 1..Len(history) : i > Dropped}
  BY WindowPlaces DEF VoicePlaces
<1> QED
  BY <1>1, <1>2 DEF Matching

\* What voice_switching_loop says of one text.
VoiceReport(t, h) ==
    LET n == Cardinality(DistinctVoices(With(t, "text_hash", h)))
    IN  IF n < MinVoices THEN None
        ELSE Leak("voice_switching_loop", h, Len(With(t, "text_hash", h)),
                  SmallerOf(70 + 5 * (n - MinVoices), 90), WastedChars(With(t, "text_hash", h)))

LEMMA VoiceLoopIs ==
    ASSUME NEW t, t = Where(buffer, LAMBDA c : IsSpeech(buffer, c)), NEW K, NEW keys \in Seq(K),
           keys = FirstSeen(KeysIn(t, "text_hash")),
           NEW R, R = [h \in K |-> VoiceReport(t, h)]
    PROVE  VoiceSwitchingLoop(buffer) = FirstHit(keys, R)
<1> DEFINE hits == {k \in 1..Len(keys) : VoiceReport(t, keys[k]) # None}
           hit == HitOf(hits)
<1>1. VoiceSwitchingLoop(buffer) = IF hit = 0 THEN None ELSE VoiceReport(t, keys[hit])
  <2>1. VoiceSwitchingLoop(buffer) = FirstReported(FirstSeen(MapSeq(t, LAMBDA c : c.text_hash)),
                                                   LAMBDA h : VoiceReport(t, h))
    BY DEF VoiceSwitchingLoop, VoiceReport, With
  <2> QED
    BY <2>1 DEF HitOf, FirstReported, SelectInSeq, KeysIn
<1>2. \A k \in 1..Len(keys) : R[keys[k]] = VoiceReport(t, keys[k])
  OBVIOUS
<1>3. hits = HitsOf(keys, R)
  BY <1>2 DEF HitsOf
<1> HIDE DEF hits
<1>4. /\ FirstHit(keys, R) = IF hit = 0 THEN None ELSE R[keys[hit]]
      /\ hit = 0 \/ hit \in 1..Len(keys)
  BY <1>3, HitIs
<1> QED
  BY <1>1, <1>2, <1>4

\* The text reported is the first one with so many voices.
LEMMA VoicesReported ==
    ASSUME BufferInv, history # <<>>
    PROVE  ReportsTheFirst(VoiceSwitchingLoop(buffer), VoicePlaces,
                           LAMBDA c : c.text_hash,
                           LAMBDA p : Cardinality({history[i].voice_id : i \in p}), MinVoices)
<1> DEFINE f == "text_hash"
<1>1. PICK at : at = VoicePlaces
  OBVIOUS
<1>2. PICK t : t = Where(buffer, LAMBDA c : IsSpeech(buffer, c))
  OBVIOUS
<1>3. PICK T : T = {p \in 1..Len(buffer) : IsSpeech(buffer, buffer[p])}
  OBVIOUS
<1>4. Matching(T, at) /\ t = Picked(buffer, T)
  <2>1. DOMAIN buffer = 1..Len(buffer)
    BY BufferPlaced
  <2>2. t = Picked(buffer, T)
    BY <1>2, <1>3, <2>1 DEF Where
  <2> QED
    BY <1>1, <1>3, <2>2, VoicesMatch
<1>5. t \in Seq(Range(buffer)) /\ at \in SUBSET Nat /\ \E pos : Placed(t, history, at, pos)
  BY <1>4, SelectionPlaced
<1>6. PICK pos : Placed(t, history, at, pos)
  BY <1>5
<1>7. PICK G : G = KeyAt(history, at, f)
  OBVIOUS
<1>8. PICK K : K = GroupsIn(history, at, f)
  OBVIOUS
<1>9. CallsInv /\ f \in Fields
  BY DEF BufferInv, Fields
<1>10. FirstSeen(KeysIn(t, f)) \in Seq(K)
  BY <1>5, <1>6, <1>8, GroupedBy
<1>a. \A h : /\ With(t, f, h) \in Seq(Range(buffer))
             /\ Len(With(t, f, h)) = Cardinality(GroupAt(at, G, h))
  <2>1. GroupsPlaced(Range(buffer), t, history, at, f)
    BY <1>5, <1>6, GroupedBy
  <2> QED
    BY <1>7, <2>1 DEF GroupsPlaced
<1>b. \A h : \E there : Placed(With(t, f, h), history, GroupAt(at, G, h), there)
  <2>1. GroupsPlaced(Range(buffer), t, history, at, f)
    BY <1>5, <1>6, GroupedBy
  <2> QED
    BY <1>7, <2>1 DEF GroupsPlaced
<1>11. PICK R : R = [h \in K |-> VoiceReport(t, h)]
  OBVIOUS
<1>12. VoiceSwitchingLoop(buffer) = FirstHit(FirstSeen(KeysIn(t, f)), R)
  BY <1>2, <1>10, <1>11, VoiceLoopIs
<1>14. K \subseteq Subjects
  BY <1>5, <1>6, <1>8, <1>9, FirstOfGroups
<1>15. SaysOf(R, at, G, VoicesOf(at), MinVoices)
  <2>1. ASSUME NEW h \in K
        PROVE  /\ R[h] # None <=> VoicesOf(at)[h] >= MinVoices
               /\ R[h] # None => R[h].subject = h /\ R[h].count = Cardinality(GroupAt(at, G, h))
    <3>1. PICK g \in Seq(Range(buffer)) : g = With(t, f, h)
      BY <1>a
    <3>2. PICK n \in Nat : n = Len(g) /\ n = Cardinality(GroupAt(at, G, h))
      BY <1>a, <3>1
    <3>a. DistinctVoices(g) = VoicesAt(GroupAt(at, G, h))
      <4>1. PICK there : Placed(With(t, f, h), history, GroupAt(at, G, h), there)
        BY <1>b
      <4>2. Placed(g, history, GroupAt(at, G, h), there)
        BY <3>1, <4>1
      <4> QED
        BY <3>1, <4>2, VoicesPlaced
    <3>b. PICK m \in Nat : m = Cardinality(DistinctVoices(g))
      BY <3>1, VoicesFinite
    <3>c. m = VoicesOf(at)[h]
      BY <1>7, <1>8, <3>a, <3>b DEF VoicesOf
    <3>3. PICK v \in Int : v = SmallerOf(70 + 5 * (m - MinVoices), 90)
      <4>1. PICK low \in Nat : low = MinVoices
        BY RepetitionAssumption
      <4>2. PICK sure \in Int : sure = 70 + 5 * (m - low)
        OBVIOUS
      <4>3. SmallerOf(sure, 90) \in Int
        BY DEF SmallerOf
      <4> QED
        BY <4>1, <4>2, <4>3
    <3>4. R[h] = IF m < MinVoices THEN None
                 ELSE Leak("voice_switching_loop", h, n, v, WastedChars(g))
      BY <1>11, <3>1, <3>2, <3>3, <3>b DEF VoiceReport
    <3>5. ASSUME m # 0 PROVE Leak("voice_switching_loop", h, n, v, WastedChars(g)) # None
      <4>1. g # <<>>
        BY <3>1, <3>5, <3>b, VoicesFinite
      <4>2. Tail(g) \in Seq(Range(buffer))
        BY <4>1
      <4>3. PICK w \in Nat : w = WastedChars(g)
        BY <1>9, <4>2, CallsCount DEF WastedChars, Repeats
      <4> QED
        BY <1>14, <4>3, ReportIsSome DEF EventTypes
    <3>6. MinVoices \in Nat \ {0}
      BY RepetitionAssumption
    <3>7. /\ Leak("voice_switching_loop", h, n, v, WastedChars(g)).subject = h
          /\ Leak("voice_switching_loop", h, n, v, WastedChars(g)).count = n
      BY DEF Leak
    <3>8. CASE m = 0
      BY <3>4, <3>6, <3>8, <3>c
    <3>9. CASE m # 0
      BY <3>2, <3>4, <3>5, <3>6, <3>7, <3>9, <3>c
    <3> QED
      BY <3>8, <3>9
  <2> QED
    BY <1>7, <1>8, <2>1 DEF SaysOf, GroupsIn
<1>16. TheFirst(VoiceSwitchingLoop(buffer), at, G, VoicesOf(at), MinVoices)
  BY <1>5, <1>6, <1>7, <1>9, <1>12, <1>15, FirstOfGroups
<1> QED
  BY <1>1, <1>7, <1>16, FirstText

(***************************************************************************)
(* embedding_waste                                                         *)
(***************************************************************************)
\* v has the numbers of u at the positions pos, and nothing elsewhere.
Scattered(u, v, pos, m, n) ==
    /\ pos \in [1..m -> 1..n]
    /\ \A k, l \in 1..m : k < l => pos[k] < pos[l]
    /\ \A k \in 1..m : v[pos[k]] = u[k]
    /\ \A i \in 1..n : (\A k \in 1..m : pos[k] # i) => v[i] = 0

\* The sum of the first i, if k of them are something.
Reached(pos, m, i, k) == (k = 0 \/ pos[k] <= i) /\ (k = m \/ i < pos[k + 1])

LEMMA SumScattered ==
    ASSUME NEW u \in Seq(Nat), NEW v \in Seq(Nat), NEW pos,
           Scattered(u, v, pos, Len(u), Len(v))
    PROVE  SumSeq(u) = SumSeq(v)
<1>1. PICK m \in Nat, n \in Nat : m = Len(u) /\ n = Len(v)
  OBVIOUS
<1>2. PICK W, Q : W = Sums(u) /\ Q = Sums(v)
  OBVIOUS
<1>3. IsSums(W, u, m) /\ IsSums(Q, v, n)
  BY <1>1, <1>2, SumsAre
<1>4. Scattered(u, v, pos, m, n)
  BY <1>1
<1>5. /\ \A k \in 1..m : pos[k] \in 1..n /\ v[pos[k]] = u[k]
      /\ \A k, l \in 1..m : k < l => pos[k] < pos[l]
      /\ \A i \in 1..n : (\A k \in 1..m : pos[k] # i) => v[i] = 0
  BY <1>4 DEF Scattered
<1> DEFINE H == {i \in 0..n : \A k \in 0..m : Reached(pos, m, i, k) => Q[i] = W[k]}
<1>6. 0 \in H
  <2>1. ASSUME NEW k \in 0..m, Reached(pos, m, 0, k) PROVE Q[0] = W[k]
    <3>1. CASE k = 0
      BY <1>3, <3>1 DEF IsSums
    <3>2. CASE k # 0
      <4>1. k \in 1..m
        BY <3>2
      <4>2. PICK p \in 1..n : p = pos[k]
        BY <1>5, <4>1
      <4>3. ~(p <= 0)
        BY <4>2
      <4> QED
        BY <2>1, <3>2, <4>2, <4>3 DEF Reached
    <3> QED
      BY <3>1, <3>2
  <2> QED
    BY <1>1, <2>1
<1>7. ASSUME NEW i \in 1..n, i - 1 \in H PROVE i \in H
  <2>1. ASSUME NEW k \in 0..m, Reached(pos, m, i, k) PROVE Q[i] = W[k]
    <3>1. Q[i] = Q[i - 1] + v[i] /\ Q[i - 1] \in Nat /\ i - 1 \in 0..n /\ i \in Int
      <4>1. i - 1 \in 0..n
        OBVIOUS
      <4> QED
        BY <1>3, <4>1 DEF IsSums
    <3>2. CASE k # 0 /\ pos[k] = i
      <4>1. k \in 1..m /\ k - 1 \in 0..m
        BY <3>2
      <4>2. W[k] = W[k - 1] + u[k]
        BY <1>3, <4>1 DEF IsSums
      <4>3. v[i] = u[k]
        BY <1>5, <3>2, <4>1
      <4>4. k - 1 = 0 \/ pos[k - 1] <= i - 1
        <5>1. CASE k - 1 = 0
          BY <5>1
        <5>2. CASE k - 1 # 0
          <6>1. k - 1 \in 1..m /\ k - 1 < k
            BY <4>1, <5>2
          <6>2. PICK l \in 1..m : l = k - 1 /\ l < k
            BY <6>1
          <6>3. PICK p \in 1..n : p = pos[l]
            BY <1>5
          <6>4. pos[l] < pos[k]
            BY <1>5, <4>1, <6>2
          <6>5. p < i
            BY <3>2, <6>3, <6>4
          <6>6. p <= i - 1
            BY <6>5
          <6> QED
            BY <6>2, <6>3, <6>6
        <5> QED
          BY <5>1, <5>2
      <4>5. Reached(pos, m, i - 1, k - 1)
        <5>1. k - 1 + 1 = k /\ i - 1 < i
          BY <4>1
        <5> QED
          BY <3>2, <4>4, <5>1 DEF Reached
      <4>6. Q[i - 1] = W[k - 1]
        BY <1>7, <4>1, <4>5
      <4> QED
        BY <3>1, <4>2, <4>3, <4>6
    <3>3. CASE ~(k # 0 /\ pos[k] = i)
      <4>1. k = 0 \/ (k \in 1..m /\ pos[k] < i)
        <5>1. CASE k = 0
          BY <5>1
        <5>2. CASE k # 0
          <6>1. k \in 1..m
            BY <5>2
          <6>2. PICK p \in Int : p = pos[k]
            BY <1>5, <6>1
          <6>3. p <= i /\ p # i
            BY <2>1, <3>3, <5>2, <6>2 DEF Reached
          <6> QED
            BY <6>1, <6>2, <6>3
        <5> QED
          BY <5>1, <5>2
      <4>2. Reached(pos, m, i - 1, k)
        <5>1. k = 0 \/ pos[k] <= i - 1
          <6>1. CASE k = 0
            BY <6>1
          <6>2. CASE k # 0
            <7>1. PICK p \in Int : p = pos[k] /\ p < i
              BY <1>5, <4>1, <6>2
            <7> QED
              BY <7>1
          <6> QED
            BY <6>1, <6>2
        <5>2. k = m \/ i - 1 < pos[k + 1]
          <6>1. CASE k = m
            BY <6>1
          <6>2. CASE k # m
            <7>1. k + 1 \in 1..m
              BY <1>1, <6>2
            <7>2. PICK p \in Int : p = pos[k + 1]
              BY <1>5, <7>1
            <7>3. i < p
              BY <2>1, <6>2, <7>2 DEF Reached
            <7> QED
              BY <7>2, <7>3
          <6> QED
            BY <6>1, <6>2
        <5> QED
          BY <5>1, <5>2 DEF Reached
      <4>3. ASSUME NEW l \in 1..m, pos[l] = i PROVE FALSE
        <5>1. CASE l <= k
          <6>1. k \in 1..m /\ k # 0
            BY <5>1
          <6>2. pos[k] < i
            BY <4>1, <6>1
          <6>3. l # k
            BY <4>3, <3>3, <6>1
          <6>4. l < k
            BY <5>1, <6>1, <6>3
          <6>5. pos[l] < pos[k]
            BY <1>5, <6>1, <6>4
          <6>6. PICK p \in Int : p = pos[k]
            BY <1>5, <6>1
          <6> QED
            BY <4>3, <6>2, <6>5, <6>6
        <5>2. CASE ~(l <= k)
          <6>1. k + 1 \in 1..m /\ k # m /\ (l = k + 1 \/ k + 1 < l)
            BY <5>2
          <6>2. PICK p \in Int : p = pos[k + 1]
            BY <1>5, <6>1
          <6>3. i < p
            BY <2>1, <6>1, <6>2 DEF Reached
          <6>4. CASE l = k + 1
            BY <4>3, <6>2, <6>3, <6>4
          <6>5. CASE k + 1 < l
            <7>1. pos[k + 1] < pos[l]
              BY <1>5, <6>1, <6>5
            <7> QED
              BY <4>3, <6>2, <6>3, <7>1
          <6> QED
            BY <6>1, <6>4, <6>5
        <5> QED
          BY <5>1, <5>2
      <4>4. v[i] = 0
        BY <1>5, <4>3
      <4>5. Q[i - 1] = W[k]
        BY <1>7, <4>2
      <4> QED
        BY <3>1, <4>4, <4>5
    <3> QED
      BY <3>2, <3>3
  <2>2. i \in 0..n
    OBVIOUS
  <2> QED
    BY <2>1, <2>2
<1>8. 0..n \subseteq H
  <2>1. H \in SUBSET Nat
    BY <1>1
  <2> HIDE DEF H
  <2> QED
    BY <1>1, <1>6, <1>7, <2>1, StepByStep
<1>9. Reached(pos, m, n, m)
  <2>1. CASE m = 0
    BY <2>1 DEF Reached
  <2>2. CASE m # 0
    <3>1. m \in 1..m
      BY <1>1, <2>2
    <3>2. PICK p \in 1..n : p = pos[m]
      BY <1>5, <3>1
    <3>3. p <= n
      BY <1>1
    <3> QED
      BY <3>2, <3>3 DEF Reached
  <2> QED
    BY <2>1, <2>2
<1>10. Q[n] = W[m]
  <2>1. n \in H /\ m \in 0..m
    BY <1>1, <1>8
  <2> QED
    BY <1>9, <2>1
<1>11. W[m] = SumSeq(u) /\ Q[n] = SumSeq(v)
  BY <1>1, <1>2 DEF Sums, SumSeq
<1> QED
  BY <1>10, <1>11

\* The embeddings in the buffer, and those that a cache would have answered.
Embeds ==
    Where(buffer, LAMBDA c : c.method \in {"embeddings.create", "embed"} /\ c.input # None)
EmbedPlaces ==
    {i \in DOMAIN buffer :
        /\ buffer[i].method \in {"embeddings.create", "embed"}
        /\ buffer[i].input # None}
EmbedHits ==
    {i \in EmbedPlaces : \E j \in EmbedPlaces : j < i /\ buffer[j].input = buffer[i].input}
SavedOn(x) ==
    [i \in DOMAIN buffer |->
        IF i \in EmbedHits /\ buffer[i].input = x THEN buffer[i].prompt_tokens ELSE 0]

LEMMA EmbedsPlaced ==
    ASSUME BufferInv
    PROVE  /\ Embeds \in Seq(Range(buffer)) /\ EmbedPlaces \in SUBSET Nat
           /\ \E pos : Placed(Embeds, buffer, EmbedPlaces, pos)
<1>1. buffer \in Seq(Range(buffer)) /\ Len(buffer) \in Nat
  BY BufferPlaced
<1>2. PICK X : X = Range(buffer)
  OBVIOUS
<1>3. DOMAIN buffer = 1..Len(buffer) /\ buffer \in Seq(X)
  BY <1>1, <1>2
<1>4. PICK T : T = EmbedPlaces
  OBVIOUS
<1>5. Embeds = Picked(buffer, T)
  BY <1>4 DEF Where, EmbedPlaces, Embeds
<1>6. T \in SUBSET (1..Len(buffer))
  BY <1>3, <1>4 DEF EmbedPlaces
<1>7. Placed(buffer, buffer, 1..Len(buffer), [k \in 1..Len(buffer) |-> k])
  BY <1>3, PlacedItself
<1>8. Selects(T, T, [k \in 1..Len(buffer) |-> k], Len(buffer))
  BY DEF Selects
<1>9. 1..Len(buffer) \in SUBSET Nat
  BY <1>1
<1>10. Picked(buffer, T) \in Seq(X) /\ \E pos : Placed(Picked(buffer, T), buffer, T, pos)
  BY <1>3, <1>6, <1>7, <1>8, <1>9, PlacedPicked
<1> QED
  BY <1>2, <1>4, <1>5, <1>6, <1>9, <1>10

\* An input that came twice was answered by the cache, and what the cache saved
\* is what all but the first of its calls took.
LEMMA SavedOnInput ==
    ASSUME BufferInv, NEW g \in Seq(Range(buffer)), NEW x, NEW at,
           at = {i \in EmbedPlaces : buffer[i].input = x},
           NEW there, Placed(g, buffer, at, there)
    PROVE  /\ Len(g) >= 2 <=> \E i \in EmbedHits : buffer[i].input = x
           /\ Len(g) >= 2 => SumOver(Tail(g), LAMBDA c : c.prompt_tokens) = SumSeq(SavedOn(x))
<1>1. PICK n \in Nat, m \in Nat : n = Len(buffer) /\ m = Len(g)
  BY BufferPlaced
<1>2. /\ \A k \in 1..m : there[k] \in at /\ g[k] = buffer[there[k]]
      /\ \A i \in at : \E k \in 1..m : there[k] = i
      /\ \A k, l \in 1..m : k < l => there[k] < there[l]
  BY <1>1 DEF Placed
<1>3. DOMAIN buffer = 1..n
  <2>1. buffer \in Seq(Range(buffer))
    BY BufferPlaced
  <2> QED
    BY <1>1, <2>1
<1>4. at \subseteq 1..n /\ \A i \in at : i \in EmbedPlaces /\ buffer[i].input = x
  BY <1>3 DEF EmbedPlaces
<1>5. \A i : i \in EmbedHits /\ buffer[i].input = x <=> i \in at /\ \E j \in at : j < i
  BY DEF EmbedHits
<1>6. \A k, l \in 1..m : there[k] < there[l] => k < l
  <2>1. ASSUME NEW k \in 1..m, NEW l \in 1..m, there[k] < there[l], ~(k < l) PROVE FALSE
    <3>1. PICK a \in 1..n, b \in 1..n : a = there[k] /\ b = there[l]
      BY <1>2, <1>4
    <3>2. k = l \/ l < k
      BY <2>1
    <3>3. CASE k = l
      BY <2>1, <3>1, <3>3
    <3>4. CASE l < k
      <4>1. there[l] < there[k]
        BY <1>2, <3>4
      <4> QED
        BY <2>1, <3>1, <4>1
    <3> QED
      BY <3>2, <3>3, <3>4
  <2> QED
    BY <2>1
<1>7. ASSUME NEW k \in 1..m
      PROVE  there[k] \in EmbedHits /\ buffer[there[k]].input = x <=> k # 1
  <2>1. CASE k = 1
    <3>1. ASSUME NEW j \in at, j < there[k] PROVE FALSE
      <4>1. PICK l \in 1..m : there[l] = j
        BY <1>2
      <4>2. l < k
        BY <1>6, <3>1, <4>1
      <4> QED
        BY <2>1, <4>2
    <3> QED
      BY <1>5, <2>1, <3>1
  <2>2. CASE k # 1
    <3>1. 1 \in 1..m /\ 1 < k
      BY <2>2
    <3>2. there[1] \in at /\ there[1] < there[k]
      BY <1>2, <3>1
    <3> QED
      BY <1>2, <1>5, <2>2, <3>2
  <2> QED
    BY <2>1, <2>2
<1>8. m >= 2 <=> \E i \in EmbedHits : buffer[i].input = x
  <2>1. ASSUME m >= 2 PROVE \E i \in EmbedHits : buffer[i].input = x
    <3>1. 2 \in 1..m /\ 2 # 1
      BY <2>1
    <3> QED
      BY <1>7, <3>1
  <2>2. ASSUME NEW i \in EmbedHits, buffer[i].input = x PROVE m >= 2
    <3>1. i \in at
      BY <1>5, <2>2
    <3>2. PICK k \in 1..m : there[k] = i
      BY <1>2, <3>1
    <3>3. k # 1
      BY <1>7, <2>2, <3>2
    <3> QED
      BY <3>3
  <2> QED
    BY <2>1, <2>2
<1>9. ASSUME m >= 2
      PROVE  SumOver(Tail(g), LAMBDA c : c.prompt_tokens) = SumSeq(SavedOn(x))
  <2>1. g # <<>> /\ Tail(g) \in Seq(Range(buffer)) /\ Len(Tail(g)) = m - 1
        /\ \A k \in 1..m - 1 : Tail(g)[k] = g[k + 1]
    BY <1>1, <1>9
  <2>2. PICK h \in Nat : h = m - 1
    BY <1>9
  <2>3. PICK u : u = [k \in 1..h |-> buffer[there[k + 1]].prompt_tokens]
    OBVIOUS
  <2>4. PICK v : v = SavedOn(x)
    OBVIOUS
  <2>5. \A i \in 1..n : buffer[i].prompt_tokens \in Nat
    <3>1. \A i \in 1..n : IsCall(buffer[i])
      BY <1>3 DEF BufferInv, CallsInv, Range
    <3> QED
      BY <3>1 DEF IsCall, IsRequest
  <2>6. \A k \in 1..h : k + 1 \in 1..m /\ k + 1 # 1
    BY <2>2
  <2>7. \A k \in 1..h : there[k + 1] \in 1..n /\ g[k + 1] = buffer[there[k + 1]]
    BY <1>2, <1>4, <2>6
  <2>8. MapSeq(Tail(g), LAMBDA c : c.prompt_tokens) = u
    <3>1. DOMAIN Tail(g) = 1..h
      BY <2>1, <2>2
    <3>2. \A k \in 1..h : Tail(g)[k].prompt_tokens = u[k]
      BY <2>1, <2>2, <2>3, <2>7
    <3> QED
      BY <2>3, <3>1, <3>2 DEF MapSeq
  <2>9. u \in Seq(Nat) /\ Len(u) = h
    <3>1. u \in [1..h -> Nat]
      BY <2>3, <2>5, <2>7
    <3> QED
      BY <3>1
  <2>10. v \in Seq(Nat) /\ Len(v) = n
    <3>1. v \in [1..n -> Nat]
      BY <1>3, <2>4, <2>5 DEF SavedOn
    <3> QED
      BY <3>1
  <2>11. PICK pos : pos = [k \in 1..h |-> there[k + 1]]
    OBVIOUS
  <2>12. pos \in [1..h -> 1..n]
    BY <2>7, <2>11
  <2>13. ASSUME NEW k \in 1..h, NEW l \in 1..h, k < l PROVE pos[k] < pos[l]
    <3>1. k + 1 < l + 1
      BY <2>13
    <3> QED
      BY <1>2, <2>6, <2>11, <3>1
  <2>14. ASSUME NEW k \in 1..h PROVE v[pos[k]] = u[k]
    <3>1. there[k + 1] \in EmbedHits /\ buffer[there[k + 1]].input = x
      BY <1>7, <2>6
    <3>2. there[k + 1] \in DOMAIN buffer
      BY <1>3, <2>7
    <3> QED
      BY <2>3, <2>4, <2>11, <3>1, <3>2 DEF SavedOn
  <2>15. ASSUME NEW i \in 1..n, \A k \in 1..h : pos[k] # i PROVE v[i] = 0
    <3>1. ASSUME i \in EmbedHits, buffer[i].input = x PROVE FALSE
      <4>1. i \in at
        BY <1>5, <3>1
      <4>2. PICK k \in 1..m : there[k] = i
        BY <1>2, <4>1
      <4>3. k # 1
        BY <1>7, <3>1, <4>2
      <4>4. PICK l \in 1..h : l + 1 = k
        <5>1. k - 1 \in 1..h /\ k - 1 + 1 = k
          BY <2>2, <4>3
        <5> QED
          BY <5>1
      <4>5. pos[l] = i
        BY <2>11, <4>2, <4>4
      <4> QED
        BY <2>15, <4>5
    <3> QED
      BY <1>3, <2>4, <3>1 DEF SavedOn
  <2>16. Scattered(u, v, pos, Len(u), Len(v))
    BY <2>9, <2>10, <2>12, <2>13, <2>14, <2>15 DEF Scattered
  <2>17. SumSeq(u) = SumSeq(v)
    BY <2>9, <2>10, <2>16, SumScattered
  <2> QED
    BY <2>4, <2>8, <2>17 DEF SumOver
<1> QED
  BY <1>1, <1>8, <1>9

\* What embedding_waste says of one input.
WasteReport(t, x) ==
    LET n == Len(With(t, "input", x))
    IN  IF n < 2 THEN None
        ELSE Leak("embedding_waste", x, n, 99,
                  SumOver(Repeats(With(t, "input", x)), LAMBDA c : c.prompt_tokens))

LEMMA WasteIs ==
    ASSUME NEW t, t = Embeds, NEW K, NEW keys \in Seq(K), keys = FirstSeen(KeysIn(t, "input")),
           NEW R, R = [h \in K |-> WasteReport(t, h)]
    PROVE  EmbeddingWaste(buffer) = FirstHit(keys, R)
<1> DEFINE hits == {k \in 1..Len(keys) : WasteReport(t, keys[k]) # None}
           hit == HitOf(hits)
<1>1. EmbeddingWaste(buffer) = IF hit = 0 THEN None ELSE WasteReport(t, keys[hit])
  <2>1. EmbeddingWaste(buffer) = FirstReported(FirstSeen(MapSeq(Embeds, LAMBDA c : c.input)),
                                               LAMBDA x : WasteReport(Embeds, x))
    BY DEF EmbeddingWaste, Embeds, WasteReport, With
  <2> QED
    BY <2>1 DEF HitOf, FirstReported, SelectInSeq, KeysIn
<1>2. \A k \in 1..Len(keys) : R[keys[k]] = WasteReport(t, keys[k])
  OBVIOUS
<1>3. hits = HitsOf(keys, R)
  BY <1>2 DEF HitsOf
<1> HIDE DEF hits
<1>4. /\ FirstHit(keys, R) = IF hit = 0 THEN None ELSE R[keys[hit]]
      /\ hit = 0 \/ hit \in 1..Len(keys)
  BY <1>3, HitIs
<1> QED
  BY <1>1, <1>2, <1>4

\* The waste reported is what the cache would have saved on that input.
LEMMA WasteReported ==
    ASSUME BufferInv
    PROVE  WasteIsWhatACacheSaves
<1> DEFINE f == "input"
           event == EmbeddingWaste(buffer)
<1>1. PICK at : at = EmbedPlaces
  OBVIOUS
<1>2. PICK t : t = Embeds
  OBVIOUS
<1>3. t \in Seq(Range(buffer)) /\ at \in SUBSET Nat /\ \E pos : Placed(t, buffer, at, pos)
  BY <1>1, <1>2, EmbedsPlaced
<1>4. PICK pos : Placed(t, buffer, at, pos)
  BY <1>3
<1>5. PICK K : K = GroupsIn(buffer, at, f)
  OBVIOUS
<1>6. PICK ks : ks = KeysIn(t, f)
  OBVIOUS
<1>7. CallsInv /\ f \in Fields
  BY DEF BufferInv, Fields
<1>8. ks \in Seq(K) /\ FirstSeen(ks) \in Seq(K)
  BY <1>3, <1>4, <1>5, <1>6, GroupedBy
<1>9. KeysOf(ks, KeyAt(buffer, at, f), pos, Len(t))
  BY <1>3, <1>4, <1>6, GroupedBy
<1>10. GroupsPlaced(Range(buffer), t, buffer, at, f)
  BY <1>3, <1>4, GroupedBy
<1>11. K \subseteq Subjects
  BY <1>3, <1>4, <1>5, <1>7, FirstOfGroups
<1>12. PICK R : R = [h \in K |-> WasteReport(t, h)]
  OBVIOUS
<1>13. event = FirstHit(FirstSeen(ks), R)
  BY <1>2, <1>6, <1>8, <1>12, WasteIs
<1> HIDE DEF event
<1>14. ASSUME NEW x \in K
       PROVE  /\ R[x] # None <=> \E i \in EmbedHits : buffer[i].input = x
              /\ R[x] # None => R[x].subject = x /\ R[x].wasted = SumSeq(SavedOn(x))
  <2>1. PICK g \in Seq(Range(buffer)) : g = With(t, f, x)
    BY <1>10 DEF GroupsPlaced
  <2>2. PICK here : here = GroupAt(at, KeyAt(buffer, at, f), x)
    OBVIOUS
  <2>3. here = {i \in EmbedPlaces : buffer[i].input = x}
    BY <1>1, <2>2 DEF GroupAt, KeyAt
  <2>4. PICK there : Placed(g, buffer, here, there)
    BY <1>10, <2>1, <2>2 DEF GroupsPlaced
  <2>5. /\ Len(g) >= 2 <=> \E i \in EmbedHits : buffer[i].input = x
        /\ Len(g) >= 2 => SumOver(Tail(g), LAMBDA c : c.prompt_tokens) = SumSeq(SavedOn(x))
    BY <2>1, <2>3, <2>4, SavedOnInput
  <2>6. PICK n \in Nat : n = Len(g)
    BY <2>1
  <2>7. PICK w : w = SumOver(Tail(g), LAMBDA c : c.prompt_tokens)
    OBVIOUS
  <2>8. R[x] = IF n < 2 THEN None ELSE Leak("embedding_waste", x, n, 99, w)
    BY <1>12, <2>1, <2>6, <2>7 DEF WasteReport, Repeats
  <2>9. ASSUME n >= 2 PROVE Leak("embedding_waste", x, n, 99, w) # None
    <3>1. g # <<>> /\ Tail(g) \in Seq(Range(buffer))
      BY <2>1, <2>6, <2>9
    <3>2. w \in Nat
      BY <1>7, <2>7, <3>1, CallsCount
    <3> QED
      BY <1>11, <3>2, ReportIsSome DEF EventTypes
  <2>10. /\ Leak("embedding_waste", x, n, 99, w).subject = x
         /\ Leak("embedding_waste", x, n, 99, w).wasted = w
    BY DEF Leak
  <2>11. CASE n >= 2
    BY <2>5, <2>6, <2>7, <2>8, <2>9, <2>10, <2>11
  <2>12. CASE ~(n >= 2)
    BY <2>5, <2>6, <2>8, <2>12
  <2> QED
    BY <2>11, <2>12
<1>15. \A k \in 1..Len(ks) : ks[k] \in K
  BY <1>8
<1>16. \A i \in at : \E k \in 1..Len(ks) : ks[k] = buffer[i].input
  <2>1. ASSUME NEW i \in at PROVE \E k \in 1..Len(ks) : ks[k] = buffer[i].input
    <3>1. PICK k \in 1..Len(t) : pos[k] = i
      BY <1>4 DEF Placed
    <3>2. ks[k] = KeyAt(buffer, at, f)[i] /\ Len(ks) = Len(t)
      BY <1>9, <3>1 DEF KeysOf
    <3>3. KeyAt(buffer, at, f)[i] = buffer[i].input
      BY DEF KeyAt
    <3> QED
      BY <3>1, <3>2, <3>3
  <2> QED
    BY <2>1
<1>17. PICK some : some = {i \in 1..Len(ks) : R[ks[i]] # None}
  OBVIOUS
<1>18. IF some = {} THEN event = None
       ELSE \E i \in some : event = R[ks[i]] /\ \A j \in some : i <= j
  <2>1. LET found == {i \in 1..Len(ks) : R[ks[i]] # None}
        IN  IF found = {} THEN FirstHit(FirstSeen(ks), R) = None
            ELSE \E i \in found : /\ FirstHit(FirstSeen(ks), R) = R[ks[i]]
                                  /\ \A j \in found : i <= j
    BY <1>8, FirstHitIs
  <2> QED
    BY <1>13, <1>17, <2>1
<1>19. CASE EmbedHits = {}
  <2>1. some = {}
    BY <1>14, <1>15, <1>17, <1>19
  <2> QED
    BY <1>18, <1>19, <2>1 DEF WasteIsWhatACacheSaves, event, EmbedHits, EmbedPlaces
<1>20. CASE EmbedHits # {}
  <2>1. PICK i \in EmbedHits : TRUE
    BY <1>20
  <2>2. PICK k \in 1..Len(ks) : ks[k] = buffer[i].input
    BY <1>1, <1>16, <2>1 DEF EmbedHits
  <2>3. k \in some
    BY <1>14, <1>15, <1>17, <2>1, <2>2
  <2>4. PICK j \in some : event = R[ks[j]]
    BY <1>18, <2>3
  <2>5. ks[j] \in K /\ R[ks[j]] # None
    BY <1>15, <1>17
  <2>6. event # None /\ event.wasted = SumSeq(SavedOn(event.subject))
    BY <1>14, <2>4, <2>5
  <2> QED
    BY <1>20, <2>6 DEF WasteIsWhatACacheSaves, event, EmbedHits, EmbedPlaces, SavedOn
<1> QED
  BY <1>19, <1>20

(***************************************************************************)
(* zombie                                                                  *)
(***************************************************************************)
\* Where the session answered its user, in the buffer.
Answers == {p \in 1..Len(buffer) : buffer[p].user_facing_output}

LEMMA AnchorIs ==
    ASSUME BufferInv, buffer # <<>>
    PROVE  IF Answers = {} THEN Anchor(buffer) = buffer[1]
           ELSE \E p \in Answers : Anchor(buffer) = buffer[p] /\ \A q \in Answers : q <= p
<1>1. PICK n \in Nat : n = Len(buffer)
  BY BufferPlaced
<1>2. buffer \in Seq(Range(buffer))
  BY BufferPlaced
<1>3. DOMAIN buffer = 1..n
  BY <1>1, <1>2
<1>4. PICK S : S = Answers
  OBVIOUS
<1>5. S = {p \in 1..Len(buffer) : buffer[p].user_facing_output}
  BY <1>4 DEF Answers
<1>6. Anchor(buffer) = LET hit == IF S # {} THEN Max(S) ELSE 0
                       IN  IF hit = 0 THEN Head(buffer) ELSE buffer[hit]
  BY <1>5 DEF Anchor, SelectLastInSeq
<1>7. Head(buffer) = buffer[1]
  BY <1>2
<1>8. CASE S = {}
  BY <1>4, <1>6, <1>7, <1>8
<1>9. CASE S # {}
  <2>1. S \in SUBSET (0..n)
    BY <1>1, <1>5
  <2>2. PICK p \in S : p = Max(S) /\ \A q \in S : p >= q
    BY <1>9, <2>1, MaxIs
  <2>3. p \in 1..n /\ \A q \in S : q \in 1..n
    BY <1>1, <1>5
  <2>4. p # 0 /\ \A q \in S : q <= p
    BY <2>2, <2>3
  <2>5. Anchor(buffer) = buffer[p]
    BY <1>6, <1>9, <2>2, <2>4
  <2> QED
    BY <1>4, <1>9, <2>4, <2>5
<1> QED
  BY <1>8, <1>9

\* As many calls are recent as the history has in the threshold.
LEMMA RecentCalls ==
    ASSUME BufferInv, history # <<>>
    PROVE  /\ Len(RecentWithin(buffer, Threshold)) \in Nat
           /\ Len(RecentWithin(buffer, Threshold)) = Cardinality(Kept(Threshold))
           /\ Len(RecentWithin(buffer, Threshold)) <= Len(buffer)
<1>1. PICK T : T = {p \in 1..Len(buffer) : Elapsed(Last(buffer), buffer[p]) <= Threshold}
  OBVIOUS
<1>2. PICK at : at = Kept(Threshold)
  OBVIOUS
<1>3. PICK t : t = RecentWithin(buffer, Threshold)
  OBVIOUS
<1>4. Matching(T, at) /\ t = Picked(buffer, T)
  BY <1>1, <1>2, <1>3, WindowMatches
<1>5. t \in Seq(Range(buffer)) /\ at \in SUBSET Nat /\ \E pos : Placed(t, history, at, pos)
  BY <1>4, SelectionPlaced
<1>6. PICK n \in Nat : n = Len(t)
  BY <1>5
<1>7. PICK pos : Placed(t, history, at, pos)
  BY <1>5
<1>8. Cardinality(at) = n
  BY <1>5, <1>6, <1>7, PlacedCounts
<1>9. PICK m \in Nat : m = Len(buffer)
  BY BufferPlaced
<1>10. n <= m
  <2>1. buffer \in Seq(Range(buffer)) /\ T \in SUBSET (1..Len(buffer))
    BY <1>1, BufferPlaced
  <2>2. n = Cardinality(T)
    BY <1>4, <1>6, <2>1, PickedIs
  <2>3. 1 \in Int /\ m \in Int
    OBVIOUS
  <2>4. IsFiniteSet(1..m) /\ Cardinality(1..m) = IF 1 > m THEN 0 ELSE m - 1 + 1
    BY <2>3, FS_Interval
  <2>5. Cardinality(1..m) = m
    BY <2>4
  <2>6. Cardinality(T) <= Cardinality(1..m)
    BY <1>1, <1>9, <2>4, FS_Subset
  <2> QED
    BY <2>2, <2>5, <2>6
<1> QED
  BY <1>2, <1>3, <1>6, <1>8, <1>9, <1>10

\* A silence is held against a session only if it is one.
LEMMA SilencesTold ==
    ASSUME BufferInv
    PROVE  ZombieTrue
<1> SUFFICES ASSUME history # <<>>
             PROVE  LET answered == \E i \in DOMAIN history :
                            history[i].user_facing_output /\ Now - history[i].timestamp < Threshold
                        covered == Now - Head(buffer).timestamp >= Threshold
                        busy == Cardinality(Kept(Threshold)) >= MinRecentCalls
                        inOrder == \A i, j \in DOMAIN history : i < j =>
                            history[i].timestamp <= history[j].timestamp
                    IN  /\ answered /\ inOrder => Zombie(buffer, FALSE) = None
                        /\ ~answered /\ covered /\ busy => Zombie(buffer, FALSE) # None
                        /\ Zombie(buffer, TRUE) = None
  BY DEF ZombieTrue
<1>1. PICK n \in Nat, m \in Nat : n = Len(buffer) /\ m = Len(history)
  BY BufferPlaced
<1>2. PICK d \in Nat : d = Dropped
  BY BufferPlaced
<1>3. /\ buffer # <<>> /\ Last(buffer) = Last(history) /\ Now \in Int
      /\ DOMAIN history = 1..m /\ buffer \in Seq(Range(buffer))
  BY <1>1, BufferPlaced DEF Now
<1>4. PICK latest \in Int : latest = Now /\ latest = Last(buffer).timestamp
  BY <1>3 DEF Now
<1>5. \A p \in 1..n : d + p \in 1..m /\ buffer[p] = history[d + p]
  <2>1. Placed(buffer, history, {i \in 1..Len(history) : i > Dropped},
               [p \in 1..Len(buffer) |-> Dropped + p])
    BY BufferPlaced
  <2> QED
    BY <1>1, <1>2, <2>1 DEF Placed
<1>6. \A i \in 1..m : history[i].timestamp \in Int
  BY <1>1 DEF BufferInv
<1>7. 1 \in 1..n /\ Head(buffer) = buffer[1]
  BY <1>1, <1>3
<1>8. n + d = m
  <2>1. Len(history) \in Nat /\ Len(buffer) \in Nat
    BY BufferPlaced
  <2> QED
    BY <1>1, <1>2, <2>1 DEF Dropped
<1>9. PICK a \in 1..n : /\ Anchor(buffer) = buffer[a]
                        /\ \A q \in Answers : q <= a
                        /\ a \in Answers \/ (Answers = {} /\ a = 1)
  <2>1. CASE Answers = {}
    BY <1>3, <1>7, <2>1, AnchorIs
  <2>2. CASE Answers # {}
    <3>1. Answers \subseteq 1..n
      BY <1>1 DEF Answers
    <3>2. \E p \in Answers : Anchor(buffer) = buffer[p] /\ \A q \in Answers : q <= p
      BY <1>3, <2>2, AnchorIs
    <3> QED
      BY <3>1, <3>2
  <2> QED
    BY <2>1, <2>2
<1>10. PICK then \in Int : then = buffer[a].timestamp /\ then = history[d + a].timestamp
  BY <1>5, <1>6
<1>11. PICK silence \in Int : silence = Elapsed(Last(buffer), Anchor(buffer)) /\ silence = latest - then
  <2>1. Elapsed(Last(buffer), Anchor(buffer)) = latest - then
    BY <1>4, <1>9, <1>10 DEF Elapsed
  <2> QED
    BY <2>1
<1>12. PICK r \in Nat : /\ r = Len(RecentWithin(buffer, Threshold))
                        /\ r = Cardinality(Kept(Threshold)) /\ r <= n
  BY <1>1, RecentCalls
<1>13. Threshold \in Nat /\ MinRecentCalls \in Nat
  BY RepetitionAssumption
<1>14. Zombie(buffer, FALSE) = IF n < MinRecentCalls \/ silence < Threshold \/ r < MinRecentCalls
                               THEN None ELSE Leak("zombie", silence, r, 75, r)
  BY <1>1, <1>3, <1>11, <1>12 DEF Zombie
<1>15. ASSUME NEW i \in DOMAIN history, history[i].user_facing_output,
              Now - history[i].timestamp < Threshold,
              \A k, l \in DOMAIN history : k < l =>
                  history[k].timestamp <= history[l].timestamp
       PROVE  Zombie(buffer, FALSE) = None
  <2>1. i \in 1..m
    BY <1>3
  <2>2. i <= d + a
    <3>1. CASE i <= d
      <4>1. PICK h \in Nat : h = i
        BY <2>1
      <4> QED
        BY <3>1, <4>1
    <3>2. CASE ~(i <= d)
      <4>1. PICK p \in 1..n : d + p = i
        <5>1. i - d \in 1..n /\ d + (i - d) = i
          BY <1>8, <2>1, <3>2
        <5> QED
          BY <5>1
      <4>2. p \in Answers
        BY <1>1, <1>5, <1>15, <4>1 DEF Answers
      <4>3. p <= a
        BY <1>9, <4>2
      <4> QED
        BY <4>1, <4>3
    <3> QED
      BY <3>1, <3>2
  <2>3. PICK time \in Int : time = history[i].timestamp
    BY <1>6, <2>1
  <2>4. time <= then
    <3>1. PICK e \in 1..m : e = d + a
      BY <1>5
    <3>2. CASE i = e
      BY <1>10, <2>3, <3>1, <3>2
    <3>3. CASE i # e
      <4>1. i < e
        BY <2>1, <2>2, <3>1, <3>3
      <4>2. history[i].timestamp <= history[e].timestamp
        BY <1>3, <1>15, <2>1, <4>1
      <4> QED
        BY <1>10, <2>3, <3>1, <4>2
    <3> QED
      BY <3>2, <3>3
  <2>5. latest - time < Threshold
    BY <1>4, <1>15, <2>3
  <2>6. silence < Threshold
    BY <1>11, <1>13, <2>4, <2>5
  <2> QED
    BY <1>14, <2>6
<1>16. ASSUME \A i \in DOMAIN history :
                  ~(history[i].user_facing_output /\ Now - history[i].timestamp < Threshold),
              Now - Head(buffer).timestamp >= Threshold,
              Cardinality(Kept(Threshold)) >= MinRecentCalls
       PROVE  Zombie(buffer, FALSE) # None
  <2>1. latest - then >= Threshold
    <3>1. CASE a \in Answers
      <4>1. d + a \in DOMAIN history /\ history[d + a].user_facing_output
        BY <1>3, <1>5, <3>1 DEF Answers
      <4>2. ~(latest - then < Threshold)
        BY <1>4, <1>10, <1>16, <4>1
      <4> QED
        BY <1>13, <4>2
    <3>2. CASE a \notin Answers
      <4>1. Head(buffer).timestamp = then
        BY <1>7, <1>9, <1>10, <3>2
      <4> QED
        BY <1>4, <1>16, <4>1
    <3> QED
      BY <3>1, <3>2
  <2>2. ~(n < MinRecentCalls) /\ ~(silence < Threshold) /\ ~(r < MinRecentCalls)
    BY <1>11, <1>12, <1>13, <1>16, <2>1
  <2>3. silence \in Subjects
    BY DEF Subjects
  <2>a. "zombie" \in EventTypes /\ r \in Int /\ 75 \in Int
    BY DEF EventTypes
  <2>4. Leak("zombie", silence, r, 75, r) # None
    BY <2>3, <2>a, ReportIsSome
  <2> QED
    BY <1>14, <2>2, <2>4
<1>17. Zombie(buffer, TRUE) = None
  BY DEF Zombie
<1> QED
  BY <1>15, <1>16, <1>17

\* The end of the history is a part of it.
LEMMA BufferIsTheEnd ==
    ASSUME BufferInv
    PROVE  SessionTypeOK
<1> DEFINE b == Reverse(buffer)
           h == Reverse(history)
<1>a. PICK n \in Nat, m \in Nat : n = Len(buffer) /\ m = Len(history) /\ n <= m
  <2>1. Len(buffer) \in Nat /\ Len(history) \in Nat /\ Dropped \in Nat
    BY BufferPlaced
  <2>2. Len(buffer) <= Len(history)
    BY <2>1 DEF Dropped
  <2> QED
    BY <2>1, <2>2
<1>b. IsSeq(buffer) /\ IsSeq(history)
  BY DEF BufferInv, CallsInv
<1>c. b = [i \in 1..n |-> buffer[n - i + 1]] /\ h = [i \in 1..m |-> history[m - i + 1]]
  BY <1>a DEF Reverse
<1>d. \A i \in 1..n : b[i] = h[i]
  <2>1. ASSUME NEW i \in 1..n PROVE b[i] = h[i]
    <3>1. n - i + 1 \in 1..n /\ m - n + (n - i + 1) = m - i + 1 /\ i \in 1..m
      BY <1>a
    <3>2. buffer[n - i + 1] = history[m - n + (n - i + 1)]
      BY <1>a, <3>1 DEF BufferInv
    <3> QED
      BY <1>c, <3>1, <3>2
  <2> QED
    BY <2>1
<1>e. b \in Seq(Range(buffer)) /\ Len(b) = n /\ h \in Seq(Range(history)) /\ Len(h) = m
  <2>1. b \in [1..n -> Range(buffer)]
    <3>1. \A i \in 1..n : n - i + 1 \in 1..n
      OBVIOUS
    <3>2. \A i \in 1..n : buffer[i] \in Range(buffer)
      BY <1>a, <1>b DEF IsSeq
    <3> QED
      BY <1>c, <3>1, <3>2
  <2>2. h \in [1..m -> Range(history)]
    <3>1. \A i \in 1..m : m - i + 1 \in 1..m
      OBVIOUS
    <3>2. \A i \in 1..m : history[i] \in Range(history)
      BY <1>a, <1>b DEF IsSeq
    <3> QED
      BY <1>c, <3>1, <3>2
  <2> QED
    BY <1>c, <2>1, <2>2
<1> HIDE DEF b, h
<1>f. SubSeq(b, 1, n) = SubSeq(h, 1, n)
  <2>1. SubSeq(b, 1, n) = [i \in 1..n |-> b[i]]
    BY <1>e
  <2>2. SubSeq(h, 1, n) = [i \in 1..n |-> h[i]]
    BY <1>a, <1>e
  <2> QED
    BY <1>d, <2>1, <2>2
<1>1. IsSuffix(buffer, history)
  BY <1>a, <1>e, <1>f DEF IsSuffix, IsPrefix, b, h
<1>2. \A i \in DOMAIN history : DOMAIN history[i] = DOMAIN Blank
  <2>1. \A i \in DOMAIN history : IsCall(history[i])
    BY DEF BufferInv, CallsInv, Range
  <2> QED
    BY <2>1 DEF IsCall, IsRequest
<1> QED
  BY <1>1, <1>2 DEF SessionTypeOK, BufferInv, CallsInv

(***************************************************************************)
(* context_bloat: the slope                                                *)
(***************************************************************************)
\* The sums of a sequence of integers, its own, weighted by the turn, and of the turns.
AreTotals(u, w, a, z, n) ==
    /\ u \in [0..n -> Int] /\ w \in [0..n -> Int] /\ a \in [0..n -> Int]
    /\ u[0] = 0 /\ w[0] = 0 /\ a[0] = 0
    /\ \A i \in 1..n : /\ u[i] = u[i - 1] + z[i]
                       /\ w[i] = w[i - 1] + (i - 1) * z[i]
                       /\ a[i] = a[i - 1] + (i - 1)

Rises(z, n) == \A i \in 1..n - 1 : z[i] <= z[i + 1]

LEMMA RisesTo ==
    ASSUME NEW n \in Nat, NEW z \in [1..n -> Int], Rises(z, n),
           NEW k \in 1..n, NEW i \in 1..k
    PROVE  z[i] <= z[k]
<1> DEFINE H == {j \in 0..n : \A l \in 1..j : z[l] <= z[j]}
<1>1. 0 \in H /\ H \in SUBSET Nat
  OBVIOUS
<1>2. ASSUME NEW j \in 1..n, j - 1 \in H PROVE j \in H
  <2>1. ASSUME NEW l \in 1..j PROVE z[l] <= z[j]
    <3>1. CASE l = j
      BY <3>1
    <3>2. CASE l # j
      <4>1. l \in 1..j - 1 /\ j - 1 \in 1..n - 1 /\ (j - 1) + 1 = j
        BY <3>2
      <4>2. z[l] <= z[j - 1]
        BY <1>2, <4>1
      <4>3. z[j - 1] <= z[j]
        BY <4>1 DEF Rises
      <4>4. l \in 1..n /\ j - 1 \in 1..n
        BY <4>1
      <4>5. z[l] \in Int /\ z[j - 1] \in Int /\ z[j] \in Int
        BY <4>4
      <4> QED
        BY <4>2, <4>3, <4>5
    <3> QED
      BY <3>1, <3>2
  <2> QED
    BY <2>1
<1>3. k \in H
  <2>1. 0..n \subseteq H
    <3> HIDE DEF H
    <3> QED
      BY <1>1, <1>2, StepByStep
  <2> QED
    BY <2>1
<1> QED
  BY <1>3

LEMMA TermAdds ==
    ASSUME NEW j \in Int, NEW k \in Int, NEW y \in Int, NEW x \in Int,
           NEW u \in Int, NEW w \in Int, NEW a \in Int
    PROVE  j * (k * y) - k * (u + x) - (a + (j - 1)) * y + (w + (j - 1) * x)
              = ((j - 1) * (k * y) - k * u - a * y + w) + (k - (j - 1)) * (y - x)
OBVIOUS

LEMMA NoneNegative ==
    ASSUME NEW p \in Int, NEW q \in Int, p >= 0, q >= 0
    PROVE  p * q \in Int /\ p * q >= 0
OBVIOUS

LEMMA CovarianceAdds ==
    ASSUME NEW k \in Int, NEW y \in Int, NEW u \in Int, NEW w \in Int, NEW a \in Int
    PROVE  (k + 1) * (w + k * y) - (a + k) * (u + y)
              = (k * w - a * u) + (k * (k * y) - k * u - a * y + w)
OBVIOUS

\* Each term weighs how far a later number is above an earlier one.
LEMMA Pulled ==
    ASSUME NEW n \in Nat, NEW z \in [1..n -> Int], Rises(z, n),
           NEW u, NEW w, NEW a, AreTotals(u, w, a, z, n), NEW k \in 1..n - 1
    PROVE  k * (k * z[k + 1]) - k * u[k] - a[k] * z[k + 1] + w[k] >= 0
<1> DEFINE y == z[k + 1]
           at(j) == j * (k * y) - k * u[j] - a[j] * y + w[j]
           H == {j \in 0..k : at(j) \in Int /\ at(j) >= 0}
<1>1. k \in Nat /\ y \in Int
  OBVIOUS
<1>2. ASSUME NEW j \in 0..k PROVE u[j] \in Int /\ w[j] \in Int /\ a[j] \in Int
  <2>1. j \in 0..n
    OBVIOUS
  <2> HIDE DEF y
  <2> QED
    BY <2>1 DEF AreTotals
<1>3. H \in SUBSET Nat
  BY <1>1
<1>4. 0 \in H
  <2>1. u[0] = 0 /\ w[0] = 0 /\ a[0] = 0 /\ 0 \in 0..k
    BY DEF AreTotals
  <2> HIDE DEF y
  <2>2. at(0) = 0
    <3>1. 0 * (k * y) = 0 /\ k * 0 = 0 /\ 0 * y = 0
      BY <1>1
    <3> QED
      BY <2>1, <3>1
  <2> QED
    BY <2>1, <2>2
<1>5. ASSUME NEW j \in 1..k, j - 1 \in H PROVE j \in H
  <2>1. j \in 1..n /\ j - 1 \in 0..k /\ j \in 0..k /\ j \in Int
    OBVIOUS
  <2>2. PICK x \in Int : x = z[j]
    BY <2>1
  <2>3. x <= y
    <3>1. k + 1 \in 1..n /\ j \in 1..k + 1
      OBVIOUS
    <3> QED
      BY <2>2, <3>1, RisesTo
  <2>4. PICK uu \in Int, ww \in Int, aa \in Int : uu = u[j - 1] /\ ww = w[j - 1] /\ aa = a[j - 1]
    BY <1>2, <2>1
  <2>5. u[j] = uu + x /\ w[j] = ww + (j - 1) * x /\ a[j] = aa + (j - 1)
    BY <2>1, <2>2, <2>4 DEF AreTotals
  <2> HIDE DEF y
  <2>6. at(j) = ((j - 1) * (k * y) - k * uu - aa * y + ww) + (k - (j - 1)) * (y - x)
    <3>1. at(j) = j * (k * y) - k * (uu + x) - (aa + (j - 1)) * y + (ww + (j - 1) * x)
      BY <2>5
    <3> QED
      BY <1>1, <2>1, <3>1, TermAdds
  <2>7. (k - (j - 1)) * (y - x) \in Int /\ (k - (j - 1)) * (y - x) >= 0
    <3>1. k - (j - 1) \in Int /\ y - x \in Int /\ k - (j - 1) >= 0 /\ y - x >= 0
      BY <1>1, <2>1, <2>3
    <3> QED
      BY <3>1, NoneNegative
  <2>8. PICK term \in Int : term = (k - (j - 1)) * (y - x) /\ term >= 0
    BY <2>7
  <2>9. PICK before \in Int : before = (j - 1) * (k * y) - k * uu - aa * y + ww /\ before >= 0
    BY <1>5, <2>4
  <2>10. at(j) = before + term
    BY <2>6, <2>8, <2>9
  <2>11. at(j) \in Int /\ at(j) >= 0
    <3> HIDE DEF at
    <3>1. before >= 0 /\ term >= 0
      BY <2>8, <2>9, Zenon
    <3>2. before + term \in Int /\ before + term >= 0
      BY <3>1
    <3> QED
      BY <2>10, <3>2
  <2> QED
    BY <2>1, <2>11
<1>6. k \in H
  <2>1. 0..k \subseteq H
    <3> HIDE DEF H
    <3> QED
      BY <1>1, <1>3, <1>4, <1>5, StepByStep
  <2> QED
    BY <1>1, <2>1
<1> QED
  BY <1>6

\* What rises has no negative covariance with the turns.
LEMMA Covariance ==
    ASSUME NEW n \in Nat, NEW z \in [1..n -> Int], Rises(z, n),
           NEW u, NEW w, NEW a, AreTotals(u, w, a, z, n)
    PROVE  n * w[n] - a[n] * u[n] >= 0
<1> DEFINE at(k) == k * w[k] - a[k] * u[k]
           H == {k \in 0..n : at(k) \in Int /\ at(k) >= 0}
<1>1. H \in SUBSET Nat
  OBVIOUS
<1>2. ASSUME NEW j \in 0..n PROVE u[j] \in Int /\ w[j] \in Int /\ a[j] \in Int
  BY DEF AreTotals
<1>3. 0 \in H
  BY DEF AreTotals
<1>4. ASSUME NEW l \in 1..n, l - 1 \in H PROVE l \in H
  <2>1. PICK k \in Nat : k = l - 1
    OBVIOUS
  <2>2. k \in 0..n /\ k + 1 = l /\ k + 1 \in 0..n /\ k + 1 \in 1..n
    BY <2>1
  <2>3. PICK y \in Int : y = z[k + 1]
    BY <2>2
  <2>4. PICK uu \in Int, ww \in Int, aa \in Int : uu = u[k] /\ ww = w[k] /\ aa = a[k]
    BY <1>2, <2>2
  <2>5. u[l] = uu + y /\ w[l] = ww + k * y /\ a[l] = aa + k
    BY <2>1, <2>2, <2>3, <2>4 DEF AreTotals
  <2>6. at(l) = (k + 1) * (ww + k * y) - (aa + k) * (uu + y)
    BY <2>2, <2>5
  <2>7. at(l) = (k * ww - aa * uu) + (k * (k * y) - k * uu - aa * y + ww)
    BY <2>6, CovarianceAdds
  <2>8. PICK term \in Int : term = k * (k * y) - k * uu - aa * y + ww
    OBVIOUS
  <2>9. term >= 0
    <3>1. CASE k = 0
      <4>1. uu = 0 /\ ww = 0 /\ aa = 0
        BY <2>4, <3>1 DEF AreTotals
      <4>2. 0 * (0 * y) = 0 /\ 0 * 0 = 0 /\ 0 * y = 0
        OBVIOUS
      <4> QED
        BY <2>8, <3>1, <4>1, <4>2
    <3>2. CASE k # 0
      <4>1. k \in 1..n - 1
        BY <2>2, <3>2
      <4> QED
        BY <2>3, <2>4, <2>8, <4>1, Pulled
    <3> QED
      BY <3>1, <3>2
  <2>10. PICK before \in Int : before = k * ww - aa * uu /\ before >= 0
    BY <1>4, <2>1, <2>4
  <2>11. at(l) = before + term
    BY <2>7, <2>8, <2>10
  <2>12. at(l) \in Int /\ at(l) >= 0
    BY <2>9, <2>10, <2>11
  <2> QED
    BY <2>12
<1>5. n \in H
  <2>1. 0..n \subseteq H
    <3> HIDE DEF H
    <3> QED
      BY <1>1, <1>3, <1>4, StepByStep
  <2> QED
    BY <2>1
<1> QED
  BY <1>5

LEMMA SpreadAdds ==
    ASSUME NEW k \in Int, NEW q \in Int, NEW a \in Int, NEW square \in Int,
           NEW cube \in Int, square = k * k, cube = k * square,
           2 * (k * a) = cube - square
    PROVE  (k + 1) * (q + square) - (a + k) * (a + k) = (k * q - a * a) + q + square
OBVIOUS

\* The turns are spread out as soon as there are two of them.
LEMMA Spread ==
    ASSUME NEW n \in Nat, NEW q, NEW a, q \in [0..n -> Nat], a \in [0..n -> Nat],
           q[0] = 0, a[0] = 0,
           \A i \in 1..n : q[i] = q[i - 1] + (i - 1) * (i - 1) /\ a[i] = a[i - 1] + (i - 1)
    PROVE  /\ n * q[n] - a[n] * a[n] >= 0
           /\ n >= 2 => n * q[n] - a[n] * a[n] > 0
<1> DEFINE at(k) == k * q[k] - a[k] * a[k]
           H == {k \in 0..n : /\ at(k) \in Int /\ at(k) >= 0
                              /\ 2 * a[k] = k * (k - 1)
                              /\ k >= 2 => at(k) > 0}
<1>1. H \in SUBSET Nat
  OBVIOUS
<1>2. 0 \in H
  OBVIOUS
<1>3. ASSUME NEW l \in 1..n, l - 1 \in H PROVE l \in H
  <2>1. PICK k \in Nat : k = l - 1
    OBVIOUS
  <2>2. k \in 0..n /\ k + 1 = l /\ k + 1 \in 0..n /\ k + 1 \in 1..n
    BY <2>1
  <2>3. PICK qq \in Nat, aa \in Nat : qq = q[k] /\ aa = a[k]
    BY <2>2
  <2>4. q[l] = qq + k * k /\ a[l] = aa + k
    BY <2>1, <2>2, <2>3
  <2>5. 2 * aa = k * (k - 1)
    BY <1>3, <2>1, <2>3
  <2>6. PICK before \in Int : before = k * qq - aa * aa /\ before >= 0
    BY <1>3, <2>1, <2>3
  <2>7. at(l) = (k + 1) * (qq + k * k) - (aa + k) * (aa + k)
    BY <2>2, <2>4
  <2>b. PICK square \in Int : square = k * k
    OBVIOUS
  <2>10. square = k * k /\ square \in Nat /\ (k >= 1 => square >= 1)
    <3>1. CASE k = 0
      BY <2>b, <3>1
    <3>2. CASE k # 0
      <4>1. PICK less \in Int : less = (k - 1) * k
        OBVIOUS
      <4>2. less >= 0
        BY <3>2, <4>1, NoneNegative
      <4>3. square = less + k
        <5>1. k * k = (k - 1) * k + k
          OBVIOUS
        <5> QED
          BY <2>b, <4>1, <5>1
      <4> QED
        BY <2>b, <3>2, <4>2, <4>3
    <3> QED
      BY <3>1, <3>2
  <2>a. at(l) = before + qq + square
    <3>1. PICK cube \in Int : cube = k * square
      OBVIOUS
    <3>2. 2 * (k * aa) = cube - square
      <4>1. k * (2 * aa) = k * (k * (k - 1))
        BY <2>5
      <4>2. k * (2 * aa) = 2 * (k * aa) /\ k * (k * (k - 1)) = k * (k * k) - k * k
        OBVIOUS
      <4>3. k * (k * k) = cube /\ k * k = square
        BY <2>10, <3>1
      <4> QED
        <5>1. 2 * (k * aa) = k * (k * k) - k * k
          BY <4>1, <4>2, Zenon
        <5> QED
          BY <5>1, <4>3, Zenon
    <3>3. at(l) = (k + 1) * (qq + square) - (aa + k) * (aa + k)
      BY <2>7, <2>10
    <3>4. at(l) = (k * qq - aa * aa) + qq + square
      <4> HIDE DEF at
      <4> QED
        BY <2>10, <3>1, <3>2, <3>3, SpreadAdds
    <3> QED
      BY <2>6, <3>4
  <2>12. at(l) \in Int /\ at(l) >= 0 /\ (l >= 2 => at(l) > 0)
    <3> HIDE DEF at
    <3>1. square \in Nat /\ (k >= 1 => square >= 1) /\ before >= 0
      BY <2>6, <2>10, Zenon
    <3>2. PICK value \in Int : value = before + qq + square
      OBVIOUS
    <3>3. value >= 0 /\ (k >= 1 => value > 0)
      BY <3>1, <3>2
    <3>4. at(l) = value
      BY <2>a, <3>2, Zenon
    <3>5. l >= 2 => k >= 1
      BY <2>1
    <3> QED
      BY <3>3, <3>4, <3>5
  <2>13. 2 * a[l] = l * (l - 1)
    <3>1. 2 * (aa + k) = (k + 1) * k
      BY <2>5
    <3> QED
      BY <2>1, <2>2, <2>4, <3>1
  <2> QED
    BY <2>12, <2>13
<1>4. n \in H
  <2>1. 0..n \subseteq H
    <3> HIDE DEF H
    <3> QED
      BY <1>1, <1>2, <1>3, StepByStep
  <2> QED
    BY <2>1
<1> QED
  BY <1>4

\* The sequences the slope sums up.
Turns(n) == [i \in 1..n |-> i - 1]
SquaredTurns(n) == [i \in 1..n |-> (i - 1) * (i - 1)]
Weighted(values) == [i \in 1..Len(values) |-> (i - 1) * values[i]]

LEMMA TermsAre ==
    ASSUME NEW values \in Seq(Nat), NEW n \in Nat, n = Len(values)
    PROVE  /\ Turns(n) \in Seq(Nat) /\ Len(Turns(n)) = n
           /\ SquaredTurns(n) \in Seq(Nat) /\ Len(SquaredTurns(n)) = n
           /\ Weighted(values) \in Seq(Nat) /\ Len(Weighted(values)) = n
<1>1. \A i \in 1..n : i - 1 \in Nat /\ values[i] \in Nat
  OBVIOUS
<1>2. \A p, q \in Nat : p * q \in Nat
  OBVIOUS
<1>3. \A i \in 1..n : (i - 1) * (i - 1) \in Nat /\ (i - 1) * values[i] \in Nat
  BY <1>1, <1>2
<1>4. /\ Turns(n) \in [1..n -> Nat] /\ SquaredTurns(n) \in [1..n -> Nat]
      /\ Weighted(values) \in [1..n -> Nat]
  BY <1>1, <1>3 DEF Turns, SquaredTurns, Weighted
<1>5. \A s \in [1..n -> Nat] : s \in Seq(Nat) /\ Len(s) = n
  OBVIOUS
<1> QED
  BY <1>4, <1>5

LEMMA SlopeIs ==
    ASSUME NEW values \in Seq(Nat), NEW n \in Nat, n = Len(values)
    PROVE  Slope(values) =
              [num |-> n * SumSeq(Weighted(values)) - SumSeq(Turns(n)) * SumSeq(values),
               den |-> n * SumSeq(SquaredTurns(n)) - SumSeq(Turns(n)) * SumSeq(Turns(n))]
<1> DEFINE x == [i \in 1..n |-> i - 1]
<1>1. DOMAIN x = 1..n /\ \A i \in 1..n : x[i] = i - 1 /\ x[i] + 1 = i
  OBVIOUS
<1>2. MapSeq(x, LAMBDA k : k) = Turns(n)
  BY <1>1 DEF MapSeq, Turns
<1>3. MapSeq(x, LAMBDA k : k * k) = SquaredTurns(n)
  BY <1>1 DEF MapSeq, SquaredTurns
<1>4. MapSeq(x, LAMBDA k : values[k + 1]) = values
  <2>1. MapSeq(x, LAMBDA k : values[k + 1]) = [i \in 1..n |-> values[i]]
    BY <1>1 DEF MapSeq
  <2>2. values = [i \in 1..n |-> values[i]]
    OBVIOUS
  <2> QED
    BY <2>1, <2>2
<1>5. MapSeq(x, LAMBDA k : k * values[k + 1]) = Weighted(values)
  BY <1>1 DEF MapSeq, Weighted
<1>6. Slope(values) =
          [num |-> n * SumSeq(MapSeq(x, LAMBDA k : k * values[k + 1]))
                     - SumSeq(MapSeq(x, LAMBDA k : k))
                         * SumSeq(MapSeq(x, LAMBDA k : values[k + 1])),
           den |-> n * SumSeq(MapSeq(x, LAMBDA k : k * k))
                     - SumSeq(MapSeq(x, LAMBDA k : k)) * SumSeq(MapSeq(x, LAMBDA k : k))]
  BY DEF Slope, SumOver
<1> QED
  BY <1>2, <1>3, <1>4, <1>5, <1>6

\* The sums the slope is made of, up to each turn.
AreSlopeSums(v, p, q, r, s, n) ==
    /\ p \in [0..n -> Nat] /\ q \in [0..n -> Nat] /\ r \in [0..n -> Nat] /\ s \in [0..n -> Nat]
    /\ p[0] = 0 /\ q[0] = 0 /\ r[0] = 0 /\ s[0] = 0
    /\ \A i \in 1..n : /\ p[i] = p[i - 1] + v[i]
                       /\ q[i] = q[i - 1] + (i - 1)
                       /\ r[i] = r[i - 1] + (i - 1) * (i - 1)
                       /\ s[i] = s[i - 1] + (i - 1) * v[i]

\* A sum of multiples adds the multiples of the terms.
LEMMA MultiplesAdd ==
    ASSUME NEW alpha \in Int, NEW beta \in Int, NEW p \in Int, NEW q \in Int,
           NEW v \in Int, NEW x \in Int, NEW r \in Int, NEW s \in Int
    PROVE  /\ alpha * (p + v) + beta * (q + x) = (alpha * p + beta * q) + (alpha * v + beta * x)
           /\ alpha * (s + x * v) + beta * (r + x * x)
                 = (alpha * s + beta * r) + x * (alpha * v + beta * x)
OBVIOUS

LEMMA MultiplesCovary ==
    ASSUME NEW alpha \in Int, NEW beta \in Int, NEW p \in Int, NEW q \in Int,
           NEW n \in Int, NEW r \in Int, NEW s \in Int
    PROVE  n * (alpha * s + beta * r) - q * (alpha * p + beta * q)
              = alpha * (n * s - q * p) + beta * (n * r - q * q)
OBVIOUS

LEMMA SlopeCombined ==
    ASSUME NEW n \in Nat, NEW v \in [1..n -> Nat], NEW p, NEW q, NEW r, NEW s,
           AreSlopeSums(v, p, q, r, s, n), NEW alpha \in Int, NEW beta \in Int,
           Rises([i \in 1..n |-> alpha * v[i] + beta * (i - 1)], n)
    PROVE  alpha * (n * s[n] - q[n] * p[n]) + beta * (n * r[n] - q[n] * q[n]) >= 0
<1> DEFINE z == [i \in 1..n |-> alpha * v[i] + beta * (i - 1)]
           u == [i \in 0..n |-> alpha * p[i] + beta * q[i]]
           w == [i \in 0..n |-> alpha * s[i] + beta * r[i]]
<1>1. \A i \in 0..n : p[i] \in Nat /\ q[i] \in Nat /\ r[i] \in Nat /\ s[i] \in Nat
  BY DEF AreSlopeSums
<1>2. \A a, b \in Int : a * b \in Int
  OBVIOUS
<1>3. z \in [1..n -> Int]
  <2>1. ASSUME NEW i \in 1..n PROVE alpha * v[i] + beta * (i - 1) \in Int
    <3>1. PICK vv \in Int, x \in Int : vv = v[i] /\ x = i - 1
      OBVIOUS
    <3>2. alpha * vv \in Int /\ beta * x \in Int
      BY <1>2
    <3> QED
      BY <3>1, <3>2
  <2> QED
    BY <2>1
<1>4. u \in [0..n -> Int] /\ w \in [0..n -> Int] /\ q \in [0..n -> Int]
  <2>1. ASSUME NEW i \in 0..n
        PROVE  alpha * p[i] + beta * q[i] \in Int /\ alpha * s[i] + beta * r[i] \in Int
    <3>1. PICK pp \in Int, qq \in Int : pp = p[i] /\ qq = q[i]
      BY <1>1
    <3>2. PICK rr \in Int, ss \in Int : rr = r[i] /\ ss = s[i]
      BY <1>1
    <3>3. alpha * pp + beta * qq \in Int /\ alpha * ss + beta * rr \in Int
      OBVIOUS
    <3> QED
      BY <3>1, <3>2, <3>3
  <2>2. q \in [0..n -> Int]
    BY DEF AreSlopeSums
  <2> QED
    BY <2>1, <2>2
<1>5. u[0] = 0 /\ w[0] = 0 /\ q[0] = 0
  <2>1. p[0] = 0 /\ q[0] = 0 /\ r[0] = 0 /\ s[0] = 0
    BY DEF AreSlopeSums
  <2>2. alpha * 0 + beta * 0 = 0
    OBVIOUS
  <2> QED
    BY <2>1, <2>2
<1>6. ASSUME NEW i \in 1..n
      PROVE  /\ u[i] = u[i - 1] + z[i]
             /\ w[i] = w[i - 1] + (i - 1) * z[i]
             /\ q[i] = q[i - 1] + (i - 1)
  <2>1. i - 1 \in 0..n /\ i \in 0..n
    OBVIOUS
  <2>2. PICK vv \in Int, x \in Int : vv = v[i] /\ x = i - 1
    OBVIOUS
  <2>c. PICK k \in 0..n : k = i - 1
    BY <2>1
  <2>d. p[k] \in Int /\ q[k] \in Int /\ r[k] \in Int /\ s[k] \in Int
    BY <1>1
  <2>a. PICK pp \in Int, qq \in Int : pp = p[k] /\ qq = q[k]
    BY <2>d
  <2>b. PICK rr \in Int, ss \in Int : rr = r[k] /\ ss = s[k]
    BY <2>d
  <2>3. pp = p[i - 1] /\ qq = q[i - 1] /\ rr = r[i - 1] /\ ss = s[i - 1]
    BY <2>a, <2>b, <2>c
  <2>4. p[i] = pp + vv /\ q[i] = qq + x /\ r[i] = rr + x * x /\ s[i] = ss + x * vv
    BY <2>2, <2>3 DEF AreSlopeSums
  <2>5. u[i - 1] = alpha * pp + beta * qq /\ w[i - 1] = alpha * ss + beta * rr
    BY <2>1, <2>3
  <2>6. u[i] = alpha * (pp + vv) + beta * (qq + x)
    BY <2>1, <2>4
  <2>7. w[i] = alpha * (ss + x * vv) + beta * (rr + x * x)
    BY <2>1, <2>4
  <2>8. z[i] = alpha * vv + beta * x
    BY <2>2
  <2> HIDE DEF u, w, z
  <2>9. u[i] = u[i - 1] + z[i]
    BY <2>5, <2>6, <2>8, MultiplesAdd
  <2>10. w[i] = w[i - 1] + x * z[i]
    BY <2>5, <2>7, <2>8, MultiplesAdd
  <2> QED
    BY <2>2, <2>3, <2>4, <2>9, <2>10
<1>7. n * w[n] - q[n] * u[n] >= 0
  <2>1. AreTotals(u, w, q, z, n)
    <3> HIDE DEF u, w, z
    <3> QED
      BY <1>4, <1>5, <1>6 DEF AreTotals
  <2> HIDE DEF u, w
  <2> QED
    BY <1>3, <2>1, Covariance
<1>a. PICK pp \in Int, qq \in Int : pp = p[n] /\ qq = q[n]
  <2> HIDE DEF u, w, z
  <2>1. n \in 0..n
    OBVIOUS
  <2>2. p[n] \in Int /\ q[n] \in Int
    BY <1>1, <2>1
  <2> QED
    BY <2>2
<1>b. PICK rr \in Int, ss \in Int : rr = r[n] /\ ss = s[n]
  <2> HIDE DEF u, w, z
  <2>1. n \in 0..n
    OBVIOUS
  <2>2. r[n] \in Int /\ s[n] \in Int
    BY <1>1, <2>1
  <2> QED
    BY <2>2
<1>8. pp = p[n] /\ qq = q[n] /\ rr = r[n] /\ ss = s[n]
  BY <1>a, <1>b
<1>9. u[n] = alpha * pp + beta * qq /\ w[n] = alpha * ss + beta * rr
  <2>1. n \in 0..n
    OBVIOUS
  <2> QED
    BY <1>8, <2>1
<1> HIDE DEF u, w, z
<1>10. n * (alpha * ss + beta * rr) - qq * (alpha * pp + beta * qq) >= 0
  BY <1>7, <1>8, <1>9
<1>11. n * (alpha * ss + beta * rr) - qq * (alpha * pp + beta * qq)
          = alpha * (n * ss - qq * pp) + beta * (n * rr - qq * qq)
  BY MultiplesCovary
<1>12. alpha * (n * ss - qq * pp) + beta * (n * rr - qq * qq) >= 0
  BY <1>10, <1>11, Zenon
<1> QED
  BY <1>8, <1>12

LEMMA SlopeSumsAre ==
    ASSUME NEW values \in Seq(Nat), NEW n \in Nat, n = Len(values)
    PROVE  /\ AreSlopeSums(values, Sums(values), Sums(Turns(n)), Sums(SquaredTurns(n)),
                           Sums(Weighted(values)), n)
           /\ SumSeq(values) = Sums(values)[n]
           /\ SumSeq(Turns(n)) = Sums(Turns(n))[n]
           /\ SumSeq(SquaredTurns(n)) = Sums(SquaredTurns(n))[n]
           /\ SumSeq(Weighted(values)) = Sums(Weighted(values))[n]
<1>1. ASSUME NEW s \in Seq(Nat), Len(s) = n
      PROVE  IsSums(Sums(s), s, n) /\ SumSeq(s) = Sums(s)[n]
  <2>1. n \in 0..n
    OBVIOUS
  <2> QED
    BY <1>1, <2>1, SumsAre DEF Sums, SumSeq
<1>2. /\ Turns(n) \in Seq(Nat) /\ Len(Turns(n)) = n
      /\ SquaredTurns(n) \in Seq(Nat) /\ Len(SquaredTurns(n)) = n
      /\ Weighted(values) \in Seq(Nat) /\ Len(Weighted(values)) = n
  BY TermsAre
<1>3. \A i \in 1..n : /\ Turns(n)[i] = i - 1
                      /\ SquaredTurns(n)[i] = (i - 1) * (i - 1)
                      /\ Weighted(values)[i] = (i - 1) * values[i]
  BY DEF Turns, SquaredTurns, Weighted
<1>4. /\ IsSums(Sums(values), values, n) /\ IsSums(Sums(Turns(n)), Turns(n), n)
      /\ IsSums(Sums(SquaredTurns(n)), SquaredTurns(n), n)
      /\ IsSums(Sums(Weighted(values)), Weighted(values), n)
  BY <1>1, <1>2
<1>5. AreSlopeSums(values, Sums(values), Sums(Turns(n)), Sums(SquaredTurns(n)),
                   Sums(Weighted(values)), n)
  BY <1>3, <1>4 DEF IsSums, AreSlopeSums
<1> QED
  BY <1>1, <1>2, <1>5

\* The slope is between the smallest and the largest step.
LEMMA SlopeBetween ==
    ASSUME NEW values \in Seq(Nat), NEW n \in Nat, n = Len(values), n >= 2
    PROVE  LET slope == Slope(values)
           IN  /\ slope.num \in Int /\ slope.den \in Nat \ {0}
               /\ \A c \in Int :
                     /\ (\A i \in 1..n - 1 : values[i + 1] - values[i] >= c)
                           => slope.num >= c * slope.den
                     /\ (\A i \in 1..n - 1 : values[i + 1] - values[i] <= c)
                           => slope.num <= c * slope.den
<1>1. PICK p, q, r, s : /\ AreSlopeSums(values, p, q, r, s, n)
                        /\ p[n] = SumSeq(values) /\ q[n] = SumSeq(Turns(n))
                        /\ r[n] = SumSeq(SquaredTurns(n)) /\ s[n] = SumSeq(Weighted(values))
  BY SlopeSumsAre
<1>2. values \in [1..n -> Nat]
  OBVIOUS
<1>3. n * r[n] - q[n] * q[n] > 0
  <2>1. /\ r \in [0..n -> Nat] /\ q \in [0..n -> Nat] /\ r[0] = 0 /\ q[0] = 0
        /\ \A i \in 1..n : r[i] = r[i - 1] + (i - 1) * (i - 1) /\ q[i] = q[i - 1] + (i - 1)
    BY <1>1 DEF AreSlopeSums
  <2> QED
    BY <2>1, Spread
<1>4. p[n] \in Int /\ q[n] \in Int /\ r[n] \in Int /\ s[n] \in Int
  <2>1. n \in 0..n
    OBVIOUS
  <2>2. p \in [0..n -> Nat] /\ q \in [0..n -> Nat] /\ r \in [0..n -> Nat] /\ s \in [0..n -> Nat]
    BY <1>1 DEF AreSlopeSums
  <2>3. \A f \in [0..n -> Nat] : f[n] \in Int
    BY <2>1
  <2> QED
    BY <2>2, <2>3
<1>5. PICK num \in Int : num = n * s[n] - q[n] * p[n]
  BY <1>4
<1>6. PICK den \in Int : den = n * r[n] - q[n] * q[n] /\ den > 0
  BY <1>3, <1>4
<1>7. Slope(values).num = num /\ Slope(values).den = den
  BY <1>1, <1>5, <1>6, SlopeIs
<1>8. ASSUME NEW alpha \in Int, NEW beta \in Int,
             \A i \in 1..n - 1 : alpha * values[i] + beta * (i - 1)
                                    <= alpha * values[i + 1] + beta * i
      PROVE  alpha * num + beta * den >= 0
  <2> DEFINE z == [i \in 1..n |-> alpha * values[i] + beta * (i - 1)]
  <2>1. ASSUME NEW i \in 1..n - 1 PROVE z[i] <= z[i + 1]
    <3>1. i \in 1..n /\ i + 1 \in 1..n /\ (i + 1) - 1 = i
      OBVIOUS
    <3> QED
      BY <1>8, <3>1
  <2>2. Rises(z, n)
    BY <2>1 DEF Rises
  <2> QED
    BY <1>1, <1>2, <1>5, <1>6, <2>2, SlopeCombined
<1>9. ASSUME NEW c \in Int, \A i \in 1..n - 1 : values[i + 1] - values[i] >= c
      PROVE  num >= c * den
  <2>a. PICK alpha \in Int, beta \in Int : alpha = 1 /\ beta = -c
    OBVIOUS
  <2>1. ASSUME NEW i \in 1..n - 1
        PROVE  alpha * values[i] + beta * (i - 1) <= alpha * values[i + 1] + beta * i
    <3>1. PICK a \in Int, b \in Int : a = values[i] /\ b = values[i + 1]
      BY <1>2
    <3>2. beta * (i - 1) = beta * i + c
      BY <2>a
    <3>3. b - a >= c
      BY <1>9, <3>1
    <3>4. PICK ci \in Int : ci = beta * i
      OBVIOUS
    <3>5. alpha * values[i] = a /\ alpha * values[i + 1] = b
      BY <2>a, <3>1
    <3> QED
      BY <3>2, <3>3, <3>4, <3>5
  <2>2. alpha * num + beta * den >= 0
    BY <1>8, <2>1
  <2>3. alpha * num = num /\ beta * den = -(c * den)
    BY <2>a
  <2> QED
    BY <2>2, <2>3
<1>10. ASSUME NEW c \in Int, \A i \in 1..n - 1 : values[i + 1] - values[i] <= c
       PROVE  num <= c * den
  <2>a. PICK alpha \in Int : alpha = -1
    OBVIOUS
  <2>1. ASSUME NEW i \in 1..n - 1
        PROVE  alpha * values[i] + c * (i - 1) <= alpha * values[i + 1] + c * i
    <3>1. PICK a \in Int, b \in Int : a = values[i] /\ b = values[i + 1]
      BY <1>2
    <3>2. c * (i - 1) = c * i - c
      OBVIOUS
    <3>3. b - a <= c
      BY <1>10, <3>1
    <3>4. PICK ci \in Int : ci = c * i
      OBVIOUS
    <3>5. alpha * values[i] = -a /\ alpha * values[i + 1] = -b
      BY <2>a, <3>1
    <3> QED
      BY <3>2, <3>3, <3>4, <3>5
  <2>2. alpha * num + c * den >= 0
    BY <1>8, <2>1
  <2>3. alpha * num = -num
    BY <2>a
  <2> QED
    BY <2>2, <2>3
<1>11. den \in Nat \ {0}
  BY <1>6
<1> QED
  BY <1>7, <1>9, <1>10, <1>11

\* What a slope weighs against the threshold, whatever the contexts were.
LEMMA PromptsAre ==
    ASSUME CallsInv
    PROVE  LET prompts == MapSeq(LastN(buffer, Lookback), LAMBDA c : c.prompt_tokens)
           IN  prompts \in Seq(Nat)
<1>1. PICK t : t = LastN(buffer, Lookback) /\ IsSeq(t) /\ Range(t) \subseteq Range(buffer)
  BY LastNIs, RepetitionAssumption DEF CallsInv
<1>2. DOMAIN t = 1..Len(t) /\ Len(t) \in Nat
  BY <1>1 DEF IsSeq
<1>3. ASSUME NEW i \in 1..Len(t) PROVE t[i].prompt_tokens \in Nat
  <2>1. t[i] \in Range(buffer)
    BY <1>1, <1>2 DEF Range
  <2> QED
    BY <2>1 DEF CallsInv, IsCall, IsRequest
<1>4. MapSeq(t, LAMBDA c : c.prompt_tokens) = [i \in 1..Len(t) |-> t[i].prompt_tokens]
  BY <1>2 DEF MapSeq
<1>5. MapSeq(t, LAMBDA c : c.prompt_tokens) \in Seq(Nat)
  BY <1>2, <1>3, <1>4
<1> QED
  BY <1>1, <1>5

\* A context that grows is reported by its slope.
LEMMA SlopeIsFair ==
    ASSUME CallsInv
    PROVE  SlopeBetweenSteps
<1> DEFINE prompts == MapSeq(LastN(buffer, Lookback), LAMBDA c : c.prompt_tokens)
           steps == {prompts[i + 1] - prompts[i] : i \in 1..Len(prompts) - 1}
<1> SUFFICES ASSUME Len(buffer) >= MinTurns, steps # {}
             PROVE  /\ (\A d \in steps : d < SlopeThreshold) => ContextBloat(buffer) = None
                    /\ (\A d \in steps : d >= SlopeThreshold) => ContextBloat(buffer) # None
  BY DEF SlopeBetweenSteps
<1>1. PICK values \in Seq(Nat) : values = prompts
  BY PromptsAre
<1>2. PICK n \in Nat : n = Len(values)
  OBVIOUS
<1>3. steps = {values[i + 1] - values[i] : i \in 1..n - 1}
  BY <1>1, <1>2
<1>4. n >= 2
  <2>1. PICK i : i \in 1..n - 1
    BY <1>3
  <2> QED
    BY <2>1
<1>5. SlopeThreshold \in Int /\ MinTurns \in Nat
  BY RepetitionAssumption
<1>6. Len(buffer) \in Nat
  BY DEF CallsInv, IsSeq
<1>7. PICK num \in Int, den \in Nat \ {0} : num = Slope(values).num /\ den = Slope(values).den
  BY <1>2, <1>4, SlopeBetween
<1> DEFINE event == Leak("context_bloat", Head(values), Len(values),
                         BloatConfidence(Slope(values)), num \div den)
<1>8. ContextBloat(buffer) =
          IF num < SlopeThreshold * den THEN None ELSE event
  <2>1. ContextBloat(buffer) =
            IF \/ Len(buffer) < MinTurns
               \/ Len(prompts) < 2
               \/ Slope(prompts).num < SlopeThreshold * Slope(prompts).den
            THEN None
            ELSE Leak("context_bloat", Head(prompts), Len(prompts),
                      BloatConfidence(Slope(prompts)),
                      Slope(prompts).num \div Slope(prompts).den)
    BY DEF ContextBloat
  <2> HIDE DEF prompts
  <2>2. ~(Len(buffer) < MinTurns) /\ ~(Len(values) < 2)
    BY <1>2, <1>4, <1>5, <1>6
  <2> QED
    BY <1>1, <1>7, <2>1, <2>2
<1> HIDE DEF prompts, steps
<1>9. \A x \in Int : \A y \in Nat \ {0} : x \div y \in Int
  OBVIOUS
<1>10. BloatConfidence(Slope(values)) \in Int
  <2> DEFINE scale == IF SlopeThreshold > 0 THEN 4 * SlopeThreshold ELSE 1
             excess == num - SlopeThreshold * den
             x == 100 * excess
             y == scale * den
  <2>1. BloatConfidence(Slope(values)) = SmallerOf(55 + x \div y, 95)
    BY <1>7 DEF BloatConfidence
  <2>2. x \in Int
    BY <1>5
  <2>3. y \in Nat \ {0}
    <3>1. PICK z \in Nat \ {0} : z = scale
      BY <1>5
    <3>2. \A a, b \in Nat \ {0} : a * b \in Nat \ {0}
      OBVIOUS
    <3> QED
      BY <3>1, <3>2
  <2> HIDE DEF x, y
  <2>4. PICK part \in Int : part = x \div y
    BY <1>9, <2>2, <2>3
  <2> QED
    BY <2>1, <2>4 DEF SmallerOf
<1>11. event # None
  <2>1. num \div den \in Int
    BY <1>9
  <2>2. Head(values) \in Int
    <3>1. values # <<>>
      BY <1>2, <1>4
    <3> QED
      BY <3>1
  <2>3. Head(values) \in Subjects /\ "context_bloat" \in EventTypes
    BY <2>2 DEF Subjects, EventTypes
  <2>4. PICK wasted \in Int, sure \in Int :
           wasted = num \div den /\ sure = BloatConfidence(Slope(values))
    BY <1>10, <2>1
  <2>5. PICK subject \in Subjects : subject = Head(values)
    BY <2>3
  <2> QED
    BY <1>2, <2>3, <2>4, <2>5, ReportIsSome
<1> HIDE DEF event
<1>12. ASSUME \A d \in steps : d < SlopeThreshold PROVE ContextBloat(buffer) = None
  <2>1. PICK c \in Int : c = SlopeThreshold - 1
    BY <1>5
  <2>2. ASSUME NEW i \in 1..n - 1 PROVE values[i + 1] - values[i] <= c
    <3>1. i \in 1..n /\ i + 1 \in 1..n
      OBVIOUS
    <3>2. PICK a \in Int, b \in Int : a = values[i] /\ b = values[i + 1]
      BY <1>2, <3>1
    <3>3. b - a < SlopeThreshold
      BY <1>3, <1>12, <3>2
    <3> QED
      BY <1>5, <2>1, <3>2, <3>3
  <2>3. num <= c * den
    BY <1>2, <1>4, <1>7, <2>2, SlopeBetween
  <2>4. c * den = SlopeThreshold * den - den
    BY <1>5, <2>1
  <2>5. PICK limit \in Int : limit = SlopeThreshold * den
    BY <1>5
  <2>6. num < limit
    BY <2>3, <2>4, <2>5
  <2> QED
    BY <1>8, <2>5, <2>6
<1>13. ASSUME \A d \in steps : d >= SlopeThreshold PROVE ContextBloat(buffer) # None
  <2>1. PICK c \in Int : c = SlopeThreshold
    BY <1>5
  <2>2. \A i \in 1..n - 1 : values[i + 1] - values[i] >= c
    BY <1>3, <1>13, <2>1
  <2>3. num >= c * den
    BY <1>2, <1>4, <1>7, <2>2, SlopeBetween
  <2>4. PICK limit \in Int : limit = c * den
    OBVIOUS
  <2>5. ~(num < limit)
    BY <2>3, <2>4
  <2> QED
    BY <1>8, <1>11, <2>1, <2>4, <2>5
<1> QED
  BY <1>12, <1>13

\* What the detectors that count report is what the whole history shows: the
\* storms and the voices that are still in the window, the embeddings that a cache
\* would have answered, the silence since the last answer, and the growth of the
\* prompts (RetryStormRule, RerankThrashRule, VoiceSwitchingLoopRule,
\* EmbeddingWasteRule, ZombieRule and ContextBloatRule).
THEOREM CountsAreTrue == SessionSpec => []CountsTrue
<1>1. BufferInv => CountsTrue
  <2> SUFFICES ASSUME BufferInv PROVE CountsTrue
    OBVIOUS
  <2>1. StormsTrue
    BY StormsReported, ReranksReported DEF StormsTrue, RerankPlaces
  <2>2. VoicesTrue
    BY VoicesReported DEF VoicesTrue, VoicePlaces
  <2>3. WasteIsWhatACacheSaves /\ ZombieTrue /\ SessionTypeOK
    BY WasteReported, SilencesTold, BufferIsTheEnd
  <2>4. SlopeBetweenSteps
    BY SlopeIsFair DEF BufferInv
  <2> QED
    BY <2>1, <2>2, <2>3, <2>4 DEF CountsTrue
<1> QED
  BY <1>1, BuffersEnd, PTL
=============================================================================
