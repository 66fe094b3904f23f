--------------------------- MODULE CloudSinkProofs ---------------------------
(***************************************************************************)
(* What the cloud sink promises, for any number of producers, any sizes of *)
(* the queue and of a batch and any number of attempts, and that it        *)
(* implements EventDelivery.                                               *)
(***************************************************************************)
EXTENDS CloudSink, SequenceTheorems, TLAPS

(***************************************************************************)
(* Sequences of events                                                     *)
(***************************************************************************)
Ordered(seq) == \A i, j \in 1..Len(seq) : i < j => seq[i] < seq[j]

Precede(S, T) == \A x \in S, y \in T : x < y

\* What appending, taking the head and joining do to the events of a sequence
\* and to their order.
LEMMA EventsOfEmpty == EventsOf(<<>>) = {} /\ Ordered(<<>>)
BY DEF EventsOf, Ordered

LEMMA EventsInNat ==
    ASSUME NEW seq \in Seq(Nat)
    PROVE  EventsOf(seq) \in SUBSET Nat
BY ElementOfSeq DEF EventsOf

LEMMA AppendEvents ==
    ASSUME NEW seq \in Seq(Nat), NEW e \in Nat
    PROVE  /\ Append(seq, e) \in Seq(Nat)
           /\ Len(Append(seq, e)) = Len(seq) + 1
           /\ EventsOf(Append(seq, e)) = EventsOf(seq) \cup {e}
           /\ Ordered(seq) /\ Precede(EventsOf(seq), {e}) => Ordered(Append(seq, e))
<1>1. /\ Append(seq, e) \in Seq(Nat)
      /\ Len(seq) \in Nat
      /\ Len(Append(seq, e)) = Len(seq) + 1
      /\ \A i \in 1..Len(seq) : Append(seq, e)[i] = seq[i]
      /\ Append(seq, e)[Len(seq) + 1] = e
  BY AppendProperties, LenProperties
<1> DEFINE new == Append(seq, e)
           n == Len(seq)
<1>2. n \in Nat /\ Len(new) = n + 1 /\ new[n + 1] = e /\ \A i \in 1..n : new[i] = seq[i]
  BY <1>1
<1> HIDE DEF new
<1>3. 1..(n + 1) = 1..n \cup {n + 1}
  BY <1>2
<1>4. EventsOf(new) = EventsOf(seq) \cup {e}
  <2>1. EventsOf(new) = {new[i] : i \in 1..n} \cup {new[n + 1]}
    BY <1>2, <1>3 DEF EventsOf
  <2>2. {new[i] : i \in 1..n} = {seq[i] : i \in 1..n}
    BY <1>2
  <2> QED
    BY <1>2, <2>1, <2>2 DEF EventsOf
<1>5. ASSUME Ordered(seq), Precede(EventsOf(seq), {e}) PROVE Ordered(new)
  <2>1. SUFFICES ASSUME NEW i \in 1..(n + 1), NEW j \in 1..(n + 1), i < j
                 PROVE  new[i] < new[j]
    BY <1>2 DEF Ordered
  <2>2. i \in 1..n /\ new[i] = seq[i] /\ seq[i] \in EventsOf(seq)
    BY <1>2, <2>1 DEF EventsOf
  <2>3. CASE j = n + 1
    BY <1>2, <1>5, <2>2, <2>3 DEF Precede
  <2>4. CASE j \in 1..n
    BY <1>2, <1>5, <2>1, <2>2, <2>4 DEF Ordered
  <2> QED
    BY <1>2, <2>3, <2>4
<1> QED
  BY <1>1, <1>4, <1>5 DEF new

LEMMA HeadEvents ==
    ASSUME NEW seq \in Seq(Nat), seq # <<>>
    PROVE  /\ Head(seq) \in Nat /\ Tail(seq) \in Seq(Nat)
           /\ Len(Tail(seq)) = Len(seq) - 1
           /\ EventsOf(seq) = {Head(seq)} \cup EventsOf(Tail(seq))
           /\ Ordered(seq) =>
                 Ordered(Tail(seq)) /\ Precede({Head(seq)}, EventsOf(Tail(seq)))
<1> DEFINE n == Len(seq)
           rest == Tail(seq)
<1>1. /\ n \in Nat /\ n > 0
      /\ Head(seq) = seq[1] /\ Head(seq) \in Nat
      /\ rest \in Seq(Nat) /\ Len(rest) = n - 1
      /\ \A i \in 1..(n - 1) : rest[i] = seq[i + 1]
  BY HeadTailProperties, EmptySeq, LenProperties
<1> HIDE DEF rest, n
<1>2. EventsOf(seq) = {Head(seq)} \cup EventsOf(rest)
  <2>1. ASSUME NEW i \in 1..n PROVE seq[i] \in {Head(seq)} \cup EventsOf(rest)
    <3>1. CASE i = 1
      BY <1>1, <3>1
    <3>2. CASE i # 1
      <4>1. i - 1 \in 1..(n - 1) /\ rest[i - 1] = seq[(i - 1) + 1] /\ (i - 1) + 1 = i
        BY <1>1, <3>2
      <4> QED
        BY <1>1, <4>1 DEF EventsOf
    <3> QED
      BY <3>1, <3>2
  <2>2. ASSUME NEW i \in 1..(n - 1) PROVE rest[i] \in EventsOf(seq)
    <3>1. i + 1 \in 1..n /\ rest[i] = seq[i + 1]
      BY <1>1
    <3> QED
      BY <3>1 DEF EventsOf, n
  <2>3. Head(seq) \in EventsOf(seq)
    BY <1>1 DEF EventsOf, n
  <2> QED
    BY <1>1, <2>1, <2>2, <2>3 DEF EventsOf, n
<1>3. ASSUME Ordered(seq) PROVE Ordered(rest) /\ Precede({Head(seq)}, EventsOf(rest))
  <2>1. \A i, j \in 1..n : i < j => seq[i] < seq[j]
    BY <1>3 DEF Ordered, n
  <2>2. ASSUME NEW i \in 1..(n - 1), NEW j \in 1..(n - 1), i < j
        PROVE  rest[i] < rest[j]
    <3>1. i + 1 \in 1..n /\ j + 1 \in 1..n /\ i + 1 < j + 1
      BY <1>1, <2>2
    <3> QED
      BY <1>1, <2>1, <3>1
  <2>3. ASSUME NEW i \in 1..(n - 1) PROVE Head(seq) < rest[i]
    <3>1. i + 1 \in 1..n /\ 1 \in 1..n /\ 1 < i + 1
      BY <1>1
    <3> QED
      BY <1>1, <2>1, <3>1
  <2> QED
    BY <1>1, <2>2, <2>3 DEF Ordered, Precede, EventsOf
<1> QED
  BY <1>1, <1>2, <1>3 DEF rest, n

LEMMA JoinEvents ==
    ASSUME NEW s \in Seq(Nat), NEW t \in Seq(Nat)
    PROVE  /\ EventsOf(s \o t) = EventsOf(s) \cup EventsOf(t)
           /\ Ordered(s) /\ Ordered(t) /\ Precede(EventsOf(s), EventsOf(t))
                 => Ordered(s \o t)
<1> DEFINE m == Len(s)
           n == Len(t)
           both == s \o t
<1>1. /\ m \in Nat /\ n \in Nat /\ Len(both) = m + n
      /\ \A i \in 1..(m + n) : both[i] = IF i <= m THEN s[i] ELSE t[i - m]
  BY ConcatProperties, LenProperties
<1> HIDE DEF m, n, both
<1>2. ASSUME NEW i \in 1..(m + n)
      PROVE  \/ i \in 1..m /\ both[i] = s[i] /\ s[i] \in EventsOf(s)
             \/ i > m /\ i - m \in 1..n /\ both[i] = t[i - m] /\ t[i - m] \in EventsOf(t)
  BY <1>1 DEF EventsOf, m, n
<1>3. EventsOf(both) = EventsOf(s) \cup EventsOf(t)
  <2>1. ASSUME NEW i \in 1..m PROVE s[i] \in EventsOf(both)
    <3>1. i \in 1..(m + n) /\ both[i] = s[i]
      BY <1>1
    <3>2. i \in 1..Len(both)
      BY <1>1, <3>1
    <3>3. both[i] \in EventsOf(both)
      BY <3>2 DEF EventsOf
    <3> QED
      BY <3>1, <3>3
  <2>2. ASSUME NEW i \in 1..n PROVE t[i] \in EventsOf(both)
    <3>1. m + i \in 1..(m + n) /\ ~(m + i <= m) /\ (m + i) - m = i
      BY <1>1
    <3>2. both[m + i] = t[i]
      BY <1>1, <3>1
    <3> QED
      BY <1>1, <3>1, <3>2 DEF EventsOf
  <2>3. EventsOf(both) \subseteq EventsOf(s) \cup EventsOf(t)
    BY <1>1, <1>2 DEF EventsOf
  <2> QED
    BY <2>1, <2>2, <2>3 DEF EventsOf, m, n
<1>4. ASSUME Ordered(s), Ordered(t), Precede(EventsOf(s), EventsOf(t))
      PROVE  Ordered(both)
  <2>1. SUFFICES ASSUME NEW i \in 1..(m + n), NEW j \in 1..(m + n), i < j
                 PROVE  both[i] < both[j]
    BY <1>1 DEF Ordered
  <2>2. CASE j \in 1..m
    <3>1. i \in 1..m /\ both[i] = s[i] /\ both[j] = s[j]
      BY <1>1, <2>1, <2>2
    <3> QED
      BY <1>4, <2>1, <2>2, <3>1 DEF Ordered, m
  <2>3. CASE i > m
    <3>1. i - m \in 1..n /\ j - m \in 1..n /\ i - m < j - m
      BY <1>1, <2>1, <2>3
    <3>2. both[i] = t[i - m] /\ both[j] = t[j - m]
      BY <1>1, <2>1, <2>3
    <3> QED
      BY <1>4, <3>1, <3>2 DEF Ordered, n
  <2>4. CASE i <= m /\ j > m
    <3>1. i \in 1..m /\ ~(i > m) /\ j \notin 1..m
      BY <1>1, <2>4
    <3>2. both[i] \in EventsOf(s)
      BY <1>2, <3>1
    <3>3. both[j] \in EventsOf(t)
      BY <1>2, <3>1
    <3> QED
      BY <1>4, <3>2, <3>3 DEF Precede
  <2> QED
    BY <1>1, <2>2, <2>3, <2>4
<1> QED
  BY <1>3, <1>4 DEF both

(***************************************************************************)
(* The invariant.  An event is in the batch, in the queue, delivered or    *)
(* dropped; the cloud has not seen what is queued and has seen the batch   *)
(* no more often than it was posted; and the daemon posts only what there  *)
(* is, ends with nothing in its hands, and only after stop.                *)
(***************************************************************************)
Fates ==
    /\ queue \in Seq(Nat) /\ batch \in Seq(Nat) /\ accepted \in Nat
    /\ delivered \in SUBSET (1..accepted) /\ dropped \in SUBSET (1..accepted)
    /\ delivered \cap dropped = {}
    /\ EventsOf(batch) \cup EventsOf(queue) = (1..accepted) \ (delivered \cup dropped)
    /\ Ordered(batch) /\ Ordered(queue)
    /\ Precede(EventsOf(batch), EventsOf(queue))

Busy == at \in {"post", "backoff"}

Receipts ==
    /\ received \in [1..accepted -> Nat]
    /\ attempt \in 0..(Attempts - 1)
    /\ \A e \in 1..accepted : received[e] <= Attempts
    /\ \A e \in EventsOf(queue) : received[e] = 0
    /\ \A e \in EventsOf(batch) : received[e] <= IF Busy THEN attempt ELSE 0

Sizes ==
    /\ Len(queue) <= QueueMax
    /\ Len(batch) <= BatchSize
    /\ at \in {"loop", "get", "drain"} => Len(batch) < BatchSize

\* The daemon has drained the queue and is about to end.
Leaving == at = "done" \/ (Busy /\ after = "done")

Control ==
    /\ at \in DaemonSteps
    /\ after \in {"loop", "drain", "done"}
    /\ due \in BOOLEAN /\ stop \in BOOLEAN
    /\ Busy => batch # <<>>
    /\ at \in {"done", "dead"} => batch = <<>>
    /\ at = "drain" \/ (Busy /\ after = "drain") \/ Leaving => stop
    /\ late \in SUBSET (1..accepted)
    /\ Leaving => EventsOf(queue) \subseteq late

Producing ==
    /\ closer \in {"open", "joining", "clean", "timedOut"}
    /\ pc \in [Producers -> ProducerSteps]
    /\ overflowed \in BOOLEAN
    /\ begun \in Nat

SinkInv == Fates /\ Receipts /\ Sizes /\ Control /\ Producing

(***************************************************************************)
(* Whatever the threads do, an event moves in one of five ways, or none.   *)
(***************************************************************************)
Unmoved == UNCHANGED <<queue, batch, accepted, delivered, dropped>>

EventAccepted ==
    /\ accepted' = accepted + 1
    /\ queue' = Append(queue, accepted + 1)
    /\ UNCHANGED <<batch, delivered, dropped>>

EventEvicted ==
    /\ queue # <<>>
    /\ dropped' = dropped \cup {Head(queue)}
    /\ queue' = Tail(queue)
    /\ UNCHANGED <<batch, accepted, delivered>>

EventTaken ==
    /\ queue # <<>>
    /\ batch' = Append(batch, Head(queue))
    /\ queue' = Tail(queue)
    /\ UNCHANGED <<accepted, delivered, dropped>>

BatchDelivered ==
    /\ batch # <<>>
    /\ delivered' = delivered \cup EventsOf(batch)
    /\ batch' = <<>>
    /\ UNCHANGED <<queue, accepted, dropped>>

BatchDropped ==
    /\ batch # <<>>
    /\ dropped' = dropped \cup EventsOf(batch)
    /\ batch' = <<>>
    /\ UNCHANGED <<queue, accepted, delivered>>

Moves ==
    \/ Unmoved \/ EventAccepted \/ EventEvicted \/ EventTaken
    \/ BatchDelivered \/ BatchDropped

LEMMA EventsMove ==
    ASSUME Control, [Next]_vars
    PROVE  Moves
<1>1. CASE \E p \in Producers : Producer(p)
  BY <1>1 DEF Producer, Put, Evict, Retry, WarnCheck, WarnEmit, Accept, daemonVars,
              Moves, Unmoved, EventAccepted, EventEvicted
<1>2. CASE Daemon
  <2>1. CASE Loop \/ Check
    BY <2>1 DEF Loop, Check, Moves, Unmoved
  <2>2. CASE Get
    BY <2>2 DEF Get, Take, Moves, Unmoved, EventTaken
  <2>3. CASE Drain
    BY <2>3 DEF Drain, Take, Moves, Unmoved, EventTaken
  <2>4. CASE PostOK
    BY <2>4 DEF PostOK, Settle, Control, Busy, Moves, BatchDelivered
  <2>5. CASE PostFails \/ SerializeFails \/ Backoff
    BY <2>5 DEF PostFails, SerializeFails, Backoff, GiveUp, Control, Busy,
                Moves, Unmoved, BatchDropped
  <2> QED
    BY <1>2, <2>1, <2>2, <2>3, <2>4, <2>5 DEF Daemon
<1>3. CASE IntervalElapses \/ Close \/ Join \/ UNCHANGED vars
  BY <1>3 DEF IntervalElapses, Close, Join, vars, daemonVars, Moves, Unmoved
<1> QED
  BY <1>1, <1>2, <1>3 DEF Next

LEMMA FatesKept ==
    ASSUME Fates, Moves
    PROVE  Fates'
<1>1. /\ EventsOf(batch) \in SUBSET (1..accepted)
      /\ EventsOf(queue) \in SUBSET (1..accepted)
  BY DEF Fates
<1>2. CASE Unmoved
  BY <1>2 DEF Unmoved, Fates
<1>3. CASE EventAccepted
  <2>1. accepted' = accepted + 1 /\ accepted + 1 \in Nat
        /\ 1..(accepted + 1) = (1..accepted) \cup {accepted + 1}
        /\ accepted + 1 \notin 1..accepted
    <3>1. accepted \in Nat /\ accepted' = accepted + 1
      BY <1>3 DEF EventAccepted, Fates
    <3> QED
      BY <3>1
  <2>2. Precede(EventsOf(queue), {accepted + 1}) /\ Precede(EventsOf(batch), {accepted + 1})
    BY <1>1, <2>1 DEF Precede, Fates
  <2>3. /\ queue' \in Seq(Nat) /\ EventsOf(queue') = EventsOf(queue) \cup {accepted + 1}
        /\ Ordered(queue')
    BY <1>3, <2>1, <2>2, AppendEvents DEF EventAccepted, Fates
  <2>4. UNCHANGED <<batch, delivered, dropped>>
    BY <1>3 DEF EventAccepted
  <2>5. Precede(EventsOf(batch), EventsOf(queue'))
    BY <2>2, <2>3 DEF Precede, Fates
  <2>6. EventsOf(batch) \cup EventsOf(queue') = (1..accepted') \ (delivered \cup dropped)
    BY <2>1, <2>3 DEF Fates
  <2> QED
    BY <2>1, <2>3, <2>4, <2>5, <2>6 DEF Fates
<1>4. ASSUME queue # <<>>
      PROVE  /\ Head(queue) \in Nat /\ Tail(queue) \in Seq(Nat)
             /\ EventsOf(queue) = {Head(queue)} \cup EventsOf(Tail(queue))
             /\ Ordered(Tail(queue))
             /\ Precede({Head(queue)}, EventsOf(Tail(queue)))
             /\ Head(queue) \notin EventsOf(Tail(queue))
             /\ Head(queue) \notin EventsOf(batch)
             /\ Precede(EventsOf(batch), {Head(queue)})
             /\ Precede(EventsOf(batch), EventsOf(Tail(queue)))
  <2>1. /\ Head(queue) \in Nat /\ Tail(queue) \in Seq(Nat)
        /\ EventsOf(queue) = {Head(queue)} \cup EventsOf(Tail(queue))
        /\ Ordered(Tail(queue)) /\ Precede({Head(queue)}, EventsOf(Tail(queue)))
    BY <1>4, HeadEvents DEF Fates
  <2>2. ~(Head(queue) < Head(queue))
    BY <2>1
  <2>3. Precede(EventsOf(batch), EventsOf(queue))
    BY DEF Fates
  <2> QED
    BY <2>1, <2>2, <2>3 DEF Precede
<1>5. CASE EventEvicted
  <2>1. queue' = Tail(queue) /\ dropped' = dropped \cup {Head(queue)}
        /\ queue # <<>> /\ UNCHANGED <<batch, accepted, delivered>>
    BY <1>5 DEF EventEvicted
  <2>2. EventsOf(batch) \cup EventsOf(queue') = (1..accepted) \ (delivered \cup dropped')
    BY <1>4, <2>1 DEF Fates
  <2>3. dropped' \in SUBSET (1..accepted) /\ delivered \cap dropped' = {}
    BY <1>4, <2>1 DEF Fates
  <2> QED
    BY <1>4, <2>1, <2>2, <2>3 DEF Fates
<1>6. CASE EventTaken
  <2>1. queue' = Tail(queue) /\ batch' = Append(batch, Head(queue))
        /\ queue # <<>> /\ UNCHANGED <<accepted, delivered, dropped>>
    BY <1>6 DEF EventTaken
  <2>2. /\ batch' \in Seq(Nat) /\ EventsOf(batch') = EventsOf(batch) \cup {Head(queue)}
        /\ Ordered(batch')
    BY <1>4, <2>1, AppendEvents DEF Fates
  <2>3. Precede(EventsOf(batch'), EventsOf(queue'))
    BY <1>4, <2>1, <2>2 DEF Precede
  <2>4. EventsOf(batch') \cup EventsOf(queue') = EventsOf(batch) \cup EventsOf(queue)
    BY <1>4, <2>1, <2>2
  <2> QED
    BY <1>4, <2>1, <2>2, <2>3, <2>4 DEF Fates
<1>7. CASE BatchDelivered \/ BatchDropped
  <2>1. EventsOf(batch) \cap EventsOf(queue) = {}
    <3>1. \A x \in EventsOf(batch) : x \in Nat /\ ~(x < x)
      BY <1>1, EventsInNat DEF Fates
    <3> QED
      BY <3>1 DEF Precede, Fates
  <2>2. batch' = <<>> /\ EventsOf(batch') = {} /\ Ordered(batch') /\ batch' \in Seq(Nat)
        /\ UNCHANGED <<queue, accepted>>
    <3>1. batch' = <<>> /\ UNCHANGED <<queue, accepted>>
      BY <1>7 DEF BatchDelivered, BatchDropped
    <3> QED
      BY <3>1, EventsOfEmpty
  <2>3. delivered' \cup dropped' = delivered \cup dropped \cup EventsOf(batch)
        /\ delivered' \cap dropped' = {}
        /\ delivered' \in SUBSET (1..accepted) /\ dropped' \in SUBSET (1..accepted)
    BY <1>1, <1>7 DEF BatchDelivered, BatchDropped, Fates
  <2>4. Precede(EventsOf(batch'), EventsOf(queue'))
    BY <2>2 DEF Precede
  <2>5. EventsOf(batch') \cup EventsOf(queue') = (1..accepted') \ (delivered' \cup dropped')
    BY <2>1, <2>2, <2>3 DEF Fates
  <2> QED
    BY <2>2, <2>3, <2>4, <2>5 DEF Fates
<1> QED
  BY <1>2, <1>3, <1>5, <1>6, <1>7 DEF Moves

\* What follows from Fates for the batch and the queue.
LEMMA WaitingEvents ==
    ASSUME Fates
    PROVE  /\ EventsOf(batch) \in SUBSET (1..accepted)
           /\ EventsOf(queue) \in SUBSET (1..accepted)
           /\ EventsOf(batch) \cap EventsOf(queue) = {}
<1>1. /\ EventsOf(batch) \in SUBSET (1..accepted)
      /\ EventsOf(queue) \in SUBSET (1..accepted)
  BY DEF Fates
<1>2. \A x \in EventsOf(batch) : x \in Nat /\ ~(x < x)
  BY EventsInNat DEF Fates
<1> QED
  BY <1>1, <1>2 DEF Precede, Fates

LEMMA AcceptReceipts ==
    ASSUME Fates, Receipts, Accept, UNCHANGED daemonVars
    PROVE  Receipts'
<1>1. /\ accepted \in Nat /\ accepted' = accepted + 1
      /\ received \in [1..accepted -> Nat]
      /\ received' = Append(received, 0)
      /\ queue \in Seq(Nat) /\ queue' = Append(queue, accepted + 1)
      /\ UNCHANGED <<batch, at, attempt>>
  BY DEF Fates, Receipts, Accept, daemonVars
<1>2. received \in Seq(Nat) /\ Len(received) = accepted
  BY <1>1
<1>3. /\ received' \in [1..accepted' -> Nat]
      /\ \A e \in 1..accepted : received'[e] = received[e]
      /\ received'[accepted + 1] = 0
  <2>1. /\ received' \in Seq(Nat) /\ Len(received') = accepted'
        /\ \A e \in 1..accepted : received'[e] = received[e]
        /\ received'[accepted + 1] = 0
    BY <1>1, <1>2, AppendProperties
  <2> QED
    BY <2>1, LenProperties
<1>4. EventsOf(queue') = EventsOf(queue) \cup {accepted + 1}
  <2>1. accepted + 1 \in Nat
    BY <1>1
  <2> QED
    BY <1>1, <2>1, AppendEvents
<1>5. \A e \in 1..accepted' : e \in 1..accepted \/ e = accepted + 1
  BY <1>1
<1>6. Busy' <=> Busy
  BY <1>1 DEF Busy
<1>7. \A e \in 1..accepted' : received'[e] <= Attempts
  BY <1>3, <1>5, SizesAssumption DEF Receipts
<1>8. \A e \in EventsOf(queue') : received'[e] = 0
  BY <1>3, <1>4, WaitingEvents DEF Receipts
<1>9. \A e \in EventsOf(batch') : received'[e] <= IF Busy' THEN attempt' ELSE 0
  BY <1>1, <1>3, <1>6, WaitingEvents DEF Receipts
<1> QED
  BY <1>1, <1>3, <1>7, <1>8, <1>9 DEF Receipts

\* A POST that arrives is one more receipt of what is in the batch.
LEMMA ArriveReceipts ==
    ASSUME Fates, Receipts, at = "post", Arrive
    PROVE  /\ received' \in [1..accepted -> Nat]
           /\ \A e \in 1..accepted : received'[e] <= Attempts
           /\ \A e \in EventsOf(queue) : received'[e] = 0
           /\ \A e \in EventsOf(batch) : received'[e] <= attempt + 1
<1>1. /\ received \in [1..accepted -> Nat] /\ attempt \in Nat /\ attempt + 1 <= Attempts
      /\ \A e \in 1..accepted : received[e] <= Attempts
      /\ \A e \in EventsOf(queue) : received[e] = 0
      /\ \A e \in EventsOf(batch) : received[e] <= attempt
  BY SizesAssumption DEF Receipts, Busy
<1>2. received' = [e \in 1..accepted |->
                    IF e \in EventsOf(batch) THEN received[e] + 1 ELSE received[e]]
  BY DEF Arrive
<1>3. \A e \in 1..accepted : received[e] \in Nat
  BY <1>1
<1>4. Attempts \in Nat
  BY SizesAssumption
<1>5. \A e \in EventsOf(batch) : e \in 1..accepted /\ received'[e] <= attempt + 1
  BY <1>1, <1>2, <1>3, WaitingEvents
<1>6. ASSUME NEW e \in 1..accepted PROVE received'[e] <= Attempts
  <2>1. CASE e \in EventsOf(batch)
    <3>1. received'[e] = received[e] + 1 /\ received[e] <= attempt /\ received[e] \in Nat
      BY <1>1, <1>2, <1>3, <2>1
    <3> QED
      BY <1>1, <1>4, <3>1
  <2>2. CASE e \notin EventsOf(batch)
    BY <1>1, <1>2, <2>2
  <2> QED
    BY <2>1, <2>2
<1>7. \A e \in EventsOf(queue) : received'[e] = 0
  BY <1>1, <1>2, WaitingEvents
<1>8. received' \in [1..accepted -> Nat]
  BY <1>2, <1>3
<1> QED
  BY <1>5, <1>6, <1>7, <1>8

LEMMA ProducerReceipts ==
    ASSUME Fates, Receipts, NEW p \in Producers, Producer(p)
    PROVE  Receipts'
<1>1. UNCHANGED daemonVars
  BY DEF Producer, Put, Evict, Retry, WarnCheck, WarnEmit
<1>2. CASE Accept
  BY <1>1, <1>2, AcceptReceipts
<1>3. CASE queue # <<>> /\ queue' = Tail(queue) /\ UNCHANGED <<accepted, received>>
  <2>1. EventsOf(queue') \subseteq EventsOf(queue)
    BY <1>3, HeadEvents DEF Fates
  <2> QED
    BY <1>1, <1>3, <2>1 DEF Receipts, Busy, daemonVars
<1>4. CASE UNCHANGED <<queue, accepted, received>>
  BY <1>1, <1>4 DEF Receipts, Busy, daemonVars
<1>5. Accept \/ (queue # <<>> /\ queue' = Tail(queue) /\ UNCHANGED <<accepted, received>>)
        \/ UNCHANGED <<queue, accepted, received>>
  BY DEF Producer, Put, Evict, Retry, WarnCheck, WarnEmit
<1> QED
  BY <1>2, <1>3, <1>4, <1>5

LEMMA DaemonReceipts ==
    ASSUME Fates, Receipts, Daemon
    PROVE  Receipts'
<1>1. Attempts \in Nat /\ 0 \in 0..(Attempts - 1)
  BY SizesAssumption
<1>2. ASSUME queue # <<>>, Take, UNCHANGED <<accepted, received>>, ~Busy,
             (at' = at /\ attempt' = attempt) \/ (~Busy' /\ attempt' = attempt) \/ attempt' = 0
      PROVE  Receipts'
  <2>1. /\ Head(queue) \in EventsOf(queue)
        /\ EventsOf(queue') \subseteq EventsOf(queue)
        /\ EventsOf(batch') = EventsOf(batch) \cup {Head(queue)}
    BY <1>2, HeadEvents, AppendEvents DEF Fates, Take
  <2>2. \A e \in EventsOf(batch') : received[e] <= 0
    BY <1>2, <2>1 DEF Receipts
  <2>3. attempt' \in 0..(Attempts - 1)
    BY <1>1, <1>2 DEF Receipts
  <2>4. Busy' => attempt' = 0
    BY <1>2 DEF Busy
  <2> QED
    BY <1>2, <2>1, <2>2, <2>3, <2>4 DEF Receipts
<1>3. ASSUME UNCHANGED <<queue, batch, accepted, received>>,
             attempt' \in 0..(Attempts - 1),
             IF Busy' THEN Busy => attempt' = attempt ELSE ~Busy
      PROVE  Receipts'
  <2>1. \A e \in EventsOf(batch) : received[e] <= IF Busy' THEN attempt' ELSE 0
    <3>1. \A e \in EventsOf(batch) : received[e] \in Nat
      BY WaitingEvents DEF Receipts
    <3> QED
      BY <1>3, <3>1 DEF Receipts
  <2> QED
    BY <1>3, <2>1 DEF Receipts
<1>4. ASSUME UNCHANGED <<queue, accepted>>, batch' = <<>>, attempt' = 0,
             \/ UNCHANGED received
             \/ at = "post" /\ Arrive
      PROVE  Receipts'
  <2>1. EventsOf(batch') = {}
    BY <1>4, EventsOfEmpty
  <2>2. /\ received' \in [1..accepted -> Nat]
        /\ \A e \in 1..accepted : received'[e] <= Attempts
        /\ \A e \in EventsOf(queue) : received'[e] = 0
    BY <1>4, ArriveReceipts DEF Receipts
  <2> QED
    BY <1>1, <1>4, <2>1, <2>2 DEF Receipts
<1>5. CASE Loop
  BY <1>5, <1>3 DEF Loop, TestStop, Receipts, Busy
<1>6. CASE Get
  <2>1. CASE queue = <<>>
    BY <1>6, <2>1, <1>3 DEF Get, Receipts, Busy
  <2>2. CASE queue # <<>>
    BY <1>6, <2>2, <1>2 DEF Get, Busy
  <2> QED
    BY <2>1, <2>2
<1>7. CASE Check
  BY <1>7, <1>1, <1>3 DEF Check, Flush, Receipts, Busy
<1>8. CASE Drain
  <2>1. CASE queue # <<>>
    <3>1. Take /\ UNCHANGED <<accepted, received>> /\ ~Busy
      BY <1>8, <2>1 DEF Drain, Busy
    <3>2. (at' = at /\ attempt' = attempt) \/ attempt' = 0
      BY <1>8, <2>1 DEF Drain, Flush
    <3> QED
      BY <1>2, <2>1, <3>1, <3>2
  <2>2. CASE queue = <<>>
    BY <1>8, <2>2, <1>1, <1>3 DEF Drain, FlushRest, Flush, Receipts, Busy
  <2> QED
    BY <2>1, <2>2
<1>9. CASE PostOK
  BY <1>9, <1>4 DEF PostOK, Settle
<1>10. CASE PostFails
  <2>1. CASE MoreAttempts(attempt + 1)
    <3>1. /\ at = "post" /\ at' = "backoff" /\ attempt' = attempt + 1
          /\ UNCHANGED <<queue, batch, accepted>>
          /\ Arrive \/ UNCHANGED received
      BY <1>10, <2>1 DEF PostFails
    <3>2. attempt \in Nat /\ attempt' \in 0..(Attempts - 1)
      BY <1>1, <2>1, <3>1 DEF MoreAttempts, Receipts
    <3>3. CASE Arrive
      BY <3>1, <3>2, <3>3, ArriveReceipts DEF Receipts, Busy
    <3>4. CASE UNCHANGED received
      <4>1. \A e \in EventsOf(batch) : received[e] \in Nat
        BY WaitingEvents DEF Receipts
      <4>2. \A e \in EventsOf(batch) : received[e] <= attempt + 1
        BY <3>1, <3>2, <4>1 DEF Receipts, Busy
      <4> QED
        BY <3>1, <3>2, <3>4, <4>2 DEF Receipts, Busy
    <3> QED
      BY <3>1, <3>3, <3>4
  <2>2. CASE ~MoreAttempts(attempt + 1)
    BY <1>10, <2>2, <1>4 DEF PostFails, GiveUp
  <2> QED
    BY <2>1, <2>2
<1>11. CASE SerializeFails
  BY <1>11, <1>4 DEF SerializeFails, GiveUp
<1>12. CASE Backoff
  <2>1. CASE stop
    BY <1>12, <2>1, <1>4 DEF Backoff, GiveUp
  <2>2. CASE ~stop
    BY <1>12, <2>2, <1>3 DEF Backoff, Receipts, Busy
  <2> QED
    BY <2>1, <2>2
<1> QED
  BY <1>5, <1>6, <1>7, <1>8, <1>9, <1>10, <1>11, <1>12 DEF Daemon

LEMMA SizesKept ==
    ASSUME Fates, Sizes, Control, [Next]_vars
    PROVE  Sizes'
<1>1. /\ Len(queue) \in Nat /\ Len(batch) \in Nat
      /\ QueueMax \in Nat /\ BatchSize \in Nat /\ BatchSize > 0
  BY LenProperties, SizesAssumption DEF Fates
<1>2. ASSUME Accept, ~Full, UNCHANGED daemonVars PROVE Sizes'
  <2>1. Len(queue') = Len(queue) + 1
    <3>1. accepted + 1 \in Nat /\ queue' = Append(queue, accepted + 1)
      BY <1>2 DEF Accept, Fates
    <3> QED
      BY <3>1, AppendEvents DEF Fates
  <2>2. Len(queue) < QueueMax
    BY <1>1, <1>2 DEF Full
  <2> QED
    BY <1>1, <1>2, <2>1, <2>2 DEF Sizes, daemonVars
<1>3. ASSUME queue # <<>>, queue' = Tail(queue) PROVE Len(queue') <= QueueMax
  <2>1. Len(queue') = Len(queue) - 1
    BY <1>3, HeadEvents DEF Fates
  <2> QED
    BY <1>1, <2>1 DEF Sizes
<1>4. ASSUME queue # <<>>, Take PROVE Len(queue') <= QueueMax /\ Len(batch') = Len(batch) + 1
  <2>1. Len(batch') = Len(batch) + 1
    BY <1>4, HeadEvents, AppendEvents DEF Take, Fates
  <2> QED
    BY <1>3, <1>4, <2>1 DEF Take
<1>5. Len(<<>>) = 0
  OBVIOUS
<1>6. CASE \E p \in Producers : Producer(p)
  <2>1. UNCHANGED daemonVars
    BY <1>6 DEF Producer, Put, Evict, Retry, WarnCheck, WarnEmit
  <2>2. \/ Accept /\ ~Full
        \/ queue # <<>> /\ queue' = Tail(queue)
        \/ UNCHANGED queue
    BY <1>6 DEF Producer, Put, Evict, Retry, WarnCheck, WarnEmit
  <2> QED
    BY <1>2, <1>3, <2>1, <2>2 DEF Sizes, daemonVars
<1>7. CASE Loop
  BY <1>7 DEF Loop, TestStop, Sizes
<1>8. CASE Get
  <2>1. CASE queue = <<>>
    BY <1>8, <2>1 DEF Get, Sizes
  <2>2. CASE queue # <<>>
    <3>1. Take /\ at = "get" /\ at' = "check"
      BY <1>8, <2>2 DEF Get
    <3>2. Len(batch) < BatchSize
      BY <3>1 DEF Sizes
    <3> QED
      BY <1>1, <1>4, <2>2, <3>1, <3>2 DEF Sizes
  <2> QED
    BY <2>1, <2>2
<1>9. CASE Check
  <2>1. UNCHANGED <<queue, batch>>
    BY <1>9 DEF Check
  <2>2. CASE MustFlush
    BY <1>9, <2>1, <2>2 DEF Check, Flush, Sizes
  <2>3. CASE ~MustFlush
    <3>1. Len(batch) < BatchSize
      <4>1. batch = <<>> \/ ~FullBatch(batch)
        BY <2>3 DEF MustFlush
      <4> QED
        BY <1>1, <1>5, <4>1 DEF FullBatch
    <3> QED
      BY <2>1, <3>1 DEF Sizes
  <2> QED
    BY <2>2, <2>3
<1>10. CASE Drain
  <2>1. CASE queue # <<>>
    <3>1. Take /\ at = "drain" /\ Len(batch) < BatchSize
      BY <1>10, <2>1 DEF Drain, Sizes
    <3>2. Len(queue') <= QueueMax /\ Len(batch') = Len(batch) + 1
      BY <1>4, <2>1, <3>1
    <3>3. CASE FullBatch(batch')
      <4>1. at' = "post"
        BY <1>10, <2>1, <3>3 DEF Drain, Flush
      <4> QED
        BY <1>1, <3>1, <3>2, <4>1 DEF Sizes
    <3>4. CASE ~FullBatch(batch')
      BY <1>1, <3>1, <3>2, <3>4 DEF FullBatch, Sizes
    <3> QED
      BY <3>3, <3>4
  <2>2. CASE queue = <<>>
    BY <1>10, <2>2 DEF Drain, FlushRest, Flush, Sizes
  <2> QED
    BY <2>1, <2>2
<1>11. CASE PostOK
  BY <1>11, <1>1, <1>5 DEF PostOK, Settle, Sizes
<1>12. CASE PostFails \/ SerializeFails \/ Backoff
  <2>1. UNCHANGED queue
    BY <1>12 DEF PostFails, SerializeFails, Backoff
  <2>2. batch' = <<>> \/ (UNCHANGED batch /\ at' \in {"post", "backoff"})
    BY <1>12 DEF PostFails, SerializeFails, Backoff, GiveUp
  <2> QED
    BY <1>1, <1>5, <2>1, <2>2 DEF Sizes
<1>13. CASE IntervalElapses \/ Close \/ Join \/ UNCHANGED vars
  BY <1>13 DEF IntervalElapses, Close, Join, vars, daemonVars, Sizes
<1> QED
  BY <1>6, <1>7, <1>8, <1>9, <1>10, <1>11, <1>12, <1>13 DEF Next, Daemon

LEMMA ProducerControl ==
    ASSUME Fates, Control, NEW p \in Producers, Producer(p)
    PROVE  Control'
<1>1. UNCHANGED daemonVars /\ UNCHANGED stop
  BY DEF Producer, Put, Evict, Retry, WarnCheck, WarnEmit
<1>2. UNCHANGED <<at, after, due, batch, stop>>
  BY <1>1 DEF daemonVars
<1>3. (Busy' <=> Busy) /\ (Leaving' <=> Leaving)
  BY <1>2 DEF Busy, Leaving
<1>4. CASE Accept
  <2>1. /\ accepted \in Nat /\ accepted' = accepted + 1 /\ queue' = Append(queue, accepted')
        /\ late' = IF stop THEN late \cup {accepted'} ELSE late
    BY <1>4 DEF Accept, Fates
  <2>2. accepted' \in 1..accepted' /\ 1..accepted \subseteq 1..accepted'
    BY <2>1
  <2>3. EventsOf(queue') = EventsOf(queue) \cup {accepted'}
    <3>1. accepted' \in Nat
      BY <2>1
    <3> QED
      BY <2>1, <3>1, AppendEvents DEF Fates
  <2>4. late' \in SUBSET (1..accepted')
    BY <2>1, <2>2 DEF Control
  <2>5. Leaving => EventsOf(queue') \subseteq late'
    BY <2>1, <2>3 DEF Control
  <2> QED
    BY <1>2, <1>3, <2>4, <2>5 DEF Control
<1>5. CASE UNCHANGED <<accepted, late>> /\ EventsOf(queue') \subseteq EventsOf(queue)
  BY <1>2, <1>3, <1>5 DEF Control
<1>6. Accept \/ (UNCHANGED <<accepted, late>> /\ EventsOf(queue') \subseteq EventsOf(queue))
  <2>1. \/ Accept
        \/ UNCHANGED <<accepted, late>> /\ queue # <<>> /\ queue' = Tail(queue)
        \/ UNCHANGED <<accepted, late, queue>>
    BY DEF Producer, Put, Evict, Retry, WarnCheck, WarnEmit
  <2>2. ASSUME queue # <<>>, queue' = Tail(queue)
        PROVE  EventsOf(queue') \subseteq EventsOf(queue)
    BY <2>2, HeadEvents DEF Fates
  <2> QED
    BY <2>1, <2>2
<1> QED
  BY <1>4, <1>5, <1>6

LEMMA DaemonControl ==
    ASSUME Fates, Control, Daemon
    PROVE  Control'
<1>1. UNCHANGED <<stop, accepted, late>> /\ (UNCHANGED due \/ due' = FALSE)
  BY DEF Daemon, Loop, Get, Check, Drain, PostOK, PostFails, SerializeFails, Backoff
<1>2. CASE Loop
  BY <1>2 DEF Loop, TestStop, Control, Busy, Leaving, DaemonSteps
<1>3. CASE Get
  <2>1. at = "get" /\ at' = "check" /\ UNCHANGED <<after, due>>
    BY <1>3 DEF Get
  <2> QED
    BY <1>1, <2>1 DEF Control, Busy, Leaving, DaemonSteps
<1>4. CASE Check
  <2>1. at = "check" /\ UNCHANGED <<queue, batch>>
        /\ \/ at' = "post" /\ after' = "loop" /\ batch # <<>>
           \/ at' = "loop" /\ UNCHANGED after
    BY <1>4 DEF Check, Flush, MustFlush
  <2> QED
    BY <1>1, <2>1 DEF Control, Busy, Leaving, DaemonSteps
<1>5. CASE Drain
  <2>1. at = "drain" /\ stop /\ UNCHANGED due
    BY <1>5 DEF Drain, Control
  <2>2. CASE queue # <<>>
    <3>1. batch' # <<>>
      BY <1>5, <2>2, HeadEvents, AppendProperties DEF Drain, Take, Fates
    <3>2. (at' = "post" /\ after' = "drain") \/ UNCHANGED <<at, after>>
      BY <1>5, <2>2 DEF Drain, Flush
    <3> QED
      BY <1>1, <2>1, <3>1, <3>2 DEF Control, Busy, Leaving, DaemonSteps
  <2>3. CASE queue = <<>>
    <3>1. UNCHANGED <<queue, batch>>
          /\ \/ batch # <<>> /\ at' = "post" /\ after' = "done"
             \/ batch = <<>> /\ at' = "done" /\ UNCHANGED after
      BY <1>5, <2>3 DEF Drain, FlushRest, Flush
    <3>2. EventsOf(queue') = {}
      BY <2>3, <3>1, EventsOfEmpty
    <3> QED
      BY <1>1, <2>1, <3>1, <3>2 DEF Control, Busy, Leaving, DaemonSteps
  <2> QED
    BY <2>2, <2>3
<1>6. ASSUME at = "post", at' = "backoff", UNCHANGED <<queue, batch, after, due>>
      PROVE  Control'
  BY <1>1, <1>6 DEF Control, Busy, Leaving, DaemonSteps
<1>7. ASSUME at = "backoff", at' = "post", UNCHANGED <<queue, batch, after, due>>
      PROVE  Control'
  BY <1>1, <1>7 DEF Control, Busy, Leaving, DaemonSteps
<1>8. ASSUME Busy, batch' = <<>>, at' \in {"dead", after}, UNCHANGED <<queue, after, due>>
      PROVE  Control'
  BY <1>1, <1>8 DEF Control, Busy, Leaving, DaemonSteps
<1>9. CASE PostOK
  BY <1>9, <1>8 DEF PostOK, Settle, Busy
<1>10. CASE PostFails \/ SerializeFails \/ Backoff
  BY <1>10, <1>6, <1>7, <1>8 DEF PostFails, SerializeFails, Backoff, GiveUp, Busy
<1> QED
  BY <1>2, <1>3, <1>4, <1>5, <1>9, <1>10 DEF Daemon

LEMMA ControlKept ==
    ASSUME Fates, Control, [Next]_vars
    PROVE  Control'
<1>1. CASE IntervalElapses \/ Close \/ Join \/ UNCHANGED vars
  <2>1. UNCHANGED <<queue, batch, at, after, accepted, late>>
    BY <1>1 DEF IntervalElapses, Close, Join, vars, daemonVars
  <2>2. (due' = TRUE \/ UNCHANGED due) /\ (stop' = TRUE \/ UNCHANGED stop)
    BY <1>1 DEF IntervalElapses, Close, Join, vars, daemonVars
  <2>3. (Busy' <=> Busy) /\ (Leaving' <=> Leaving)
    BY <2>1 DEF Busy, Leaving
  <2>4. due \in BOOLEAN /\ stop \in BOOLEAN
    BY DEF Control
  <2>5. due' \in BOOLEAN
    BY <2>2, <2>4, Zenon
  <2>6. stop' \in BOOLEAN /\ (stop => stop')
    BY <2>2, <2>4, Zenon
  <2> QED
    BY <2>1, <2>3, <2>5, <2>6 DEF Control
<1> QED
  BY <1>1, ProducerControl, DaemonControl DEF Next

LEMMA ProducingKept ==
    ASSUME Producing, [Next]_vars
    PROVE  Producing'
<1>1. CASE \E p \in Producers : Producer(p)
  <2>1. PICK p \in Producers : Producer(p)
    BY <1>1
  <2>2. (\E step \in ProducerSteps : pc' = [pc EXCEPT ![p] = step]) \/ UNCHANGED pc
    BY <2>1 DEF Producer, Put, Evict, Retry, WarnCheck, WarnEmit, GoTo, ProducerSteps
  <2>3. UNCHANGED closer /\ (begun' = begun + 1 \/ UNCHANGED begun)
    BY <2>1 DEF Producer, Put, Evict, Retry, WarnCheck, WarnEmit
  <2>4. overflowed' = TRUE \/ UNCHANGED overflowed
    BY <2>1 DEF Producer, Put, Evict, Retry, WarnCheck, WarnEmit
  <2>5. overflowed' \in BOOLEAN
    BY <2>4, Zenon DEF Producing
  <2>6. pc' \in [Producers -> ProducerSteps]
    BY <2>2 DEF Producing
  <2>7. closer' \in {"open", "joining", "clean", "timedOut"} /\ begun' \in Nat
    BY <2>3 DEF Producing
  <2> QED
    BY <2>5, <2>6, <2>7 DEF Producing
<1>2. CASE Daemon \/ IntervalElapses \/ UNCHANGED vars
  BY <1>2 DEF Daemon, Loop, Get, Check, Drain, PostOK, PostFails, SerializeFails,
              Backoff, IntervalElapses, vars, producerVars, Producing
<1>3. CASE Close \/ Join
  BY <1>3 DEF Close, Join, producerVars, Producing
<1> QED
  BY <1>1, <1>2, <1>3 DEF Next

LEMMA SinkStarts == Init => SinkInv
<1> SUFFICES ASSUME Init PROVE SinkInv
  OBVIOUS
<1>1. queue = <<>> /\ batch = <<>> /\ accepted = 0 /\ delivered = {} /\ dropped = {}
  BY DEF Init
<1>2. EventsOf(queue) = {} /\ EventsOf(batch) = {}
      /\ Ordered(queue) /\ Ordered(batch)
  BY <1>1, EventsOfEmpty
<1>3. Fates
  BY <1>1, <1>2 DEF Fates, Precede
<1>4. Receipts
  <2>1. received \in [1..accepted -> Nat] /\ attempt = 0
    BY <1>1 DEF Init
  <2> QED
    BY <1>1, <1>2, <2>1, SizesAssumption DEF Receipts
<1>5. Sizes
  BY <1>1, SizesAssumption DEF Sizes
<1>6. Control /\ Producing
  BY <1>2 DEF Init, Control, Producing, Busy, Leaving, DaemonSteps, ProducerSteps
<1> QED
  BY <1>3, <1>4, <1>5, <1>6 DEF SinkInv

LEMMA SinkKept ==
    ASSUME SinkInv, [Next]_vars
    PROVE  SinkInv'
<1>1. Fates /\ Receipts /\ Sizes /\ Control /\ Producing
  BY DEF SinkInv
<1>2. Fates'
  BY <1>1, EventsMove, FatesKept
<1>3. Receipts'
  <2>1. CASE IntervalElapses \/ Close \/ Join \/ UNCHANGED vars
    <3>1. UNCHANGED <<queue, batch, at, attempt, accepted, received>>
      BY <2>1 DEF IntervalElapses, Close, Join, vars, daemonVars
    <3> QED
      BY <1>1, <3>1 DEF Receipts, Busy
  <2> QED
    BY <1>1, <2>1, ProducerReceipts, DaemonReceipts DEF Next
<1> QED
  BY <1>1, <1>2, <1>3, SizesKept, ControlKept, ProducingKept DEF SinkInv

\* Every step of a producer, of the daemon and of close() keeps SinkInv.
THEOREM SinkInvariant == Spec => []SinkInv
<1>1. SinkInv /\ [Next]_vars => SinkInv'
  BY SinkKept
<1> QED
  BY <1>1, SinkStarts, PTL DEF Spec

(***************************************************************************)
(* What the runs check                                                     *)
(***************************************************************************)
\* enqueue, _run and _flush: an accepted event is delivered, dropped, in the
\* batch or in the queue, in one of these only, and what waits is in order.
THEOREM EveryEventHasOneFate == Spec => []OneFate
<1>1. ASSUME Fates PROVE OneFate
  BY <1>1, JoinEvents DEF Fates, OneFate, Ordered
<1> QED
  BY <1>1, SinkInvariant, PTL DEF SinkInv

\* enqueue and _flush: the queue and the batch stay within their sizes, the
\* cloud gets no event more often than there are attempts, and the daemon's
\* variables keep their types.
THEOREM SinkWithinBounds == Spec => []WithinBounds
<1>1. ASSUME SinkInv PROVE WithinBounds
  <2>1. TypeOK
    BY <1>1 DEF SinkInv, Fates, Receipts, Control, Producing, TypeOK
  <2>2. MemoryBounded /\ RetriesBounded
    BY <1>1 DEF SinkInv, Sizes, Receipts, MemoryBounded, RetriesBounded
  <2> QED
    BY <2>1, <2>2 DEF WithinBounds
<1> QED
  BY <1>1, SinkInvariant, PTL

\* close and the drain of _run: when close() has seen the daemon end by itself,
\* what is still queued was enqueued after close() was called.
THEOREM CloseHasDrained == Spec => []CloseDrains
<1>1. ASSUME Control PROVE CloseDrains
  BY <1>1 DEF Control, Leaving, CloseDrains
<1> QED
  BY <1>1, SinkInvariant, PTL DEF SinkInv

\* How much of its way a place leaves the daemon.
LEMMA PlaceValues ==
    /\ Left["done"] = 0 /\ Left["dead"] = 0 /\ Left["backoff"] = 1
    /\ Left["post"] = 2 /\ Left["drain"] = 3 /\ Left["loop"] = 4
    /\ Left["check"] = 7 /\ Left["get"] = 8
BY DEF Left

LEMMA Advances ==
    ASSUME SinkInv, stop, Daemon
    PROVE  StepsLeft' < StepsLeft
<1>1. /\ at \in DaemonSteps /\ after \in {"loop", "drain", "done"}
      /\ Len(queue) \in Nat
  BY DEF SinkInv, Control, Fates
<1>2. Left[after] \in {0, 3, 4}
  BY <1>1, PlaceValues
<1>3. ASSUME queue # <<>>, queue' = Tail(queue) PROVE Len(queue') = Len(queue) - 1
  BY <1>3, HeadEvents DEF SinkInv, Fates
<1>4. CASE Loop
  <2>1. at = "loop" /\ at' = "drain" /\ queue' = queue
    BY <1>4 DEF Loop, TestStop
  <2> QED
    BY <1>1, <2>1, PlaceValues DEF StepsLeft, PlaceLeft
<1>5. CASE Get
  <2>1. at = "get" /\ at' = "check" /\ (queue' = queue \/ (queue # <<>> /\ queue' = Tail(queue)))
    BY <1>5 DEF Get, Take
  <2> QED
    BY <1>1, <1>3, <2>1, PlaceValues DEF StepsLeft, PlaceLeft
<1>6. CASE Check
  <2>1. at = "check" /\ queue' = queue
        /\ ((at' = "post" /\ after' = "loop") \/ at' = "loop")
    BY <1>6 DEF Check, Flush
  <2> QED
    BY <1>1, <2>1, PlaceValues DEF StepsLeft, PlaceLeft
<1>7. CASE Drain
  <2>1. at = "drain"
        /\ \/ /\ queue # <<>> /\ queue' = Tail(queue)
              /\ (at' = "post" /\ after' = "drain") \/ at' = at
           \/ queue' = queue /\ ((at' = "post" /\ after' = "done") \/ at' = "done")
    BY <1>7 DEF Drain, Take, Flush, FlushRest
  <2> QED
    BY <1>1, <1>3, <2>1, PlaceValues DEF StepsLeft, PlaceLeft
<1>8. CASE PostOK \/ PostFails \/ SerializeFails
  <2>1. /\ at = "post" /\ queue' = queue /\ after' = after
        /\ at' \in {after, "backoff", "dead"}
    BY <1>8 DEF PostOK, Settle, PostFails, SerializeFails, GiveUp
  <2> QED
    BY <1>1, <1>2, <2>1, PlaceValues DEF StepsLeft, PlaceLeft
<1>9. CASE Backoff
  <2>1. /\ at = "backoff" /\ queue' = queue /\ after' = after
        /\ at' \in {after, "dead"}
    BY <1>9 DEF Backoff, GiveUp
  <2> QED
    BY <1>1, <1>2, <2>1, PlaceValues DEF StepsLeft, PlaceLeft
<1> QED
  BY <1>4, <1>5, <1>6, <1>7, <1>8, <1>9 DEF Daemon

\* close and the drain of _run: once stop is set, no step of the daemon leads
\* away from its end, however posts fail and backoffs are cut, and only events
\* accepted late put it off.
THEOREM ClosingOnlyAdvances == Spec => ClosingAdvances
<1> DEFINE Step == stop => /\ <<at, batch>>' # <<at, batch>> => StepsLeft' < StepsLeft
                           /\ StepsLeft' > StepsLeft =>
                                 /\ accepted' = accepted + 1
                                 /\ late' = late \cup {accepted'}
<1>1. SinkInv /\ [Next]_vars => [Step]_vars
  <2> SUFFICES ASSUME SinkInv, Next, stop
               PROVE  /\ <<at, batch>>' # <<at, batch>> => StepsLeft' < StepsLeft
                      /\ StepsLeft' > StepsLeft =>
                            /\ accepted' = accepted + 1
                            /\ late' = late \cup {accepted'}
    OBVIOUS
  <2>1. Len(queue) \in Nat /\ PlaceLeft \in Nat /\ StepsLeft \in Nat
    <3>1. Len(queue) \in Nat /\ at \in DaemonSteps /\ after \in {"loop", "drain", "done"}
      BY DEF SinkInv, Control, Fates
    <3>2. Left[at] \in Nat /\ Left[after] \in Nat
      BY <3>1, PlaceValues DEF DaemonSteps
    <3> QED
      BY <3>1, <3>2 DEF PlaceLeft, StepsLeft
  <2>2. CASE Daemon
    <3>1. StepsLeft' < StepsLeft
      BY <2>2, Advances
    <3>2. SinkInv'
      BY SinkKept
    <3>3. StepsLeft' \in Int
      <4>1. /\ Len(queue') \in Nat /\ at' \in DaemonSteps
            /\ after' \in {"loop", "drain", "done"}
        BY <3>2 DEF SinkInv, Control, Fates
      <4>2. Left[at'] \in Nat /\ Left[after'] \in Nat
        BY <4>1, PlaceValues DEF DaemonSteps
      <4> QED
        BY <4>1, <4>2 DEF PlaceLeft, StepsLeft
    <3> QED
      BY <2>1, <3>1, <3>3
  <2>3. CASE \E p \in Producers : Producer(p)
    <3>1. UNCHANGED <<at, batch, after>>
      BY <2>3 DEF Producer, Put, Evict, Retry, WarnCheck, WarnEmit, daemonVars
    <3>2. PlaceLeft' = PlaceLeft
      BY <3>1 DEF PlaceLeft
    <3>3. \/ accepted' = accepted + 1 /\ late' = late \cup {accepted'}
          \/ queue # <<>> /\ queue' = Tail(queue)
          \/ queue' = queue
      BY <2>3 DEF Producer, Put, Evict, Retry, WarnCheck, WarnEmit, Accept
    <3>4. ASSUME queue # <<>>, queue' = Tail(queue) PROVE Len(queue') = Len(queue) - 1
      BY <3>4, HeadEvents DEF SinkInv, Fates
    <3> QED
      BY <2>1, <3>1, <3>2, <3>3, <3>4 DEF StepsLeft
  <2>4. CASE IntervalElapses \/ Close \/ Join
    <3>1. UNCHANGED <<queue, at, batch, after>>
      BY <2>4 DEF IntervalElapses, Close, Join, daemonVars
    <3>2. StepsLeft' = StepsLeft
      BY <3>1 DEF PlaceLeft, StepsLeft
    <3> QED
      BY <2>1, <3>1, <3>2
  <2> QED
    BY <2>2, <2>3, <2>4 DEF Next
<1> QED
  BY <1>1, SinkInvariant, PTL DEF Spec, ClosingAdvances

(***************************************************************************)
(* The refinement: what waits is the batch followed by the queue.          *)
(***************************************************************************)
\* The batch is the front of what waits, the queue is the rest.
LEMMA FrontAndRest ==
    ASSUME NEW s \in Seq(Nat), NEW t \in Seq(Nat)
    PROVE  /\ SubSeq(s \o t, 1, Len(s)) = s
           /\ SubSeq(s \o t, Len(s) + 1, Len(s) + Len(t)) = t
<1> DEFINE m == Len(s)
           n == Len(t)
<1>1. m \in Nat /\ n \in Nat
  BY LenProperties
<1>2. SubSeq(s \o t, 1, m) = s
  <2>1. CASE m = 0
    <3>1. s = <<>>
      BY <2>1, EmptySeq
    <3> QED
      BY <2>1, <3>1, SubSeqEmpty
  <2>2. CASE m # 0
    <3>1. 1 \in 1..m /\ m \in 1..m
      BY <1>1, <2>2
    <3>2. SubSeq(s \o t, 1, m) = SubSeq(s, 1, m)
      BY <3>1, SubSeqOfConcat1
    <3> QED
      BY <3>2, SubSeqFull
  <2> QED
    BY <2>1, <2>2
<1>3. SubSeq(s \o t, m + 1, m + n) = t
  <2>1. CASE n = 0
    <3>1. t = <<>>
      BY <2>1, EmptySeq
    <3>2. m + n < m + 1 /\ m + n \in Int /\ m + 1 \in Int
      BY <1>1, <2>1
    <3> QED
      BY <3>1, <3>2, SubSeqEmpty
  <2>2. CASE n # 0
    <3>1. m + 1 \in m + 1 .. m + n /\ m + n \in m + 1 .. m + n
          /\ (m + 1) - m = 1 /\ (m + n) - m = n
      BY <1>1, <2>2
    <3>2. SubSeq(s \o t, m + 1, m + n) = SubSeq(t, 1, n)
      BY <3>1, SubSeqOfConcat2
    <3> QED
      BY <3>2, SubSeqFull
  <2> QED
    BY <2>1, <2>2
<1> QED
  BY <1>2, <1>3

\* The oldest of the queue sits right behind the batch.
LEMMA HeadBehindFront ==
    ASSUME NEW s \in Seq(Nat), NEW t \in Seq(Nat), t # <<>>
    PROVE  /\ Len(s) + 1 \in 1..(Len(s) + Len(t))
           /\ SubSeq(s \o t, Len(s) + 1, Len(s) + 1) = <<Head(t)>>
           /\ SubSeq(s \o t, Len(s) + 2, Len(s) + Len(t)) = Tail(t)
           /\ Append(s, Head(t)) \o Tail(t) = s \o t
<1> DEFINE m == Len(s)
           n == Len(t)
           first == Append(s, Head(t))
<1>1. Head(t) \in Nat /\ Tail(t) \in Seq(Nat) /\ Len(Tail(t)) = n - 1
  BY HeadEvents
<1>2. m \in Nat /\ n \in Nat /\ n > 0
  BY LenProperties, EmptySeq
<1>3. first = s \o <<Head(t)>>
  BY <1>1, AppendIsConcat
<1>4. <<Head(t)>> \o Tail(t) = t
  <2>1. <<Head(t)>> \in Seq(Nat) /\ Len(<<Head(t)>>) = 1 /\ <<Head(t)>>[1] = Head(t)
    BY <1>1
  <2>2. \A i \in 1..n : (<<Head(t)>> \o Tail(t))[i] = t[i]
    <3>1. \A i \in 1..(n - 1) : Tail(t)[i] = t[i + 1]
      BY <1>1, HeadTailProperties
    <3>2. Head(t) = t[1]
      OBVIOUS
    <3>3. SUFFICES ASSUME NEW i \in 1..n PROVE (<<Head(t)>> \o Tail(t))[i] = t[i]
      OBVIOUS
    <3>4. i \in 1..(1 + (n - 1))
      BY <1>2
    <3>5. (<<Head(t)>> \o Tail(t))[i]
              = IF i <= 1 THEN <<Head(t)>>[i] ELSE Tail(t)[i - 1]
      BY <1>1, <2>1, <3>4, ConcatProperties
    <3>6. CASE i = 1
      BY <2>1, <3>2, <3>5, <3>6
    <3>7. CASE i # 1
      <4>1. i - 1 \in 1..(n - 1) /\ (i - 1) + 1 = i /\ ~(i <= 1)
        BY <1>2, <3>7
      <4> QED
        BY <3>1, <3>5, <4>1
    <3> QED
      BY <3>6, <3>7
  <2>3. <<Head(t)>> \o Tail(t) \in Seq(Nat) /\ Len(<<Head(t)>> \o Tail(t)) = n
    BY <1>1, <1>2, <2>1, ConcatProperties
  <2> QED
    BY <2>2, <2>3, SeqEqual
<1>5. first \o Tail(t) = s \o t
  BY <1>1, <1>3, <1>4, ConcatAssociative, SMTT(30)
<1>6. first \in Seq(Nat) /\ Len(first) = m + 1
  BY <1>1, AppendEvents
<1>7. SubSeq(first \o Tail(t), Len(first) + 1, Len(first) + Len(Tail(t))) = Tail(t)
  <2>1. PICK f \in Seq(Nat) : f = first
    BY <1>6
  <2>2. PICK rest \in Seq(Nat) : rest = Tail(t)
    BY <1>1
  <2>3. SubSeq(f \o rest, Len(f) + 1, Len(f) + Len(rest)) = rest
    BY FrontAndRest
  <2> QED
    BY <2>1, <2>2, <2>3
<1>8. Len(first) + 1 = m + 2 /\ Len(first) + Len(Tail(t)) = m + n
  BY <1>1, <1>2, <1>6
<1>9. SubSeq(s \o t, m + 2, m + n) = Tail(t)
  BY <1>5, <1>7, <1>8
<1>10. SubSeq(s \o t, m + 1, m + 1) = <<Head(t)>>
  <2>1. m + 1 \in m + 1 .. m + n /\ (m + 1) - m = 1
    BY <1>2
  <2>2. SubSeq(s \o t, m + 1, m + 1) = SubSeq(t, 1, 1)
    BY <2>1, SubSeqOfConcat2
  <2>3. 1 \in 1..n
    BY <1>2
  <2>4. SubSeq(t, 1, 1) = SubSeq(t, 1, 0) \o <<t[1]>>
    <3>1. 1 - 1 = 0 /\ 1 \in 1..Len(t)
      BY <2>3
    <3> QED
      BY <2>3, <3>1, SubSeqRecursiveSecond
  <2>5. SubSeq(t, 1, 0) = <<>> /\ Head(t) = t[1]
    BY SubSeqEmpty
  <2>6. <<>> \o <<Head(t)>> = <<Head(t)>>
    BY <1>1, ConcatEmptySeq
  <2> QED
    BY <2>2, <2>4, <2>5, <2>6
<1>11. m + 1 \in 1..(m + n)
  BY <1>2
<1> QED
  BY <1>5, <1>9, <1>10, <1>11

\* A move of an event is a step of EventDelivery, or none.
LEMMA MovesImplement ==
    ASSUME Fates, Moves
    PROVE  [Delivery!DeliveryNext]_(Delivery!deliveryVars)
<1> DEFINE waiting == batch \o queue
           m == Len(batch)
           n == Len(queue)
<1>1. /\ batch \in Seq(Nat) /\ queue \in Seq(Nat) /\ accepted \in Nat
      /\ m \in Nat /\ n \in Nat
      /\ Len(waiting) = m + n
  BY ConcatProperties, LenProperties DEF Fates
<1>2. \A seq : Delivery!EventsOf(seq) = EventsOf(seq)
  BY DEF Delivery!EventsOf, EventsOf
<1>3. SubSeq(waiting, 1, m) = batch /\ SubSeq(waiting, m + 1, m + n) = queue
  BY <1>1, FrontAndRest
<1>4. CASE Unmoved
  <2>1. waiting' = waiting
    BY <1>4 DEF Unmoved
  <2> QED
    BY <1>4, <2>1 DEF Unmoved, Delivery!deliveryVars
<1>5. CASE EventAccepted
  <2>1. /\ accepted' = accepted + 1 /\ queue' = Append(queue, accepted')
        /\ UNCHANGED <<batch, delivered, dropped>> /\ accepted' \in Nat
    BY <1>1, <1>5 DEF EventAccepted
  <2>2. Append(queue, accepted') = queue \o <<accepted'>>
        /\ Append(waiting, accepted') = waiting \o <<accepted'>>
    <3>1. waiting \in Seq(Nat)
      BY <1>1, ConcatProperties
    <3> QED
      BY <1>1, <2>1, <3>1, AppendIsConcat
  <2>3. waiting \o <<accepted'>> = batch \o (queue \o <<accepted'>>)
    <3>1. <<accepted'>> \in Seq(Nat)
      BY <2>1
    <3> QED
      BY <1>1, <3>1, ConcatAssociative, SMTT(30)
  <2>4. waiting' = Append(waiting, accepted')
    BY <2>1, <2>2, <2>3
  <2> QED
    BY <2>1, <2>4 DEF Delivery!DeliveryNext, Delivery!Accept
<1>6. CASE EventTaken
  <2>1. waiting' = waiting
    BY <1>1, <1>6, HeadBehindFront DEF EventTaken
  <2> QED
    BY <1>6, <2>1 DEF EventTaken, Delivery!deliveryVars
<1>7. CASE EventEvicted
  <2>1. /\ queue # <<>> /\ dropped' = dropped \cup {Head(queue)}
        /\ queue' = Tail(queue) /\ UNCHANGED <<batch, accepted, delivered>>
    BY <1>7 DEF EventEvicted
  <2>2. /\ m + 1 \in 1..(m + n)
        /\ SubSeq(waiting, m + 1, m + 1) = <<Head(queue)>>
        /\ SubSeq(waiting, m + 2, m + n) = Tail(queue)
    BY <1>1, <2>1, HeadBehindFront
  <2>3. EventsOf(<<Head(queue)>>) = {Head(queue)}
    BY DEF EventsOf
  <2>4. (m + 1) - 1 = m /\ (m + 1) + 1 = m + 2 /\ m + 1 <= m + 1
    BY <1>1
  <2>5. m + 1 \in 1..Len(waiting)
    BY <1>1, <2>2
  <2>6. dropped' = dropped \cup Delivery!EventsOf(SubSeq(waiting, m + 1, m + 1))
    BY <1>2, <2>1, <2>2, <2>3
  <2>7. waiting' = SubSeq(waiting, 1, (m + 1) - 1)
                       \o SubSeq(waiting, (m + 1) + 1, Len(waiting))
    BY <1>1, <1>3, <2>1, <2>2, <2>4
  <2> HIDE DEF waiting, m, n
  <2>8. \E i, j \in 1..Len(waiting) :
          /\ i <= j
          /\ dropped' = dropped \cup Delivery!EventsOf(SubSeq(waiting, i, j))
          /\ waiting' = SubSeq(waiting, 1, i - 1) \o SubSeq(waiting, j + 1, Len(waiting))
    BY <2>4, <2>5, <2>6, <2>7
  <2> QED
    BY <2>1, <2>8 DEF waiting, Delivery!DeliveryNext, Delivery!Drop
<1>8. CASE BatchDelivered \/ BatchDropped
  <2>1. batch # <<>> /\ batch' = <<>> /\ UNCHANGED <<queue, accepted>>
    BY <1>8 DEF BatchDelivered, BatchDropped
  <2>2. m \in 1..Len(waiting) /\ 1 \in 1..Len(waiting) /\ 1 <= m
    <3>1. m # 0
      BY <1>1, <2>1, EmptySeq
    <3> QED
      BY <1>1, <3>1
  <2>3. waiting' = queue
    <3>1. <<>> \o queue = queue
      BY <1>1, ConcatEmptySeq
    <3> QED
      BY <2>1, <3>1
  <2>4. waiting' = SubSeq(waiting, m + 1, Len(waiting))
    BY <1>1, <1>3, <2>3
  <2>5. Delivery!EventsOf(SubSeq(waiting, 1, m)) = EventsOf(batch)
    BY <1>2, <1>3
  <2>6. CASE BatchDelivered
    <3>1. delivered' = delivered \cup Delivery!EventsOf(SubSeq(waiting, 1, m))
          /\ UNCHANGED dropped
      BY <2>5, <2>6 DEF BatchDelivered
    <3> HIDE DEF waiting, m, n
    <3>2. \E k \in 1..Len(waiting) :
            /\ delivered' = delivered \cup Delivery!EventsOf(SubSeq(waiting, 1, k))
            /\ waiting' = SubSeq(waiting, k + 1, Len(waiting))
      BY <2>2, <2>4, <3>1
    <3> QED
      BY <2>1, <3>1, <3>2 DEF waiting, Delivery!DeliveryNext, Delivery!Deliver
  <2>7. CASE BatchDropped
    <3>1. dropped' = dropped \cup Delivery!EventsOf(SubSeq(waiting, 1, m))
          /\ UNCHANGED delivered
      BY <2>5, <2>7 DEF BatchDropped
    <3>2. waiting' = SubSeq(waiting, 1, 1 - 1) \o SubSeq(waiting, m + 1, Len(waiting))
      <4>1. SubSeq(waiting, 1, 1 - 1) = <<>>
        BY SubSeqEmpty
      <4>2. <<>> \o queue = queue
        BY <1>1, ConcatEmptySeq
      <4> QED
        BY <2>3, <2>4, <4>1, <4>2
    <3> HIDE DEF waiting, m, n
    <3>3. \E i, j \in 1..Len(waiting) :
            /\ i <= j
            /\ dropped' = dropped \cup Delivery!EventsOf(SubSeq(waiting, i, j))
            /\ waiting' = SubSeq(waiting, 1, i - 1)
                              \o SubSeq(waiting, j + 1, Len(waiting))
      BY <2>2, <3>1, <3>2
    <3> QED
      BY <2>1, <3>1, <3>3 DEF waiting, Delivery!DeliveryNext, Delivery!Drop
  <2> QED
    BY <1>8, <2>6, <2>7
<1> QED
  BY <1>4, <1>5, <1>6, <1>7, <1>8 DEF Moves

\* The queue, the daemon and its retries implement EventDelivery: events are
\* accepted in order, delivered in batches from the oldest on, and given up
\* only as the batch or as the oldest of the queue.
THEOREM SinkImplementsDelivery == Spec => ImplementsDelivery
<1>1. Init => Delivery!DeliveryInit
  <2>1. <<>> \o <<>> = <<>>
    BY ConcatEmptySeq
  <2> QED
    BY <2>1 DEF Init, Delivery!DeliveryInit
<1>2. SinkInv /\ [Next]_vars => [Delivery!DeliveryNext]_(Delivery!deliveryVars)
  BY EventsMove, MovesImplement DEF SinkInv
<1> QED
  BY <1>1, <1>2, SinkInvariant, PTL DEF Spec, Delivery!DeliverySpec, ImplementsDelivery
=============================================================================
