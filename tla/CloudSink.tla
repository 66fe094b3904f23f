------------------------------ MODULE CloudSink ------------------------------
(***************************************************************************)
(* cloud_client.CloudSink: threads hand events to a bounded queue, one     *)
(* daemon thread takes them off, batches them and POSTs the batches with   *)
(* retries, and close() stops the daemon after a last drain.  A step is    *)
(* what a thread does up to its next access to the queue, the stop event,  *)
(* the network or the overflow flag.  Events are named by the order in     *)
(* which the queue accepts them.                                           *)
(***************************************************************************)
EXTENDS Integers, Sequences, FiniteSets

CONSTANTS
    Producers,     \* the threads that call enqueue
    QueueMax,      \* cloud_queue_max
    BatchSize,     \* cloud_batch_size
    Attempts,      \* len(_RETRY_BACKOFFS_SECONDS)
    MaxEvents,     \* bound on the calls of enqueue in a behaviour
    WarnRaises     \* the warnings filter turns warnings into exceptions

ASSUME SizesAssumption ==
    /\ QueueMax \in Nat \ {0}
    /\ BatchSize \in Nat \ {0}
    /\ Attempts \in Nat \ {0}
ASSUME WarnRaisesAssumption == WarnRaises \in BOOLEAN

VARIABLES
    queue,       \* _queue
    batch,       \* the daemon's local batch
    at,          \* where the daemon is
    after,       \* where it goes once the batch is flushed
    attempt,     \* POSTs of the batch so far
    due,         \* flush_interval_seconds have passed since last_flush
    stop,        \* _stop
    closer,      \* where the thread that calls close() is
    pc,          \* where each producer is
    overflowed,  \* _overflow_warning_emitted
    begun,       \* calls of enqueue begun, up to MaxEvents
    accepted,    \* events the queue accepted
    delivered,   \* events of a batch whose POST returned
    dropped,     \* events given up
    received,    \* how often the cloud got each accepted event
    late         \* events accepted after close() was called

daemonVars == <<batch, at, after, attempt, due>>
producerVars == <<pc, overflowed, begun>>
vars == <<queue, daemonVars, stop, closer, producerVars, accepted, delivered,
          dropped, received, late>>

DaemonSteps ==
    {"loop", "get", "check", "post", "backoff", "drain", "done", "dead"}
ProducerSteps == {"idle", "evict", "retry", "warn", "emit"}

EventsOf(seq) == {seq[i] : i \in 1..Len(seq)}

TypeOK ==
    /\ queue \in Seq(Nat)
    /\ batch \in Seq(Nat)
    /\ at \in DaemonSteps
    /\ after \in {"loop", "drain", "done"}
    /\ attempt \in 0..(Attempts - 1)
    /\ due \in BOOLEAN
    /\ stop \in BOOLEAN
    /\ closer \in {"open", "joining", "clean", "timedOut"}
    /\ pc \in [Producers -> ProducerSteps]
    /\ overflowed \in BOOLEAN
    /\ begun \in Nat
    /\ accepted \in Nat
    /\ delivered \subseteq 1..accepted
    /\ dropped \subseteq 1..accepted
    /\ received \in [1..accepted -> Nat]
    /\ late \subseteq 1..accepted

Init ==
    /\ queue = <<>> /\ batch = <<>>
    /\ at = "loop" /\ after = "loop" /\ attempt = 0 /\ due = FALSE
    /\ stop = FALSE /\ closer = "open"
    /\ pc = [p \in Producers |-> "idle"]
    /\ overflowed = FALSE /\ begun = 0
    /\ accepted = 0 /\ delivered = {} /\ dropped = {}
    /\ received = <<>> /\ late = {}

(***************************************************************************)
(* enqueue                                                                 *)
(***************************************************************************)
GoTo(p, step) == pc' = [pc EXCEPT ![p] = step]

\* put_nowait succeeds.
Accept ==
    /\ accepted' = accepted + 1
    /\ queue' = Append(queue, accepted')
    /\ received' = Append(received, 0)
    /\ late' = IF stop THEN late \cup {accepted'} ELSE late

FullLate == Len(queue) > QueueMax
Full == Len(queue) >= QueueMax

Put(p) ==
    /\ pc[p] = "idle"
    /\ begun < MaxEvents
    /\ begun' = begun + 1
    /\ IF Full
       THEN GoTo(p, "evict") /\ UNCHANGED <<queue, accepted, received, late>>
       ELSE Accept /\ UNCHANGED pc
    /\ UNCHANGED <<daemonVars, stop, closer, overflowed, delivered,
                   dropped>>

\* get_nowait of the oldest, unless the daemon drained the queue meanwhile.
Evict(p) ==
    /\ pc[p] = "evict"
    /\ GoTo(p, "retry")
    /\ IF queue = <<>>
       THEN UNCHANGED <<queue, dropped>>
       ELSE /\ dropped' = dropped \cup {Head(queue)}
            /\ queue' = Tail(queue)
    /\ UNCHANGED <<daemonVars, stop, closer, overflowed, begun,
                   accepted, delivered, received, late>>

\* The second put_nowait; if another thread took the room, the new event is
\* lost without having been accepted.
Retry(p) ==
    /\ pc[p] = "retry"
    /\ GoTo(p, "warn")
    /\ IF Full
       THEN UNCHANGED <<queue, accepted, received, late>>
       ELSE Accept
    /\ UNCHANGED <<daemonVars, stop, closer, overflowed, begun,
                   delivered, dropped>>

WarnCheck(p) ==
    /\ pc[p] = "warn"
    /\ GoTo(p, IF overflowed THEN "idle" ELSE "emit")
    /\ UNCHANGED <<queue, daemonVars, stop, closer, overflowed, begun,
                   accepted, delivered, dropped, received, late>>

\* If the warning is an exception, Sentinel._run_handlers swallows it.
WarnEmit(p) ==
    /\ pc[p] = "emit"
    /\ GoTo(p, "idle")
    /\ overflowed' = TRUE
    /\ UNCHANGED <<queue, daemonVars, stop, closer, begun, accepted,
                   delivered, dropped, received, late>>

Producer(p) == Put(p) \/ Evict(p) \/ Retry(p) \/ WarnCheck(p) \/ WarnEmit(p)

(***************************************************************************)
(* The daemon: _run                                                        *)
(***************************************************************************)
KeepRunning == at' = "get"
TestStop == at' = IF stop THEN "drain" ELSE "get"

Loop ==
    /\ at = "loop"
    /\ TestStop
    /\ UNCHANGED <<queue, batch, after, attempt, due, stop, closer,
                   producerVars, accepted, delivered, dropped, received, late>>

\* Mutants come before what they replace.  This one leaves the event queued.
PeekOnly ==
    /\ batch' = Append(batch, Head(queue))
    /\ queue' = queue
Take ==
    /\ batch' = Append(batch, Head(queue))
    /\ queue' = Tail(queue)

\* queue.get with a timeout: an event, or Empty.
Get ==
    /\ at = "get"
    /\ at' = "check"
    /\ IF queue = <<>> THEN UNCHANGED <<queue, batch>> ELSE Take
    /\ UNCHANGED <<after, attempt, due, stop, closer, producerVars, accepted,
                   delivered, dropped, received, late>>

FullBatch(b) == Len(b) >= BatchSize

\* Call _flush(batch), to go on at step next.
Flush(next) ==
    /\ at' = "post"
    /\ after' = next
    /\ attempt' = 0

FlushWhenFull == FullBatch(batch)
MustFlush == batch # <<>> /\ (FullBatch(batch) \/ due)

\* last_flush is the time read here, before the flush.
Check ==
    /\ at = "check"
    /\ IF MustFlush
       THEN Flush("loop") /\ due' = FALSE
       ELSE at' = "loop" /\ UNCHANGED <<after, attempt, due>>
    /\ UNCHANGED <<queue, batch, stop, closer, producerVars, accepted,
                   delivered, dropped, received, late>>

LeaveRest == at' = "done" /\ UNCHANGED <<after, attempt>>
FlushRest ==
    IF batch # <<>>
    THEN Flush("done")
    ELSE at' = "done" /\ UNCHANGED <<after, attempt>>

\* After stop: take what is queued, flush full batches, then the rest.
Drain ==
    /\ at = "drain"
    /\ IF queue # <<>>
       THEN /\ Take
            /\ IF FullBatch(batch')
               THEN Flush("drain")
               ELSE UNCHANGED <<at, after, attempt>>
       ELSE FlushRest /\ UNCHANGED <<queue, batch>>
    /\ UNCHANGED <<due, stop, closer, producerVars, accepted, delivered,
                   dropped, received, late>>

(***************************************************************************)
(* The daemon: _flush                                                      *)
(***************************************************************************)
Arrive ==
    received' = [e \in 1..accepted |->
                    IF e \in EventsOf(batch) THEN received[e] + 1
                                             ELSE received[e]]

SettleKeeping ==
    /\ batch' = batch
    /\ at' = after
    /\ attempt' = 0
Settle ==
    /\ batch' = <<>>
    /\ at' = after
    /\ attempt' = 0

\* The POST returns 2xx.
PostOK ==
    /\ at = "post"
    /\ Arrive
    /\ delivered' = delivered \cup EventsOf(batch)
    /\ Settle
    /\ UNCHANGED <<queue, after, due, stop, closer, producerVars, accepted,
                   dropped, late>>

\* The warning that a batch was lost: as an exception, it ends the thread.
GiveUp ==
    /\ dropped' = dropped \cup EventsOf(batch)
    /\ batch' = <<>>
    /\ at' = IF WarnRaises THEN "dead" ELSE after
    /\ attempt' = 0

MoreAttemptsLate(n) == n <= Attempts
MoreAttempts(n) == n < Attempts

\* The POST fails, whether the cloud got the batch or not.
PostFails ==
    /\ at = "post"
    /\ Arrive \/ UNCHANGED received
    /\ IF MoreAttempts(attempt + 1)
       THEN /\ at' = "backoff"
            /\ attempt' = attempt + 1
            /\ UNCHANGED <<batch, dropped>>
       ELSE GiveUp
    /\ UNCHANGED <<queue, after, due, stop, closer, producerVars, accepted,
                   delivered, late>>

\* The batch cannot be serialized.
SerializeFails ==
    /\ at = "post"
    /\ attempt = 0
    /\ GiveUp
    /\ UNCHANGED <<queue, after, due, stop, closer, producerVars, accepted,
                   delivered, received, late>>

\* _stop.wait(delay): the delay passes, or stop is set and cuts it short.
Backoff ==
    /\ at = "backoff"
    /\ IF stop
       THEN GiveUp
       ELSE at' = "post" /\ UNCHANGED <<batch, attempt, dropped>>
    /\ UNCHANGED <<queue, after, due, stop, closer, producerVars, accepted,
                   delivered, received, late>>

Daemon ==
    \/ Loop \/ Get \/ Check \/ Drain
    \/ PostOK \/ PostFails \/ SerializeFails \/ Backoff

\* Time passes.
IntervalElapses ==
    /\ ~due
    /\ due' = TRUE
    /\ UNCHANGED <<queue, batch, at, after, attempt, stop, closer,
                   producerVars, accepted, delivered, dropped, received, late>>

(***************************************************************************)
(* close                                                                   *)
(***************************************************************************)
Close ==
    /\ closer \in {"open", "timedOut"}
    /\ stop' = TRUE
    /\ closer' = "joining"
    /\ UNCHANGED <<queue, daemonVars, producerVars, accepted, delivered,
                   dropped, received, late>>

\* join returns because the thread is over, or because the timeout is.
Join ==
    /\ closer = "joining"
    /\ closer' = IF at \in {"done", "dead"} THEN "clean" ELSE "timedOut"
    /\ UNCHANGED <<queue, daemonVars, stop, producerVars, accepted, delivered,
                   dropped, received, late>>

Next ==
    \/ \E p \in Producers : Producer(p)
    \/ Daemon
    \/ IntervalElapses
    \/ Close
    \/ Join

Spec == Init /\ [][Next]_vars

(***************************************************************************)
(* Fairness: the threads inside the SDK run, and time passes.  Whether a   *)
(* thread calls enqueue or close is up to the program.                     *)
(***************************************************************************)
Fairness ==
    /\ WF_vars(Daemon)
    /\ WF_vars(IntervalElapses)
    /\ WF_vars(Join)
    /\ \A p \in Producers :
          WF_vars(Evict(p) \/ Retry(p) \/ WarnCheck(p) \/ WarnEmit(p))

FairSpec == Spec /\ Fairness

(***************************************************************************)
(* Properties                                                              *)
(***************************************************************************)
\* An accepted event is in exactly one place: delivered, dropped, or still in
\* the daemon's batch or the queue, and those are in order of acceptance
\* (enqueue, _run and _flush hand events from one to the next, and a lost
\* race between two of them must neither lose nor double an event).
OneFate ==
    LET waiting == batch \o queue
    IN /\ delivered \cap dropped = {}
       /\ EventsOf(waiting) = (1..accepted) \ (delivered \cup dropped)
       /\ \A i, j \in 1..Len(waiting) : i < j => waiting[i] < waiting[j]

\* Whatever the producers and the cloud do, the sink holds at most
\* cloud_queue_max events in the queue and cloud_batch_size in the batch.
MemoryBounded == Len(queue) <= QueueMax /\ Len(batch) <= BatchSize

\* The cloud gets no event more often than _flush makes attempts, although a
\* POST that arrived can be reported as failed and be retried.
RetriesBounded == \A e \in 1..accepted : received[e] <= Attempts

\* Whatever fails, the sink stays in its bounds: in memory, in attempts, and in
\* what the daemon keeps between two steps.
WithinBounds == TypeOK /\ MemoryBounded /\ RetriesBounded

\* When close() returns True because the daemon ended by itself, no event
\* enqueued before it was called is left in the queue or in the batch.
CloseDrains ==
    closer = "clean" /\ at = "done" => batch = <<>> /\ EventsOf(queue) \subseteq late

\* What the sink promises: see EventDelivery.
Delivery == INSTANCE EventDelivery WITH pending <- batch \o queue
ImplementsDelivery == Delivery!DeliverySpec

\* Every event accepted before close() is delivered or dropped at last, with
\* or without a call of close (the interval flush, the bounded retries and the
\* drain of _run).
EventsSettle ==
    \A e \in 1..MaxEvents :
        (e <= accepted /\ e \notin late) ~> (e \in delivered \cup dropped)

\* What the daemon has to do before it ends, once stop is set: three steps at
\* most for each queued event, and those it takes from the place it is at.
Left == [done |-> 0, dead |-> 0, backoff |-> 1, post |-> 2, drain |-> 3,
         loop |-> 4, check |-> 7, get |-> 8]
PlaceLeft ==
    IF at \in {"post", "backoff"} THEN Left[at] + Left[after] ELSE Left[at]
StepsLeft == 3 * Len(queue) + PlaceLeft

\* After close() every step of the daemon brings it nearer to its end, with the
\* batch it has and what is queued, and nothing but an event accepted late
\* puts it off: enqueue never looks at _stop, so threads that go on calling
\* it keep the drain of _run, and the daemon, alive.
ClosingAdvances ==
    [][stop => /\ <<at, batch>>' # <<at, batch>> => StepsLeft' < StepsLeft
               /\ StepsLeft' > StepsLeft =>
                     /\ accepted' = accepted + 1
                     /\ late' = late \cup {accepted'}]_vars

\* So the daemon ends when the events do, and no backoff, get or retry holds it.
EndsUnlessFed == <>[][accepted' = accepted]_vars => (stop ~> at = "done")

\* close() ends the daemon thread, if the producers let it.
StopEnds == ClosingAdvances /\ EndsUnlessFed
=============================================================================
