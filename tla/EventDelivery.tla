---------------------------- MODULE EventDelivery ----------------------------
(***************************************************************************)
(* What the cloud sink promises about leak events, as cloud_client.py's    *)
(* docstrings put it: the cloud acknowledges events in the order in which  *)
(* they were accepted, in batches, and every event once or never.  Events  *)
(* are named by the order in which they are accepted: 1, 2, 3, ...         *)
(* CloudSink.tla has the queue, the daemon thread and the retries, and     *)
(* implements this.                                                        *)
(***************************************************************************)
EXTENDS Integers, Sequences

VARIABLES
    accepted,    \* how many events were accepted
    pending,     \* those neither delivered nor dropped, oldest first
    delivered,   \* those of a batch the cloud acknowledged
    dropped      \* those given up

deliveryVars == <<accepted, pending, delivered, dropped>>

DeliveryInit ==
    /\ accepted = 0
    /\ pending = <<>>
    /\ delivered = {}
    /\ dropped = {}

EventsOf(seq) == {seq[i] : i \in 1..Len(seq)}

Accept ==
    /\ accepted' = accepted + 1
    /\ pending' = Append(pending, accepted')
    /\ UNCHANGED <<delivered, dropped>>

\* A batch is a prefix of what is pending.
Deliver ==
    /\ \E n \in 1..Len(pending) :
          /\ delivered' = delivered \cup EventsOf(SubSeq(pending, 1, n))
          /\ pending' = SubSeq(pending, n + 1, Len(pending))
    /\ UNCHANGED <<accepted, dropped>>

\* A batch is given up, or an event behind it for lack of room.
Drop ==
    /\ \E i, j \in 1..Len(pending) :
          /\ i <= j
          /\ dropped' = dropped \cup EventsOf(SubSeq(pending, i, j))
          /\ pending' = SubSeq(pending, 1, i - 1)
                            \o SubSeq(pending, j + 1, Len(pending))
    /\ UNCHANGED <<accepted, delivered>>

DeliveryNext == Accept \/ Deliver \/ Drop

DeliverySpec == DeliveryInit /\ [][DeliveryNext]_deliveryVars
=============================================================================
