----------------------------- MODULE Predictions -----------------------------
(***************************************************************************)
(* wrappers/replicate.py: a prediction is created by one call and recorded *)
(* by the poll that finds it ended.  In between it is in a process-wide    *)
(* registry, with the session and the sentinel of its create, and leaves   *)
(* it to be recorded or because it grew old.  Threads share the registry;  *)
(* the lock covers one registration, one pop, one pruning.                 *)
(***************************************************************************)
EXTENDS ProviderRecords

CONSTANTS
    Pollers,        \* threads; each has a client wrapped by its own sentinel
    Jobs,           \* predictions, in the order in which they are created
    Outcomes,       \* how a prediction may end: status, what it made, its time
    NoEntry,
    TTL,            \* _PENDING_TTL_SECONDS
    MaxClock        \* bound on time

ASSUME OutcomesAssumption ==
    /\ TTL \in Nat /\ MaxClock \in Nat
    /\ None \notin Nat /\ Iterator \notin Nat /\ Iterator # None
    /\ \A end \in Outcomes :
          /\ end.outputs \in Nat \cup {None, Iterator}
          /\ end.time \in Nat \cup {None}
ASSUME NoEntryAssumption ==
    /\ NoEntry \notin Jobs \cup Outcomes
    /\ NoEntry \notin [sentinel : Pollers, start : 0..MaxClock]
    /\ NoEntry \notin [by : Pollers, start : 0..MaxClock]

VARIABLES
    pending,    \* _REPLICATE_PENDING
    outcome,    \* how each prediction ended at Replicate, if it did
    clock,      \* time.perf_counter()
    at,         \* what each thread does: idle, creating, registering, pruning, got
    mark,       \* the clock reading its next step uses
    job,        \* the prediction it created or polled
    creator,    \* history: whose create made each prediction, and when
    told,       \* history: what the sentinels were told of each prediction's end
    pruned      \* history: what was pruned, with its age

registryVars == <<pending, outcome, clock, at, mark, job, creator, told, pruned>>

RegistryInit ==
    /\ pending = [j \in Jobs |-> NoEntry]
    /\ outcome = [j \in Jobs |-> NoEntry]
    /\ clock = 0
    /\ at = [t \in Pollers |-> "idle"]
    /\ mark = [t \in Pollers |-> 0]
    /\ job = [t \in Pollers |-> NoEntry]
    /\ creator = [j \in Jobs |-> NoEntry]
    /\ told = [j \in Jobs |-> <<>>]
    /\ pruned = {}

Tick ==
    /\ clock < MaxClock
    /\ clock' = clock + 1
    /\ UNCHANGED <<pending, outcome, at, mark, job, creator, told, pruned>>

\* A prediction ends at Replicate: succeeded, failed or canceled.
JobEnds ==
    /\ \E j \in Jobs, end \in Outcomes :
          /\ creator[j] # NoEntry /\ outcome[j] = NoEntry
          /\ outcome' = [outcome EXCEPT ![j] = end]
    /\ UNCHANGED <<pending, clock, at, mark, job, creator, told, pruned>>

StartCreate(t) ==
    /\ at[t] = "idle"
    /\ at' = [at EXCEPT ![t] = "creating"]
    /\ mark' = [mark EXCEPT ![t] = clock]
    /\ UNCHANGED <<pending, outcome, clock, job, creator, told, pruned>>

\* Replicate answers the create with a new prediction, or raises.
CreateReturns(t) ==
    /\ at[t] = "creating"
    /\ \/ \E j \in Jobs :
            /\ creator[j] = NoEntry
            /\ creator' = [creator EXCEPT ![j] = [by |-> t, start |-> mark[t]]]
            /\ job' = [job EXCEPT ![t] = j]
            /\ at' = [at EXCEPT ![t] = "registering"]
       \/ at' = [at EXCEPT ![t] = "idle"] /\ UNCHANGED <<creator, job>>
    /\ UNCHANGED <<pending, outcome, clock, mark, told, pruned>>

\* Mutant of Register: the entry dates from its registration.
RegisterNow(t) ==
    /\ at[t] = "registering"
    /\ pending' = [pending EXCEPT ![job[t]] = [sentinel |-> t, start |-> clock]]
    /\ at' = [at EXCEPT ![t] = "pruning"]
    /\ UNCHANGED <<outcome, clock, mark, job, creator, told, pruned>>

Register(t) ==
    /\ at[t] = "registering"
    /\ pending' = [pending EXCEPT ![job[t]] = [sentinel |-> t, start |-> mark[t]]]
    /\ at' = [at EXCEPT ![t] = "pruning"]
    /\ UNCHANGED <<outcome, clock, mark, job, creator, told, pruned>>

\* Mutant of Stale: an entry as old as the limit is dropped.
StaleEarly(entry, now) == entry # NoEntry /\ entry.start <= now - TTL
Stale(entry, now) == entry # NoEntry /\ entry.start < now - TTL

\* _drop_stale_pending, with the reading the thread took before.
Prune(t) ==
    /\ at[t] = "pruning"
    /\ LET gone == {j \in Jobs : Stale(pending[j], mark[t])}
       IN  /\ pending' = [j \in Jobs |-> IF j \in gone THEN NoEntry ELSE pending[j]]
           /\ pruned' = pruned \cup {[job |-> j, age |-> clock - pending[j].start] : j \in gone}
    /\ at' = [at EXCEPT ![t] = "idle"]
    /\ job' = [job EXCEPT ![t] = NoEntry]
    /\ UNCHANGED <<outcome, clock, mark, creator, told>>

\* A poll that finds its prediction ended; any other changes nothing.  A webhook
\* may have told of the prediction before its create has returned.
GetReturns(t) ==
    /\ at[t] = "idle"
    /\ \E j \in {i \in Jobs : outcome[i] # NoEntry} : job' = [job EXCEPT ![t] = j]
    /\ at' = [at EXCEPT ![t] = "got"]
    /\ mark' = [mark EXCEPT ![t] = clock]
    /\ UNCHANGED <<pending, outcome, clock, creator, told, pruned>>

\* Mutant of Pop: the entry is read and stays.
Peek(j) == UNCHANGED pending
Pop(j) == pending' = [pending EXCEPT ![j] = NoEntry]

\* _maybe_record_terminal: whoever takes the entry out records the end, to the
\* sentinel and the session of its create; the others prune.
TakeEntry(t) ==
    /\ at[t] = "got"
    /\ LET entry == pending[job[t]]
       IN  IF entry # NoEntry
           THEN /\ Pop(job[t])
                /\ told' = [told EXCEPT ![job[t]] = Append(@,
                      [sentinel |-> entry.sentinel,
                       record |-> ReplicatePredictionRecord(outcome[job[t]])])]
                /\ at' = [at EXCEPT ![t] = "idle"]
                /\ job' = [job EXCEPT ![t] = NoEntry]
           ELSE /\ at' = [at EXCEPT ![t] = "pruning"]
                /\ UNCHANGED <<pending, told, job>>
    /\ UNCHANGED <<outcome, clock, mark, creator, pruned>>

RegistryNext ==
    \/ Tick \/ JobEnds
    \/ \E t \in Pollers :
          \/ StartCreate(t) \/ CreateReturns(t) \/ Register(t) \/ Prune(t)
          \/ GetReturns(t) \/ TakeEntry(t)

(***************************************************************************)
(* Properties                                                              *)
(***************************************************************************)

\* However many threads poll a prediction past its end, it is charged once, to
\* the sentinel its create went through; and what ran is charged: an output that
\* was made, or the time of one that failed.
EndRecordedOnce ==
    \A j \in Jobs : told[j] # <<>> =>
        /\ Len(told[j]) = 1
        /\ told[j][1].sentinel = creator[j].by
        /\ (IF outcome[j].status = "succeeded" THEN outcome[j].outputs # None
            ELSE Reported(outcome[j].time, 0) > 0)
              => told[j][1].record.amount > 0

\* A create that is through is on record or still has its entry, for the next
\* poll to find, also when a poll came before the entry and found nothing; but
\* for an entry that was pruned, and that is never before the prediction is older
\* than the limit: no slow create or late poll throws a young one out.
LostOnlyByAge ==
    /\ \A j \in Jobs :
          (creator[j] # NoEntry /\ pending[j] = NoEntry /\ told[j] = <<>>)
              => \/ \E t \in Pollers : at[t] = "registering" /\ job[t] = j
                 \/ \E p \in pruned : p.job = j
    /\ \A p \in pruned : p.age > TTL

\* The registry does not grow with predictions nobody polls: once a create is
\* through, nothing is left that was too old when it began.
RegistryPruned ==
    [][\A t \in Pollers :
          (at[t] = "pruning" /\ at'[t] = "idle") =>
              \A j \in Jobs : creator[j] # NoEntry /\ pending'[j] # NoEntry
                  => creator[j].start >= mark[t] - TTL]_registryVars
=============================================================================
