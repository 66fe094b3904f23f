------------------------------- MODULE Capture -------------------------------
(***************************************************************************)
(* What an application that makes its calls elsewhere has recorded: a      *)
(* LangChain application through the callback handler, or a Replicate      *)
(* application through its predictions.  The two share no state, and a     *)
(* behaviour is of one of them.                                            *)
(***************************************************************************)
EXTENDS CallbackHandler, Predictions

VARIABLE uses       \* what the application uses

CaptureInit ==
    /\ HandlerInit
    /\ RegistryInit
    /\ uses \in {"langchain", "replicate"}

Handled == uses = "langchain" /\ HandlerNext /\ UNCHANGED <<registryVars, uses>>
Polled == uses = "replicate" /\ RegistryNext /\ UNCHANGED <<handlerVars, uses>>

CaptureNext == Handled \/ Polled

CaptureSpec == CaptureInit /\ [][CaptureNext]_<<handlerVars, registryVars, uses>>

(***************************************************************************)
(* Properties                                                              *)
(***************************************************************************)

\* Runs are kept by their id, and the entries of the registry by that of their
\* prediction: what a thread holds is a prediction that was created, and an
\* entry is its create's.
TypeOK ==
    /\ session \in 1..MaxSessions
    /\ \A r, s \in runs : r.run = s.run => r = s
    /\ runs \in SUBSET [run : Runs, kind : Kinds]
    /\ topChain \in Chains \cup {Absent} /\ chains \subseteq Chains
    /\ phase \in [Runs -> {"new", "open", "popped", "over"}]
    /\ state \in [Runs -> Kinds \cup {Absent}]
    /\ at \in [Pollers -> {"idle", "creating", "registering", "pruning", "got"}]
    /\ mark \in [Pollers -> 0..clock] /\ clock \in 0..MaxClock
    /\ \A t \in Pollers : job[t] # NoEntry => creator[job[t]] # NoEntry
    /\ \A j \in Jobs : pending[j] # NoEntry =>
          creator[j] = [by |-> pending[j].sentinel, start |-> pending[j].start]
    /\ \A j \in Jobs : outcome[j] # NoEntry => creator[j] # NoEntry

\* A prediction's end is charged once and is lost only by its age.
EndsSound == TypeOK /\ EndRecordedOnce /\ LostOnlyByAge
=============================================================================
