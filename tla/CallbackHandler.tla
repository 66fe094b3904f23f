--------------------------- MODULE CallbackHandler ---------------------------
(***************************************************************************)
(* enrichers/langchain.py: LangChain tells the handler of every run's      *)
(* start and end, many runs at a time and on several threads; the handler  *)
(* keeps the open runs and records each at its end.  The lock covers a     *)
(* start, the pop at an end and a change of session: an end pops its run,  *)
(* and reads the session afterwards.                                       *)
(***************************************************************************)
EXTENDS Integers, Sequences, SequencesExt

CONSTANTS
    Runs,           \* run ids of LLM calls and tools
    Chains,         \* run ids of chains
    Kinds,          \* the kinds of run: chat_model, tool
    Responses,      \* what an LLM call may answer
    Absent,         \* None
    MaxSessions     \* bound on the sessions of the handler

ASSUME SessionsAssumption == MaxSessions \in Nat \ {0}

VARIABLES
    session,    \* _session_id, numbered
    runs,       \* _runs: the open runs
    topChain,   \* _top_level_chain
    chains,     \* the top-level chains that run
    phase,      \* where each run is: new, open, popped, over
    state,      \* what an end callback popped: the kind of its run
    records,    \* history: the records of each run
    born,       \* history: the session each run was started in
    rotated     \* history: runs that new_session overtook in their end callback

handlerVars == <<session, runs, topChain, chains, phase, state, records, born, rotated>>

(***************************************************************************)
(* What is read of an answer.  Each source of counts is absent or a pair.  *)
(***************************************************************************)
Nothing == [prompt |-> 0, completion |-> 0]

Told(usage) == IF usage = Absent THEN Nothing ELSE usage

SumOfUsages(usages) ==
    FoldLeft(LAMBDA sum, u : [prompt |-> sum.prompt + Told(u).prompt,
                              completion |-> sum.completion + Told(u).completion],
             Nothing, usages)

\* A generation's message metadata, or else its own info.
GenerationUsage(g) == IF g.metadata # Absent THEN g.metadata ELSE g.info

\* Mutant of ExtractTokenUsage: every source adds its counts.
ExtractEverySource(r) ==
    SumOfUsages(<<r.usage, r.billed>>
                \o [i \in DOMAIN r.generations |-> GenerationUsage(r.generations[i])])

\* The first source that counts anything: the answer's usage, its billed units,
\* the sum over its generations.
ExtractTokenUsage(r) ==
    IF Told(r.usage) # Nothing THEN r.usage
    ELSE IF Told(r.billed) # Nothing THEN r.billed
    ELSE SumOfUsages([i \in DOMAIN r.generations |-> GenerationUsage(r.generations[i])])

ToolCalls(r) == FlattenSeq([i \in DOMAIN r.generations |-> r.generations[i].tools])
HasText(r) == \E i \in DOMAIN r.generations : r.generations[i].text

HandlerRecord(usage, tools, facing, answer) ==
    [session |-> session, prompt_tokens |-> usage.prompt,
     completion_tokens |-> usage.completion, tool_calls |-> tools,
     user_facing_output |-> facing, answer |-> answer]

LLMRecord(r) ==
    HandlerRecord(ExtractTokenUsage(r), ToolCalls(r), HasText(r) /\ ToolCalls(r) = <<>>, r)

\* A tool is recorded as one call of itself, and an LLM call that failed as one
\* that cost nothing.
ToolRecord(run) == HandlerRecord(Nothing, <<run>>, FALSE, Absent)
FailedRecord == HandlerRecord(Nothing, <<>>, FALSE, Absent)

HandlerInit ==
    /\ session = 1
    /\ runs = {}
    /\ topChain = Absent
    /\ chains = {}
    /\ phase = [r \in Runs |-> "new"]
    /\ state = [r \in Runs |-> Absent]
    /\ records = [r \in Runs |-> <<>>]
    /\ born = [r \in Runs |-> 0]
    /\ rotated = {}

\* Mutant of WithRun: one run is open at a time.
OnlyRun(r, kind) == {[run |-> r, kind |-> kind]}
WithRun(r, kind) == runs \cup {[run |-> r, kind |-> kind]}

\* on_llm_start, on_chat_model_start, on_tool_start.
RunStarts(r) ==
    /\ phase[r] = "new"
    /\ \E kind \in Kinds : runs' = WithRun(r, kind)
    /\ phase' = [phase EXCEPT ![r] = "open"]
    /\ born' = [born EXCEPT ![r] = session]
    /\ UNCHANGED <<session, topChain, chains, state, records, rotated>>

\* _pop_run: the end of a run that is not known is not the handler's.
RunEnds(r) ==
    /\ phase[r] = "open"
    /\ LET known == {s \in runs : s.run = r}
       IN  /\ runs' = runs \ known
           /\ IF known = {}
              THEN phase' = [phase EXCEPT ![r] = "over"] /\ UNCHANGED state
              ELSE /\ phase' = [phase EXCEPT ![r] = "popped"]
                   /\ \E s \in known : state' = [state EXCEPT ![r] = s.kind]
    /\ UNCHANGED <<session, topChain, chains, records, born, rotated>>

\* The rest of on_llm_end, on_llm_error, on_tool_end and on_tool_error.  Each of
\* them gives up a run whose record cannot be built; every response here can be.
RunRecorded(r) ==
    /\ phase[r] = "popped"
    /\ \E record \in (IF state[r] = "tool" THEN {ToolRecord(r)}
                      ELSE {LLMRecord(a) : a \in Responses} \cup {FailedRecord}) :
          records' = [records EXCEPT ![r] = Append(@, record)]
    /\ phase' = [phase EXCEPT ![r] = "over"]
    /\ state' = [state EXCEPT ![r] = Absent]
    /\ UNCHANGED <<session, runs, topChain, chains, born, rotated>>

\* Mutant of ForgetRuns: the runs of the old session stay open.
KeepRuns == UNCHANGED runs
ForgetRuns == runs' = {}

NewSession ==
    /\ session < MaxSessions
    /\ session' = session + 1
    /\ ForgetRuns
    /\ topChain' = Absent
    /\ rotated' = rotated \cup {r \in Runs : phase[r] = "popped"}
    /\ UNCHANGED <<chains, phase, state, records, born>>

\* on_chain_start of a chain without a parent; others change nothing.
ChainStarts ==
    /\ \E c \in Chains \ chains :
          /\ chains' = chains \cup {c}
          /\ topChain' = IF topChain = Absent THEN c ELSE topChain
    /\ UNCHANGED <<session, runs, phase, state, records, born, rotated>>

\* Mutant of Released: the chain that failed stays the top one.
KeepTop(c) == topChain
Released(c) == IF topChain = c THEN Absent ELSE topChain

\* on_chain_end, on_chain_error.
ChainEnds ==
    /\ \E c \in chains : chains' = chains \ {c} /\ topChain' = Released(c)
    /\ UNCHANGED <<session, runs, phase, state, records, born, rotated>>

HandlerNext ==
    \/ NewSession \/ ChainStarts \/ ChainEnds
    \/ \E r \in Runs : RunStarts(r) \/ RunEnds(r) \/ RunRecorded(r)

(***************************************************************************)
(* Properties                                                              *)
(***************************************************************************)

\* The records of a run: at most one, in the session the run was started in.
\* new_session closes the open runs, so that a late end cannot put an old run's
\* call in a new session; only one that new_session overtakes within its end
\* callback, between the pop and the reading of the session, does.
RunKeepsSession ==
    \A r \in Runs :
        /\ Len(records[r]) <= 1
        /\ \A i \in DOMAIN records[r] :
              records[r][i].session # born[r] =>
                  r \in rotated /\ records[r][i].session > born[r]

\* A run that ended, its record built, is recorded unless the session was changed
\* while it ran.
LostOnlyToRotation ==
    \A r \in Runs :
        (phase[r] = "over" /\ records[r] = <<>>) => session > born[r]

\* What a record of an LLM call charges is what one place of its answer tells.
OneSourceCounted(record) ==
    LET a == record.answer
    IN  a # Absent =>
          \E told \in {Told(a.usage), Told(a.billed),
                       SumOfUsages([g \in DOMAIN a.generations |->
                                        GenerationUsage(a.generations[g])])} :
              /\ record.prompt_tokens = told.prompt
              /\ record.completion_tokens = told.completion

\* Providers tell their counts in several places of one answer.  A call is
\* charged what one of them tells, never the sum of two.
NotCountedTwice ==
    \A r \in Runs : \A i \in DOMAIN records[r] : OneSourceCounted(records[r][i])

\* "so a long-running handler doesn't accumulate state" (langchain.py:385):
\* with no run open and no chain running there is nothing left, errors and
\* changes of session included.
NothingLeftBehind ==
    /\ (\A r \in Runs : phase[r] # "open") => runs = {}
    /\ topChain # Absent => topChain \in chains

\* A run's record is its own: filed once, in its session, and charged what its
\* answer tells.
RunsSound == RunKeepsSession /\ NotCountedTwice

\* The handler neither loses a run nor keeps one.
RunsForgotten == LostOnlyToRotation /\ NothingLeftBehind
=============================================================================
