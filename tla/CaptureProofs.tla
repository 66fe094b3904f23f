---------------------------- MODULE CaptureProofs ----------------------------
(***************************************************************************)
(* What the callback handler and the prediction registry promise, for any  *)
(* number of runs, chains, pollers and predictions.                        *)
(***************************************************************************)
EXTENDS Capture, TLAPS

(***************************************************************************)
(* The handler.  A run that is in the table is open and of the session at  *)
(* hand; one that is open and not in the table, or popped and not of the   *)
(* session at hand, was overtaken by a change of session.                  *)
(***************************************************************************)
HandlerTypes ==
    /\ session \in 1..MaxSessions
    /\ runs \in SUBSET [run : Runs, kind : Kinds]
    /\ topChain \in Chains \cup {Absent} /\ chains \in SUBSET Chains
    /\ phase \in [Runs -> {"new", "open", "popped", "over"}]
    /\ state \in [Runs -> Kinds \cup {Absent}]
    /\ DOMAIN records = Runs
    /\ born \in [Runs -> Nat]
    /\ rotated \in SUBSET Runs

InTable(r) == \E s \in runs : s.run = r

RunInv(r) ==
    /\ InTable(r) => phase[r] = "open"
    /\ phase[r] # "new" => born[r] <= session
    /\ phase[r] = "open" =>
          IF InTable(r) THEN born[r] = session ELSE born[r] < session
    /\ phase[r] = "popped" =>
          born[r] = session \/ (r \in rotated /\ born[r] < session)
    /\ phase[r] # "over" => records[r] = <<>>
    /\ (phase[r] = "over" /\ records[r] = <<>>) => born[r] < session
    /\ records[r] # <<>> =>
          /\ records[r] = <<records[r][1]>>
          /\ \/ records[r][1].session = born[r]
             \/ r \in rotated /\ records[r][1].session > born[r]
          /\ OneSourceCounted(records[r][1])

HandlerInv ==
    /\ HandlerTypes
    /\ \A r, s \in runs : r.run = s.run => r = s
    /\ \A r \in Runs : RunInv(r)
    /\ topChain # Absent => topChain \in chains

LEMMA HandlerStarts == HandlerInit => HandlerInv
<1> SUFFICES ASSUME HandlerInit PROVE HandlerInv
  OBVIOUS
<1>1. HandlerTypes
  BY SessionsAssumption DEF HandlerInit, HandlerTypes
<1>2. \A r, s \in runs : r.run = s.run => r = s
  BY DEF HandlerInit
<1>3. ASSUME NEW r \in Runs PROVE RunInv(r)
  BY DEF HandlerInit, RunInv, InTable
<1>4. topChain = Absent
  BY DEF HandlerInit
<1> QED
  BY <1>1, <1>2, <1>3, <1>4 DEF HandlerInv

\* A step that only starts or ends a chain leaves the runs as they are.
LEMMA RunUnmoved ==
    ASSUME NEW r \in Runs, RunInv(r),
           UNCHANGED <<session, runs, phase, records, born, rotated>>
    PROVE  RunInv(r)'
<1>1. InTable(r)' <=> InTable(r)
  BY DEF InTable
<1> QED
  BY <1>1 DEF RunInv

LEMMA ChainStep ==
    ASSUME HandlerInv, ChainStarts \/ ChainEnds
    PROVE  HandlerInv'
<1>1. HandlerTypes /\ (topChain # Absent => topChain \in chains)
  BY DEF HandlerInv
<1>2. UNCHANGED <<session, runs, phase, state, records, born, rotated>>
  BY DEF ChainStarts, ChainEnds
<1>3. /\ topChain' \in Chains \cup {Absent} /\ chains' \in SUBSET Chains
      /\ topChain' # Absent => topChain' \in chains'
  <2>1. CASE ChainStarts
    BY <1>1, <2>1 DEF ChainStarts, HandlerTypes
  <2>2. CASE ChainEnds
    <3>1. PICK c \in chains : chains' = chains \ {c} /\ topChain' = Released(c)
      BY <2>2 DEF ChainEnds
    <3> QED
      BY <1>1, <3>1 DEF Released, HandlerTypes
  <2> QED
    BY <2>1, <2>2
<1>4. HandlerTypes'
  BY <1>1, <1>2, <1>3 DEF HandlerTypes
<1>5. (\A r, s \in runs : r.run = s.run => r = s)'
  BY <1>2 DEF HandlerInv
<1>6. ASSUME NEW r \in Runs PROVE RunInv(r)'
  BY <1>2, RunUnmoved DEF HandlerInv
<1> QED
  BY <1>3, <1>4, <1>5, <1>6 DEF HandlerInv

LEMMA SessionStep ==
    ASSUME HandlerInv, NewSession
    PROVE  HandlerInv'
<1>1. HandlerTypes /\ session \in Nat /\ session' = session + 1
  BY DEF HandlerInv, HandlerTypes, NewSession
<1>2. /\ runs' = {} /\ topChain' = Absent
      /\ UNCHANGED <<chains, phase, state, records, born>>
      /\ rotated' = rotated \cup {r \in Runs : phase[r] = "popped"}
  BY DEF NewSession, ForgetRuns
<1>3. HandlerTypes'
  <2>1. session' \in 1..MaxSessions
    BY <1>1, SessionsAssumption DEF NewSession, HandlerTypes
  <2> QED
    BY <1>1, <1>2, <2>1 DEF HandlerTypes
<1>4. ASSUME NEW r \in Runs PROVE RunInv(r)'
  <2>1. RunInv(r) /\ born[r] \in Nat
    BY <1>1 DEF HandlerInv, HandlerTypes
  <2>2. ~InTable(r)'
    BY <1>2 DEF InTable
  <2>3. (phase[r] # "new" => born[r] < session')
    BY <1>1, <2>1 DEF RunInv
  <2>4. (phase[r] = "popped" => r \in rotated') /\ (r \in rotated => r \in rotated')
    BY <1>2
  <2>5. records[r] # <<>> =>
          /\ records[r] = <<records[r][1]>>
          /\ \/ records[r][1].session = born[r]
             \/ r \in rotated' /\ records[r][1].session > born[r]
          /\ OneSourceCounted(records[r][1])
    BY <2>1, <2>4 DEF RunInv
  <2>6. /\ phase[r] # "over" => records[r] = <<>>
        /\ (phase[r] = "over" /\ records[r] = <<>>) => born[r] < session'
    BY <2>1, <2>3 DEF RunInv
  <2>7. phase[r] # "new" => born[r] <= session'
    BY <1>1, <2>1, <2>3
  <2> QED
    BY <1>2, <2>2, <2>3, <2>4, <2>5, <2>6, <2>7 DEF RunInv
<1> QED
  BY <1>2, <1>3, <1>4 DEF HandlerInv

LEMMA StartStep ==
    ASSUME HandlerInv, NEW r \in Runs, RunStarts(r)
    PROVE  HandlerInv'
<1>1. HandlerTypes
  BY DEF HandlerInv
<1>2. PICK kind \in Kinds : runs' = runs \cup {[run |-> r, kind |-> kind]}
  BY DEF RunStarts, WithRun
<1>3. /\ phase[r] = "new"
      /\ phase' = [phase EXCEPT ![r] = "open"]
      /\ born' = [born EXCEPT ![r] = session]
      /\ UNCHANGED <<session, topChain, chains, state, records, rotated>>
  BY DEF RunStarts
<1>4. RunInv(r) /\ ~InTable(r) /\ records[r] = <<>>
  BY <1>3 DEF HandlerInv, RunInv
<1>5. HandlerTypes'
  BY <1>1, <1>2, <1>3 DEF HandlerTypes
<1>6. \A q \in Runs : InTable(q)' <=> (InTable(q) \/ q = r)
  <2> DEFINE new == [run |-> r, kind |-> kind]
  <2>1. runs' = runs \cup {new} /\ new.run = r
    BY <1>2
  <2> HIDE DEF new
  <2> QED
    BY <2>1 DEF InTable
<1>7. \A q, s \in runs' : q.run = s.run => q = s
  <2>1. \A s \in runs : s.run # r
    BY <1>4 DEF InTable
  <2> QED
    BY <1>2, <2>1 DEF HandlerInv
<1>8. ASSUME NEW q \in Runs PROVE RunInv(q)'
  <2>1. CASE q = r
    <3>1. phase'[r] = "open" /\ born'[r] = session /\ session \in Nat /\ InTable(r)'
      BY <1>1, <1>3, <1>6 DEF HandlerTypes
    <3> QED
      BY <1>3, <1>4, <2>1, <3>1 DEF RunInv
  <2>2. CASE q # r
    <3>1. phase'[q] = phase[q] /\ born'[q] = born[q] /\ (InTable(q)' <=> InTable(q))
      BY <1>1, <1>3, <1>6, <2>2 DEF HandlerTypes
    <3>2. RunInv(q)
      BY DEF HandlerInv
    <3> QED
      BY <1>3, <3>1, <3>2 DEF RunInv
  <2> QED
    BY <2>1, <2>2
<1>9. topChain' # Absent => topChain' \in chains'
  BY <1>3 DEF HandlerInv
<1> QED
  BY <1>5, <1>7, <1>8, <1>9 DEF HandlerInv

LEMMA EndStep ==
    ASSUME HandlerInv, NEW r \in Runs, RunEnds(r)
    PROVE  HandlerInv'
<1> DEFINE known == {s \in runs : s.run = r}
<1>1. HandlerTypes
  BY DEF HandlerInv
<1>2. /\ phase[r] = "open" /\ runs' = runs \ known
      /\ UNCHANGED <<session, topChain, chains, records, born, rotated>>
  BY DEF RunEnds
<1>3. /\ phase' = [phase EXCEPT ![r] = IF InTable(r) THEN "popped" ELSE "over"]
      /\ state' \in [Runs -> Kinds \cup {Absent}]
  <2>1. CASE known = {}
    BY <1>1, <2>1 DEF RunEnds, InTable, HandlerTypes
  <2>2. CASE known # {}
    <3>1. InTable(r)
      BY <2>2 DEF InTable
    <3>2. PICK s \in known : state' = [state EXCEPT ![r] = s.kind]
      BY <2>2 DEF RunEnds
    <3>3. s.kind \in Kinds
      BY <1>1, <3>2 DEF HandlerTypes
    <3> QED
      BY <1>1, <2>2, <3>1, <3>2, <3>3 DEF RunEnds, HandlerTypes
  <2> QED
    BY <2>1, <2>2
<1>4. HandlerTypes'
  BY <1>1, <1>2, <1>3 DEF HandlerTypes
<1>5. \A q, s \in runs' : q.run = s.run => q = s
  BY <1>2 DEF HandlerInv
<1>6. \A q \in Runs : InTable(q)' <=> InTable(q) /\ q # r
  BY <1>2 DEF InTable
<1>7. ASSUME NEW q \in Runs PROVE RunInv(q)'
  <2>1. RunInv(q)
    BY DEF HandlerInv
  <2>2. CASE q = r
    <3>1. phase'[r] = IF InTable(r) THEN "popped" ELSE "over"
      BY <1>1, <1>3 DEF HandlerTypes
    <3> QED
      BY <1>2, <1>6, <2>1, <2>2, <3>1 DEF RunInv
  <2>3. CASE q # r
    <3>1. phase'[q] = phase[q] /\ (InTable(q)' <=> InTable(q))
      BY <1>1, <1>3, <1>6, <2>3 DEF HandlerTypes
    <3> QED
      BY <1>2, <2>1, <3>1 DEF RunInv
  <2> QED
    BY <2>2, <2>3
<1>8. topChain' # Absent => topChain' \in chains'
  BY <1>2 DEF HandlerInv
<1> QED
  BY <1>4, <1>5, <1>7, <1>8 DEF HandlerInv

\* extract_token_usage reads one of the places an answer tells its counts in.
LEMMA OneSource ==
    ASSUME NEW answer
    PROVE  OneSourceCounted(LLMRecord(answer))
<1> DEFINE counted == ExtractTokenUsage(answer)
           summed == SumOfUsages([g \in DOMAIN answer.generations |->
                                     GenerationUsage(answer.generations[g])])
<1>1. /\ LLMRecord(answer).answer = answer
      /\ LLMRecord(answer).prompt_tokens = counted.prompt
      /\ LLMRecord(answer).completion_tokens = counted.completion
  BY DEF LLMRecord, HandlerRecord
<1>2. counted \in {Told(answer.usage), Told(answer.billed), summed}
  BY DEF ExtractTokenUsage, Told
<1> HIDE DEF counted
<1> QED
  BY <1>1, <1>2 DEF OneSourceCounted

LEMMA RecordStep ==
    ASSUME HandlerInv, NEW r \in Runs, RunRecorded(r)
    PROVE  HandlerInv'
<1>1. HandlerTypes /\ RunInv(r)
  BY DEF HandlerInv
<1>2. /\ phase[r] = "popped"
      /\ phase' = [phase EXCEPT ![r] = "over"]
      /\ state' = [state EXCEPT ![r] = Absent]
      /\ UNCHANGED <<session, runs, topChain, chains, born, rotated>>
  BY DEF RunRecorded
<1>3. PICK record : /\ record.session = session
                    /\ OneSourceCounted(record)
                    /\ records' = [records EXCEPT ![r] = Append(@, record)]
  <2>1. PICK record \in (IF state[r] = "tool" THEN {ToolRecord(r)}
                         ELSE {LLMRecord(a) : a \in Responses} \cup {FailedRecord}) :
              records' = [records EXCEPT ![r] = Append(@, record)]
    BY DEF RunRecorded
  <2>2. ToolRecord(r).session = session /\ FailedRecord.session = session
    BY DEF ToolRecord, FailedRecord, HandlerRecord
  <2>3. \A a \in Responses : LLMRecord(a).session = session
    BY DEF LLMRecord, HandlerRecord
  <2>4. record.session = session
    BY <2>1, <2>2, <2>3
  <2>5. ToolRecord(r).answer = Absent /\ FailedRecord.answer = Absent
    BY DEF ToolRecord, FailedRecord, HandlerRecord
  <2>6. OneSourceCounted(record)
    <3>1. CASE record = ToolRecord(r) \/ record = FailedRecord
      BY <2>5, <3>1 DEF OneSourceCounted
    <3> QED
      BY <2>1, <3>1, OneSource
  <2> QED
    BY <2>1, <2>4, <2>6
<1>4. records[r] = <<>> /\ records'[r] = <<record>> /\ record.session = session
  BY <1>1, <1>2, <1>3 DEF RunInv, HandlerTypes
<1>5. HandlerTypes'
  BY <1>1, <1>2, <1>3 DEF HandlerTypes
<1>6. \A q \in Runs : InTable(q)' <=> InTable(q)
  BY <1>2 DEF InTable
<1>7. ASSUME NEW q \in Runs PROVE RunInv(q)'
  <2>1. CASE q = r
    <3>1. phase'[r] = "over" /\ ~InTable(r)' /\ born[r] <= session
      BY <1>1, <1>2, <1>6 DEF HandlerTypes, RunInv
    <3>2. /\ records'[r] = <<records'[r][1]>> /\ records'[r] # <<>>
          /\ records'[r][1].session = session
          /\ OneSourceCounted(records'[r][1])
      BY <1>3, <1>4
    <3>3. session = born[r] \/ (r \in rotated /\ session > born[r])
      BY <1>1, <1>2 DEF RunInv, HandlerTypes
    <3> QED
      BY <1>2, <2>1, <3>1, <3>2, <3>3 DEF RunInv
  <2>2. CASE q # r
    <3>1. phase'[q] = phase[q] /\ records'[q] = records[q]
      BY <1>1, <1>2, <1>3, <2>2 DEF HandlerTypes
    <3>2. RunInv(q)
      BY DEF HandlerInv
    <3> QED
      BY <1>2, <1>6, <3>1, <3>2 DEF RunInv
  <2> QED
    BY <2>1, <2>2
<1>8. (\A q, s \in runs : q.run = s.run => q = s)'
  BY <1>2 DEF HandlerInv
<1>9. topChain' # Absent => topChain' \in chains'
  BY <1>2 DEF HandlerInv
<1> QED
  BY <1>5, <1>7, <1>8, <1>9 DEF HandlerInv

LEMMA HandlerUnmoved ==
    ASSUME HandlerInv, UNCHANGED handlerVars
    PROVE  HandlerInv'
<1>1. UNCHANGED <<session, runs, topChain, chains, phase, state, records, born, rotated>>
  BY DEF handlerVars
<1>2. ASSUME NEW r \in Runs PROVE RunInv(r)'
  BY <1>1, RunUnmoved DEF HandlerInv
<1> QED
  BY <1>1, <1>2 DEF HandlerInv, HandlerTypes

LEMMA HandlerPreserves ==
    ASSUME HandlerInv, [CaptureNext]_<<handlerVars, registryVars, uses>>
    PROVE  HandlerInv'
<1>1. CASE HandlerNext
  BY <1>1, SessionStep, ChainStep, StartStep, EndStep, RecordStep DEF HandlerNext
<1>2. CASE UNCHANGED handlerVars
  BY <1>2, HandlerUnmoved
<1>3. HandlerNext \/ UNCHANGED handlerVars
  BY DEF CaptureNext, Handled, Polled
<1> QED
  BY <1>1, <1>2, <1>3

\* Every callback of the handler keeps HandlerInv, whatever runs at the time.
THEOREM HandlerInvariant == CaptureSpec => []HandlerInv
<1>1. CaptureInit => HandlerInv
  BY HandlerStarts DEF CaptureInit
<1>2. HandlerInv /\ [CaptureNext]_<<handlerVars, registryVars, uses>> => HandlerInv'
  BY HandlerPreserves
<1> QED
  BY <1>1, <1>2, PTL DEF CaptureSpec

\* on_llm_end, on_tool_end and new_session: a run is recorded at most once, in
\* the session it was started in, unless a change of session overtook it between
\* the pop of its end callback and the reading of the session, and charged what
\* one place of its answer tells.
THEOREM RunsAreSound == CaptureSpec => []RunsSound
<1>1. ASSUME HandlerInv PROVE RunsSound
  <2>1. SUFFICES ASSUME NEW r \in Runs
                 PROVE  /\ Len(records[r]) <= 1
                        /\ \A i \in DOMAIN records[r] :
                              /\ records[r][i].session # born[r] =>
                                    r \in rotated /\ records[r][i].session > born[r]
                              /\ OneSourceCounted(records[r][i])
    BY DEF RunsSound, RunKeepsSession, NotCountedTwice
  <2>2. RunInv(r)
    BY <1>1 DEF HandlerInv
  <2>3. CASE records[r] = <<>>
    BY <2>3
  <2>4. CASE records[r] # <<>>
    <3>1. /\ records[r] = <<records[r][1]>>
          /\ \/ records[r][1].session = born[r]
             \/ r \in rotated /\ records[r][1].session > born[r]
          /\ OneSourceCounted(records[r][1])
      BY <2>2, <2>4 DEF RunInv
    <3>2. Len(records[r]) = 1 /\ DOMAIN records[r] = {1}
      BY <3>1
    <3> QED
      BY <3>1, <3>2
  <2> QED
    BY <2>3, <2>4
<1> QED
  BY <1>1, HandlerInvariant, PTL

\* on_llm_end, new_session, on_chain_end and their errors: the handler loses a
\* run to a change of session only, and with no run open and no chain running
\* it holds nothing.
THEOREM RunsAreForgotten == CaptureSpec => []RunsForgotten
<1>1. ASSUME HandlerInv PROVE RunsForgotten
  <2>1. LostOnlyToRotation
    BY <1>1 DEF HandlerInv, HandlerTypes, RunInv, LostOnlyToRotation
  <2>2. ASSUME \A r \in Runs : phase[r] # "open" PROVE runs = {}
    <3>1. SUFFICES ASSUME NEW s \in runs PROVE FALSE
      OBVIOUS
    <3>2. s.run \in Runs
      BY <1>1 DEF HandlerInv, HandlerTypes
    <3>3. RunInv(s.run) /\ InTable(s.run)
      BY <1>1, <3>2 DEF HandlerInv, InTable
    <3> QED
      BY <2>2, <3>2, <3>3 DEF RunInv
  <2>3. topChain # Absent => topChain \in chains
    BY <1>1 DEF HandlerInv
  <2> QED
    BY <2>1, <2>2, <2>3 DEF RunsForgotten, NothingLeftBehind
<1> QED
  BY <1>1, HandlerInvariant, PTL

(***************************************************************************)
(* The registry.  An entry is its create's, and a prediction is in one     *)
(* place: on its way from its create into the registry, in it, recorded,   *)
(* or pruned.                                                              *)
(***************************************************************************)
RegistryTypes ==
    /\ clock \in 0..MaxClock
    /\ pending \in [Jobs -> [sentinel : Pollers, start : 0..MaxClock] \cup {NoEntry}]
    /\ outcome \in [Jobs -> Outcomes \cup {NoEntry}]
    /\ at \in [Pollers -> {"idle", "creating", "registering", "pruning", "got"}]
    /\ mark \in [Pollers -> 0..MaxClock]
    /\ \A t \in Pollers : mark[t] <= clock
    /\ job \in [Pollers -> Jobs \cup {NoEntry}]
    /\ creator \in [Jobs -> [by : Pollers, start : 0..MaxClock] \cup {NoEntry}]
    /\ DOMAIN told = Jobs

Registering(t, j) == at[t] = "registering" /\ job[t] = j

ThreadInv(t) ==
    /\ job[t] # NoEntry => creator[job[t]] # NoEntry
    /\ at[t] = "registering" =>
          /\ job[t] # NoEntry
          /\ creator[job[t]] = [by |-> t, start |-> mark[t]]
          /\ pending[job[t]] = NoEntry
          /\ told[job[t]] = <<>>
    /\ at[t] = "got" => job[t] # NoEntry /\ outcome[job[t]] # NoEntry

JobInv(j) ==
    /\ pending[j] # NoEntry =>
          creator[j] = [by |-> pending[j].sentinel, start |-> pending[j].start]
    /\ outcome[j] # NoEntry => creator[j] # NoEntry
    /\ told[j] # <<>> =>
          /\ pending[j] = NoEntry /\ outcome[j] # NoEntry
          /\ told[j] = <<[sentinel |-> creator[j].by,
                          record |-> ReplicatePredictionRecord(outcome[j])]>>
    /\ creator[j] # NoEntry /\ pending[j] = NoEntry /\ told[j] = <<>>
          => (\E t \in Pollers : Registering(t, j)) \/ (\E p \in pruned : p.job = j)

RegistryInv ==
    /\ RegistryTypes
    /\ \A t \in Pollers : ThreadInv(t)
    /\ \A j \in Jobs : JobInv(j)
    /\ \A p \in pruned : p.age > TTL

LEMMA RegistryStarts == RegistryInit => RegistryInv
<1> SUFFICES ASSUME RegistryInit PROVE RegistryInv
  OBVIOUS
<1>1. RegistryTypes
  BY OutcomesAssumption DEF RegistryInit, RegistryTypes
<1>2. ASSUME NEW t \in Pollers PROVE ThreadInv(t)
  BY DEF RegistryInit, ThreadInv
<1>3. ASSUME NEW j \in Jobs PROVE JobInv(j)
  BY DEF RegistryInit, JobInv
<1> QED
  BY <1>1, <1>2, <1>3 DEF RegistryInit, RegistryInv

\* A thread is unmoved when its own step is another's and what it holds stays.
LEMMA ThreadUnmoved ==
    ASSUME NEW t \in Pollers, ThreadInv(t),
           at'[t] = at[t], mark'[t] = mark[t], job'[t] = job[t],
           UNCHANGED <<pending, outcome, creator, told>>
    PROVE  ThreadInv(t)'
BY DEF ThreadInv

\* A prediction is unmoved when it stays where it is and no thread stops, or
\* starts, registering it.
LEMMA JobUnmoved ==
    ASSUME NEW j \in Jobs, JobInv(j),
           pending'[j] = pending[j], outcome'[j] = outcome[j],
           creator'[j] = creator[j], told'[j] = told[j],
           pruned \subseteq pruned',
           \A t \in Pollers : Registering(t, j) => Registering(t, j)'
    PROVE  JobInv(j)'
BY DEF JobInv

LEMMA TickStep ==
    ASSUME RegistryInv, Tick
    PROVE  RegistryInv'
<1>1. RegistryTypes /\ clock < MaxClock /\ clock' = clock + 1
      /\ UNCHANGED <<pending, outcome, at, mark, job, creator, told, pruned>>
  BY DEF RegistryInv, Tick
<1>2. RegistryTypes'
  BY <1>1, OutcomesAssumption DEF RegistryTypes
<1>3. ASSUME NEW t \in Pollers PROVE ThreadInv(t)'
  BY <1>1, ThreadUnmoved DEF RegistryInv
<1>4. ASSUME NEW j \in Jobs PROVE JobInv(j)'
  BY <1>1, JobUnmoved DEF RegistryInv, Registering
<1> QED
  BY <1>1, <1>2, <1>3, <1>4 DEF RegistryInv

LEMMA JobEndsStep ==
    ASSUME RegistryInv, JobEnds
    PROVE  RegistryInv'
<1>1. RegistryTypes
      /\ UNCHANGED <<pending, clock, at, mark, job, creator, told, pruned>>
  BY DEF RegistryInv, JobEnds
<1>2. PICK j \in Jobs, end \in Outcomes :
          /\ creator[j] # NoEntry /\ outcome[j] = NoEntry
          /\ outcome' = [outcome EXCEPT ![j] = end]
  BY DEF JobEnds
<1>3. end # NoEntry
  BY NoEntryAssumption
<1>4. RegistryTypes'
  BY <1>1, <1>2 DEF RegistryTypes
<1>5. \A i \in Jobs : outcome'[i] = IF i = j THEN end ELSE outcome[i]
  BY <1>1, <1>2 DEF RegistryTypes
<1>6. ASSUME NEW t \in Pollers PROVE ThreadInv(t)'
  <2>1. ThreadInv(t) /\ job[t] \in Jobs \cup {NoEntry}
    BY <1>1 DEF RegistryInv, RegistryTypes
  <2> QED
    BY <1>1, <1>3, <1>5, <2>1 DEF ThreadInv
<1>7. ASSUME NEW i \in Jobs PROVE JobInv(i)'
  <2>1. JobInv(i)
    BY DEF RegistryInv
  <2>2. CASE i = j
    <3>1. told[i] = <<>>
      BY <1>2, <2>1, <2>2 DEF JobInv
    <3> QED
      BY <1>1, <1>2, <2>1, <2>2, <3>1 DEF JobInv, Registering
  <2>3. CASE i # j
    BY <1>1, <1>5, <2>1, <2>3, JobUnmoved DEF Registering
  <2> QED
    BY <2>2, <2>3
<1> QED
  BY <1>1, <1>4, <1>6, <1>7 DEF RegistryInv

LEMMA StartCreateStep ==
    ASSUME RegistryInv, NEW t \in Pollers, StartCreate(t)
    PROVE  RegistryInv'
<1>1. RegistryTypes /\ at[t] = "idle"
      /\ at' = [at EXCEPT ![t] = "creating"]
      /\ mark' = [mark EXCEPT ![t] = clock]
      /\ UNCHANGED <<pending, outcome, clock, job, creator, told, pruned>>
  BY DEF RegistryInv, StartCreate
<1>2. RegistryTypes'
  BY <1>1 DEF RegistryTypes
<1>3. /\ at'[t] = "creating"
      /\ \A q \in Pollers \ {t} : at'[q] = at[q] /\ mark'[q] = mark[q]
  BY <1>1 DEF RegistryTypes
<1>4. ASSUME NEW q \in Pollers PROVE ThreadInv(q)'
  <2>1. ThreadInv(q)
    BY DEF RegistryInv
  <2>2. CASE q = t
    BY <1>1, <1>3, <2>1, <2>2 DEF ThreadInv
  <2>3. CASE q # t
    BY <1>1, <1>3, <2>1, <2>3, ThreadUnmoved
  <2> QED
    BY <2>2, <2>3
<1>5. ASSUME NEW j \in Jobs PROVE JobInv(j)'
  <2>1. \A q \in Pollers : Registering(q, j) => Registering(q, j)'
    BY <1>1, <1>3 DEF Registering
  <2> QED
    BY <1>1, <2>1, JobUnmoved DEF RegistryInv
<1> QED
  BY <1>1, <1>2, <1>4, <1>5 DEF RegistryInv

LEMMA CreateReturnsStep ==
    ASSUME RegistryInv, NEW t \in Pollers, CreateReturns(t)
    PROVE  RegistryInv'
<1>1. RegistryTypes /\ at[t] = "creating"
      /\ UNCHANGED <<pending, outcome, clock, mark, told, pruned>>
  BY DEF RegistryInv, CreateReturns
<1>2. ASSUME NEW j \in Jobs,
             creator[j] = NoEntry,
             creator' = [creator EXCEPT ![j] = [by |-> t, start |-> mark[t]]],
             job' = [job EXCEPT ![t] = j],
             at' = [at EXCEPT ![t] = "registering"]
      PROVE  RegistryInv'
  <2> DEFINE made == [by |-> t, start |-> mark[t]]
  <2>1. made \in [by : Pollers, start : 0..MaxClock]
    BY <1>1 DEF RegistryTypes
  <2>2. made # NoEntry /\ j # NoEntry
    BY <2>1, NoEntryAssumption
  <2>3. RegistryTypes'
    BY <1>1, <1>2, <2>1 DEF RegistryTypes
  <2>4. /\ at'[t] = "registering" /\ job'[t] = j /\ creator'[j] = made
        /\ \A q \in Pollers \ {t} : at'[q] = at[q] /\ job'[q] = job[q]
        /\ \A i \in Jobs \ {j} : creator'[i] = creator[i]
    BY <1>1, <1>2 DEF RegistryTypes
  <2>5. pending[j] = NoEntry /\ told[j] = <<>> /\ outcome[j] = NoEntry
    <3>1. JobInv(j) /\ pending[j] \in [sentinel : Pollers, start : 0..MaxClock] \cup {NoEntry}
      BY <1>1 DEF RegistryInv, RegistryTypes
    <3>2. pending[j] # NoEntry =>
            [by |-> pending[j].sentinel, start |-> pending[j].start]
                \in [by : Pollers, start : 0..MaxClock]
      BY <3>1
    <3>3. pending[j] = NoEntry
      BY <1>2, <3>1, <3>2, NoEntryAssumption DEF JobInv
    <3> QED
      BY <1>2, <3>1, <3>3 DEF JobInv
  <2> HIDE DEF made
  <2>6. ASSUME NEW q \in Pollers PROVE ThreadInv(q)'
    <3>1. ThreadInv(q) /\ job[q] \in Jobs \cup {NoEntry}
      BY <1>1 DEF RegistryInv, RegistryTypes
    <3>2. CASE q = t
      BY <1>1, <2>2, <2>4, <2>5, <3>2 DEF ThreadInv, made
    <3>3. CASE q # t
      <4>1. job[q] # j
        BY <1>2, <2>2, <3>1 DEF ThreadInv
      <4>2. job[q] # NoEntry => creator'[job[q]] = creator[job[q]]
        BY <2>4, <3>1, <4>1
      <4> QED
        BY <1>1, <2>4, <3>1, <3>3, <4>1, <4>2 DEF ThreadInv
    <3> QED
      BY <3>2, <3>3
  <2>7. ASSUME NEW i \in Jobs PROVE JobInv(i)'
    <3>1. JobInv(i)
      BY DEF RegistryInv
    <3>2. CASE i = j
      BY <1>1, <2>4, <2>5, <3>2 DEF JobInv, Registering
    <3>3. CASE i # j
      <4>1. \A q \in Pollers : Registering(q, i) => Registering(q, i)'
        BY <1>1, <2>4 DEF Registering
      <4> QED
        BY <1>1, <2>4, <3>1, <3>3, <4>1, JobUnmoved
    <3> QED
      BY <3>2, <3>3
  <2> QED
    BY <1>1, <2>3, <2>6, <2>7 DEF RegistryInv
<1>3. ASSUME at' = [at EXCEPT ![t] = "idle"], UNCHANGED <<creator, job>>
      PROVE  RegistryInv'
  <2>1. RegistryTypes'
    BY <1>1, <1>3 DEF RegistryTypes
  <2>2. at'[t] = "idle" /\ \A q \in Pollers \ {t} : at'[q] = at[q]
    BY <1>1, <1>3 DEF RegistryTypes
  <2>3. ASSUME NEW q \in Pollers PROVE ThreadInv(q)'
    BY <1>1, <1>3, <2>2 DEF RegistryInv, ThreadInv
  <2>4. ASSUME NEW i \in Jobs PROVE JobInv(i)'
    <3>1. \A q \in Pollers : Registering(q, i) => Registering(q, i)'
      BY <1>1, <1>3, <2>2 DEF Registering
    <3> QED
      BY <1>1, <1>3, <3>1, JobUnmoved DEF RegistryInv
  <2> QED
    BY <1>1, <2>1, <2>3, <2>4 DEF RegistryInv
<1> QED
  BY <1>2, <1>3 DEF CreateReturns

LEMMA RegisterStep ==
    ASSUME RegistryInv, NEW t \in Pollers, Register(t)
    PROVE  RegistryInv'
<1> DEFINE j == job[t]
           entry == [sentinel |-> t, start |-> mark[t]]
<1>1. RegistryTypes /\ at[t] = "registering"
      /\ pending' = [pending EXCEPT ![j] = entry]
      /\ at' = [at EXCEPT ![t] = "pruning"]
      /\ UNCHANGED <<outcome, clock, mark, job, creator, told, pruned>>
  BY DEF RegistryInv, Register
<1>2. ThreadInv(t)
  BY DEF RegistryInv
<1>3. j \in Jobs /\ creator[j] = [by |-> t, start |-> mark[t]] /\ told[j] = <<>>
  BY <1>1, <1>2 DEF ThreadInv, RegistryTypes
<1>4. entry \in [sentinel : Pollers, start : 0..MaxClock] /\ entry # NoEntry
  BY <1>1, NoEntryAssumption DEF RegistryTypes
<1>5. RegistryTypes'
  BY <1>1, <1>3, <1>4 DEF RegistryTypes
<1>6. /\ at'[t] = "pruning" /\ pending'[j] = entry
      /\ \A q \in Pollers \ {t} : at'[q] = at[q]
      /\ \A i \in Jobs \ {j} : pending'[i] = pending[i]
  BY <1>1, <1>3 DEF RegistryTypes
<1> HIDE DEF j
<1>7. ASSUME NEW q \in Pollers PROVE ThreadInv(q)'
  <2>1. ThreadInv(q) /\ job[q] \in Jobs \cup {NoEntry}
    BY <1>1 DEF RegistryInv, RegistryTypes
  <2>2. CASE q = t
    BY <1>1, <1>6, <2>1, <2>2 DEF ThreadInv
  <2>3. CASE q # t
    <3>1. at[q] = "registering" => job[q] # j
      <4>1. [by |-> q, start |-> mark[q]] # [by |-> t, start |-> mark[t]]
        BY <2>3
      <4> QED
        BY <1>3, <2>1, <4>1 DEF ThreadInv
    <3> QED
      BY <1>1, <1>6, <2>1, <2>3, <3>1 DEF ThreadInv
  <2> QED
    BY <2>2, <2>3
<1>8. ASSUME NEW i \in Jobs PROVE JobInv(i)'
  <2>1. JobInv(i)
    BY DEF RegistryInv
  <2>2. CASE i = j
    <3>1. creator[i] = [by |-> entry.sentinel, start |-> entry.start]
      BY <1>3, <2>2
    <3>2. creator'[i] # NoEntry
      <4>1. [by |-> t, start |-> mark[t]] \in [by : Pollers, start : 0..MaxClock]
        BY <1>1 DEF RegistryTypes
      <4> QED
        BY <1>1, <1>3, <2>2, <4>1, NoEntryAssumption
    <3> QED
      BY <1>1, <1>3, <1>4, <1>6, <2>2, <3>1, <3>2 DEF JobInv
  <2>3. CASE i # j
    <3>1. \A q \in Pollers : Registering(q, i) => Registering(q, i)'
      BY <1>1, <1>6, <2>3 DEF Registering, j
    <3> QED
      BY <1>1, <1>6, <2>1, <2>3, <3>1, JobUnmoved
  <2> QED
    BY <2>2, <2>3
<1> QED
  BY <1>1, <1>5, <1>7, <1>8 DEF RegistryInv

LEMMA PruneStep ==
    ASSUME RegistryInv, NEW t \in Pollers, Prune(t)
    PROVE  RegistryInv'
<1> DEFINE gone == {j \in Jobs : Stale(pending[j], mark[t])}
<1>1. RegistryTypes /\ at[t] = "pruning"
      /\ pending' = [j \in Jobs |-> IF j \in gone THEN NoEntry ELSE pending[j]]
      /\ pruned' = pruned \cup {[job |-> j, age |-> clock - pending[j].start] : j \in gone}
      /\ at' = [at EXCEPT ![t] = "idle"]
      /\ job' = [job EXCEPT ![t] = NoEntry]
      /\ UNCHANGED <<outcome, clock, mark, creator, told>>
  BY DEF RegistryInv, Prune
<1>2. RegistryTypes'
  BY <1>1 DEF RegistryTypes
<1>3. /\ at'[t] = "idle" /\ job'[t] = NoEntry
      /\ \A q \in Pollers \ {t} : at'[q] = at[q] /\ job'[q] = job[q]
  BY <1>1 DEF RegistryTypes
<1>4. \A j \in gone : pending[j] # NoEntry /\ pending[j].start < mark[t] - TTL
  BY DEF Stale
<1>5. \A p \in pruned' : p.age > TTL
  <2>1. ASSUME NEW j \in gone PROVE clock - pending[j].start > TTL
    <3>1. pending[j].start \in Nat /\ mark[t] \in Nat /\ clock \in Nat /\ mark[t] <= clock
      BY <1>1, <1>4, OutcomesAssumption DEF RegistryTypes
    <3> QED
      BY <1>4, <3>1, OutcomesAssumption
  <2> QED
    BY <1>1, <2>1 DEF RegistryInv
<1>6. ASSUME NEW j \in gone
      PROVE  \E p \in pruned' : p.job = j
  <2> DEFINE p == [job |-> j, age |-> clock - pending[j].start]
  <2>1. p \in pruned' /\ p.job = j
    BY <1>1
  <2> QED
    BY <2>1
<1>7. \A j \in Jobs : pending'[j] = IF j \in gone THEN NoEntry ELSE pending[j]
  BY <1>1
<1>8. pruned \subseteq pruned'
  BY <1>1
<1> HIDE DEF gone
<1>9. ASSUME NEW q \in Pollers PROVE ThreadInv(q)'
  <2>1. ThreadInv(q) /\ job[q] \in Jobs \cup {NoEntry}
    BY <1>1 DEF RegistryInv, RegistryTypes
  <2>2. CASE q = t
    BY <1>1, <1>3, <2>1, <2>2 DEF ThreadInv
  <2>3. CASE q # t
    <3>1. at[q] = "registering" => pending'[job[q]] = NoEntry
      BY <1>7, <2>1 DEF ThreadInv
    <3> QED
      BY <1>1, <1>3, <2>1, <2>3, <3>1 DEF ThreadInv
  <2> QED
    BY <2>2, <2>3
<1>10. ASSUME NEW j \in Jobs PROVE JobInv(j)'
  <2>1. JobInv(j)
    BY DEF RegistryInv
  <2>2. CASE j \in gone
    <3>1. pending'[j] = NoEntry /\ told'[j] = <<>>
      BY <1>1, <1>4, <1>7, <2>1, <2>2 DEF JobInv
    <3> QED
      BY <1>1, <1>6, <2>1, <2>2, <3>1 DEF JobInv
  <2>3. CASE j \notin gone
    <3>1. \A q \in Pollers : Registering(q, j) => Registering(q, j)'
      BY <1>1, <1>3 DEF Registering
    <3> QED
      BY <1>1, <1>7, <1>8, <2>1, <2>3, <3>1, JobUnmoved
  <2> QED
    BY <2>2, <2>3
<1> QED
  BY <1>2, <1>5, <1>9, <1>10 DEF RegistryInv

LEMMA GetReturnsStep ==
    ASSUME RegistryInv, NEW t \in Pollers, GetReturns(t)
    PROVE  RegistryInv'
<1>1. RegistryTypes /\ at[t] = "idle"
      /\ at' = [at EXCEPT ![t] = "got"]
      /\ mark' = [mark EXCEPT ![t] = clock]
      /\ UNCHANGED <<pending, outcome, clock, creator, told, pruned>>
  BY DEF RegistryInv, GetReturns
<1>2. PICK j \in Jobs : outcome[j] # NoEntry /\ job' = [job EXCEPT ![t] = j]
  BY DEF GetReturns
<1>3. RegistryTypes'
  BY <1>1, <1>2 DEF RegistryTypes
<1>4. /\ at'[t] = "got" /\ job'[t] = j
      /\ \A q \in Pollers \ {t} :
            at'[q] = at[q] /\ mark'[q] = mark[q] /\ job'[q] = job[q]
  BY <1>1, <1>2 DEF RegistryTypes
<1>5. creator[j] # NoEntry /\ j # NoEntry
  BY <1>2, NoEntryAssumption DEF RegistryInv, JobInv
<1>6. ASSUME NEW q \in Pollers PROVE ThreadInv(q)'
  <2>1. CASE q = t
    BY <1>1, <1>2, <1>4, <1>5, <2>1 DEF ThreadInv
  <2>2. CASE q # t
    BY <1>1, <1>4, <2>2, ThreadUnmoved DEF RegistryInv
  <2> QED
    BY <2>1, <2>2
<1>7. ASSUME NEW i \in Jobs PROVE JobInv(i)'
  <2>1. \A q \in Pollers : Registering(q, i) => Registering(q, i)'
    BY <1>1, <1>4 DEF Registering
  <2> QED
    BY <1>1, <2>1, JobUnmoved DEF RegistryInv
<1> QED
  BY <1>1, <1>3, <1>6, <1>7 DEF RegistryInv

LEMMA TakeEntryStep ==
    ASSUME RegistryInv, NEW t \in Pollers, TakeEntry(t)
    PROVE  RegistryInv'
<1> DEFINE j == job[t]
           entry == pending[j]
           end == [sentinel |-> entry.sentinel,
                   record |-> ReplicatePredictionRecord(outcome[j])]
<1>1. RegistryTypes /\ at[t] = "got" /\ ThreadInv(t)
      /\ UNCHANGED <<outcome, clock, mark, creator, pruned>>
  BY DEF RegistryInv, TakeEntry
<1>2. j \in Jobs /\ outcome[j] # NoEntry /\ JobInv(j)
  BY <1>1 DEF ThreadInv, RegistryTypes, RegistryInv
<1>3. CASE entry # NoEntry
  <2>1. /\ pending' = [pending EXCEPT ![j] = NoEntry]
        /\ told' = [told EXCEPT ![j] = Append(@, end)]
        /\ at' = [at EXCEPT ![t] = "idle"]
        /\ job' = [job EXCEPT ![t] = NoEntry]
    BY <1>3 DEF TakeEntry, Pop
  <2>2. RegistryTypes'
    BY <1>1, <2>1 DEF RegistryTypes
  <2>3. /\ at'[t] = "idle" /\ job'[t] = NoEntry
        /\ \A q \in Pollers \ {t} : at'[q] = at[q] /\ job'[q] = job[q]
        /\ pending'[j] = NoEntry
        /\ \A i \in Jobs \ {j} : pending'[i] = pending[i] /\ told'[i] = told[i]
    BY <1>1, <1>2, <2>1 DEF RegistryTypes
  <2>4. /\ told[j] = <<>>
        /\ entry.sentinel = creator[j].by
        /\ told'[j] = <<end>>
    <3>1. told[j] = <<>> /\ creator[j] = [by |-> entry.sentinel, start |-> entry.start]
      BY <1>2, <1>3 DEF JobInv
    <3>2. told'[j] = Append(told[j], end)
      BY <1>1, <1>2, <2>1 DEF RegistryTypes
    <3> QED
      BY <3>1, <3>2
  <2> HIDE DEF j
  <2>5. ASSUME NEW q \in Pollers PROVE ThreadInv(q)'
    <3>1. ThreadInv(q) /\ job[q] \in Jobs \cup {NoEntry}
      BY <1>1 DEF RegistryInv, RegistryTypes
    <3>2. CASE q = t
      BY <1>1, <2>3, <3>1, <3>2 DEF ThreadInv
    <3>3. CASE q # t
      <4>1. at[q] = "registering" => job[q] # j
        BY <1>3, <3>1 DEF ThreadInv
      <4> QED
        BY <1>1, <2>3, <3>1, <3>3, <4>1 DEF ThreadInv
    <3> QED
      BY <3>2, <3>3
  <2>6. ASSUME NEW i \in Jobs PROVE JobInv(i)'
    <3>1. JobInv(i)
      BY DEF RegistryInv
    <3>2. CASE i = j
      BY <1>1, <1>2, <2>3, <2>4, <3>1, <3>2 DEF JobInv
    <3>3. CASE i # j
      <4>1. \A q \in Pollers : Registering(q, i) => Registering(q, i)'
        BY <1>1, <2>3 DEF Registering
      <4> QED
        BY <1>1, <2>3, <3>1, <3>3, <4>1, JobUnmoved
    <3> QED
      BY <3>2, <3>3
  <2> QED
    BY <1>1, <2>2, <2>5, <2>6 DEF RegistryInv
<1>4. CASE entry = NoEntry
  <2>1. at' = [at EXCEPT ![t] = "pruning"] /\ UNCHANGED <<pending, told, job>>
    BY <1>4 DEF TakeEntry
  <2>2. RegistryTypes'
    BY <1>1, <2>1 DEF RegistryTypes
  <2>3. at'[t] = "pruning" /\ \A q \in Pollers \ {t} : at'[q] = at[q]
    BY <1>1, <2>1 DEF RegistryTypes
  <2>4. ASSUME NEW q \in Pollers PROVE ThreadInv(q)'
    BY <1>1, <2>1, <2>3 DEF RegistryInv, ThreadInv
  <2>5. ASSUME NEW i \in Jobs PROVE JobInv(i)'
    <3>1. \A q \in Pollers : Registering(q, i) => Registering(q, i)'
      BY <1>1, <2>1, <2>3 DEF Registering
    <3> QED
      BY <1>1, <2>1, <3>1, JobUnmoved DEF RegistryInv
  <2> QED
    BY <1>1, <2>2, <2>4, <2>5 DEF RegistryInv
<1> QED
  BY <1>3, <1>4

LEMMA RegistryUnmoved ==
    ASSUME RegistryInv, UNCHANGED registryVars
    PROVE  RegistryInv'
<1>1. UNCHANGED <<pending, outcome, clock, at, mark, job, creator, told, pruned>>
  BY DEF registryVars
<1>2. RegistryTypes'
  BY <1>1 DEF RegistryInv, RegistryTypes
<1>3. ASSUME NEW t \in Pollers PROVE ThreadInv(t)'
  BY <1>1, ThreadUnmoved DEF RegistryInv
<1>4. ASSUME NEW j \in Jobs PROVE JobInv(j)'
  BY <1>1, JobUnmoved DEF RegistryInv, Registering
<1> QED
  BY <1>1, <1>2, <1>3, <1>4 DEF RegistryInv

LEMMA RegistryPreserves ==
    ASSUME RegistryInv, [CaptureNext]_<<handlerVars, registryVars, uses>>
    PROVE  RegistryInv'
<1>1. CASE RegistryNext
  BY <1>1, TickStep, JobEndsStep, StartCreateStep, CreateReturnsStep, RegisterStep,
     PruneStep, GetReturnsStep, TakeEntryStep DEF RegistryNext
<1>2. CASE UNCHANGED registryVars
  BY <1>2, RegistryUnmoved
<1>3. RegistryNext \/ UNCHANGED registryVars
  BY DEF CaptureNext, Handled, Polled
<1> QED
  BY <1>1, <1>2, <1>3

\* Every create, poll and pruning keeps RegistryInv, in any interleaving.
THEOREM RegistryInvariant == CaptureSpec => []RegistryInv
<1>1. CaptureInit => RegistryInv
  BY RegistryStarts DEF CaptureInit
<1>2. RegistryInv /\ [CaptureNext]_<<handlerVars, registryVars, uses>> => RegistryInv'
  BY RegistryPreserves
<1> QED
  BY <1>1, <1>2, PTL DEF CaptureSpec

\* An output that was made, or the time of a prediction that failed, is charged.
LEMMA WhatRanIsCharged ==
    ASSUME NEW a \in Outcomes,
           IF a.status = "succeeded" THEN a.outputs # None ELSE Reported(a.time, 0) > 0
    PROVE  ReplicatePredictionRecord(a).amount > 0
<1>1. ReplicatePredictionRecord(a).amount =
        IF a.status = "succeeded" THEN PredictionAmount(a) ELSE Reported(a.time, 0)
  BY DEF ReplicatePredictionRecord, Record
<1>2. CASE a.status = "succeeded"
  <2>1. CountOutputs(a.outputs) > 0
    <3>1. a.outputs = Iterator \/ (a.outputs \in Nat /\ a.outputs # Iterator)
      BY <1>2, OutcomesAssumption
    <3> QED
      BY <1>2, <3>1 DEF CountOutputs, LargerOf
  <2>2. CASE Reported(a.time, 0) > 0
    <3>1. a.time # None => a.time = Reported(a.time, 0)
      BY DEF Reported
    <3>2. a.time # None
      BY <2>2 DEF Reported
    <3> QED
      BY <1>1, <1>2, <2>1, <2>2, <3>1, <3>2 DEF PredictionAmount
  <2>3. CASE ~(Reported(a.time, 0) > 0)
    BY <1>1, <1>2, <2>1, <2>3 DEF PredictionAmount
  <2> QED
    BY <2>2, <2>3
<1>3. CASE a.status # "succeeded"
  BY <1>1, <1>3
<1> QED
  BY <1>2, <1>3

\* replicate.py's _maybe_record_terminal and _drop_stale_pending: whatever the
\* number of threads that poll it, a prediction's end is told once, to the
\* sentinel of its create, for what it made; it goes untold only when its entry
\* was pruned, older than the limit.
THEOREM EndsAreSound == CaptureSpec => []EndsSound
<1>1. ASSUME HandlerInv, RegistryInv PROVE EndsSound
  <2>1. TypeOK
    <3>1. mark \in [Pollers -> 0..clock]
      BY <1>1, OutcomesAssumption DEF RegistryInv, RegistryTypes
    <3> QED
      BY <1>1, <3>1 DEF HandlerInv, HandlerTypes, RegistryInv, RegistryTypes,
                        ThreadInv, JobInv, TypeOK
  <2>2. ASSUME NEW j \in Jobs, told[j] # <<>>
        PROVE  /\ Len(told[j]) = 1
               /\ told[j][1].sentinel = creator[j].by
               /\ (IF outcome[j].status = "succeeded" THEN outcome[j].outputs # None
                   ELSE Reported(outcome[j].time, 0) > 0)
                     => told[j][1].record.amount > 0
    <3>1. outcome[j] \in Outcomes
      BY <1>1, <2>2 DEF RegistryInv, RegistryTypes, JobInv
    <3>2. told[j] = <<[sentinel |-> creator[j].by,
                       record |-> ReplicatePredictionRecord(outcome[j])]>>
      BY <1>1, <2>2 DEF RegistryInv, JobInv
    <3>3. /\ Len(told[j]) = 1
          /\ told[j][1].sentinel = creator[j].by
          /\ told[j][1].record = ReplicatePredictionRecord(outcome[j])
      BY <3>2
    <3> QED
      BY <3>1, <3>3, WhatRanIsCharged
  <2>3. LostOnlyByAge
    BY <1>1 DEF RegistryInv, JobInv, Registering, LostOnlyByAge
  <2> QED
    BY <2>1, <2>2, <2>3 DEF EndsSound, EndRecordedOnce
<1> QED
  BY <1>1, HandlerInvariant, RegistryInvariant, PTL

\* replicate.py's _drop_stale_pending: when a thread has pruned, the registry
\* holds no prediction that was older than the limit when the thread began.
THEOREM RegistryIsPruned == CaptureSpec => RegistryPruned
<1> DEFINE Kept ==
      \A t \in Pollers :
          (at[t] = "pruning" /\ at'[t] = "idle") =>
              \A j \in Jobs : creator[j] # NoEntry /\ pending'[j] # NoEntry
                  => creator[j].start >= mark[t] - TTL
<1>1. ASSUME RegistryInv, [CaptureNext]_<<handlerVars, registryVars, uses>>
      PROVE  [Kept]_registryVars
  <2>1. SUFFICES ASSUME NEW t \in Pollers, at[t] = "pruning", at'[t] = "idle",
                        NEW j \in Jobs, pending'[j] # NoEntry
                 PROVE  creator[j].start >= mark[t] - TTL
    OBVIOUS
  <2>2. RegistryNext
    BY <1>1, <2>1 DEF CaptureNext, Handled, Polled, handlerVars, registryVars
  <2>3. Prune(t)
    <3>1. at \in [Pollers -> {"idle", "creating", "registering", "pruning", "got"}]
      BY <1>1 DEF RegistryInv, RegistryTypes
    <3>2. ~Tick /\ ~JobEnds
      BY <2>1 DEF Tick, JobEnds
    <3>3. PICK q \in Pollers :
              \/ StartCreate(q) \/ CreateReturns(q) \/ Register(q) \/ Prune(q)
              \/ GetReturns(q) \/ TakeEntry(q)
      BY <2>2, <3>2 DEF RegistryNext
    <3>4. q = t
      BY <2>1, <3>1, <3>3 DEF StartCreate, CreateReturns, Register, Prune,
                              GetReturns, TakeEntry
    <3>5. at[q] = "pruning"
      BY <2>1, <3>4
    <3> QED
      BY <3>3, <3>4, <3>5 DEF StartCreate, CreateReturns, Register, GetReturns, TakeEntry
  <2>4. pending[j] # NoEntry /\ ~Stale(pending[j], mark[t])
    BY <2>1, <2>3 DEF Prune
  <2>5. pending[j] \in [sentinel : Pollers, start : 0..MaxClock] /\ mark[t] \in Nat
    BY <1>1, <2>4 DEF RegistryInv, RegistryTypes
  <2>6. creator[j].start = pending[j].start
    <3>1. JobInv(j)
      BY <1>1 DEF RegistryInv
    <3>2. creator[j] = [by |-> pending[j].sentinel, start |-> pending[j].start]
      BY <2>4, <3>1 DEF JobInv
    <3> QED
      BY <3>2
  <2> QED
    BY <2>4, <2>5, <2>6, OutcomesAssumption DEF Stale
<1>2. RegistryInv /\ [CaptureNext]_<<handlerVars, registryVars, uses>> => [Kept]_registryVars
  BY <1>1
<1>3. CaptureSpec => [][Kept]_registryVars
  <2> HIDE DEF Kept
  <2> QED
    BY <1>2, RegistryInvariant, PTL DEF CaptureSpec
<1> QED
  BY <1>3 DEF RegistryPruned
=============================================================================
