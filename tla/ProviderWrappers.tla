--------------------------- MODULE ProviderWrappers ---------------------------
(***************************************************************************)
(* An application that calls providers through the wrappers, one call      *)
(* after another, in block mode, and stops at the first LeakDetected.      *)
(* Plain calls: the guard, the provider, the record, the answer.  Streams  *)
(* live on: the application reads them through a proxy, leaves its loop,   *)
(* closes them, leaves their with block or forgets them, and the record is *)
(* made at the first of these that finalises.  An async loop that is left  *)
(* early is closed later, by the event loop.                               *)
(*                                                                         *)
(* record_call raises or does not (Detection.tla, PolicyEnforcement.tla);  *)
(* once the kill switch shows it raises always.  What else it raises is    *)
(* swallowed by every wrapper and looks like silence.                      *)
(***************************************************************************)
EXTENDS ProviderAnswers, Pricing

CONSTANTS
    Answers,        \* the answers a provider may give: by wrapper
    Wires(_, _),    \* the pieces an answer may come in
    Model,          \* the model of every call, for its price
    Estimate,       \* what tiktoken counts in a request, 0 where it is missing
    Plans,          \* the wrappers an application may call, in order
    MaxCalls        \* bound on their number

\* Providers send what the wrappers rely on.  (That "" is a string no prover of
\* TLAPS knows by itself.)
ASSUME AnswersAssumption ==
    /\ "" \in STRING
    /\ None \notin Nat \cup STRING \cup [prompt : Nat, completion : Nat, cached : Nat]
    /\ Iterator \notin Nat /\ MaxAudioBytes \in Nat
    /\ DOMAIN Answers \subseteq Flavours
    /\ \A f \in DOMAIN Answers : /\ Answers[f] \subseteq Shape(f)
                                /\ None \notin Answers[f]

ASSUME WiresAssumption ==
    \A f \in DOMAIN Answers : \A a \in Answers[f] : \A w \in Wires(f, a) :
        Sends(f, a, w)

ASSUME PlansAssumption ==
    /\ Estimate \in Nat /\ Len(Model.name) \in Nat
    /\ \A p \in Plans : /\ p \in Seq(DOMAIN Answers)
                        /\ Len(p) <= MaxCalls

\* How a wrapper deals with a call, and which record it makes.
Plain(guarded, messages) ==
    [stream |-> FALSE, guarded |-> guarded, messages |-> messages]

Stream(guarded, with, close, loop, gc, async, messages, twin) ==
    [stream |-> TRUE, guarded |-> guarded, with |-> with, close |-> close,
     loop |-> loop, gc |-> gc, async |-> async, messages |-> messages, twin |-> twin]

\* Mutant of OpenAIStream: forgotten streams are not recorded.
OpenAIStreamNoGC ==
    Stream(TRUE, "may", TRUE, TRUE, FALSE, FALSE, TRUE, "openai.chat")

(***************************************************************************)
(* The wrappers, one by one: is there a preflight; and for a stream, is    *)
(* there a with block, does close finalise, does the end of a loop, does   *)
(* garbage collection; is its loop asynchronous; whose record is it.       *)
(***************************************************************************)
OpenAIChat == Plain(TRUE, TRUE)
OpenAIEmbeddings == Plain(TRUE, FALSE)
OpenAIAudio == Plain(FALSE, FALSE)
OpenAIStream == Stream(TRUE, "may", TRUE, TRUE, TRUE, FALSE, TRUE, "openai.chat")
OpenAIAsyncStream == Stream(TRUE, "may", TRUE, TRUE, TRUE, TRUE, TRUE, "openai.chat")
AnthropicCreate == Plain(TRUE, TRUE)
AnthropicStream ==
    Stream(FALSE, "must", FALSE, FALSE, FALSE, FALSE, TRUE, "anthropic.create")
AnthropicAsyncStream ==
    Stream(FALSE, "must", FALSE, FALSE, FALSE, TRUE, TRUE, "anthropic.create")
GeminiGenerate == Plain(TRUE, FALSE)
GeminiStream ==
    Stream(FALSE, "never", FALSE, TRUE, FALSE, FALSE, FALSE, "gemini.generate")
GeminiAsyncStream ==
    Stream(FALSE, "never", FALSE, TRUE, FALSE, TRUE, FALSE, "gemini.generate")
BedrockConverse == Plain(TRUE, TRUE)
BedrockStream ==
    Stream(TRUE, "may", TRUE, TRUE, TRUE, FALSE, TRUE, "bedrock.converse")
CohereChat == Plain(FALSE, FALSE)
CohereEmbed == Plain(FALSE, FALSE)
CohereRerank == Plain(FALSE, FALSE)
VoyageEmbed == Plain(FALSE, FALSE)
VoyageRerank == Plain(FALSE, FALSE)
DeepgramFile == Plain(FALSE, FALSE)
DeepgramLive ==
    Stream(FALSE, "must", FALSE, TRUE, TRUE, FALSE, FALSE, "deepgram.file")
ElevenLabsValue == Plain(FALSE, FALSE)
ElevenLabsStream ==
    Stream(FALSE, "never", FALSE, TRUE, TRUE, FALSE, FALSE, "elevenlabs.convert")
ElevenLabsAsyncStream ==
    Stream(FALSE, "never", FALSE, TRUE, TRUE, TRUE, FALSE, "elevenlabs.convert")
ReplicateRun == Plain(FALSE, FALSE)

How(f) ==
    CASE f = "openai.chat" -> OpenAIChat
      [] f = "openai.embeddings" -> OpenAIEmbeddings
      [] f = "openai.audio" -> OpenAIAudio
      [] f = "openai.stream" -> OpenAIStream
      [] f = "openai.astream" -> OpenAIAsyncStream
      [] f = "anthropic.create" -> AnthropicCreate
      [] f = "anthropic.stream" -> AnthropicStream
      [] f = "anthropic.astream" -> AnthropicAsyncStream
      [] f = "gemini.generate" -> GeminiGenerate
      [] f = "gemini.stream" -> GeminiStream
      [] f = "gemini.astream" -> GeminiAsyncStream
      [] f = "bedrock.converse" -> BedrockConverse
      [] f = "bedrock.stream" -> BedrockStream
      [] f = "cohere.chat" -> CohereChat
      [] f = "cohere.embed" -> CohereEmbed
      [] f = "cohere.rerank" -> CohereRerank
      [] f = "voyage.embed" -> VoyageEmbed
      [] f = "voyage.rerank" -> VoyageRerank
      [] f = "deepgram.file" -> DeepgramFile
      [] f = "deepgram.live" -> DeepgramLive
      [] f = "elevenlabs.convert" -> ElevenLabsValue
      [] f = "elevenlabs.stream" -> ElevenLabsStream
      [] f = "elevenlabs.astream" -> ElevenLabsAsyncStream
      [] f = "replicate.run" -> ReplicateRun

\* The record of an answer that comes whole.
RecordOf(f, a) ==
    CASE f = "openai.chat" -> OpenAIChatRecord(a)
      [] f = "openai.embeddings" -> OpenAIEmbeddingRecord(a)
      [] f = "openai.audio" -> OpenAIAudioRecord(a)
      [] f = "anthropic.create" -> AnthropicMessageRecord(a)
      [] f = "gemini.generate" -> GeminiRecord(a)
      [] f = "bedrock.converse" -> BedrockConverseRecord(a)
      [] f = "cohere.chat" -> CohereChatRecord(a)
      [] f = "cohere.embed" -> CohereEmbedRecord(a)
      [] f = "cohere.rerank" -> CohereRerankRecord(a)
      [] f = "voyage.embed" -> VoyageEmbedRecord(a)
      [] f = "voyage.rerank" -> VoyageRerankRecord(a)
      [] f = "deepgram.file" -> DeepgramRecord(a)
      [] f = "elevenlabs.convert" -> ElevenLabsRecord(a)
      [] f = "replicate.run" -> ReplicateRunRecord(a)

Observe(f, acc, p) ==
    CASE f \in OpenAIStreams -> OpenAIObserve(acc, p)
      [] f \in AnthropicStreams -> AnthropicObserve(acc, p)
      [] f \in GeminiStreams -> GeminiObserve(acc, p)
      [] f = "bedrock.stream" -> BedrockObserve(acc, p)
      [] f = "deepgram.live" -> DeepgramObserve(acc, p)
      [] OTHER -> acc

\* The record of a stream as far as it was read.  Anthropic's final message is
\* there once every event has arrived, and ElevenLabs is billed by request.
StreamRecord(c) ==
    CASE c.flavour \in OpenAIStreams -> OpenAIStreamRecord(c.acc)
      [] c.flavour \in AnthropicStreams ->
            StreamedChatRecord(FinalizeFromMessage(c.acc,
                IF c.wire = <<>> THEN c.answer ELSE None))
      [] c.flavour \in GeminiStreams \cup {"bedrock.stream"} ->
            StreamedChatRecord(Uncached(c.acc))
      [] c.flavour = "deepgram.live" -> DeepgramLiveRecord(c.acc)
      [] OTHER -> ElevenLabsRecord(c.answer)

VARIABLES
    plan,       \* what the application is going to call
    killed,     \* the kill switch, as PolicyClient.current() shows it
    stage,      \* what the application does: idle, cleared, open, looping
    call,       \* its call
    late,       \* streams it let go whose async loop is still to be closed
    filed,      \* history: what this step gave to record_call
    ended       \* history: the calls the application is done with

vars == <<plan, killed, stage, call, late, filed, ended>>

\* A call as it begins.  odd: its request cannot be hashed, so no record of it
\* is ever built; aside: pieces were read past the proxy; cut: nothing more can
\* be read; letgo: a loop over it was left, or it was forgotten, with its record
\* still to be made; dangling: the left loop is an async one, not closed yet.
NewCall(f, a, odd) ==
    [id |-> Len(ended) + 1, flavour |-> f, answer |-> a, odd |-> odd,
     wire |-> <<>>, acc |-> Fresh, within |-> FALSE, entered |-> FALSE,
     aside |-> FALSE, looped |-> FALSE, cut |-> FALSE, letgo |-> FALSE,
     dangling |-> FALSE, flushed |-> FALSE, killed |-> killed, paid |-> FALSE,
     reports |-> 0, raised |-> FALSE, heard |-> FALSE]

NoCall == [flavour |-> None]

\* What is remembered of a call that is over.
Summary(c) ==
    [guarded |-> How(c.flavour).guarded, killed |-> c.killed, paid |-> c.paid,
     owed |-> /\ c.paid /\ ~c.odd
              /\ c.looped \/ c.flavour \notin GeminiStreams,
     reports |-> c.reports, letgo |-> c.letgo, raised |-> c.raised,
     heard |-> c.heard]

Idle == stage = "idle"
InUse(s) == stage = s
T == How(call.flavour)

Init ==
    /\ plan \in Plans
    /\ killed = FALSE
    /\ stage = "idle"
    /\ call = NoCall
    /\ late = {}
    /\ filed = None
    /\ ended = <<>>

NothingFiled == filed' = None

\* The operator throws the kill switch.
Kill ==
    /\ ~killed
    /\ killed' = TRUE
    /\ NothingFiled
    /\ UNCHANGED <<plan, stage, call, late, ended>>

Stopped == \E i \in DOMAIN ended : ended[i].heard

\* What an answer is charged by.
Charged(r) == <<r.prompt_tokens, r.completion_tokens, r.cached, r.amount>>

\* What record_call may do.
Verdicts == IF killed THEN {TRUE} ELSE {TRUE, FALSE}

\* The call is over.
Over(c) ==
    /\ stage' = "idle"
    /\ call' = NoCall
    /\ ended' = Append(ended, Summary(c))

\* Mutant of Guard: the wrapper has no preflight.
NoGuard(c) == stage' = "cleared" /\ call' = c /\ UNCHANGED ended

\* guard_before_call, where the wrapper has it.
Guard(c) ==
    IF How(c.flavour).guarded /\ killed
    THEN Over([c EXCEPT !.raised = TRUE, !.heard = TRUE])
    ELSE stage' = "cleared" /\ call' = c /\ UNCHANGED ended

Begin ==
    /\ Idle
    /\ ~Stopped
    /\ Len(ended) < Len(plan)
    /\ LET f == plan[Len(ended) + 1]
       IN  \E a \in Answers[f], odd \in BOOLEAN : Guard(NewCall(f, a, odd))
    /\ NothingFiled
    /\ UNCHANGED <<plan, killed, late>>

\* The provider raises: nothing is recorded, the error is the application's.
ProviderFails ==
    /\ InUse("cleared")
    /\ Over(call)
    /\ NothingFiled
    /\ UNCHANGED <<plan, killed, late>>

\* What the wrapper makes of a record without counts.
Filled(f, r) == MaybeFillMissingTokens(r, IF How(f).messages THEN Estimate ELSE 0)

\* record_call is given a record.
File(c, r) ==
    filed' = [call |-> c, full |-> c.wire = <<>> /\ ~c.aside,
              record |-> Filled(c.flavour, r)]

AnswerWhole ==
    /\ InUse("cleared")
    /\ ~T.stream
    /\ LET c == [call EXCEPT !.paid = TRUE, !.flushed = TRUE]
       IN  \/ c.odd /\ Over(c) /\ NothingFiled
           \/ ~c.odd /\ File(c, RecordOf(c.flavour, c.answer))
                     /\ \E raises \in Verdicts :
                            Over([c EXCEPT !.reports = 1, !.raised = raises,
                                           !.heard = raises])
    /\ UNCHANGED <<plan, killed, late>>

\* A stream the application has to enter begins inside its with block.
OpenStream ==
    /\ InUse("cleared")
    /\ T.stream
    /\ stage' = "open"
    /\ \E w \in Wires(call.flavour, call.answer) :
          call' = [call EXCEPT !.paid = TRUE, !.wire = w, !.within = T.with = "must"]
    /\ NothingFiled
    /\ UNCHANGED <<plan, killed, late, ended>>

\* Mutant of Gate: there is no flag that a stream has been finalised.
GateOpen(c) == TRUE
Gate(c) == ~c.flushed

\* Mutant of Raise: no way of finalising a stream lets LeakDetected through.
RaiseNever(c, heard) == [c EXCEPT !.raised = TRUE]
Raise(c, heard) == [c EXCEPT !.raised = TRUE, !.heard = @ \/ heard]

(***************************************************************************)
(* _safe_finalize and _finalize.  The flag first, then the record.  Where  *)
(* there is no caller to hear it, in a generator that is being closed or   *)
(* an object that is being collected, LeakDetected is suppressed or lost.  *)
(***************************************************************************)
Finalize(c, heard, After(_)) ==
    LET done == [c EXCEPT !.flushed = TRUE]
        told == [done EXCEPT !.reports = @ + 1]
    IN  \/ ~Gate(c) /\ After(c) /\ NothingFiled
        \/ Gate(c) /\ c.odd /\ After(done) /\ NothingFiled
        \/ Gate(c) /\ ~c.odd /\ File(c, StreamRecord(c))
                   /\ \E raises \in Verdicts :
                          After(IF raises THEN Raise(told, heard) ELSE told)

\* The application goes on with its stream.
Keep(c) == stage' = "open" /\ call' = c /\ UNCHANGED ended

\* with stream:
Enter ==
    /\ InUse("open")
    /\ T.with = "may"
    /\ ~call.within /\ ~call.flushed /\ ~call.looped
    /\ call' = [call EXCEPT !.within = TRUE, !.entered = TRUE]
    /\ NothingFiled
    /\ UNCHANGED <<plan, killed, stage, late, ended>>

\* for piece in stream: a second loop goes on where the first was left.
Loop ==
    /\ InUse("open")
    /\ ~call.heard /\ ~call.dangling /\ ~call.cut
    /\ stage' = "looping"
    /\ call' = [call EXCEPT !.looped = TRUE]
    /\ NothingFiled
    /\ UNCHANGED <<plan, killed, late, ended>>

ReadPiece ==
    /\ InUse("looping")
    /\ call.wire # <<>>
    /\ call' = [call EXCEPT !.wire = Tail(@),
                            !.acc = Observe(call.flavour, @, Head(call.wire))]
    /\ NothingFiled
    /\ UNCHANGED <<plan, killed, stage, late, ended>>

\* The loop comes to its end, or the provider breaks it off: only some proxies
\* finalise here, and LeakDetected takes the place of the provider's error.
LoopEnds ==
    /\ InUse("looping")
    /\ LET c == [call EXCEPT !.cut = TRUE]
       IN  IF T.loop THEN Finalize(c, TRUE, Keep) ELSE Keep(c) /\ NothingFiled
    /\ UNCHANGED <<plan, killed, late>>

\* The application leaves the loop: a generator is closed at once, an async
\* one when the event loop gets to it.
LeaveLoop ==
    /\ InUse("looping")
    /\ LET c == [call EXCEPT !.letgo = @ \/ ~call.flushed]
       IN  IF ~T.loop THEN Keep(call) /\ NothingFiled
           ELSE IF T.async THEN Keep([c EXCEPT !.dangling = TRUE]) /\ NothingFiled
           ELSE Finalize(c, FALSE, Keep)
    /\ UNCHANGED <<plan, killed, late>>

\* The rest is read through what the proxy passes on: text_stream,
\* get_final_message, recv.
ReadPastProxy ==
    /\ InUse("open")
    /\ T.with = "must"
    /\ call.within /\ ~call.cut /\ call.wire # <<>>
    /\ call' = [call EXCEPT !.wire = <<>>, !.aside = TRUE]
    /\ NothingFiled
    /\ UNCHANGED <<plan, killed, stage, late, ended>>

CloseStream ==
    /\ InUse("open")
    /\ T.close
    /\ ~call.within
    /\ Finalize([call EXCEPT !.cut = TRUE], TRUE, Keep)
    /\ UNCHANGED <<plan, killed, late>>

\* The end of the with block; an error of its body does not change it.
Exit ==
    /\ InUse("open")
    /\ call.within
    /\ Finalize([call EXCEPT !.within = FALSE, !.cut = TRUE], TRUE, Keep)
    /\ UNCHANGED <<plan, killed, late>>

\* The last reference goes, unless an async loop that is still to be closed
\* holds one.
Forget ==
    /\ InUse("open")
    /\ ~call.within
    /\ LET c == [call EXCEPT !.letgo = @ \/ ~call.flushed]
       IN  IF c.dangling
           THEN Over(c) /\ late' = late \cup {c} /\ NothingFiled
           ELSE /\ IF T.gc THEN Finalize(c, FALSE, Over) ELSE Over(c) /\ NothingFiled
                /\ UNCHANGED late
    /\ UNCHANGED <<plan, killed>>

\* The event loop closes an async loop that was left.
CloseLeftLoop ==
    /\ InUse("open")
    /\ call.dangling
    /\ Finalize([call EXCEPT !.dangling = FALSE], FALSE, Keep)
    /\ UNCHANGED <<plan, killed, late>>

Retold(c) ==
    /\ ended' = [ended EXCEPT ![c.id] = Summary(c)]
    /\ UNCHANGED <<stage, call>>

CloseLateLoop ==
    /\ \E c \in late :
          /\ late' = late \ {c}
          /\ Finalize(c, FALSE, Retold)
    /\ UNCHANGED <<plan, killed>>

Next ==
    \/ Kill
    \/ Begin \/ ProviderFails \/ AnswerWhole \/ OpenStream
    \/ Enter \/ Loop \/ ReadPiece \/ LoopEnds \/ LeaveLoop
    \/ ReadPastProxy \/ CloseStream \/ Exit \/ Forget
    \/ CloseLeftLoop \/ CloseLateLoop

\* The event loop closes the generators it is left with; the application need
\* not do anything at all.
Fairness == WF_vars(CloseLateLoop)

Spec == Init /\ [][Next]_vars /\ Fairness

(***************************************************************************)
(* Properties                                                              *)
(***************************************************************************)
Counts == [prompt_tokens : Nat, completion_tokens : Nat, cached : Nat,
           tool_calls : Seq([name : STRING, arguments : Seq(Nat)]),
           user_facing_output : BOOLEAN, amount : Nat \cup {None}, unknown : BOOLEAN]

\* The application is somewhere in one call or in none, and what record_call is
\* given is a CallRecord whatever the provider left out of its answer.
TypeOK ==
    /\ killed \in BOOLEAN
    /\ stage \in {"idle", "cleared", "open", "looping"}
    /\ Idle <=> call = NoCall
    /\ plan \in Plans /\ Len(ended) <= Len(plan) /\ Len(plan) <= MaxCalls
    /\ filed # None => filed.record \in Counts

\* Whatever a stream's reader does, loop twice, break, close, leave the with
\* block, forget it, in any order, its call is recorded at most once: it is not
\* charged twice, and no detector sees it twice.
CountedOnce ==
    /\ call # NoCall => call.reports <= 1
    /\ \A i \in DOMAIN ended : ended[i].reports <= 1

\* A stream that was read to its end through the wrapper makes the record of
\* the same answer come whole: the pieces of parallel tool calls are put
\* together, repeated counts are not added up.  Two differences remain: OpenAI
\* sends no counts unless asked, and Gemini's identical calls become one.
FullReadIsWhole ==
    (filed # None /\ filed.full /\ How(filed.call.flavour).stream) =>
        LET f == filed.call.flavour
            r == filed.record
            whole == Filled(How(f).twin, RecordOf(How(f).twin, filed.call.answer))
            tools == IF f \in GeminiStreams
                     THEN FirstSeen(whole.tool_calls) ELSE whole.tool_calls
        IN  /\ r.tool_calls = tools
            /\ r.user_facing_output = whole.user_facing_output
            /\ r.amount = whole.amount
            /\ \/ Charged(r) = Charged(whole)
               \/ r.unknown /\ r.prompt_tokens = Estimate /\ r.completion_tokens = 0

\* A stream that was abandoned, at any piece, is never charged more than its
\* whole answer, or than the estimate where no count had arrived.
AbandonedNeverDearer ==
    (filed # None /\ How(filed.call.flavour).stream) =>
        LET r == filed.record
            whole == RecordOf(How(filed.call.flavour).twin, filed.call.answer)
        IN  \/ EstimateCallUsd(Model, r) <= EstimateCallUsd(Model, whole)
            \/ r.prompt_tokens = Estimate /\ r.completion_tokens = 0

\* What was read from a prompt cache is never charged dearer than if it had not
\* been: it leaves the input it is part of.
CacheNeverDearer ==
    filed # None =>
        EstimateCallUsd(Model, filed.record)
            <= EstimateCallUsd(Model, [filed.record EXCEPT !.cached = 0])

\* A LeakDetected reaches the application unless it let its stream go before
\* the record was made: through the plain call, the end of the loop, close, or
\* the end of the with block.
HaltIsHeard ==
    /\ (call # NoCall /\ call.raised) => (call.heard \/ call.letgo)
    /\ \A i \in DOMAIN ended : ended[i].raised => (ended[i].heard \/ ended[i].letgo)

\* Once the kill switch shows, no call with a preflight is paid for, and of the
\* calls without one the application pays for one, whose record stops it; only
\* the streams it lets go and the calls without a record get past.
KillBoundsSpending ==
    LET paid == {i \in DOMAIN ended : ended[i].killed /\ ended[i].paid}
        used == {i \in paid : ended[i].reports = 1 /\ ~ended[i].letgo}
    IN  /\ \A i \in paid : ~ended[i].guarded
        /\ Cardinality(used) <= 1

\* The seconds of a transcription are those the provider reports or those of
\* the whole file: a file too long to be held, or one that cannot be read a
\* second time, is never measured by a part of it, and the record says so.
AudioNeverMeasuredByPart ==
    (filed # None /\ filed.call.flavour = "openai.audio") =>
        LET a == filed.call.answer
            r == filed.record
        IN  \/ ~r.unknown /\ a.duration # None /\ r.amount = a.duration
            \/ ~r.unknown /\ a.duration = None /\ r.amount = a.file.length
                         /\ (a.stream => a.file.size <= MaxAudioBytes)
            \/ r.unknown /\ r.amount = 0 /\ a.duration = None

\* No call is charged for more than it used, and no transcription for less: not
\* a stream that was abandoned, not a cache hit, not a part of a file.
ChargedFairly ==
    TypeOK /\ AbandonedNeverDearer /\ CacheNeverDearer /\ AudioNeverMeasuredByPart

\* Every paid call the application is done with is recorded in the end, also
\* the one whose async loop was left: all but those that have no record and
\* Gemini's streams that were never iterated, which nothing finalises.  That the
\* record can be built is assumed: a wrapper drops one whose building raises.
EndedCallsAreRecorded ==
    \A i \in 1..MaxCalls :
        (i \in DOMAIN ended /\ ended[i].owed)
            ~> (i \in DOMAIN ended /\ ended[i].reports = 1)

\* What docs/quickstart-bedrock.md:126 and docs/user/03-modes.md:206 say: a with
\* block around a stream guarantees that block mode halts.
WithGuaranteesHalt ==
    (call # NoCall /\ call.entered /\ ~call.within /\ ~call.dangling /\ call.raised)
        => call.heard
=============================================================================
