--------------------------- MODULE ProviderRecords ---------------------------
(***************************************************************************)
(* What the provider wrappers make of an answer: the CallRecord of an      *)
(* answer that comes whole, and the accumulator that builds one from the   *)
(* pieces of a streamed answer.  Of an answer the wrappers read its token  *)
(* counts, its text (there is none, it is empty, or it says something),    *)
(* the tools it calls and why it finished.  The arguments of a tool call   *)
(* are a sequence of fragments: json.loads of all of them is that sequence *)
(* again, and of half of them the raw text that arrived.  Hashes, latency, *)
(* wording and redaction are left out.                                     *)
(***************************************************************************)
EXTENDS CallRecords, TLC

CONSTANTS
    MaxAudioBytes,  \* _WHISPER_MAX_FILE_SIZE_BYTES
    Iterator        \* an output that is still to be produced

\* A provider's whole answer to a chat request.
Answer(text, tools, prompt, completion, cached) ==
    [text |-> text, tools |-> tools, prompt |-> prompt, completion |-> completion,
     cached |-> cached]

\* The CallRecord: what the SDK charges and the rules read.  amount is the
\* dimension_value of what is not billed in tokens, and unknown says that the
\* record itself declares its usage unavailable.
Record(prompt, completion, tools, facing) ==
    [prompt_tokens |-> prompt, completion_tokens |-> completion,
     tool_calls |-> tools, user_facing_output |-> facing,
     cached |-> 0, amount |-> None, unknown |-> FALSE]

\* used holds the counts, those of an answer or of an accumulator.
ChatRecord(used, tools, text) ==
    [Record(used.prompt, used.completion, tools, text /\ tools = <<>>)
        EXCEPT !.cached = used.cached]

\* Bedrock's and Gemini's records say nothing of a cache.
Uncached(used) == [used EXCEPT !.cached = 0]

(***************************************************************************)
(* Answers that come whole                                                 *)
(***************************************************************************)
OpenAIChatRecord(a) ==
    ChatRecord(a, a.tools, a.text = "words")

\* A text block counts, be it empty.
AnthropicMessageRecord(a) ==
    ChatRecord(a, a.tools, a.text # "none")

BedrockConverseRecord(a) ==
    ChatRecord(Uncached(a), a.tools, a.text = "words")

GeminiRecord(a) ==
    ChatRecord(Uncached(a), a.tools, a.text = "words")

\* Cohere's text faces the user even beside tool calls.
CohereChatRecord(a) == Record(a.prompt, a.completion, a.tools, a.text = "words")

\* Mutant of Reported: what is missing stays None.
ReportedAsIs(count, otherwise) == count

\* A provider that reports no count leaves 0, or the characters of the input
\* where the wrapper has them.
Reported(count, otherwise) == IF count = None THEN otherwise ELSE count

OpenAIEmbeddingRecord(a) == Record(Reported(a.usage, 0), 0, <<>>, FALSE)
CohereEmbedRecord(a) == Record(Reported(a.billed, a.chars), 0, <<>>, FALSE)
CohereRerankRecord(a) == Record(a.query + a.chars, 0, <<>>, FALSE)
VoyageEmbedRecord(a) == Record(a.chars, 0, <<>>, FALSE)
VoyageRerankRecord(a) == Record(a.documents, 0, <<>>, FALSE)

(***************************************************************************)
(* Speech: seconds of audio, characters of text                            *)
(***************************************************************************)

\* The bytes of the caller's file that can be read again after the call: none
\* of a path that cannot be opened or of an object that has no read or is
\* empty, and at most one more than Whisper takes of a path that can.
CapturedAudioBytes(file) ==
    IF file.kind \in {"missing", "unreadable"} THEN None
    ELSE IF file.kind = "object" /\ file.size = 0 THEN None
    ELSE IF file.kind = "path" THEN SmallerOf(file.size, MaxAudioBytes + 1)
    ELSE file.size

\* Mutant of ProbeStreaming: a file longer than the provider takes is probed.
ProbeAnySize(file, captured) == IF captured = 0 THEN None ELSE file.length
ProbeStreaming(file, captured) ==
    IF captured = 0 \/ captured > MaxAudioBytes THEN None ELSE file.length

\* The length mutagen finds in what it is given, if it finds one.
ProbeAudio(file) == IF file.kind = "missing" THEN None ELSE file.length

\* The response's own duration, or that of the file, or unavailable.
AudioDuration(a) ==
    IF a.duration # None THEN a.duration
    ELSE IF ~a.stream THEN ProbeAudio(a.file)
    ELSE LET captured == CapturedAudioBytes(a.file)
         IN  IF captured = None THEN None ELSE ProbeStreaming(a.file, captured)

OpenAIAudioRecord(a) ==
    LET seconds == AudioDuration(a)
    IN  [Record(0, a.chars, <<>>, a.chars > 0) EXCEPT
            !.amount = Reported(seconds, 0), !.unknown = seconds = None]

DeepgramRecord(a) ==
    [Record(0, 0, <<>>, a.text = "words") EXCEPT !.amount = Reported(a.duration, 0)]

ElevenLabsRecord(a) ==
    [Record(a.chars, 0, <<>>, TRUE) EXCEPT !.amount = a.chars]

(***************************************************************************)
(* Replicate: seconds of video, or how many outputs there are              *)
(***************************************************************************)
CountOutputs(outputs) ==
    IF outputs = None THEN 0
    ELSE IF outputs = Iterator THEN 1
    ELSE LargerOf(1, outputs)

\* _infer_usage_extra_from_output: run() tells no time, a video is one second.
RunAmount(a) == IF a.video THEN 1 ELSE CountOutputs(a.outputs)

ReplicateRunRecord(a) ==
    [Record(0, 0, <<>>, TRUE) EXCEPT !.amount = RunAmount(a)]

\* _infer_usage_extra_from_prediction: a video is never billed for nothing.
PredictionAmount(a) ==
    IF ~a.video THEN CountOutputs(a.outputs)
    ELSE IF Reported(a.time, 0) > 0 THEN a.time ELSE 1

ReplicatePredictionRecord(a) ==
    [Record(0, 0, <<>>, a.status = "succeeded") EXCEPT
        !.amount = IF a.status = "succeeded" THEN PredictionAmount(a)
                   ELSE Reported(a.time, 0)]

(***************************************************************************)
(* Pieces of a streamed answer.  One shape serves every provider, a piece  *)
(* leaves out what its provider does not send in it.                       *)
(***************************************************************************)
Piece ==
    [type |-> "delta", index |-> None, name |-> None, arguments |-> <<>>,
     text |-> FALSE, usage |-> None, message |-> None]

Usage(prompt, completion, cached) ==
    [prompt |-> prompt, completion |-> completion, cached |-> cached]

\* A stream's accumulator before the first piece.
Fresh ==
    [prompt |-> 0, completion |-> 0, cached |-> 0, seconds |-> 0, text |-> FALSE, tools |-> <<>>,
     blocks |-> <<>>, message |-> None, unknown |-> TRUE]

\* Mutant of NoteUsage: the counts of the pieces are added up.
AddUsage(acc, usage) ==
    IF usage = None THEN acc
    ELSE [acc EXCEPT !.prompt = @ + usage.prompt,
                     !.completion = @ + usage.completion,
                     !.cached = @ + usage.cached,
                     !.unknown = FALSE]

\* A provider may repeat its counts, each time as the total so far.
NoteUsage(acc, usage) ==
    IF usage = None THEN acc
    ELSE [acc EXCEPT !.prompt = LargerOf(@, usage.prompt),
                     !.completion = LargerOf(@, usage.completion),
                     !.cached = LargerOf(@, usage.cached),
                     !.unknown = FALSE]

NoteText(acc, p) == [acc EXCEPT !.text = @ \/ p.text]

\* The tool call a piece belongs to, which is without a name until one arrives.
OpenBlock(acc, p) ==
    IF p.index \in DOMAIN acc.blocks THEN acc.blocks[p.index]
    ELSE [name |-> "", arguments |-> <<>>]

NameOf(block, p) ==
    IF block.name = "" /\ p.name # None THEN p.name ELSE block.name

Put(dict, key, value) ==
    [k \in DOMAIN dict \cup {key} |-> IF k = key THEN value ELSE dict[k]]

\* Mutant of Stitch: a piece starts its tool call anew.
LastFragment(acc, p) ==
    Put(acc.blocks, p.index,
        [name |-> NameOf(OpenBlock(acc, p), p), arguments |-> p.arguments])

Stitch(acc, p) ==
    Put(acc.blocks, p.index,
        [name |-> NameOf(OpenBlock(acc, p), p),
         arguments |-> OpenBlock(acc, p).arguments \o p.arguments])

\* _OpenAIUsageAccumulator: tool calls are told apart by their index.
OpenAIObserve(acc, p) ==
    LET seen == NoteText(NoteUsage(acc, p.usage), p)
    IN  IF p.index = None THEN seen ELSE [seen EXCEPT !.blocks = Stitch(acc, p)]

BlocksInOrder(blocks) ==
    LET indexes == Ascending(DOMAIN blocks)
    IN  [i \in DOMAIN indexes |-> blocks[indexes[i]]]

OpenAIStreamRecord(acc) ==
    [ChatRecord(acc, BlocksInOrder(acc.blocks), acc.text)
        EXCEPT !.unknown = acc.unknown]

\* Anthropic's: counts from the events, the rest from the final message, which
\* the last event carries or the stream gives when it is asked.
AnthropicObserve(acc, p) ==
    [NoteUsage(acc, p.usage) EXCEPT
        !.message = IF p.message = None THEN @ ELSE p.message]

FinalizeFromMessage(acc, asked) ==
    LET m == IF asked = None THEN acc.message ELSE asked
    IN  IF m = None THEN acc
        ELSE [NoteUsage(acc, Usage(m.prompt, m.completion, m.cached)) EXCEPT
                 !.tools = @ \o m.tools, !.text = @ \/ m.text # "none"]

\* Gemini's: a call comes whole, and one that is already known is a repetition.
GeminiObserve(acc, p) ==
    LET seen == NoteText(NoteUsage(acc, p.usage), p)
        entry == [name |-> p.name, arguments |-> p.arguments]
    IN  IF p.name = None \/ Contains(acc.tools, entry) THEN seen
        ELSE [seen EXCEPT !.tools = Append(@, entry)]

\* Bedrock's: a tool call counts when its block stops.
BedrockObserve(acc, p) ==
    CASE p.type = "contentBlockStart" ->
            IF p.name = None THEN acc
            ELSE [acc EXCEPT !.blocks =
                     Put(@, p.index, [name |-> p.name, arguments |-> <<>>])]
      [] p.type = "contentBlockDelta" ->
            IF p.index = None THEN NoteText(acc, p)
            ELSE [acc EXCEPT !.blocks = Stitch(acc, p)]
      [] p.type = "contentBlockStop" ->
            IF p.index \notin DOMAIN acc.blocks THEN acc
            ELSE [acc EXCEPT !.tools = Append(@, acc.blocks[p.index]),
                             !.blocks = [i \in DOMAIN @ \ {p.index} |-> @[i]]]
      [] OTHER -> NoteUsage(acc, p.usage)

\* The record of Anthropic's, Gemini's and Bedrock's accumulators.
StreamedChatRecord(acc) ==
    ChatRecord(acc, acc.tools, acc.text)

\* Deepgram's: the last metadata gives the duration, final results the text.
DeepgramObserve(acc, p) ==
    IF p.type = "Metadata" THEN [acc EXCEPT !.seconds = p.usage]
    ELSE NoteText(acc, p)

DeepgramLiveRecord(acc) ==
    [Record(0, 0, <<>>, acc.text) EXCEPT !.amount = acc.seconds]
=============================================================================
