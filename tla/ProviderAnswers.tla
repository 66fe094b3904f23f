--------------------------- MODULE ProviderAnswers ---------------------------
(***************************************************************************)
(* What a provider sends: the answers to each kind of call, and the pieces *)
(* a streamed one comes in.  The wrappers check none of it: this is what   *)
(* their accumulators take for granted, whose tool calls are numbered, who *)
(* sends a call whole, whose counts are totals.                            *)
(***************************************************************************)
EXTENDS ProviderRecords

OpenAIStreams == {"openai.stream", "openai.astream"}
AnthropicStreams == {"anthropic.stream", "anthropic.astream"}
GeminiStreams == {"gemini.stream", "gemini.astream"}

ChatFlavours ==
    OpenAIStreams \cup AnthropicStreams \cup GeminiStreams
    \cup {"openai.chat", "anthropic.create", "gemini.generate", "bedrock.converse",
          "bedrock.stream", "cohere.chat"}
SpeechFlavours == {"deepgram.file", "deepgram.live"}
VoiceFlavours == {"elevenlabs.convert", "elevenlabs.stream", "elevenlabs.astream"}
Flavours ==
    ChatFlavours \cup SpeechFlavours \cup VoiceFlavours
    \cup {"openai.embeddings", "openai.audio", "cohere.embed", "cohere.rerank",
          "voyage.embed", "voyage.rerank", "replicate.run"}

\* A count the provider may leave out.
Count == Nat \cup {None}

Tools == [name : STRING, arguments : Seq(Nat)]

Chats ==
    [text : {"none", "empty", "words"}, tools : Seq(Tools), prompt : Nat,
     completion : Nat, cached : Nat]

\* No length: mutagen is not installed or cannot parse the file.
Files ==
    [kind : {"path", "object", "bytes", "missing", "unreadable"}, size : Nat,
     length : Count]

\* The answers to a call.
Shape(f) ==
    CASE f \in ChatFlavours -> Chats
      [] f \in SpeechFlavours -> [text : {"none", "words"}, duration : Count]
      [] f \in VoiceFlavours -> [chars : Nat]
      [] f = "openai.embeddings" -> [usage : Count]
      [] f = "openai.audio" ->
            [duration : Count, stream : BOOLEAN, chars : Nat, file : Files]
      [] f = "cohere.embed" -> [billed : Count, chars : Nat]
      [] f = "cohere.rerank" -> [query : Nat, chars : Nat]
      [] f = "voyage.embed" -> [chars : Nat]
      [] f = "voyage.rerank" -> [documents : Nat]
      [] f = "replicate.run" -> [video : BOOLEAN, outputs : Count \cup {Iterator}]

Kinds == {"prompt", "completion", "cached"}

\* Counts are totals so far, and a prompt is counted with what was cached of it.
Totals(a) ==
    {u \in [Kinds -> Nat] : /\ \A x \in Kinds : u[x] <= a[x]
                            /\ u.prompt > 0 => u.cached = a.cached}

\* A piece of a chat answer.
Pieces(a) ==
    [type : STRING, index : Count, name : STRING \cup {None}, arguments : Seq(Nat),
     text : BOOLEAN, usage : Totals(a) \cup {None}, message : {a, None}]

CountsAll(w, a) ==
    \A x \in Kinds : \E i \in DOMAIN w : w[i].usage # None /\ w[i].usage[x] = a[x]

SaysWords(w, a) == (\E i \in DOMAIN w : w[i].text) <=> a.text = "words"

\* The pieces up to the n-th that add to the arguments of a tool call.
Fragments(w, n, index) ==
    {i \in 1..n : w[i].index = index /\ w[i].arguments # <<>>}

\* A piece of a tool call brings no fragment of its arguments or the next one.
BringsNext(w, i, a) ==
    LET k == w[i].index
        next == Cardinality(Fragments(w, i, k))
        all == a.tools[k + 1].arguments
    IN  /\ k + 1 \in DOMAIN a.tools
        /\ next <= Len(all)
        /\ w[i].arguments # <<>> => w[i].arguments = <<all[next]>>

BringsAll(w, n, index, a) ==
    Cardinality(Fragments(w, n, index)) = Len(a.tools[index + 1].arguments)

\* OpenAI: the fragments of several calls in any order, each call's in its own.
\* Counts come only if they were asked for.
OpenAISends(w, a) ==
    /\ SaysWords(w, a)
    /\ CountsAll(w, a) \/ \A i \in DOMAIN w : w[i].usage = None
    /\ \A i \in DOMAIN w : w[i].index # None =>
          /\ BringsNext(w, i, a)
          /\ w[i].name \in {None, "", a.tools[w[i].index + 1].name}
    /\ \A k \in 0..Len(a.tools) - 1 :
          /\ \E i \in DOMAIN w : w[i].index = k /\ w[i].name = a.tools[k + 1].name
          /\ BringsAll(w, Len(w), k, a)

\* Gemini: whole calls, one after the other.
Called(w, n) == {i \in 1..n : w[i].name # None}
GeminiSends(w, a) ==
    /\ SaysWords(w, a)
    /\ CountsAll(w, a)
    /\ \A i \in Called(w, Len(w)) :
          LET c == Cardinality(Called(w, i))
          IN  /\ c \in DOMAIN a.tools
              /\ a.tools[c] = [name |-> w[i].name, arguments |-> w[i].arguments]
    /\ Cardinality(Called(w, Len(w))) = Len(a.tools)

\* Bedrock: a call is started, gets its fragments, and is stopped; the calls are
\* stopped in their order.
Starts(w, i, index) == w[i].type = "contentBlockStart" /\ w[i].index = index
Stops(w, i, index) == w[i].type = "contentBlockStop" /\ w[i].index = index
BlocksStopped(w, n) == {i \in 1..n : w[i].type = "contentBlockStop" /\ w[i].index # None}

BedrockPiece(w, i, a) ==
    LET p == w[i]
    IN  /\ p.usage # None => p.type = "metadata"
        /\ p.text => p.type = "contentBlockDelta" /\ p.index = None
        /\ p.index # None =>
              /\ p.type \in {"contentBlockStart", "contentBlockDelta", "contentBlockStop"}
              /\ BringsNext(w, i, a)
        /\ p.type = "contentBlockStart" =>
              IF p.index = None THEN p.name = None
              ELSE /\ p.name = a.tools[p.index + 1].name /\ p.arguments = <<>>
                   /\ \A j \in 1..i - 1 : w[j].index # p.index
        /\ p.type # "contentBlockStart" /\ p.index # None =>
              /\ p.name = None
              /\ \E j \in 1..i - 1 : Starts(w, j, p.index)
              /\ \A j \in 1..i - 1 : ~Stops(w, j, p.index)
        /\ p.type = "contentBlockStop" /\ p.index # None =>
              /\ p.arguments = <<>> /\ BringsAll(w, i, p.index, a)
              /\ p.index + 1 = Cardinality(BlocksStopped(w, i))

BedrockSends(w, a) ==
    /\ SaysWords(w, a)
    /\ CountsAll(w, a)
    /\ \A i \in DOMAIN w : BedrockPiece(w, i, a)
    /\ Cardinality(BlocksStopped(w, Len(w))) = Len(a.tools)

\* Deepgram: every metadata tells the duration, if there is one to tell.
DeepgramPieces ==
    [type : STRING, index : {None}, name : {None}, arguments : {<<>>}, text : BOOLEAN,
     usage : Count, message : {None}]
DeepgramSends(w, a) ==
    /\ \A i \in DOMAIN w : w[i].type = "Metadata" =>
          a.duration # None /\ w[i].usage = a.duration
    /\ a.duration # None => \E i \in DOMAIN w : w[i].type = "Metadata"
    /\ (\E i \in DOMAIN w : w[i].type # "Metadata" /\ w[i].text) <=> a.text = "words"

\* The pieces an answer may come in.  Of ElevenLabs' audio nothing is looked at.
Sends(f, a, w) ==
    CASE f \in OpenAIStreams -> w \in Seq(Pieces(a)) /\ OpenAISends(w, a)
      [] f \in AnthropicStreams -> w \in Seq(Pieces(a))
      [] f \in GeminiStreams -> w \in Seq(Pieces(a)) /\ GeminiSends(w, a)
      [] f = "bedrock.stream" -> w \in Seq(Pieces(a)) /\ BedrockSends(w, a)
      [] f = "deepgram.live" -> w \in Seq(DeepgramPieces) /\ DeepgramSends(w, a)
      [] OTHER -> w \in Seq({Piece})
=============================================================================
