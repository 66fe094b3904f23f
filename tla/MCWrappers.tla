------------------------------ MODULE MCWrappers ------------------------------
(***************************************************************************)
(* Every wrapper with a few answers.  A chat answer is text or two tool    *)
(* calls, one of them in two fragments; Gemini also calls a tool twice the *)
(* same.  What a provider sends of an answer is what the wrappers read.    *)
(***************************************************************************)
EXTENDS ProviderWrappers

Tool(name, arguments) == [name |-> name, arguments |-> arguments]

ChatAnswers ==
    {Answer("words", <<>>, 4, 2, 3),
     Answer("none", <<Tool("a", <<1, 2>>), Tool("b", <<3>>)>>, 4, 3, 0)}
RepeatedCall == Answer("empty", <<Tool("a", <<1>>), Tool("a", <<1>>)>>, 4, 3, 0)

File5(kind, size) == [kind |-> kind, size |-> size, length |-> 5]
AudioAnswers ==
    [duration : {None, 7}, stream : BOOLEAN, chars : {2},
     file : {File5("path", 2), File5("path", 6), File5("object", 0),
             File5("object", 2), File5("bytes", 6), File5("missing", 0),
             File5("unreadable", 2),
             [kind |-> "bytes", size |-> 2, length |-> None]}]

Speech == {[text |-> "words", duration |-> 5], [text |-> "none", duration |-> None]}

MCAnswers ==
    [f \in {"openai.chat", "openai.stream", "openai.astream", "anthropic.create",
            "anthropic.stream", "anthropic.astream", "bedrock.converse",
            "bedrock.stream", "cohere.chat"} |-> ChatAnswers]
    @@ [f \in {"gemini.generate", "gemini.stream", "gemini.astream"} |->
            ChatAnswers \cup {RepeatedCall}]
    @@ [f \in {"deepgram.file", "deepgram.live"} |-> Speech]
    @@ [f \in {"elevenlabs.convert", "elevenlabs.stream", "elevenlabs.astream"} |->
            {[chars |-> 3]}]
    @@ "openai.embeddings" :> [usage : {None, 3}]
    @@ "openai.audio" :> AudioAnswers
    @@ "cohere.embed" :> [billed : {None, 3}, chars : {5}]
    @@ "cohere.rerank" :> [query : {1}, chars : {5}]
    @@ "voyage.embed" :> [chars : {5}]
    @@ "voyage.rerank" :> [documents : {2}]
    @@ "replicate.run" :> [video : BOOLEAN, outputs : {None, 0, 2}]
       \cup [video : {FALSE}, outputs : {Iterator}]

\* Every wrapper alone, and some before another, with a preflight or without.
MCPlans ==
    {<<f>> : f \in DOMAIN MCAnswers}
    \cup {<<f, g>> : f \in {"cohere.embed", "voyage.embed", "gemini.astream",
                            "elevenlabs.stream", "elevenlabs.astream"},
                     g \in {"openai.embeddings", "cohere.rerank", "elevenlabs.convert"}}

TextPieces(a) == IF a.text = "none" THEN <<>> ELSE <<[Piece EXCEPT !.text = a.text = "words"]>>

\* The pieces of the i-th tool call: its name, then its arguments.
ToolPieces(a, i) ==
    <<[Piece EXCEPT !.type = "contentBlockStart", !.index = i - 1,
                    !.name = a.tools[i].name]>>
    \o [k \in DOMAIN a.tools[i].arguments |->
            [Piece EXCEPT !.type = "contentBlockDelta", !.index = i - 1,
                          !.arguments = <<a.tools[i].arguments[k]>>]]

InOrder(a) == FlattenSeq([i \in DOMAIN a.tools |-> ToolPieces(a, i)])

\* One piece of each call in turn, the last call first.
Round(a, k) ==
    FlattenSeq([i \in DOMAIN a.tools |->
        LET pieces == ToolPieces(a, Len(a.tools) + 1 - i)
        IN  IF k \in DOMAIN pieces THEN <<pieces[k]>> ELSE <<>>])
InTurn(a) == Round(a, 1) \o Round(a, 2) \o Round(a, 3)

Counted(a) == [Piece EXCEPT !.type = "metadata",
                            !.usage = Usage(a.prompt, a.completion, a.cached)]

OpenAIWires(a) ==
    {TextPieces(a) \o tools \o usage :
        tools \in {InOrder(a), InTurn(a)}, usage \in {<<>>, <<Counted(a)>>}}

AnthropicWires(a) ==
    {<<[Piece EXCEPT !.usage = Usage(a.prompt, 1, a.cached)],
       Piece,
       [Piece EXCEPT !.usage = Usage(0, a.completion, 0)],
       [Piece EXCEPT !.message = m]>> : m \in {None, a}}

\* Every chunk counts the whole prompt and what was generated so far.
GeminiWires(a) ==
    LET content == TextPieces(a)
                   \o [i \in DOMAIN a.tools |->
                          [Piece EXCEPT !.name = a.tools[i].name,
                                        !.arguments = a.tools[i].arguments]]
    IN  {[i \in DOMAIN content |->
            [content[i] EXCEPT !.usage =
                Usage(a.prompt, IF i = Len(content) THEN a.completion ELSE i - 1,
                      a.cached)]]}

BedrockWires(a) ==
    {[i \in DOMAIN TextPieces(a) |->
        [TextPieces(a)[i] EXCEPT !.type = "contentBlockDelta"]]
     \o FlattenSeq([i \in DOMAIN a.tools |->
            Append(ToolPieces(a, i),
                   [Piece EXCEPT !.type = "contentBlockStop", !.index = i - 1])])
     \o <<Counted(a)>>}

DeepgramWires(a) ==
    {TextPieces(a) \o (IF a.duration = None THEN <<>>
                       ELSE <<[Piece EXCEPT !.type = "Metadata", !.usage = a.duration]>>)}

MCWires(f, a) ==
    CASE f \in {"openai.stream", "openai.astream"} -> OpenAIWires(a)
      [] f \in {"anthropic.stream", "anthropic.astream"} -> AnthropicWires(a)
      [] f \in {"gemini.stream", "gemini.astream"} -> GeminiWires(a)
      [] f = "bedrock.stream" -> BedrockWires(a)
      [] f = "deepgram.live" -> DeepgramWires(a)
      [] OTHER -> {<<Piece, Piece>>}

\* A key that is a prefix of another, the latter with a cache-read price.
MCRates ==
    <<"m">> :> [input |-> 9, output |-> 9, cache_read |-> NoRate]
    @@ <<"m", "x">> :> [input |-> 3, output |-> 5, cache_read |-> 1]
MCModel == [path |-> <<"key", "vendor", "dotted">>, name |-> <<"m", "x", "dated">>]
MCVendors == {"vendor"}
MCDotted == {"dotted"}
==============================================================================
