------------------------------- MODULE MCRules -------------------------------
(***************************************************************************)
(* Small instances of RuleSession, one kind of traffic each: windows of a  *)
(* few seconds, thresholds of two or three calls, buffers of four.         *)
(***************************************************************************)
EXTENDS RuleSession

CONSTANTS h1, h2, a, b, apology, v1, v2, v3, list, search, poll, bare, key, page, query

AllFamilies ==
    {"storm", "embed", "zombie", "growth", "voice", "tools", "defs", "models",
     "talk", "image"}

\* Chat calls and reranks that may be retried.
Storm ==
    {[Blank EXCEPT !.request_hash = h1, !.prompt_tokens = 2],
     [Blank EXCEPT !.provider = "cohere", !.method = "rerank", !.request_hash = h1],
     [Blank EXCEPT !.provider = "cohere", !.method = "rerank", !.request_hash = h2]}

Embed ==
    {Blank,
     [Blank EXCEPT !.method = "embeddings.create", !.input = h1, !.prompt_tokens = 1],
     [Blank EXCEPT !.method = "embed", !.input = h1, !.prompt_tokens = 2],
     [Blank EXCEPT !.method = "embed", !.input = h2, !.prompt_tokens = 3]}

Answers == {Blank, [Blank EXCEPT !.user_facing_output = TRUE]}

Growth == {[Blank EXCEPT !.prompt_tokens = p] : p \in {0, 2, 4, 7}}

Speech(method, text, voice) ==
    [Blank EXCEPT !.provider = "elevenlabs", !.method = method,
                  !.text_hash = text, !.voice_id = voice, !.prompt_tokens = 3]

Voices ==
    {Speech("text_to_speech.convert", a, v1), Speech("text_to_speech.stream", a, v2),
     Speech("text_to_speech.convert_as_stream", a, v3), Speech("text_to_speech.convert", b, v1)}

\* A tool that lists pages, a retrieval tool, a polling tool that retrieves too
\* and one without arguments.
Use(tool, args) == [Blank EXCEPT !.tool_calls = <<[name |-> tool, arguments |-> args]>>]

Text(words) == [text |-> words]

Tools ==
    {Use(list, page :> [number |-> n] @@ query :> Text({"red", "old", "big"})) :
        n \in {1, 2}}
    \cup {Use(search, query :> Text({"red", "old"})),
          Use(search, query :> Text({"red"})),
          Use(poll, query :> Text({"job"})),
          Use(bare, <<>>)}

MCArguments == UNION {{t.arguments : t \in Range(u.tool_calls)} : u \in Tools}

\* By shared tokens, and the braces that all arguments share.
MCArgumentLikeness ==
    [x \in (SUBSET MCArguments) \X MCArguments \X MCArguments |->
        LET s == TokensOf(x[2])
            t == TokensOf(x[3])
        IN  ((1 + Cardinality(s \cap t)) * Scale) \div (1 + Cardinality(s \cup t))]

Declarations ==
    {[Blank EXCEPT !.tools = t] : t \in UNION {[1..n -> {1, 4, Unserialisable}] : n \in 0..3}}

\* Requests to models of every kind, by every route, with and without a
\* classification prompt, and audio and images for the detectors of one call.
Prompt(words) ==
    <<[role |-> "user", blocks |-> <<>>,
       text |-> [keywords |-> words, size |-> 3, corrects |-> FALSE, draft |-> None]]>>

Models ==
    {[Blank EXCEPT !.model = m, !.base_url = u, !.messages = Prompt(w),
                   !.prompt_tokens = p] :
        m \in {<<"gpt-4o">>, <<"gpt-4o-mini">>, <<"router", "gpt-4o">>,
               <<key, "openai", "gpt-4o">>},
        u \in {None, "openrouter.ai"}, w \in {{}, {"classify"}}, p \in {1, 9}}
    \cup {[Blank EXCEPT !.provider = "deepgram", !.method = "transcribe_url",
                        !.channels = n, !.multichannel = TRUE] : n \in {1, 2, 4}}
    \cup {[Blank EXCEPT !.provider = "gemini", !.prompt_tokens = 10,
                        !.details = <<[modality |-> "image", count |-> n],
                                      [modality |-> "text", count |-> 2]>>] :
          n \in {None, 7, 8}}
    \cup {[Blank EXCEPT !.messages =
               <<[Prompt({"classify"})[1] EXCEPT !.blocks =
                   <<[type |-> "image_url", detail |-> d, image |-> None]>>]>>] :
          d \in {None, "low", "high"}}

\* What users and agents say next.
Turn(role, corrects, size, draft) ==
    [Blank EXCEPT !.prompt_tokens = 10, !.messages =
        <<[role |-> role, blocks |-> <<>>,
           text |-> [keywords |-> {}, size |-> size, corrects |-> corrects,
                     draft |-> draft]]>>]

Talk ==
    {Turn("user", FALSE, 2, None), Turn("user", TRUE, 2, None),
     Turn("user", TRUE, 9, None),
     Turn("assistant", FALSE, 5, a), Turn("assistant", FALSE, 5, b),
     Turn("assistant", FALSE, 5, apology)}

\* a and b are variants of one answer, less so the more else has been said.
MCDrafts == {a, b, apology}
MCDraftLikeness ==
    [x \in (SUBSET MCDrafts) \X MCDrafts \X MCDrafts |->
        CASE x[2] = x[3] -> Scale
          [] apology \in {x[2], x[3]} -> 100
          [] OTHER -> IF apology \in x[1] THEN 420 ELSE 630]

\* Images that drift apart, one that is too large to be hashed as a whole,
\* and messages and contents that carry them.
Image(n) == [payload |-> <<n>>, look |-> 1..n]

Huge == [payload |-> <<1, 1, 1>>, look |-> {}]

Send(images) ==
    [Blank EXCEPT !.messages =
        <<[role |-> "user", text |-> None,
           blocks |-> [i \in DOMAIN images |->
               [type |-> "image", detail |-> None, image |-> images[i]]]]>>]

Images ==
    {Blank, Send(<<Image(1)>>), Send(<<Image(2)>>), Send(<<Image(4), Image(1)>>),
     Send(<<Huge>>),
     [Blank EXCEPT !.provider = "gemini", !.contents =
         <<[inline |-> None, parts |-> <<Image(3)>>]>>]}

MenuOf ==
    [storm |-> Storm, embed |-> Embed, zombie |-> Answers, growth |-> Growth,
     voice |-> Voices, tools |-> Tools, defs |-> Declarations,
     models |-> Models, talk |-> Talk, image |-> Images]

GapsOf ==
    [f \in AllFamilies |->
        CASE f = "storm" -> {-1, 1, 2} [] f = "zombie" -> {-1, 2, 3}
          [] f \in {"voice", "image"} -> {0, 2} [] OTHER -> {1}]

CallLimits ==
    [f \in AllFamilies |->
        CASE f \in {"defs", "models"} -> 2 [] f \in {"voice", "image"} -> 4
          [] f \in {"talk", "zombie"} -> 6 [] OTHER -> 5]

BufferOf == [f \in AllFamilies |-> IF f = "zombie" THEN 3 ELSE 4]

SomeMatches == {<<"search", search>>, <<"search", poll>>}
=============================================================================
