----------------------------- MODULE RuleSession -----------------------------
(***************************************************************************)
(* One session as the detectors see it.  Every call is appended to the     *)
(* session's ring buffer (Tracer.tla), and each detector is asked about    *)
(* the buffer; history keeps all the calls there ever were.  The clock of  *)
(* the next record is ahead of the last one's or, since threads race to    *)
(* the lock after they took their timestamps, a little behind it.          *)
(***************************************************************************)
EXTENDS RepetitionRules, ToolRules, RequestRules

CONSTANTS
    Families,       \* kinds of traffic
    Chats,          \* those whose requests repeat the conversation so far
    Menu,           \* the calls each kind makes
    Gaps,           \* the seconds there may be between two records
    MaxSessionCalls,    \* bound on the calls of one session
    BufferSize      \* maxlen of the session's deque

ASSUME SessionAssumption ==
    /\ Chats \subseteq Families
    /\ \A f \in Families : MaxSessionCalls[f] \in Nat /\ BufferSize[f] \in Nat \ {0}
    /\ \A f \in Families : Gaps[f] \subseteq Int

\* A request as the wrappers make it: counts of tokens, a model's name, lists of
\* messages, of contents, of tools and of tool calls, with arguments out of a
\* JSON object.
IsSeq(s) == s \in Seq(Range(s))

IsArguments(args) ==
    /\ IsFiniteSet(DOMAIN args)
    /\ \A k \in DOMAIN args : IF IsNumber(args[k]) THEN args[k].number \in Int
                              ELSE IsFiniteSet(args[k].text)

\* What an agent said is one of the drafts.
IsMessage(m) ==
    /\ IsSeq(m.blocks)
    /\ m.role = "assistant" /\ m.text # None => m.text.draft \in Drafts

IsRequest(c) ==
    /\ DOMAIN c = DOMAIN Blank
    /\ IsSeq(c.model)
    /\ {c.prompt_tokens, c.completion_tokens} \subseteq Nat
    /\ IsSeq(c.messages) /\ \A m \in Range(c.messages) : IsMessage(m)
    /\ IsSeq(c.contents) /\ \A e \in Range(c.contents) : IsSeq(e.parts)
    /\ IsSeq(c.tools) /\ Range(c.tools) \subseteq Nat \cup {Unserialisable}
    /\ IsSeq(c.tool_calls)
    /\ \A t \in Range(c.tool_calls) : t.arguments \in Arguments /\ IsArguments(t.arguments)

Menus == UNION {Menu[f] : f \in Families}
ToolUses == UNION {Range(c.tool_calls) : c \in Menus}

\* What the events of the detectors that count or look at tools can be about.
EventTypes ==
    {"retry_storm", "rerank_thrash", "embedding_waste", "voice_switching_loop",
     "zombie", "context_bloat", "tool_loop", "retrieval_thrash", "tool_definition_bloat"}

Hashes(c) == {c.request_hash, c.text_hash, c.input}

Subjects ==
    {t.name : t \in ToolUses} \cup {"truncated", "evaluated"} \cup Int
    \cup UNION {Hashes(c) : c \in Menus}

ASSUME MenuAssumption ==
    /\ \A c \in Menus : IsRequest(c)
    /\ None \notin [type : EventTypes, subject : Subjects, count : Nat,
                    confidence : Int, wasted : Int]

VARIABLES
    family,     \* what kind of traffic this session is
    history,    \* history: every call of the session
    buffer      \* the session's calls in the tracer

sessionVars == <<family, history, buffer>>

SessionTypeOK ==
    /\ family \in Families
    /\ Len(history) <= MaxSessionCalls[family]
    /\ IsSuffix(buffer, history)
    /\ \A i \in DOMAIN history : DOMAIN history[i] = DOMAIN Blank

SessionInit ==
    /\ family \in Families
    /\ history = <<>>
    /\ buffer = <<>>

\* The tracer takes the record; a full deque drops its oldest one.
Append1(c, gap) ==
    LET last == IF history = <<>> THEN 0 ELSE Last(history).timestamp
        r == [c EXCEPT !.timestamp = last + gap]
    IN  /\ Len(history) < MaxSessionCalls[family]
        /\ history' = Append(history, r)
        /\ buffer' = LastN(Append(buffer, r), BufferSize[family])
        /\ UNCHANGED family

Call(c, gap) == family \notin Chats /\ Append1(c, gap)

\* A chat request carries the conversation so far and its next message.
Converse(c, gap) ==
    LET before == IF history = <<>> THEN <<>> ELSE Last(history).messages
    IN  /\ family \in Chats
        /\ Append1([c EXCEPT !.messages = before \o @], gap)

SessionNext ==
    \E c \in Menu[family], gap \in Gaps[family] : Call(c, gap) \/ Converse(c, gap)

SessionSpec == SessionInit /\ [][SessionNext]_sessionVars

(***************************************************************************)
(* Properties                                                              *)
(***************************************************************************)
Now == Last(history).timestamp

\* The positions in the history that the buffer still has and that are
\* within the window.
Kept(window) ==
    {i \in DOMAIN history :
        i > Len(history) - BufferSize[family] /\ Now - history[i].timestamp <= window}

\* What a detector of groups must say of the positions at: nothing as long
\* as no group is large enough, and else the group that began first.
ReportsTheFirst(event, at, key(_), size(_), least) ==
    LET group(k) == {i \in at : key(history[i]) = k}
        large == {k \in {key(history[i]) : i \in at} : size(group(k)) >= least}
    IN  IF large = {} THEN event = None
        ELSE /\ event # None
             /\ event.subject \in large
             /\ event.count = Cardinality(group(event.subject))
             /\ \A k \in large : Min(group(event.subject)) <= Min(group(k))

\* Storms of retries (RetryStormRule) and of reranks (RerankThrashRule) are
\* reported exactly while they are in the window and in the buffer, and of
\* two at a time the one that began first is: the other one is not heard of
\* until then.  A late record is part of the window.
StormsTrue ==
    history # <<>> =>
        /\ ReportsTheFirst(RetryStorm(buffer), Kept(StormWindow),
                           LAMBDA c : c.request_hash, Cardinality, MinRetries)
        /\ ReportsTheFirst(RerankThrash(buffer),
                           {i \in Kept(RerankWindow) :
                               /\ history[i].provider = "cohere"
                               /\ history[i].method = "rerank"
                               /\ history[i].request_hash # None},
                           LAMBDA c : c.request_hash, Cardinality, MinReranks)

\* VoiceSwitchingLoopRule counts voices, not calls: the same text in the same
\* voice again is no loop, and voices out of the window do not count, while it is
\* all one by which of the methods that synthesise a text each of them was asked.
VoicesTrue ==
    history # <<>> =>
        ReportsTheFirst(VoiceSwitchingLoop(buffer),
            {i \in Kept(VoiceWindow) :
                /\ history[i].provider = "elevenlabs"
                /\ history[i].method \in {"text_to_speech.convert", "text_to_speech.stream",
                                         "text_to_speech.convert_as_stream"}
                /\ history[i].text_hash # None /\ history[i].voice_id # None},
            LAMBDA c : c.text_hash,
            LAMBDA at : Cardinality({history[i].voice_id : i \in at}), MinVoices)

\* What EmbeddingWasteRule calls wasted is what a cache that started with
\* the buffer's first call would have saved on the input it reports, and it
\* is silent only if that cache was never hit.
WasteIsWhatACacheSaves ==
    LET event == EmbeddingWaste(buffer)
        embeds == {i \in DOMAIN buffer :
                      /\ buffer[i].method \in {"embeddings.create", "embed"}
                      /\ buffer[i].input # None}
        hits == {i \in embeds : \E j \in embeds : j < i /\ buffer[j].input = buffer[i].input}
        saved(x) == SumSeq([i \in DOMAIN buffer |->
                        IF i \in hits /\ buffer[i].input = x THEN buffer[i].prompt_tokens
                        ELSE 0])
    IN  IF hits = {} THEN event = None
        ELSE event # None /\ event.wasted = saved(event.subject)

\* ZombieRule never accuses a session that answered its user within the
\* threshold, not even when the buffer has lost that answer; it accuses every
\* session that did not, if it was busy and the buffer reaches back far
\* enough to tell.
ZombieTrue ==
    LET answered == \E i \in DOMAIN history :
            history[i].user_facing_output /\ Now - history[i].timestamp < Threshold
        covered == Now - Head(buffer).timestamp >= Threshold
        busy == Cardinality(Kept(Threshold)) >= MinRecentCalls
        inOrder == \A i, j \in DOMAIN history : i < j =>
            history[i].timestamp <= history[j].timestamp
    IN  history # <<>> =>
            /\ answered /\ inOrder => Zombie(buffer, FALSE) = None
            /\ ~answered /\ covered /\ busy => Zombie(buffer, FALSE) # None
            /\ Zombie(buffer, TRUE) = None

\* The slope ContextBloatRule fits lies between the smallest and the largest
\* step: a context that never grows by the threshold in one turn is not
\* reported, and one that does so in each turn is.
SlopeBetweenSteps ==
    LET prompts == MapSeq(LastN(buffer, Lookback), LAMBDA c : c.prompt_tokens)
        steps == {prompts[i + 1] - prompts[i] : i \in 1..Len(prompts) - 1}
    IN  Len(buffer) >= MinTurns /\ steps # {} =>
            /\ (\A d \in steps : d < SlopeThreshold) => ContextBloat(buffer) = None
            /\ (\A d \in steps : d >= SlopeThreshold) => ContextBloat(buffer) # None

\* The calls of one tool, in the window.
CallsOf(name, window) ==
    Where(ToolCalls(RecentWithin(buffer, window)), LAMBDA tc : tc.name = name)

\* A number that went up with every call while all else stayed the same.
Advances(calls, key) ==
    /\ Len(calls) >= 2
    /\ \A i \in DOMAIN calls : IsNumber(calls[i].arguments[key])
    /\ \A i, j \in DOMAIN calls : i < j =>
        /\ calls[i].arguments[key].number < calls[j].arguments[key].number
        /\ \A k \in DOMAIN calls[i].arguments \ {key} :
               calls[i].arguments[k] = calls[j].arguments[k]

\* ToolLoopRule leaves an agent alone that walks through pages, whatever
\* other tools it calls in between.
PaginationSpared ==
    LET event == ToolLoop(buffer)
    IN  event # None =>
            LET calls == CallsOf(event.subject, LoopWindow)
                keys == DOMAIN calls[1].arguments
            IN  (\A i \in DOMAIN calls : DOMAIN calls[i].arguments = keys) =>
                    ~\E k \in keys : Advances(calls, k)

\* One and the same call over and over, of which two fit into the corpus; by
\* tokens, but not by n-grams, it must have arguments for them to be compared.
Repeated(metric, calls, least) ==
    /\ Len(calls) >= LargerOf(least, 2)
    /\ \A j \in DOMAIN calls : calls[j] = calls[1]
    /\ 2 * Bytes(calls[1].arguments) <= MaxCorpus
    /\ metric # "tfidf_charngram" => DOMAIN calls[1].arguments # {}

\* A tool called with the same arguments as often as a rule asks for, and with
\* no others in the rule's window, is reported: by tool_loop unless it is a
\* polling tool, by retrieval_thrash if it retrieves, polling or not.  A tool
\* without arguments, as every tool of an OpenTelemetry span is, is no exception
\* where the metric is the default one.
RepetitionReported ==
    \A i \in DOMAIN buffer : \A tc \in Range(buffer[i].tool_calls) :
        /\ /\ Repeated(LoopMetric, CallsOf(tc.name, LoopWindow), MinLoopCalls)
           /\ tc.name \notin PollingTools
           => ToolLoop(buffer) # None
        /\ /\ Repeated(ThrashMetric, CallsOf(tc.name, ThrashWindow), MinThrashCalls)
           /\ IsRetrievalTool(tc.name)
           => RetrievalThrash(buffer) # None

\* Whether a tool block is reported, and how surely, does not depend on the
\* order of the tools, although ToolDefinitionBloatRule stops adding at the
\* one that passes the limit.
BloatOrderFree ==
    history # <<>> =>
        LET event == ToolDefinitionBloat(buffer)
            turned == [buffer EXCEPT ![Len(buffer)].tools = Reverse(@)]
            other == ToolDefinitionBloat(turned)
        IN  IF event = None THEN other = None
            ELSE /\ other # None
                 /\ other.subject = event.subject
                 /\ other.confidence = event.confidence

\* ModelMisrouteRule comes to the same verdict on a model whether it is
\* called by its own name, through a vendor's prefix, with a virtual key, or
\* with both.
GatewaySameVerdict ==
    LET own == Last(buffer).model
        event(name) == ModelMisroute(
            [buffer EXCEPT ![Len(buffer)].model = name, ![Len(buffer)].base_url = None])
    IN  buffer # <<>> /\ Len(own) = 1 /\ own[1] \notin VirtualKeys =>
            \A v \in Vendors, k \in VirtualKeys :
                /\ event(<<v>> \o own) = event(own)
                /\ event(<<k>> \o own) = event(own)
                /\ event(<<k, v>> \o own) = event(own)

\* RepairLoopRule fires only if, within its turns, the user corrected the
\* agent often enough and two of the agent's answers, not one with itself, are
\* nevertheless as alike as the threshold asks, among some of the answers.
RepairNeedsRepetition ==
    RepairLoop(buffer) # None =>
        LET turns == LastN(Last(buffer).messages, WindowTurns)
            said == {i \in DOMAIN turns : turns[i].role = "assistant" /\ turns[i].text # None}
        IN  /\ Cardinality({i \in DOMAIN turns :
                   /\ turns[i].role = "user" /\ turns[i].text # None
                   /\ turns[i].text.corrects
                   /\ \E j \in said : j < i}) >= MinCorrections
            /\ \E i, j \in said, corpus \in SUBSET {turns[k].text.draft : k \in said} :
                   /\ i < j
                   /\ 100 * Cosine(DraftLikeness, corpus, turns[i].text.draft,
                                   turns[j].text.draft)
                         >= SimilarityThreshold * Scale

\* What VisionReUploadRule reports was in as many of the last calls as it
\* says, each time looking like the last one and not only like the one
\* before; and an image sent unchanged in so many calls is reported.
ReUploadTrue ==
    LET recent == RecentWithin(buffer, ImageWindow)
        has(i, h, p) == \E r \in Range(ExtractImageRecords(recent[i])) :
            \/ r.sha256 = h
            \/ p # None /\ r.phash # None /\ HashDistance(p, r.phash) <= MaxDistance
        lastOnes(n) == Len(recent) - n + 1 .. Len(recent)
    IN  buffer # <<>> =>
            /\ \A e \in VisionReUpload(buffer) : \A i \in lastOnes(e.count) :
                   \E r \in Range(ExtractImageRecords(Last(recent))) :
                       /\ e.subject = IF e.type = "exact" THEN r.sha256 ELSE r.phash
                       /\ has(i, r.sha256, r.phash)
            /\ (/\ Len(recent) >= MinImageCalls
                /\ \E r \in Range(ExtractImageRecords(Last(recent))) :
                       \A i \in lastOnes(MinImageCalls) : has(i, r.sha256, None))
               => VisionReUpload(buffer) # {}

\* The detectors that judge one request say nothing of the ones before it:
\* after a call they have no objection to they are silent, so no call is
\* stopped for what another one did.
LastCallOnly ==
    buffer # <<>> =>
        LET alone == <<Last(buffer)>>
        IN  /\ ModelMisroute(buffer) = ModelMisroute(alone)
            /\ VisionHighDetailMisroute(buffer) = VisionHighDetailMisroute(alone)
            /\ VisionCostConcentration(buffer) = VisionCostConcentration(alone)
            /\ AudioMultichannelDoubling(buffer) = AudioMultichannelDoubling(alone)
            /\ RepairLoop(buffer) = RepairLoop(alone)
            /\ (ToolDefinitionBloat(buffer) = None) = (ToolDefinitionBloat(alone) = None)

\* The detectors that count or measure over a window report what a full
\* history would show of it: storms, voices, waste, silence and growth.
CountsTrue ==
    SessionTypeOK /\ StormsTrue /\ VoicesTrue /\ WasteIsWhatACacheSaves /\ ZombieTrue
        /\ SlopeBetweenSteps

\* Tool calls that get somewhere are told from those that do not.
LoopsTrue == PaginationSpared /\ RepetitionReported

\* What is found alike was alike: an agent's drafts, a request's images.
MatchesTrue == RepairNeedsRepetition /\ ReUploadTrue

\* Verdicts do not depend on what must not matter: the order of tools, the
\* route to a model, the calls before.
VerdictsStable == BloatOrderFree /\ GatewaySameVerdict /\ LastCallOnly
=============================================================================
