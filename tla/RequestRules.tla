---------------------------- MODULE RequestRules ----------------------------
(***************************************************************************)
(* The detectors that read one request and its answer: model_misroute,     *)
(* vision_high_detail_misroute, vision_cost_concentration,                 *)
(* audio_multichannel_doubling and repair_loop; and vision_re_upload,      *)
(* which compares the images of several requests.                          *)
(*                                                                         *)
(* A message is [role, text, blocks]: its text, or None, and the image     *)
(* blocks of a content that is a list.  A text is [keywords, size,         *)
(* corrects, draft]: the classification keywords in it, its length,        *)
(* whether it corrects, and what it says.  An image is [payload, look].    *)
(***************************************************************************)
EXTENDS CallRecords

CONSTANTS
    MaxPrompt, MaxCompletion,       \* model_misroute; the second one shared
    Frontier, Excluded,             \* model names with such a prefix
    Vendors, VirtualKeys,           \* _VENDOR_PREFIXES, @...
    GatewayHosts,                   \* _GATEWAY_HOST_HINTS
    ImageShare,                     \* image_share_threshold, in hundredths
    WindowTurns, MinCorrections, SimilarityThreshold,   \* repair_loop
    Drafts,                         \* what agents say
    DraftLikeness,                  \* how alike two drafts are by their n-grams
    LengthRatio,                    \* length_ratio, in tenths
    ImageWindow, MinImageCalls, MaxImageBytes, MaxDistance  \* vision_re_upload

ASSUME RequestAssumption ==
    /\ {MaxPrompt, MaxCompletion, WindowTurns, MinCorrections} \subseteq Nat
    /\ {ImageWindow, MaxImageBytes, MaxDistance, LengthRatio} \subseteq Nat
    /\ MinImageCalls \in Nat \ {0}
    /\ ImageShare \in 0..100 /\ SimilarityThreshold \in 0..100
    /\ DraftLikeness \in [(SUBSET Drafts) \X Drafts \X Drafts -> 0..Scale]

(***************************************************************************)
(* model_misroute: a model name is the sequence of its parts between "/"   *)
(***************************************************************************)
\* Mutant of NormalizeModelName: a name with a virtual key goes no further.
NormalizeKeyOrVendor(model, baseUrl) ==
    IF Len(model) > 1 /\ (model[1] \in Vendors \cup VirtualKeys \/ baseUrl \in GatewayHosts)
    THEN Tail(model)
    ELSE model

\* A virtual key in front is taken off, again and again; then one vendor,
\* or whatever comes first when the call goes to a known gateway.
NormalizeModelName(model, baseUrl) ==
    LET start == CHOOSE i \in DOMAIN model :
                    /\ i = Len(model) \/ model[i] \notin VirtualKeys
                    /\ \A j \in 1..i - 1 : model[j] \in VirtualKeys
        name == SubSeq(model, start, Len(model))
    IN  IF model = <<>> THEN model
        ELSE IF Len(name) > 1 /\ (name[1] \in Vendors \/ baseUrl \in GatewayHosts)
        THEN Tail(name)
        ELSE name

IsFrontier(name) ==
    name # <<>> /\ Head(name) \in Frontier /\ Head(name) \notin Excluded

\* The keywords in the texts of all messages (_flatten_messages and the
\* search of _KEYWORD_PATTERN).
KeywordsIn(messages) ==
    UNION {messages[i].text.keywords :
           i \in {j \in DOMAIN messages : messages[j].text # None}}

ModelMisroute(session) ==
    LET c == Last(session)
        name == NormalizeModelName(c.model, c.base_url)
    IN  IF \/ session = <<>>
           \/ c.prompt_tokens > MaxPrompt
           \/ c.completion_tokens > MaxCompletion
           \/ ~IsFrontier(name)
           \/ KeywordsIn(c.messages) = {}
        THEN None
        ELSE Leak("model_misroute", Head(name), Cardinality(KeywordsIn(c.messages)),
                  70, c.prompt_tokens + c.completion_tokens)

(***************************************************************************)
(* vision_high_detail_misroute                                             *)
(***************************************************************************)
\* The detail of every image_url block that costs the most; "" is the
\* default, as None is.
CollectHighDetailImages(messages) ==
    LET blocks == FlattenSeq(MapSeq(messages, LAMBDA m : m.blocks))
    IN  MapSeq(Where(blocks, LAMBDA b :
                   b.type = "image_url" /\ b.detail \in {"high", "auto", "", None}),
               LAMBDA b : b.detail)

VisionHighDetailMisroute(session) ==
    LET c == Last(session)
        images == CollectHighDetailImages(c.messages)
    IN  IF \/ session = <<>>
           \/ c.provider # "openai"
           \/ c.completion_tokens > MaxCompletion
           \/ images = <<>>
           \/ KeywordsIn(c.messages) = {}
        THEN None
        ELSE Leak("vision_high_detail_misroute", images, Len(images), 75, Len(images))

(***************************************************************************)
(* vision_cost_concentration: details is None or a list of                 *)
(* [modality, count], a count that is no integer being None                *)
(***************************************************************************)
ExtractImageTokenCount(details) ==
    LET images == Where(details, LAMBDA d : d.modality = "image" /\ d.count # None)
    IN  IF details = None \/ images = <<>> THEN None
        ELSE SumOver(images, LAMBDA d : d.count)

VisionCostConcentration(session) ==
    LET c == Last(session)
        images == ExtractImageTokenCount(c.details)
    IN  IF \/ session = <<>>
           \/ c.provider # "gemini"
           \/ images = None
           \/ c.prompt_tokens <= 0
           \/ 100 * images < ImageShare * c.prompt_tokens
           \/ c.completion_tokens >= MaxCompletion
        THEN None
        ELSE Leak("vision_cost_concentration", c.model, images, 65, images)

(***************************************************************************)
(* audio_multichannel_doubling: prompt_tokens stands for the seconds in    *)
(* dimension_value                                                         *)
(***************************************************************************)
TranscribeMethods == {"transcribe_file", "transcribe_url", "transcribe_live"}

\* Mutant of AudioMultichannelDoubling: any call of the session will do.
AudioOfAnyCall(session) ==
    LET hit == SelectInSeq(session, LAMBDA c :
                   c.provider = "deepgram" /\ c.channels # None /\ c.multichannel)
    IN  IF hit = 0 \/ session[hit].channels < 2 THEN None
        ELSE Leak("audio_multichannel_doubling", session[hit].channels, 0, 75, 0)

AudioMultichannelDoubling(session) ==
    LET c == Last(session)
    IN  IF \/ session = <<>>
           \/ c.provider # "deepgram"
           \/ c.method \notin TranscribeMethods
           \/ c.channels = None \/ c.channels < 2
           \/ ~c.multichannel
        THEN None
        ELSE Leak("audio_multichannel_doubling", c.channels, c.channels,
                  IF c.channels >= 4 THEN 85 ELSE 75,
                  c.prompt_tokens * (c.channels - 1))

(***************************************************************************)
(* repair_loop                                                             *)
(***************************************************************************)
\* _parse_turns: user and assistant messages that have a text.
ParseTurns(messages) ==
    Where(messages, LAMBDA m : m.role \in {"user", "assistant"} /\ m.text # None)

\* _last_agent_before and _last_agent_at_or_after, 0 for none.
LastAgentBefore(turns, i) ==
    SelectLastInSubSeq(turns, 1, i - 1, LAMBDA t : t.role = "assistant")

AgentAtOrAfter(turns, i) ==
    SelectInSubSeq(turns, i, Len(turns), LAMBDA t : t.role = "assistant")

\* The turns in which the user corrects, shortly, what the agent said.
Corrections(turns) ==
    {i \in DOMAIN turns :
        /\ turns[i].role = "user"
        /\ turns[i].text.corrects
        /\ LET j == LastAgentBefore(turns, i)
           IN  j # 0 /\ 10 * turns[i].text.size < LengthRatio * turns[j].text.size}

\* _collect_regeneration_texts, as the turns that hold them: what was
\* corrected and what came next.
Regenerations(turns) ==
    (UNION {{LastAgentBefore(turns, i), AgentAtOrAfter(turns, i + 1)} :
            i \in Corrections(turns)}) \ {0}

DraftsAt(turns, at) == MapSeq(Picked(turns, at), LAMBDA turn : turn.text.draft)

\* Mutant of Alikeness: each text is compared with itself as well.
AlikeToItself(turns, at) ==
    LET mean == MeanCosine(DraftLikeness, DraftsAt(turns, at))
    IN  [total |-> mean.total + Cardinality(at) * Scale,
         pairs |-> mean.pairs + Cardinality(at)]

\* The mean similarity of what the agent said at some turns.
Alikeness(turns, at) == MeanCosine(DraftLikeness, DraftsAt(turns, at))

RepairLoop(session) ==
    LET c == Last(session)
        turns == ParseTurns(LastN(c.messages, WindowTurns))
        n == Cardinality(Corrections(turns))
        mean == Alikeness(turns, Regenerations(turns))
    IN  IF \/ session = <<>> \/ c.messages = <<>>
           \/ Len(turns) < 2
           \/ n < MinCorrections
           \/ Cardinality(Regenerations(turns)) < 2
           \/ 100 * mean.total < SimilarityThreshold * Scale * mean.pairs
        THEN None
        ELSE Leak("repair_loop", Len(turns), n,
                  SmallerOf(65 + 5 * (n - MinCorrections), 90),
                  c.prompt_tokens * LargerOf(n - 1, 0))

(***************************************************************************)
(* vision_re_upload                                                        *)
(***************************************************************************)
\* _hash_b64: of the first MaxImageBytes only.
ImageHash(image) ==
    SubSeq(image.payload, 1, SmallerOf(Len(image.payload), MaxImageBytes))

\* _perceptual_hash: the set bits of the hash, None when the bytes are no
\* image, as what is left of one cut short is not.
PerceptualHash(image) ==
    IF Len(image.payload) > MaxImageBytes THEN None ELSE image.look

\* _phash_distance.
HashDistance(a, b) == Cardinality(SymDiff(a, b))

\* The images of a request's messages and, for Gemini, of its contents: an
\* entry [inline, parts] may hold one itself and one in each part.
ExtractImageRecords(call) ==
    LET blocks == FlattenSeq(MapSeq(call.messages, LAMBDA m : m.blocks))
        entry(e) == <<e.inline>> \o e.parts
        images == MapSeq(blocks, LAMBDA b : b.image) \o
                  FlattenSeq(MapSeq(call.contents, entry))
    IN  MapSeq(Where(images, LAMBDA i : i # None),
               LAMBDA i : [sha256 |-> ImageHash(i), phash |-> PerceptualHash(i)])

\* How many of the last calls in a row have what is looked for.
Consecutive(perCall, Has(_)) ==
    Len(perCall) - SelectLastInSeq(perCall, LAMBDA records : ~Has(records))

ReUpload(kind, subject, count, base) ==
    Leak(kind, subject, count,
         SmallerOf(base + 10 * (count - MinImageCalls), 99), count - 1)

\* _try_exact_match: the hashes are a set, so any one that reaches the count
\* may be the one reported.
ExactMatches(perCall) ==
    LET sent(h) == Consecutive(perCall, LAMBDA records :
                       \E r \in Range(records) : r.sha256 = h)
    IN  {ReUpload("exact", h, sent(h), 70) :
         h \in {r.sha256 : r \in {x \in Range(Last(perCall)) :
                                     sent(x.sha256) >= MinImageCalls}}}

\* Mutant of PerceptualMatch: each image is compared with the next one.
PerceptualDrift(perCall) ==
    LET close(a, b) == \E r \in Range(a), x \in Range(b) :
            r.phash # None /\ x.phash # None /\ HashDistance(r.phash, x.phash) <= MaxDistance
        gap == {i \in 1..Len(perCall) - 1 : ~close(perCall[i], perCall[i + 1])}
        run == Len(perCall) - (IF gap = {} THEN 0 ELSE Max(gap))
    IN  IF run < MinImageCalls THEN None ELSE ReUpload("perceptual", Last(perCall)[1].phash, run, 65)

\* _try_perceptual_match: the first of the last request's images that the
\* calls before it resemble, each of them at some distance from that image.
PerceptualMatch(perCall) ==
    LET near(h) == Consecutive(perCall, LAMBDA records :
                       \E r \in Range(records) :
                           r.phash # None /\ HashDistance(h, r.phash) <= MaxDistance)
        hashes == Where(MapSeq(Last(perCall), LAMBDA r : r.phash),
                            LAMBDA h : h # None)
    IN  FirstReported(hashes, LAMBDA h :
            IF near(h) < MinImageCalls THEN None
            ELSE ReUpload("perceptual", h, near(h), 65))

\* The events the rule may return.
VisionReUpload(session) ==
    LET recent == RecentWithin(session, ImageWindow)
        perCall == MapSeq(recent, ExtractImageRecords)
    IN  IF Len(recent) < MinImageCalls \/ Last(perCall) = <<>> THEN {}
        ELSE IF ExactMatches(perCall) # {} THEN ExactMatches(perCall)
        ELSE {PerceptualMatch(perCall)} \ {None}
=============================================================================
