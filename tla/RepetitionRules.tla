--------------------------- MODULE RepetitionRules ---------------------------
(***************************************************************************)
(* The detectors that count the calls of a session: retry_storm,           *)
(* rerank_thrash, embedding_waste, voice_switching_loop, zombie and        *)
(* context_bloat.  Each reads the session's buffer, oldest call first, and *)
(* returns an event or None.                                               *)
(***************************************************************************)
EXTENDS CallRecords

CONSTANTS
    StormWindow, MinRetries,        \* retry_storm
    RerankWindow, MinReranks,       \* rerank_thrash
    VoiceWindow, MinVoices,         \* voice_switching_loop
    Threshold, MinRecentCalls,      \* zombie, the threshold in seconds
    Lookback, SlopeThreshold, MinTurns  \* context_bloat

ASSUME RepetitionAssumption ==
    /\ {StormWindow, RerankWindow, VoiceWindow, Threshold} \subseteq Nat
    /\ {MinRetries, MinReranks, MinVoices, MinRecentCalls} \subseteq Nat \ {0}
    /\ {Lookback, MinTurns} \subseteq Nat
    /\ SlopeThreshold \in Int

(***************************************************************************)
(* retry_storm                                                             *)
(***************************************************************************)
Tokens(c) == c.prompt_tokens + c.completion_tokens

\* Mutant of RetryStorm: the whole buffer is counted.
RetryStormOfAllTime(session) ==
    LET samples(h) == Where(session, LAMBDA c : c.request_hash = h)
        report(h) == IF Len(samples(h)) < MinRetries THEN None
                     ELSE Leak("retry_storm", h, Len(samples(h)), 90, 0)
    IN  FirstReported(FirstSeen(MapSeq(session, LAMBDA c : c.request_hash)), report)

RetryStorm(session) ==
    LET recent == RecentWithin(session, StormWindow)
        samples(h) == Where(recent, LAMBDA c : c.request_hash = h)
        report(h) == IF Len(samples(h)) < MinRetries THEN None
                     ELSE Leak("retry_storm", h, Len(samples(h)), 90,
                               SumOver(samples(h), Tokens))
    IN  FirstReported(FirstSeen(MapSeq(recent, LAMBDA c : c.request_hash)), report)

(***************************************************************************)
(* rerank_thrash: the same, of one provider's one method                   *)
(***************************************************************************)
IsRerank(session, c) ==
    /\ c.provider = "cohere"
    /\ c.method = "rerank"
    /\ Elapsed(Last(session), c) <= RerankWindow
    /\ c.request_hash # None

RerankThrash(session) ==
    LET recent == Where(session, LAMBDA c : IsRerank(session, c))
        group(h) == Where(recent, LAMBDA c : c.request_hash = h)
        report(h) ==
            LET n == Len(group(h))
            IN  IF n < MinReranks THEN None
                ELSE Leak("rerank_thrash", h, n,
                          SmallerOf(75 + 5 * (n - MinReranks), 90), n - 1)
    IN  FirstReported(FirstSeen(MapSeq(recent, LAMBDA c : c.request_hash)), report)

\* Mutant of Repeats: the first call is called wasted too.
AllOf(group) == group

\* The first call of a group was needed.
Repeats(group) == Tail(group)

(***************************************************************************)
(* embedding_waste: no window, every call still in the buffer counts       *)
(***************************************************************************)
EmbeddingWaste(session) ==
    LET embeds == Where(session, LAMBDA c :
                      c.method \in {"embeddings.create", "embed"} /\ c.input # None)
        group(i) == Where(embeds, LAMBDA c : c.input = i)
        report(i) ==
            IF Len(group(i)) < 2 THEN None
            ELSE Leak("embedding_waste", i, Len(group(i)), 99,
                      SumOver(Repeats(group(i)), LAMBDA c : c.prompt_tokens))
    IN  FirstReported(FirstSeen(MapSeq(embeds, LAMBDA c : c.input)), report)

(***************************************************************************)
(* voice_switching_loop                                                    *)
(***************************************************************************)
\* The methods a wrapped client records that have the prefix "text_to_speech.".
SpeechMethods ==
    {"text_to_speech.convert", "text_to_speech.convert_as_stream", "text_to_speech.stream"}

IsSpeech(session, c) ==
    /\ c.provider = "elevenlabs"
    /\ c.method \in SpeechMethods
    /\ Elapsed(Last(session), c) <= VoiceWindow
    /\ c.text_hash # None /\ c.voice_id # None

\* Mutant of DistinctVoices: every call counts.
VoicesOfCalls(group) == DOMAIN group

\* _distinct_voice_ids.
DistinctVoices(group) == {group[i].voice_id : i \in DOMAIN group}

\* _sum_wasted_chars: the first synthesis was needed.  prompt_tokens stands
\* for the characters in dimension_value.
WastedChars(group) == SumOver(Repeats(group), LAMBDA c : c.prompt_tokens)

VoiceSwitchingLoop(session) ==
    LET recent == Where(session, LAMBDA c : IsSpeech(session, c))
        group(x) == Where(recent, LAMBDA c : c.text_hash = x)
        report(x) ==
            LET voices == Cardinality(DistinctVoices(group(x)))
            IN  IF voices < MinVoices THEN None
                ELSE Leak("voice_switching_loop", x, Len(group(x)),
                          SmallerOf(70 + 5 * (voices - MinVoices), 90),
                          WastedChars(group(x)))
    IN  FirstReported(FirstSeen(MapSeq(recent, LAMBDA c : c.text_hash)), report)

(***************************************************************************)
(* zombie: long_running are the sessions marked as such                    *)
(***************************************************************************)
\* Mutant of Anchor: from the oldest answer on.
OldestAnswer(session) ==
    LET hit == SelectInSeq(session, LAMBDA c : c.user_facing_output)
    IN  IF hit = 0 THEN Head(session) ELSE session[hit]

\* The last answer to the user, or the oldest call if there is none.
Anchor(session) ==
    LET hit == SelectLastInSeq(session, LAMBDA c : c.user_facing_output)
    IN  IF hit = 0 THEN Head(session) ELSE session[hit]

Zombie(session, longRunning) ==
    LET now == Last(session)
        silence == Elapsed(now, Anchor(session))
        recent == Len(RecentWithin(session, Threshold))
    IN  IF \/ session = <<>>
           \/ Len(session) < MinRecentCalls
           \/ longRunning
           \/ silence < Threshold
           \/ recent < MinRecentCalls
        THEN None
        ELSE Leak("zombie", silence, recent, 75, recent)

(***************************************************************************)
(* context_bloat: the least-squares slope of the prompts, as a fraction    *)
(***************************************************************************)
\* Mutant of Slope: the whole growth over the number of turns.
SlopeEndToEnd(values) ==
    [num |-> Last(values) - Head(values), den |-> Len(values)]

\* _linear_slope, numerator and denominator both multiplied by n.
Slope(values) ==
    LET n == Len(values)
        x == [i \in 1..n |-> i - 1]
        sum(f(_)) == SumOver(x, LAMBDA k : f(k))
        sx == sum(LAMBDA k : k)
        sxx == sum(LAMBDA k : k * k)
        sy == sum(LAMBDA k : values[k + 1])
        sxy == sum(LAMBDA k : k * values[k + 1])
    IN  [num |-> n * sxy - sx * sy, den |-> n * sxx - sx * sx]

\* The confidence grows linearly with the excess, up to 0.95.
BloatConfidence(slope) ==
    LET scale == IF SlopeThreshold > 0 THEN 4 * SlopeThreshold ELSE 1
        excess == slope.num - SlopeThreshold * slope.den
    IN  SmallerOf(55 + (100 * excess) \div (scale * slope.den), 95)

ContextBloat(session) ==
    LET prompts == MapSeq(LastN(session, Lookback), LAMBDA c : c.prompt_tokens)
        slope == Slope(prompts)
    IN  IF \/ Len(session) < MinTurns
           \/ Len(prompts) < 2
           \/ slope.num < SlopeThreshold * slope.den
        THEN None
        ELSE Leak("context_bloat", Head(prompts), Len(prompts),
                  BloatConfidence(slope), slope.num \div slope.den)
=============================================================================
