------------------------------ MODULE ToolRules ------------------------------
(***************************************************************************)
(* The detectors that look at tools: tool_loop and retrieval_thrash at the *)
(* tool calls of the model's answers, tool_definition_bloat at the tools   *)
(* a request declares.  A tool call is [name, arguments], the arguments a  *)
(* function from keys to values: [number |-> n] or [text |-> words].       *)
(***************************************************************************)
EXTENDS CallRecords

CONSTANTS
    LoopWindow, MinLoopCalls, LoopThreshold,    \* tool_loop, in hundredths
    ThrashWindow, MinThrashCalls, ThrashThreshold,
    LoopMetric, ThrashMetric,   \* similarity_metric of the two
    Arguments,          \* the arguments that tools are called with
    ArgumentLikeness,   \* how alike two of them are by their n-grams
    PollingTools,       \* polling_tools
    RetrievalPatterns,  \* retrieval_tool_patterns
    Matches,            \* pairs of a pattern and a tool name it matches
    MaxCorpus,          \* max_total_corpus_bytes
    ToolCountThreshold, BytesThreshold,     \* tool_definition_bloat
    MaxTotalBytes,      \* max_total_bytes
    Unserialisable      \* the size of a tool json.dumps refuses

ASSUME ToolAssumption ==
    /\ {LoopWindow, ThrashWindow, MaxCorpus} \subseteq Nat
    /\ {LoopThreshold, ThrashThreshold} \subseteq 0..100
    /\ {MinLoopCalls, MinThrashCalls} \subseteq Nat
    /\ {ToolCountThreshold, BytesThreshold, MaxTotalBytes} \subseteq Nat
    /\ Unserialisable \notin Nat
    /\ ArgumentLikeness \in [(SUBSET Arguments) \X Arguments \X Arguments -> 0..Scale]

(***************************************************************************)
(* Similarity of arguments: by default, as "tfidf_charngram", the cosine   *)
(* of their n-grams, which are not taken apart here (Cosine, CallRecords); *)
(* with "jaccard", or a metric there is no such of, the tokens they share, *)
(* the alphanumeric runs of the serialised arguments: keys, numbers and    *)
(* words, none of which is taken to equal one of another kind.             *)
(***************************************************************************)
\* An argument is a number or a text.
IsNumber(v) == "number" \in DOMAIN v

\* _tokens of json.dumps(arguments).
TokensOf(args) ==
    UNION {{<<"key", k>>} \cup
           (IF IsNumber(args[k]) THEN {<<"number", args[k].number>>}
            ELSE {<<"word", w>> : w \in args[k].text}) : k \in DOMAIN args}

\* The length of the serialised arguments: that of "{}" and of the tokens.
\* No single argument is taken to exceed max_arg_bytes.
Bytes(args) == 2 + 4 * Cardinality(TokensOf(args))

Jaccard(a, b) == (Cardinality(a \cap b) * Scale) \div Cardinality(a \cup b)

\* _mean_jaccard, as total and pairs: an empty set of tokens makes no pair.
MeanJaccard(sets) ==
    [total |-> SumOverPairs(sets, LAMBDA a, b :
                   IF a = {} \/ b = {} THEN 0 ELSE Jaccard(a, b)),
     pairs |-> SumOverPairs(sets, LAMBDA a, b : IF a = {} \/ b = {} THEN 0 ELSE 1)]

\* The corpus: arguments from the first one until the total would pass
\* MaxCorpus, the first one whatever its size.
WithinCorpus(calls) ==
    LET sizes == MapSeq(calls, LAMBDA c : Bytes(c.arguments))
        over == {n \in 2..Len(calls) : SumOfFirst(sizes, n) > MaxCorpus}
    IN  IF over = {} THEN calls ELSE SubSeq(calls, 1, Min(over) - 1)

\* _mean_pairwise_similarity, as a fraction with a denominator of
\* Scale * pairs; 0 when fewer than two arguments can be compared.
MeanSimilarity(metric, calls) ==
    LET corpus == WithinCorpus(calls)
        mean == IF metric = "tfidf_charngram"
                THEN MeanCosine(ArgumentLikeness, MapSeq(corpus, LAMBDA c : c.arguments))
                ELSE MeanJaccard(MapSeq(corpus, LAMBDA c : TokensOf(c.arguments)))
    IN  IF Len(corpus) < 2 \/ mean.pairs = 0 THEN [total |-> 0, pairs |-> 1]
        ELSE mean

\* How far the similarity is above the threshold, as the same fraction
\* times a hundred.
Excess(mean, threshold) == 100 * mean.total - threshold * Scale * mean.pairs

SimilarityConfidence(base, cap, mean, threshold) ==
    SmallerOf(base + (4 * Excess(mean, threshold)) \div (Scale * mean.pairs), cap)

(***************************************************************************)
(* tool_loop                                                               *)
(***************************************************************************)
\* Mutant of IsMonotonicPagination: a page asked for twice still counts.
IsPaginationOrRetry(calls) ==
    LET args == MapSeq(calls, LAMBDA c : c.arguments)
        keys == DOMAIN args[1]
    IN  /\ Len(calls) >= 2
        /\ keys # {}
        /\ \A i \in DOMAIN args : DOMAIN args[i] = keys
        /\ \E k \in keys :
            /\ \A i \in DOMAIN args : IsNumber(args[i][k])
            /\ \A i \in 1..Len(args) - 1 : args[i][k].number <= args[i + 1][k].number
            /\ \A o \in keys \ {k}, i \in DOMAIN args : args[i][o] = args[1][o]

\* Mutant of IsMonotonicPagination: only for tools without other arguments.
IsBarePagination(calls) ==
    LET args == MapSeq(calls, LAMBDA c : c.arguments)
    IN  \E k \in DOMAIN args[1] :
            \A i \in 1..Len(args) - 1 :
                /\ DOMAIN args[i] = {k} /\ DOMAIN args[i + 1] = {k}
                /\ IsNumber(args[i][k]) /\ IsNumber(args[i + 1][k])
                /\ args[i][k].number < args[i + 1][k].number

\* Every step of a numeric argument goes up and the others stay as they are.
IsMonotonicPagination(calls) ==
    LET args == MapSeq(calls, LAMBDA c : c.arguments)
        keys == DOMAIN args[1]
        numeric == {k \in keys : \A i \in DOMAIN args : IsNumber(args[i][k])}
    IN  /\ Len(calls) >= 2
        /\ keys # {}
        /\ \A i \in DOMAIN args : DOMAIN args[i] = keys
        /\ \E k \in numeric :
            /\ \A i \in 1..Len(args) - 1 : args[i][k].number < args[i + 1][k].number
            /\ \A o \in keys \ {k}, i \in DOMAIN args : args[i][o] = args[1][o]

\* The tool calls of some records, in order.
ToolCalls(records) == FlattenSeq(MapSeq(records, LAMBDA c : c.tool_calls))

ToolLoop(session) ==
    LET all == ToolCalls(RecentWithin(session, LoopWindow))
        calls(n) == Where(all, LAMBDA tc : tc.name = n)
        report(n) ==
            LET mean == MeanSimilarity(LoopMetric, calls(n))
            IN  IF \/ Len(calls(n)) < MinLoopCalls
                   \/ n \in PollingTools
                   \/ IsMonotonicPagination(calls(n))
                   \/ Excess(mean, LoopThreshold) < 0
                THEN None
                ELSE Leak("tool_loop", n, Len(calls(n)),
                          SimilarityConfidence(60, 99, mean, LoopThreshold), 0)
    IN  FirstReported(FirstSeen(MapSeq(all, LAMBDA tc : tc.name)), report)

(***************************************************************************)
(* retrieval_thrash                                                        *)
(***************************************************************************)
\* A pattern with a star is matched as a glob, another one as a substring.
IsRetrievalTool(name) == \E p \in RetrievalPatterns : <<p, name>> \in Matches

RetrievalThrash(session) ==
    LET all == ToolCalls(RecentWithin(session, ThrashWindow))
        calls(n) == Where(all, LAMBDA tc : tc.name = n)
        report(n) ==
            LET mean == MeanSimilarity(ThrashMetric, calls(n))
            IN  IF \/ ~IsRetrievalTool(n)
                   \/ Len(calls(n)) < MinThrashCalls
                   \/ Excess(mean, ThrashThreshold) < 0
                THEN None
                ELSE Leak("retrieval_thrash", n, Len(calls(n)),
                          SimilarityConfidence(55, 95, mean, ThrashThreshold), 0)
    IN  FirstReported(FirstSeen(MapSeq(all, LAMBDA tc : tc.name)), report)

(***************************************************************************)
(* tool_definition_bloat: tools are the sizes of the definitions           *)
(***************************************************************************)
\* Mutant of SerialiseToolsBounded: a definition that would pass the limit
\* is left out and the loop goes on.
SerialiseToolsThatFit(tools) ==
    FoldLeft(LAMBDA acc, t :
                IF t = Unserialisable \/ acc.definition_bytes + t > MaxTotalBytes
                THEN acc
                ELSE [acc EXCEPT !.definition_bytes = @ + t],
             [definition_bytes |-> 0, short_circuited |-> FALSE], tools)

\* _serialise_tools_bounded: what cannot be serialised is skipped, and the
\* loop ends at the definition that passes max_total_bytes.
SerialiseToolsBounded(tools) ==
    LET sizes == MapSeq(tools, LAMBDA t : IF t = Unserialisable THEN 0 ELSE t)
        over == {n \in DOMAIN tools : SumOfFirst(sizes, n) > MaxTotalBytes}
    IN  [definition_bytes |->
            SumOfFirst(sizes, IF over = {} THEN Len(tools) ELSE Min(over)),
         short_circuited |-> over # {}]

\* int(1.5 * threshold).
Severe(value, threshold) == value >= (3 * threshold) \div 2

ToolDefinitionBloat(session) ==
    LET tools == Last(session).tools
        sized == SerialiseToolsBounded(tools)
        bytes == sized.definition_bytes
    IN  IF session = <<>> \/ tools = <<>> THEN None
        ELSE IF sized.short_circuited
        THEN Leak("tool_definition_bloat", "truncated", Len(tools), 50, 0)
        ELSE IF Len(tools) < ToolCountThreshold /\ bytes < BytesThreshold
        THEN None
        ELSE Leak("tool_definition_bloat", "evaluated", Len(tools),
                  IF /\ Severe(Len(tools), ToolCountThreshold)
                     /\ Severe(bytes, BytesThreshold)
                  THEN 95 ELSE 85,
                  (bytes \div 4) * LargerOf(Len(session), 1))
=============================================================================
