----------------------------- MODULE CallRecords -----------------------------
(***************************************************************************)
(* What the detectors read of a CallRecord, and the helpers they share.    *)
(* Times are seconds, money and wording are left out, and of a request or  *)
(* a response only the parts a detector looks at are kept.                 *)
(***************************************************************************)
EXTENDS Integers, Sequences, FiniteSets, SequencesExt

CONSTANT None   \* Python's None: an absent value, or a rule that is silent

\* A record in which nothing is of interest to any detector.
Blank ==
    [timestamp |-> 0, provider |-> "openai", method |-> "chat",
     model |-> <<>>, prompt_tokens |-> 0, completion_tokens |-> 0,
     request_hash |-> None, tool_calls |-> <<>>,
     user_facing_output |-> FALSE, input |-> None, messages |-> <<>>,
     contents |-> <<>>, tools |-> <<>>, base_url |-> None, text_hash |-> None,
     voice_id |-> None, channels |-> None, multichannel |-> FALSE,
     details |-> None]

SmallerOf(a, b) == IF a < b THEN a ELSE b

\* A set of positions as a sequence, the i-th of them the one with i up to it.
Ascending(S) ==
    [i \in 1..Cardinality(S) |-> CHOOSE k \in S : Cardinality({j \in S : j <= k}) = i]

\* What a sequence has at some positions, in order, and where a test holds: what
\* SelectSeq keeps, said by positions, of which the provers know more.
Picked(s, S) == [k \in 1..Cardinality(S) |-> s[Ascending(S)[k]]]
Where(s, Test(_)) == Picked(s, {i \in DOMAIN s : Test(s[i])})

\* elapsed_seconds, negative for a record that is late.
Elapsed(later, earlier) == later.timestamp - earlier.timestamp

\* The calls of the window that ends with the last record.
RecentWithin(session, window) ==
    Where(session, LAMBDA c : Elapsed(Last(session), c) <= window)

\* Mutant of LastN: session[:n].
FirstN(s, n) == SubSeq(s, 1, SmallerOf(n, Len(s)))

\* session[-n:], the whole of it for n = 0.
LastN(s, n) ==
    IF n = 0 \/ n >= Len(s) THEN s ELSE SubSeq(s, Len(s) - n + 1, Len(s))

\* The keys of a dictionary filled from left to right, in insertion order.
FirstSeen(s) == Picked(s, {i \in DOMAIN s : \A j \in 1..i - 1 : s[j] # s[i]})

MapSeq(s, f(_)) == [i \in DOMAIN s |-> f(s[i])]

\* The sum of the first k numbers of a sequence, and of all of them.
SumOfFirst(s, k) ==
    LET upTo[n \in 0..Len(s)] == IF n = 0 THEN 0 ELSE upTo[n - 1] + s[n]
    IN  upTo[k]
SumSeq(s) == SumOfFirst(s, Len(s))

SumOver(s, f(_)) == SumSeq(MapSeq(s, f))

LargerOf(a, b) == IF a > b THEN a ELSE b

\* A similarity is a number of parts out of Scale, a common multiple of the
\* sizes that sets of tokens have.
Scale == 840

\* The sum of f over the pairs of items.
SumOverPairs(items, f(_, _)) ==
    SumSeq([j \in DOMAIN items |-> SumSeq([i \in 1..j - 1 |-> f(items[i], items[j])])])

\* The cosine of the TF-IDF vectors of two texts: no text is without n-grams, so
\* that the same text is wholly like itself; how alike two others are is for the
\* likeness to say.  It may depend on what else the corpus has, as the weights of
\* the n-grams do, though not on how often the corpus has it.
Cosine(likeness, corpus, a, b) == IF a = b THEN Scale ELSE likeness[<<corpus, a, b>>]

\* _mean_tfidf_charngram and _mean_pairwise_tfidf_cosine, as total and pairs.
MeanCosine(likeness, texts) ==
    [total |-> SumOverPairs(texts, LAMBDA a, b : Cosine(likeness, Range(texts), a, b)),
     pairs |-> SumOverPairs(texts, LAMBDA a, b : 1)]

\* The first key whose group is reported, as the loops over a dictionary
\* return at the first of them.
FirstReported(keys, Report(_)) ==
    LET hit == SelectInSeq(keys, LAMBDA k : Report(k) # None)
    IN  IF hit = 0 THEN None ELSE Report(keys[hit])

\* A LeakEvent: confidence in hundredths, waste in tokens, calls or units.
Leak(type, subject, count, confidence, wasted) ==
    [type |-> type, subject |-> subject, count |-> count,
     confidence |-> confidence, wasted |-> wasted]
=============================================================================
