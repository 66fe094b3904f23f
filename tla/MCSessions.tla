----------------------------- MODULE MCSessions -----------------------------
(***************************************************************************)
(* A small instance of Sessions: more sessions than the tracer and the tag *)
(* registry keep, more calls than a buffer holds, and spans that name a    *)
(* conversation of their own, only a trace, or neither, with counts that   *)
(* are numbers, numerals, garbled or missing under either name.            *)
(***************************************************************************)
EXTENDS Sessions, TLC

CONSTANTS s1, s2, growth, search

Label(key, value) == [key |-> key, value |-> value]
Of(key, value) == {Label(key, value)}
MCTagSets == {{}, Of("team", growth), Of("team", search)}
MCRefused == {Of("owner", growth), Of("owner", search)}

Number(n) == [true |-> n # 0, says |-> n]
Text(n) == [true |-> TRUE, says |-> n]
Garbled == Text(0)
Missing == Number(0)

Span(conversation, trace, labels, prompts, completions) ==
    [conversation |-> conversation, trace |-> trace, labels |-> labels,
     input |-> prompts[1], prompt |-> prompts[2],
     output |-> completions[1], completion |-> completions[2]]
MCSpans ==
    {Span(s, UnknownSession, Of("agent", "planner"),
          <<Number(2), Number(3)>>, <<Garbled, Number(5)>>) : s \in {s1, s2}}
    \cup {Span(Absent, s, {}, <<Number(0), Text(4)>>, <<Text(6), Missing>>) : s \in {s1, s2}}
    \cup {Span(Absent, Absent, Of("tool", BadTag),
               <<Number(-1), Number(3)>>, <<Missing, Number(-2)>>)}

Symmetry == Permutations(Threads) \cup Permutations({s1, s2}) \cup Permutations({growth, search})
=============================================================================
