---------------------------- MODULE SpanProcessor ----------------------------
(***************************************************************************)
(* enrichers/otel.py: every span that ends and says anything of gen_ai     *)
(* becomes a call, there and then; the processor keeps nothing.  A span is *)
(* its attributes and its trace.  A conversation, a trace or a label that  *)
(* is missing, empty or of the wrong type is Absent; a count is told by    *)
(* whether Python takes it for true and by the number int() makes of it,   *)
(* 0 where int() refuses it (text that is no number, a list, None).  One   *)
(* count is left out: an infinite float, at which int() raises what        *)
(* _coerce_int does not catch, and on_end drops the span.                  *)
(***************************************************************************)
EXTENDS Integers, FiniteSets

CONSTANTS
    Absent,
    UnknownSession, \* "otel-unknown"
    BadTag          \* a value the tag pattern refuses

\* What may stand under the name of a count: 0, "" and None are false and say
\* nothing; text is true whatever it says, and so is what is less than one.
Attributes == {a \in [true : BOOLEAN, says : Int] : ~a.true => a.says = 0}

\* _coerce_int
CoerceInt(attribute) == IF attribute.says < 0 THEN 0 ELSE attribute.says

\* Mutant of EitherCount: the count and its legacy alias are added up.
BothCounts(count, legacy) == CoerceInt(count) + CoerceInt(legacy)

\* _extract_tokens: "count or legacy", so that the legacy name is read where
\* nothing or a 0 stands under the other, and not where text or a list does.
EitherCount(count, legacy) == CoerceInt(IF count.true THEN count ELSE legacy)

\* The conversation, or the trace, or a session of all the rest.
SpanSession(span) ==
    IF span.conversation # Absent THEN span.conversation
    ELSE IF span.trace # Absent THEN span.trace ELSE UnknownSession

\* The framework's names of agent, role and tool, those that pass the pattern.
FrameworkTags(span) ==
    {tag \in span.labels : tag.value \notin {Absent, BadTag}}

\* A span that named a tool called it.
SpanTools(span) ==
    {tag.value : tag \in {l \in span.labels : l.key = "tool" /\ l.value # Absent}}

\* on_end, for a span with gen_ai attributes.
SpanCall(span) ==
    LET completion == EitherCount(span.output, span.completion)
    IN  [session |-> SpanSession(span), tags |-> FrameworkTags(span),
         prompt_tokens |-> EitherCount(span.input, span.prompt),
         completion_tokens |-> completion,
         tool_calls |-> SpanTools(span),
         user_facing_output |-> completion > 0 /\ SpanTools(span) = {}]
=============================================================================
