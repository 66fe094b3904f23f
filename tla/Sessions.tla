------------------------------ MODULE Sessions ------------------------------
(***************************************************************************)
(* The way of a call into the tracer: who makes it, under which session,   *)
(* and which chargeback tags it ends up with.  Sentinel.session opens a    *)
(* session, with tags or without, and registers the tags; record_call      *)
(* stamps a call that has none with those registered for its session, and  *)
(* only then gives it to the tracer (Tracer.tla).  The registry is pruned  *)
(* in the order of insertion, and tags given anew keep their place.        *)
(***************************************************************************)
EXTENDS Tracer, SpanProcessor, SequencesExt

CONSTANTS
    TagSets,    \* the tags an application may give a session; {} for none
    RefusedTags,\* tags _validate_session_tags raises for
    MaxTagged,  \* max_sessions_for_burn, or NoLimit
    GenAISpans, \* the spans that may end
    MaxOpens    \* bound on the sessions opened with tags

ASSUME SessionsAssumption ==
    /\ MaxTagged \in Nat \cup {NoLimit}
    /\ \A tags \in TagSets \ RefusedTags : \A tag \in tags : tag.value # BadTag
    /\ UnknownSession # Absent
    /\ \A span \in GenAISpans :
          /\ SpanSession(span) \in Sessions
          /\ {span.input, span.prompt, span.output, span.completion} \subseteq Attributes

VARIABLES
    registry,   \* _session_tags: [session, tags], in the order of insertion
    handles,    \* the Session objects with tags, each as the call it makes
    draft,      \* the call each thread is in record_call with, or Absent
    opens,      \* sessions opened with tags so far
    given,      \* history: the tags each session was last given, {} for none
    newer       \* history: sessions inserted after each session's insertion

sessionVars == <<registry, handles, draft, opens, given, newer>>

Call(s, tags) == [session |-> s, tags |-> tags]

Registered == {registry[i].session : i \in DOMAIN registry}

TagsOf(s) ==
    UNION {registry[i].tags : i \in {j \in DOMAIN registry : registry[j].session = s}}

SInit ==
    /\ Init
    /\ registry = <<>>
    /\ handles = {}
    /\ draft = [t \in Threads |-> Absent]
    /\ opens = 0
    /\ given = [s \in Sessions |-> {}]
    /\ newer = [s \in Sessions |-> {}]

\* Mutant of Pruned: the youngest session goes.
PrunedLast(entries) ==
    IF MaxTagged = NoLimit \/ Len(entries) <= MaxTagged THEN entries
    ELSE SubSeq(entries, 1, MaxTagged)
\* _prune_session_tags_locked
Pruned(entries) ==
    IF MaxTagged = NoLimit \/ Len(entries) <= MaxTagged THEN entries
    ELSE SubSeq(entries, Len(entries) - MaxTagged + 1, Len(entries))

\* A dictionary's assignment: a known key keeps its place.
Assign(s, tags) ==
    IF s \in Registered
    THEN [i \in DOMAIN registry |->
             IF registry[i].session = s THEN Call(s, tags) ELSE registry[i]]
    ELSE Append(registry, Call(s, tags))

\* Sentinel.session.  Tags that are refused leave nothing behind, and a session
\* without any makes the calls a wrapped client makes.
OpenSession ==
    /\ opens < MaxOpens
    /\ \E s \in Sessions, tags \in TagSets \cup RefusedTags :
          IF tags \in RefusedTags \cup {{}}
          THEN UNCHANGED <<registry, handles, opens, given, newer>>
          ELSE /\ opens' = opens + 1
               /\ handles' = handles \cup {Call(s, tags)}
               /\ registry' = Pruned(Assign(s, tags))
               /\ given' = [given EXCEPT ![s] = tags]
               /\ newer' = IF s \in Registered THEN newer
                           ELSE [x \in Sessions |-> IF x = s THEN {} ELSE newer[x] \cup {s}]
    /\ UNCHANGED <<draft, vars>>

\* What a thread may be in record_call with: a wrapped client's call, which
\* carries no tags; a handle's, which carries the handle's; a span's.
Arrivals ==
    {[call |-> call, span |-> Absent] : call \in {Call(s, {}) : s \in Sessions} \cup handles}
    \cup {[call |-> Call(SpanCall(span).session, SpanCall(span).tags), span |-> span] :
               span \in GenAISpans}

\* Mutant of Stamp: the session's tags replace those the call came with.
StampOver(call) == IF TagsOf(call.session) = {} THEN call.tags ELSE TagsOf(call.session)
\* Tags a call came with are left alone.
Stamp(call) == IF call.tags = {} THEN TagsOf(call.session) ELSE call.tags

\* A session that was given tags, with fewer than MaxTagged others since.
Protected(s) ==
    given[s] # {} /\ (MaxTagged # NoLimit => Cardinality(newer[s]) < MaxTagged)

Arrive(t) ==
    /\ pc[t] = "idle" /\ draft[t] = Absent
    /\ recorded + Cardinality({u \in Threads : draft[u] # Absent}) < MaxCalls
    /\ \E arrival \in Arrivals : LET call == arrival.call IN
          draft' = [draft EXCEPT ![t] =
              [session |-> call.session, own |-> call.tags, tags |-> Stamp(call),
               due |-> given[call.session], sure |-> Protected(call.session),
               span |-> arrival.span]]
    /\ UNCHANGED <<registry, handles, opens, given, newer, vars>>

SRecord(t) ==
    /\ draft[t] # Absent
    /\ Record(t)
    /\ sid'[t] = draft[t].session
    /\ draft' = [draft EXCEPT ![t] = Absent]
    /\ UNCHANGED <<registry, handles, opens, given, newer>>

Elsewhere == (Clear \/ \E t \in Threads : ReadSession(t) \/ Return(t)) /\ UNCHANGED sessionVars

SNext ==
    \/ OpenSession \/ Elsewhere
    \/ \E t \in Threads : Arrive(t) \/ SRecord(t)

SSpec == SInit /\ [][SNext]_<<vars, sessionVars>>

(***************************************************************************)
(* Properties                                                              *)
(***************************************************************************)

\* A wrapped call leaves with the tags its session was last given when it
\* came: a session loses them only to MaxTagged others tagged for the first
\* time after it, never to its own retagging or to how much it is used.
TagsAreTheSessions ==
    \A t \in Threads :
        (draft[t] # Absent /\ draft[t].own = {}) =>
            /\ draft[t].tags \in {{}, draft[t].due}
            /\ draft[t].sure => draft[t].tags = draft[t].due

\* Tags a call came with, its handle's or its framework's, are never replaced.
OwnTagsKept ==
    \A t \in Threads :
        (draft[t] # Absent /\ draft[t].own # {}) => draft[t].tags = draft[t].own

\* The registry keeps one entry per session and no more than it may.
RegistrySound ==
    /\ Cardinality(Registered) = Len(registry)
    /\ MaxTagged # NoLimit => Len(registry) <= MaxTagged
    /\ \A s \in Sessions : Protected(s) => TagsOf(s) = given[s]

\* Tags from either side: the session's while it has them, the call's own
\* always, from a registry that forgets only what it must.
TagsSound == TagsAreTheSessions /\ OwnTagsKept /\ RegistrySound

\* n is one attribute's count: the one of the name where anything true stands
\* under it, be it garbled or negative and so worth 0, and only else that of the
\* legacy alias; never both, and never less than 0.
OneCount(n, count, legacy) ==
    /\ n >= 0
    /\ count.says > 0 => n = count.says
    /\ (count.true /\ count.says <= 0) => n = 0
    /\ (~count.true /\ legacy.says >= 0) => n = legacy.says
    /\ (~count.true /\ legacy.says < 0) => n = 0

\* A span's call is its conversation's wherever it names one, else its trace's
\* where it has one, and only without both the session's of all the rest; each of
\* its two counts is that of one name or of its legacy alias; and no value the tag
\* pattern refuses gets into a tag, whether the span brings it or the registry.
SpansSound ==
    \A t \in Threads :
        (draft[t] # Absent /\ draft[t].span # Absent) =>
            LET span == draft[t].span
                call == SpanCall(span)
            IN  /\ span.conversation # Absent => draft[t].session = span.conversation
                /\ (span.conversation = Absent /\ span.trace # Absent) =>
                       draft[t].session = span.trace
                /\ (span.conversation = Absent /\ span.trace = Absent) =>
                       draft[t].session = UnknownSession
                /\ OneCount(call.prompt_tokens, span.input, span.prompt)
                /\ OneCount(call.completion_tokens, span.output, span.completion)
                /\ \A tag \in draft[t].tags : tag.value # BadTag
=============================================================================
