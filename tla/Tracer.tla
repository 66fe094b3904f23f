------------------------------- MODULE Tracer -------------------------------
(***************************************************************************)
(* tracer.Tracer: a ring buffer of calls per session, at most MaxSessions  *)
(* sessions, the least recently used one evicted.  record_call uses it in  *)
(* two critical sections, record and then session, and the rules judge     *)
(* what session returned.  Calls are named by the order in which they are  *)
(* recorded.                                                               *)
(***************************************************************************)
EXTENDS Integers, Sequences, FiniteSets

CONSTANTS
    Threads,
    Sessions,
    NoSession,
    MaxRecords,     \* max_records_per_session
    MaxSessions,    \* max_sessions
    NoLimit,        \* max_sessions is None
    MaxCalls        \* bound on the calls

ASSUME TracerAssumption ==
    /\ NoSession \notin Sessions
    /\ MaxRecords \in Nat
    /\ MaxSessions \in Nat \cup {NoLimit}
    /\ NoLimit \notin Nat

VARIABLES
    lru,        \* the keys of _sessions, least recently used first
    buffer,     \* the deques; a session _sessions lacks has none
    recorded,   \* calls recorded so far
    pc,         \* where each thread is
    sid,        \* the session of its call
    own,        \* its call
    seen,       \* what session returned to it
    sessionOf,  \* history: the session of each call
    others,     \* history: other sessions used since it recorded its call
    pushed      \* history: calls recorded to its session since

threadVars == <<pc, sid, own, seen>>
history == <<sessionOf, others, pushed>>
vars == <<lru, buffer, recorded, threadVars, history>>

Tracked == {lru[i] : i \in 1..Len(lru)}

TypeOK ==
    /\ lru \in Seq(Sessions)
    /\ MaxSessions # NoLimit => Len(lru) <= MaxSessions
    /\ buffer \in [Sessions -> Seq(1..recorded)]
    /\ \A s \in Sessions : Len(buffer[s]) <= MaxRecords
    /\ recorded \in Nat
    /\ pc \in [Threads -> {"idle", "recorded", "judging"}]
    /\ sid \in [Threads -> Sessions \cup {NoSession}]
    /\ own \in [Threads -> 0..recorded]
    /\ seen \in [Threads -> Seq(1..recorded)]
    /\ sessionOf \in [1..recorded -> Sessions]
    /\ others \in [Threads -> SUBSET Sessions]
    /\ pushed \in [Threads -> Nat]

Init ==
    /\ lru = <<>>
    /\ buffer = [s \in Sessions |-> <<>>]
    /\ recorded = 0
    /\ pc = [t \in Threads |-> "idle"]
    /\ sid = [t \in Threads |-> NoSession]
    /\ own = [t \in Threads |-> 0]
    /\ seen = [t \in Threads |-> <<>>]
    /\ sessionOf = <<>>
    /\ others = [t \in Threads |-> {}]
    /\ pushed = [t \in Threads |-> 0]

\* The keys but s.
Without(s) ==
    LET i == CHOOSE j \in 1..Len(lru) : lru[j] = s
    IN  [k \in 1..(Len(lru) - 1) |-> IF k < i THEN lru[k] ELSE lru[k + 1]]

\* Mutant of MoveToEnd: reading or recording does not refresh a session.
KeepOrder(s) == lru
MoveToEnd(s) == Append(Without(s), s)

\* Mutant of Ring: a full buffer does not take a new call.
RingFull(seq) == IF Len(seq) > MaxRecords THEN SubSeq(seq, 1, MaxRecords) ELSE seq
\* deque(maxlen=...)
Ring(seq) == IF Len(seq) > MaxRecords THEN Tail(seq) ELSE seq

\* Mutant of Overflow: one session too many.
OverflowLate(keys) == MaxSessions # NoLimit /\ Len(keys) > MaxSessions + 1
Overflow(keys) == MaxSessions # NoLimit /\ Len(keys) > MaxSessions

Evicted(keys) == IF Overflow(keys) THEN {Head(keys)} ELSE {}

(***************************************************************************)
(* History: what happens between a thread's record and its session         *)
(***************************************************************************)
Between(t) == {u \in Threads \ {t} : pc[u] = "recorded"}

NoteUse(t, s) ==
    others' = [u \in Threads |->
                  IF u \in Between(t) /\ sid[u] # s THEN others[u] \cup {s}
                                                   ELSE others[u]]

NoteRecord(t, s) ==
    /\ sessionOf' = Append(sessionOf, s)
    /\ others' = [u \in Threads |->
                     IF u = t THEN {}
                     ELSE IF u \in Between(t) /\ sid[u] # s THEN others[u] \cup {s}
                     ELSE others[u]]
    /\ pushed' = [u \in Threads |->
                     IF u = t THEN 0
                     ELSE IF u \in Between(t) /\ sid[u] = s THEN pushed[u] + 1
                     ELSE pushed[u]]

(***************************************************************************)
(* Tracer.record.  With max_sessions=0 the new session is evicted itself.  *)
(***************************************************************************)
Store(s, keys, gone) ==
    /\ lru' = IF gone = {} THEN keys ELSE Tail(keys)
    /\ buffer' = [x \in Sessions |->
                     IF x \in gone THEN <<>>
                     ELSE IF x = s THEN Ring(Append(buffer[x], recorded'))
                     ELSE buffer[x]]

Record(t) ==
    /\ pc[t] = "idle"
    /\ recorded < MaxCalls
    /\ recorded' = recorded + 1
    /\ own' = [own EXCEPT ![t] = recorded']
    /\ \E s \in Sessions :
          /\ sid' = [sid EXCEPT ![t] = s]
          /\ IF s \in Tracked
             THEN Store(s, MoveToEnd(s), {})
             ELSE Store(s, Append(lru, s), Evicted(Append(lru, s)))
          /\ NoteRecord(t, s)
    /\ pc' = [pc EXCEPT ![t] = "recorded"]
    /\ UNCHANGED seen

(***************************************************************************)
(* Tracer.session, and the rules' judgement of what it returned            *)
(***************************************************************************)
ReadSession(t) ==
    /\ pc[t] = "recorded"
    /\ pc' = [pc EXCEPT ![t] = "judging"]
    /\ seen' = [seen EXCEPT ![t] = buffer[sid[t]]]
    /\ lru' = IF sid[t] \in Tracked THEN MoveToEnd(sid[t]) ELSE lru
    /\ NoteUse(t, sid[t])
    /\ UNCHANGED <<buffer, recorded, sid, own, sessionOf, pushed>>

Return(t) ==
    /\ pc[t] = "judging"
    /\ pc' = [pc EXCEPT ![t] = "idle"]
    /\ sid' = [sid EXCEPT ![t] = NoSession]
    /\ own' = [own EXCEPT ![t] = 0]
    /\ seen' = [seen EXCEPT ![t] = <<>>]
    /\ others' = [others EXCEPT ![t] = {}]
    /\ pushed' = [pushed EXCEPT ![t] = 0]
    /\ UNCHANGED <<lru, buffer, recorded, sessionOf>>

\* To a thread in between, it is as if its call had been pushed out.
Forget(gone) ==
    /\ buffer' = [x \in Sessions |-> IF x \in gone THEN <<>> ELSE buffer[x]]
    /\ pushed' = [u \in Threads |->
                     IF pc[u] = "recorded" /\ sid[u] \in gone
                     THEN MaxRecords ELSE pushed[u]]

\* Tracer.clear, of one session or of all.
Clear ==
    /\ lru # <<>>
    /\ \/ \E s \in Tracked : lru' = Without(s) /\ Forget({s})
       \/ lru' = <<>> /\ Forget(Tracked)
    /\ UNCHANGED <<recorded, threadVars, sessionOf, others>>

Next == Clear \/ \E t \in Threads : Record(t) \/ ReadSession(t) \/ Return(t)

Spec == Init /\ [][Next]_vars

(***************************************************************************)
(* Properties                                                              *)
(***************************************************************************)
InBuffer(s) == {buffer[s][i] : i \in 1..Len(buffer[s])}

\* Evicted sessions keep nothing, and a buffer is an unbroken run of its
\* session's calls up to the latest one, in the order in which they were
\* recorded: what the rules count and compare.
BuffersSound ==
    /\ \A i, j \in 1..Len(lru) : lru[i] = lru[j] => i = j
    /\ \A s \in Sessions :
          /\ s \notin Tracked => buffer[s] = <<>>
          /\ \A i, j \in 1..Len(buffer[s]) : i < j => buffer[s][i] < buffer[s][j]
          /\ \A c, d \in 1..recorded :
                c < d /\ c \in InBuffer(s) /\ sessionOf[d] = s
                    => d \in InBuffer(s)

\* The tracer as a whole: within max_sessions and max_records, and its buffers
\* what the rules take them for.
TracerSound == TypeOK /\ BuffersSound

\* A thread records its call and reads the session back in two steps.  The
\* call is in what the rules judge, unless, in between, MaxSessions other
\* sessions were used, the session was cleared, or MaxRecords calls were
\* recorded to it: no other interleaving makes a call invisible to its rules.
SeesOwnCall ==
    \A t \in Threads :
        /\ pc[t] = "judging"
        /\ MaxSessions # NoLimit => Cardinality(others[t]) < MaxSessions
        /\ pushed[t] < MaxRecords
        => \E i \in 1..Len(seen[t]) : seen[t][i] = own[t]
=============================================================================
