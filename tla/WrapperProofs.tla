---------------------------- MODULE WrapperProofs ----------------------------
(***************************************************************************)
(* What the wrappers promise of every application, whatever it calls, in   *)
(* what order, and however it reads, leaves, closes or forgets a stream:   *)
(* a call is recorded at most once, a LeakDetected is heard unless the     *)
(* stream was let go before, the kill switch bounds what is paid for, a    *)
(* stream that was read to its end makes the record of its whole answer,   *)
(* and no call is charged for more than it used.                           *)
(*                                                                         *)
(* The argument follows one call at a time.  The flag of _safe_finalize is *)
(* set before the record is made, so what a call owes to the flag is an    *)
(* invariant of the call (CallSound), of the one in hand as of those whose *)
(* async loop is closed after the application is done with them: that is   *)
(* WrapperInv.  What an accumulator holds is what the pieces that went     *)
(* through the proxy add up to (SoFar), piece by piece, for each of the    *)
(* providers: that is ReadInv, and the record is made of it.               *)
(***************************************************************************)
EXTENDS ProviderWrappers, FiniteSetTheorems, WellFoundedInduction, TLAPS

(***************************************************************************)
(* The invariant                                                           *)
(***************************************************************************)
Fields == {"id", "flavour", "answer", "odd", "wire", "acc", "within", "entered",
           "aside", "looped", "cut", "letgo", "dangling", "flushed", "killed",
           "paid", "reports", "raised", "heard"}

Flags == {"odd", "looped", "letgo", "dangling", "flushed", "killed", "paid",
          "raised", "heard"}

\* A call, with types for what is remembered of it.
IsCall(c) ==
    /\ c = [x \in Fields |-> c[x]]
    /\ c.id \in Nat
    /\ \A x \in Flags : c[x] \in BOOLEAN
    /\ c.reports \in {0, 1}

\* A record only behind the flag; a raise only to who listens, or of a stream
\* that was let go; an async loop left behind only of such a stream; and under
\* the kill switch every record raises.
CallSound(c) ==
    /\ IsCall(c)
    /\ c.reports = 1 => c.flushed
    /\ c.raised => c.heard \/ c.letgo
    /\ c.dangling => c.flushed \/ c.letgo
    /\ c.killed /\ c.reports = 1 => c.raised

\* The same of what is remembered of it, and that a preflight was in time.
SummarySound(s) ==
    /\ s.raised => s.heard \/ s.letgo
    /\ s.killed /\ s.reports = 1 => s.raised
    /\ s.killed /\ s.paid => ~s.guarded

Planned == {plan[i] : i \in Nat}

Summaries ==
    [guarded : {How(f).guarded : f \in Planned}, killed : BOOLEAN, paid : BOOLEAN,
     owed : BOOLEAN, reports : {0, 1}, letgo : BOOLEAN, raised : BOOLEAN,
     heard : BOOLEAN]

\* A call that goes on: under the kill switch it has no preflight.
Live(c) ==
    /\ CallSound(c)
    /\ c.flavour \in Planned
    /\ c.killed => killed /\ ~How(c.flavour).guarded

InHand ==
    /\ stage = "idle" => call = NoCall
    /\ stage # "idle" => Live(call) /\ call.id = Len(ended) + 1

Past ==
    /\ ended \in Seq(Summaries)
    /\ \A i \in 1..Len(ended) : SummarySound(ended[i])

\* The calls the event loop has still to see to are over for the application,
\* and each is remembered as it is.
Late ==
    /\ \A c \in late : /\ Live(c) /\ c.dangling
                       /\ c.id \in 1..Len(ended) /\ ended[c.id] = Summary(c)
    /\ \A c, d \in late : c.id = d.id => c = d

\* The application stops at the first LeakDetected it hears.
HeardLast ==
    \A i \in 1..Len(ended) : ended[i].heard => i = Len(ended) /\ stage = "idle"

WrapperInv == killed \in BOOLEAN /\ InHand /\ Past /\ Late /\ HeardLast

(***************************************************************************)
(* One call                                                                *)
(***************************************************************************)
LEMMA NewCallSound ==
    ASSUME killed \in BOOLEAN, Len(ended) \in Nat, NEW f, NEW a, NEW odd \in BOOLEAN
    PROVE  /\ CallSound(NewCall(f, a, odd))
           /\ NewCall(f, a, odd).id = Len(ended) + 1
           /\ NewCall(f, a, odd).flavour = f
           /\ NewCall(f, a, odd).killed = killed
BY DEF CallSound, IsCall, Fields, Flags, NewCall

\* What is remembered of a call that went on.
LEMMA SummaryOf ==
    ASSUME NEW c, Live(c)
    PROVE  /\ Summary(c) \in Summaries /\ SummarySound(Summary(c))
           /\ Summary(c).heard = c.heard
<1>1. IsCall(c) /\ c.flavour \in Planned
  BY DEF Live, CallSound
<1>2. c.reports \in {0, 1} /\ \A x \in Flags : c[x] \in BOOLEAN
  BY <1>1 DEF IsCall
<1>3. /\ c.killed \in BOOLEAN /\ c.paid \in BOOLEAN /\ c.letgo \in BOOLEAN
      /\ c.raised \in BOOLEAN /\ c.heard \in BOOLEAN
  BY <1>2 DEF Flags
<1>4. Summary(c) \in Summaries
  BY <1>1, <1>2, <1>3 DEF Summary, Summaries
<1>5. SummarySound(Summary(c))
  BY DEF Live, CallSound, Summary, SummarySound
<1> QED
  BY <1>4, <1>5 DEF Summary

\* How a call may come out of _safe_finalize.
Told(c) == [[c EXCEPT !.flushed = TRUE] EXCEPT !.reports = @ + 1]

Outcome(c, d, heard) ==
    \/ c.flushed /\ d = c
    \/ ~c.flushed /\ d = [c EXCEPT !.flushed = TRUE]
    \/ ~c.flushed /\ ~killed /\ d = Told(c)
    \/ ~c.flushed /\ d = Raise(Told(c), heard)

LEMMA ToldSound ==
    ASSUME NEW c, Live(c), ~c.flushed
    PROVE  Told(c) = [x \in Fields |-> IF x = "flushed" THEN TRUE
                                       ELSE IF x = "reports" THEN 1 ELSE c[x]]
<1> DEFINE done == [x \in Fields |-> IF x = "flushed" THEN TRUE ELSE c[x]]
<1>1. c = [x \in Fields |-> c[x]] /\ c.reports = 0
  BY DEF Live, CallSound, IsCall
<1>2. [c EXCEPT !.flushed = TRUE] = done
  BY <1>1 DEF Fields
<1>3. done.reports = 0
  BY <1>1 DEF Fields
<1>4. Told(c) = [done EXCEPT !.reports = 0 + 1]
  BY <1>2, <1>3 DEF Told
<1>5. DOMAIN done = Fields
  OBVIOUS
<1> HIDE DEF done
<1>6. Told(c) = [x \in Fields |-> IF x = "reports" THEN 1 ELSE done[x]]
  BY <1>4, <1>5
<1>7. \A x \in Fields : done[x] = IF x = "flushed" THEN TRUE ELSE c[x]
  BY DEF done
<1> QED
  BY <1>6, <1>7

\* Finalising keeps a call sound where it is heard, or was let go before.
LEMMA OutcomeSound ==
    ASSUME NEW c, NEW d, NEW heard \in BOOLEAN, killed \in BOOLEAN, Live(c),
           heard \/ c.flushed \/ c.letgo, Outcome(c, d, heard)
    PROVE  /\ Live(d) /\ d.id = c.id /\ d.dangling = c.dangling
           /\ c.flushed => d = c
           /\ ~heard => d.heard = c.heard
<1>1. CASE c.flushed /\ d = c
  BY <1>1
<1>2. CASE ~c.flushed /\ d = [c EXCEPT !.flushed = TRUE]
  BY <1>2 DEF Live, CallSound, IsCall, Fields, Flags
<1>3. ASSUME ~c.flushed, NEW t, t = Told(c)
      PROVE  /\ IsCall(t) /\ t.reports = 1 /\ t.flushed
             /\ \A x \in Fields \ {"reports", "flushed"} : t[x] = c[x]
  <2>1. t = [x \in Fields |-> IF x = "flushed" THEN TRUE
                              ELSE IF x = "reports" THEN 1 ELSE c[x]]
    BY <1>3, ToldSound
  <2> QED
    BY <2>1 DEF Live, CallSound, IsCall, Fields, Flags
<1>4. ASSUME ~c.flushed, NEW t, t = Told(c)
      PROVE  /\ t.id = c.id /\ t.flavour = c.flavour /\ t.killed = c.killed
             /\ t.dangling = c.dangling /\ t.letgo = c.letgo /\ t.paid = c.paid
             /\ t.raised = c.raised /\ t.heard = c.heard
  BY <1>3, <1>4 DEF Fields
<1>5. CASE ~c.flushed /\ ~killed /\ d = Told(c)
  BY <1>3, <1>4, <1>5 DEF Live, CallSound
<1>6. CASE ~c.flushed /\ d = Raise(Told(c), heard)
  <2>1. PICK t : t = Told(c)
    OBVIOUS
  <2>2. d = [t EXCEPT !.raised = TRUE, !.heard = t.heard \/ heard] /\ IsCall(t)
    BY <1>3, <1>6, <2>1 DEF Raise
  <2>3. /\ IsCall(d) /\ d.reports = t.reports /\ d.flushed = t.flushed /\ d.raised
        /\ d.heard = (t.heard \/ heard) /\ d.letgo = t.letgo
        /\ d.id = t.id /\ d.dangling = t.dangling /\ d.flavour = t.flavour
        /\ d.killed = t.killed
    BY <2>2 DEF IsCall, Fields, Flags
  <2>4. c.heard \in BOOLEAN
    BY DEF Live, CallSound, IsCall, Flags
  <2> QED
    BY <1>3, <1>4, <1>6, <2>1, <2>3, <2>4 DEF Live, CallSound
<1> QED
  BY <1>1, <1>2, <1>5, <1>6 DEF Outcome

LEMMA FinalizeKeep ==
    ASSUME NEW c, NEW heard, killed \in BOOLEAN, Finalize(c, heard, Keep)
    PROVE  \E d : Outcome(c, d, heard) /\ Keep(d)
BY DEF Finalize, Gate, Told, Outcome, Verdicts

LEMMA FinalizeOver ==
    ASSUME NEW c, NEW heard, killed \in BOOLEAN, Finalize(c, heard, Over)
    PROVE  \E d : Outcome(c, d, heard) /\ Over(d)
BY DEF Finalize, Gate, Told, Outcome, Verdicts

LEMMA FinalizeRetold ==
    ASSUME NEW c, NEW heard, killed \in BOOLEAN, Finalize(c, heard, Retold)
    PROVE  \E d : Outcome(c, d, heard) /\ Retold(d)
BY DEF Finalize, Gate, Told, Outcome, Verdicts

(***************************************************************************)
(* What a step leaves of the invariant                                     *)
(***************************************************************************)
\* Nobody has heard of a halt as long as a call goes on.
LEMMA NotStopped ==
    ASSUME WrapperInv, stage # "idle"
    PROVE  ~Stopped
BY DEF WrapperInv, HeardLast, Past, Stopped

\* A call goes on, or begins.
LEMMA GoesOn ==
    ASSUME WrapperInv, ~Stopped, stage' # "idle",
           UNCHANGED <<plan, killed, late, ended>>,
           NEW d, call' = d, Live(d), d.id = Len(ended) + 1
    PROVE  WrapperInv'
<1>1. Planned' = Planned
  BY DEF Planned
<1>2. InHand'
  BY <1>1 DEF InHand, Live
<1>3. Past'
  BY <1>1 DEF WrapperInv, Past, Summaries
<1>4. Late'
  BY <1>1 DEF WrapperInv, Late, Live
<1>5. HeardLast'
  BY DEF WrapperInv, Past, HeardLast, Stopped
<1> QED
  BY <1>2, <1>3, <1>4, <1>5 DEF WrapperInv

\* The call is over: it is remembered, and, if it is left to the event loop,
\* kept there too.
LEMMA Ends ==
    ASSUME WrapperInv, ~Stopped, NEW d, Over(d), UNCHANGED <<plan, killed>>,
           Summary(d) \in Summaries, SummarySound(Summary(d)),
           \/ late' = late
           \/ /\ late' = late \cup {d}
              /\ Live(d) /\ d.dangling /\ d.id = Len(ended) + 1
    PROVE  WrapperInv'
<1> DEFINE n == Len(ended)
<1>1. Planned' = Planned /\ Summaries' = Summaries
  BY DEF Planned, Summaries
<1>2. ended \in Seq(Summaries) /\ n \in Nat
  BY DEF WrapperInv, Past
<1>3. /\ ended' \in Seq(Summaries) /\ Len(ended') = n + 1
      /\ \A i \in 1..n : ended'[i] = ended[i]
      /\ ended'[n + 1] = Summary(d)
  BY <1>2 DEF Over
<1> HIDE DEF n
<1>4. \A i \in 1..(n + 1) : i \in 1..n \/ i = n + 1
  BY <1>2
<1>5. InHand'
  BY DEF Over, InHand
<1>6. Past'
  <2>1. \A i \in 1..n : SummarySound(ended[i])
    BY DEF WrapperInv, Past, n
  <2> QED
    BY <1>1, <1>3, <1>4, <2>1 DEF Past
<1>7. Late'
  <2>1. \A c \in late : /\ Live(c) /\ c.dangling
                        /\ c.id \in 1..n /\ ended[c.id] = Summary(c)
    BY DEF WrapperInv, Late, n
  <2>2. \A c : Live(c) => Live(c)'
    BY <1>1 DEF Live
  <2>3. ASSUME NEW c \in late'
        PROVE  /\ Live(c)' /\ c.dangling
               /\ c.id \in 1..(n + 1) /\ ended'[c.id] = Summary(c)
               /\ c.id = n + 1 => c = d
    <3>1. CASE c \in late
      <4>1. c.id \in 1..n /\ c.id \in 1..(n + 1) /\ c.id # n + 1
        BY <1>2, <2>1, <3>1
      <4> QED
        BY <1>3, <2>1, <2>2, <3>1, <4>1
    <3>2. CASE c \notin late
      <4>1. c = d /\ Live(d) /\ d.dangling /\ d.id = n + 1
        BY <2>3, <3>2 DEF n
      <4>2. n + 1 \in 1..(n + 1)
        BY <1>2
      <4> QED
        BY <1>3, <2>2, <4>1, <4>2
    <3> QED
      BY <3>1, <3>2
  <2>4. ASSUME NEW c \in late', NEW e \in late', c.id = e.id PROVE c = e
    <3>1. CASE c.id = n + 1
      BY <2>3, <2>4, <3>1
    <3>2. CASE c.id # n + 1
      <4>1. c \in late /\ e \in late
        BY <2>4, <3>2 DEF n
      <4> QED
        BY <2>4, <4>1 DEF WrapperInv, Late
    <3> QED
      BY <3>1, <3>2
  <2> QED
    BY <1>3, <2>3, <2>4 DEF Late
<1>8. HeardLast'
  <2>1. \A i \in 1..n : ~ended[i].heard
    BY <1>2 DEF Stopped, n
  <2> QED
    BY <1>3, <1>4, <2>1 DEF HeardLast, Over
<1> QED
  BY <1>5, <1>6, <1>7, <1>8 DEF WrapperInv

\* The event loop sees to a call that was left to it.
LEMMA SeenTo ==
    ASSUME WrapperInv, NEW c \in late, late' = late \ {c}, UNCHANGED <<plan, killed>>,
           NEW d, Retold(d), Live(d), d.id = c.id, d.heard = c.heard
    PROVE  WrapperInv'
<1>1. Planned' = Planned /\ Summaries' = Summaries
  BY DEF Planned, Summaries
<1>2. /\ ended \in Seq(Summaries) /\ Len(ended) \in Nat
      /\ c.id \in 1..Len(ended) /\ ended[c.id] = Summary(c)
      /\ Live(c)
  BY DEF WrapperInv, Past, Late
<1>3. /\ Summary(d) \in Summaries /\ SummarySound(Summary(d))
      /\ Summary(d).heard = Summary(c).heard
  BY <1>2, SummaryOf
<1>4. /\ ended' \in Seq(Summaries) /\ Len(ended') = Len(ended)
      /\ \A i \in 1..Len(ended) : ended'[i] = IF i = c.id THEN Summary(d) ELSE ended[i]
  BY <1>2, <1>3 DEF Retold
<1>5. UNCHANGED <<stage, call>>
  BY DEF Retold
<1>6. InHand'
  BY <1>1, <1>4, <1>5 DEF WrapperInv, InHand, Live
<1>7. Past'
  BY <1>1, <1>3, <1>4 DEF WrapperInv, Past
<1>8. Late'
  BY <1>1, <1>4 DEF WrapperInv, Late, Live
<1>9. HeardLast'
  BY <1>2, <1>3, <1>4, <1>5 DEF WrapperInv, HeardLast
<1> QED
  BY <1>6, <1>7, <1>8, <1>9 DEF WrapperInv

(***************************************************************************)
(* The steps                                                               *)
(***************************************************************************)
\* The call in hand, as every step of it finds it.
LEMMA TheCall ==
    ASSUME WrapperInv, stage # "idle"
    PROVE  /\ Live(call) /\ call.id = Len(ended) + 1 /\ ~Stopped
           /\ killed \in BOOLEAN
BY NotStopped DEF WrapperInv, InHand

LEMMA KillStep ==
    ASSUME WrapperInv, Kill
    PROVE  WrapperInv'
<1>1. UNCHANGED <<plan, stage, call, late, ended>> /\ killed' = TRUE
  BY DEF Kill
<1>2. Planned' = Planned
  BY <1>1 DEF Planned
<1>3. \A c : Live(c) => Live(c)'
  BY <1>1, <1>2 DEF Live
<1>4. InHand'
  <2>1. ASSUME stage # "idle" PROVE Live(call)'
    BY <1>1, <1>2, <2>1 DEF WrapperInv, InHand, Live
  <2> QED
    BY <1>1, <2>1 DEF WrapperInv, InHand
<1>5. Past'
  BY <1>1, <1>2 DEF WrapperInv, Past, Summaries
<1>6. Late'
  BY <1>1, <1>3 DEF WrapperInv, Late
<1>7. HeardLast'
  BY <1>1 DEF WrapperInv, HeardLast
<1> QED
  BY <1>1, <1>4, <1>5, <1>6, <1>7 DEF WrapperInv

LEMMA BeginStep ==
    ASSUME WrapperInv, Begin
    PROVE  WrapperInv'
<1>1. ~Stopped /\ UNCHANGED <<plan, killed, late>>
  BY DEF Begin
<1>2. Len(ended) \in Nat /\ killed \in BOOLEAN
  BY DEF WrapperInv, Past
<1>3. PICK f : /\ f = plan[Len(ended) + 1]
               /\ \E a \in Answers[f], odd \in BOOLEAN : Guard(NewCall(f, a, odd))
  BY DEF Begin
<1>4. PICK a \in Answers[f], odd \in BOOLEAN : Guard(NewCall(f, a, odd))
  BY <1>3
<1>5. f \in Planned
  BY <1>2, <1>3 DEF Planned
<1>6. PICK c : c = NewCall(f, a, odd)
  OBVIOUS
<1>7. /\ CallSound(c) /\ c.id = Len(ended) + 1 /\ c.flavour = f
      /\ c.killed = killed
  BY <1>2, <1>6, NewCallSound
<1>8. CASE How(f).guarded /\ killed
  <2>1. PICK d : d = [c EXCEPT !.raised = TRUE, !.heard = TRUE]
    OBVIOUS
  <2>2. Over(d)
    BY <1>4, <1>6, <1>7, <1>8, <2>1 DEF Guard
  <2>3. ~c.paid
    BY <1>6 DEF NewCall
  <2>4. /\ d.flavour = f /\ ~d.paid /\ d.raised /\ d.heard /\ d.reports \in {0, 1}
        /\ d.killed \in BOOLEAN /\ d.paid \in BOOLEAN /\ d.letgo \in BOOLEAN
        /\ d.raised \in BOOLEAN /\ d.heard \in BOOLEAN
    BY <1>7, <2>1, <2>3 DEF CallSound, IsCall, Fields, Flags
  <2>5. Summary(d) \in Summaries /\ SummarySound(Summary(d))
    BY <1>5, <2>4 DEF Summary, Summaries, SummarySound
  <2> QED
    BY <1>1, <2>2, <2>5, Ends
<1>9. CASE ~(How(f).guarded /\ killed)
  <2>1. stage' = "cleared" /\ call' = c /\ UNCHANGED ended
    BY <1>4, <1>6, <1>7, <1>9 DEF Guard
  <2>2. Live(c)
    BY <1>5, <1>7, <1>9 DEF Live
  <2> QED
    BY <1>1, <1>7, <2>1, <2>2, GoesOn
<1> QED
  BY <1>8, <1>9

LEMMA PlainSteps ==
    ASSUME WrapperInv, ProviderFails \/ AnswerWhole
    PROVE  WrapperInv'
<1>1. stage # "idle" /\ UNCHANGED <<plan, killed, late>>
  BY DEF ProviderFails, AnswerWhole, InUse
<1>2. Live(call) /\ call.id = Len(ended) + 1 /\ ~Stopped /\ killed \in BOOLEAN
  BY <1>1, TheCall
<1>3. CASE ProviderFails
  <2>1. Over(call)
    BY <1>3 DEF ProviderFails
  <2>2. PICK d : d = call
    OBVIOUS
  <2> QED
    BY <1>1, <1>2, <2>1, <2>2, SummaryOf, Ends
<1>4. CASE AnswerWhole
  <2>1. PICK c : c = [call EXCEPT !.paid = TRUE, !.flushed = TRUE]
    OBVIOUS
  <2>2. Live(c) /\ c.flushed
    BY <1>2, <2>1 DEF Live, CallSound, IsCall, Fields, Flags
  <2>3. CASE Over(c)
    BY <1>1, <1>2, <2>2, <2>3, SummaryOf, Ends
  <2>4. ASSUME NEW raises \in Verdicts,
               Over([c EXCEPT !.reports = 1, !.raised = raises, !.heard = raises])
        PROVE  WrapperInv'
    <3>1. PICK d : d = [c EXCEPT !.reports = 1, !.raised = raises, !.heard = raises]
      OBVIOUS
    <3>2. raises \in BOOLEAN /\ (killed => raises)
      BY DEF Verdicts
    <3>3. Live(d)
      BY <2>2, <3>1, <3>2 DEF Live, CallSound, IsCall, Fields, Flags
    <3> QED
      BY <1>1, <1>2, <2>4, <3>1, <3>3, SummaryOf, Ends
  <2> QED
    BY <1>4, <2>1, <2>3, <2>4 DEF AnswerWhole
<1> QED
  BY <1>3, <1>4

\* Steps that leave the record, the flag and the halt of a call alone.
LEMMA ReadingSteps ==
    ASSUME WrapperInv, OpenStream \/ Enter \/ Loop \/ ReadPiece \/ ReadPastProxy
    PROVE  WrapperInv'
<1>1. /\ stage # "idle" /\ stage' # "idle"
      /\ UNCHANGED <<plan, killed, late, ended>>
  BY DEF OpenStream, Enter, Loop, ReadPiece, ReadPastProxy, InUse
<1>2. Live(call) /\ call.id = Len(ended) + 1 /\ ~Stopped
  BY <1>1, TheCall
<1>3. Live(call') /\ call'.id = call.id
  <2>1. CASE OpenStream
    <3>1. PICK w, v : call' = [call EXCEPT !.paid = TRUE, !.wire = w, !.within = v]
      BY <2>1 DEF OpenStream
    <3> QED
      BY <1>2, <3>1 DEF Live, CallSound, IsCall, Fields, Flags
  <2>2. CASE Enter
    BY <1>2, <2>2 DEF Enter, Live, CallSound, IsCall, Fields, Flags
  <2>3. CASE Loop
    BY <1>2, <2>3 DEF Loop, Live, CallSound, IsCall, Fields, Flags
  <2>4. CASE ReadPiece
    <3>1. PICK w, o : call' = [call EXCEPT !.wire = w, !.acc = o]
      BY <2>4 DEF ReadPiece
    <3> QED
      BY <1>2, <3>1 DEF Live, CallSound, IsCall, Fields, Flags
  <2>5. CASE ReadPastProxy
    BY <1>2, <2>5 DEF ReadPastProxy, Live, CallSound, IsCall, Fields, Flags
  <2> QED
    BY <2>1, <2>2, <2>3, <2>4, <2>5
<1>4. PICK d : d = call'
  OBVIOUS
<1> QED
  BY <1>1, <1>2, <1>3, <1>4, GoesOn

\* Steps that may finalise a stream the application keeps.
LEMMA KeepsStep ==
    ASSUME WrapperInv, stage # "idle", UNCHANGED <<plan, killed, late>>,
           NEW c, NEW heard \in BOOLEAN, Live(c), c.id = call.id,
           heard \/ c.flushed \/ c.letgo,
           Finalize(c, heard, Keep) \/ Keep(c)
    PROVE  WrapperInv'
<1>1. call.id = Len(ended) + 1 /\ ~Stopped /\ killed \in BOOLEAN
  BY TheCall
<1>2. PICK d : Keep(d) /\ (d = c \/ Outcome(c, d, heard))
  BY <1>1, FinalizeKeep
<1>3. Live(d) /\ d.id = c.id
  BY <1>1, <1>2, OutcomeSound
<1>4. stage' # "idle" /\ call' = d /\ UNCHANGED ended
  BY <1>2 DEF Keep
<1> QED
  BY <1>1, <1>3, <1>4, GoesOn

LEMMA StreamSteps ==
    ASSUME WrapperInv, LoopEnds \/ LeaveLoop \/ CloseStream \/ Exit \/ CloseLeftLoop
    PROVE  WrapperInv'
<1>1. stage # "idle" /\ UNCHANGED <<plan, killed, late>>
  BY DEF LoopEnds, LeaveLoop, CloseStream, Exit, CloseLeftLoop, InUse
<1>2. Live(call)
  BY <1>1, TheCall
<1>3. CASE LoopEnds
  <2>1. PICK c : c = [call EXCEPT !.cut = TRUE]
    OBVIOUS
  <2>2. Live(c) /\ c.id = call.id
    BY <1>2, <2>1 DEF Live, CallSound, IsCall, Fields, Flags
  <2>3. Finalize(c, TRUE, Keep) \/ Keep(c)
    BY <1>3, <2>1 DEF LoopEnds
  <2> QED
    BY <1>1, <2>2, <2>3, KeepsStep
<1>4. CASE LeaveLoop
  <2>1. PICK c : c = [call EXCEPT !.letgo = call.letgo \/ ~call.flushed]
    OBVIOUS
  <2>2. Live(c) /\ c.id = call.id /\ (c.flushed \/ c.letgo) /\ IsCall(c)
    BY <1>2, <2>1 DEF Live, CallSound, IsCall, Fields, Flags
  <2>3. PICK e : e = [c EXCEPT !.dangling = TRUE]
    OBVIOUS
  <2>4. Live(e) /\ e.id = call.id /\ (e.flushed \/ e.letgo)
    BY <2>2, <2>3 DEF Live, CallSound, IsCall, Fields, Flags
  <2>5. Keep(call) \/ Keep(e) \/ Finalize(c, FALSE, Keep)
    BY <1>4, <2>1, <2>3 DEF LeaveLoop
  <2>6. CASE Keep(call)
    BY <1>1, <1>2, <2>6, KeepsStep
  <2>7. CASE Keep(e)
    BY <1>1, <2>4, <2>7, KeepsStep
  <2>8. CASE Finalize(c, FALSE, Keep)
    BY <1>1, <2>2, <2>8, KeepsStep
  <2> QED
    BY <2>5, <2>6, <2>7, <2>8
<1>5. CASE CloseStream
  <2>1. PICK c : c = [call EXCEPT !.cut = TRUE]
    OBVIOUS
  <2>2. Live(c) /\ c.id = call.id
    BY <1>2, <2>1 DEF Live, CallSound, IsCall, Fields, Flags
  <2>3. Finalize(c, TRUE, Keep)
    BY <1>5, <2>1 DEF CloseStream
  <2> QED
    BY <1>1, <2>2, <2>3, KeepsStep
<1>6. CASE Exit
  <2>1. PICK c : c = [call EXCEPT !.within = FALSE, !.cut = TRUE]
    OBVIOUS
  <2>2. Live(c) /\ c.id = call.id
    BY <1>2, <2>1 DEF Live, CallSound, IsCall, Fields, Flags
  <2>3. Finalize(c, TRUE, Keep)
    BY <1>6, <2>1 DEF Exit
  <2> QED
    BY <1>1, <2>2, <2>3, KeepsStep
<1>7. CASE CloseLeftLoop
  <2>1. PICK c : c = [call EXCEPT !.dangling = FALSE]
    OBVIOUS
  <2>2. Live(c) /\ c.id = call.id /\ (c.flushed \/ c.letgo)
    BY <1>2, <1>7, <2>1 DEF CloseLeftLoop, Live, CallSound, IsCall, Fields, Flags
  <2>3. Finalize(c, FALSE, Keep)
    BY <1>7, <2>1 DEF CloseLeftLoop
  <2> QED
    BY <1>1, <2>2, <2>3, KeepsStep
<1> QED
  BY <1>3, <1>4, <1>5, <1>6, <1>7

LEMMA ForgetStep ==
    ASSUME WrapperInv, Forget
    PROVE  WrapperInv'
<1>1. stage # "idle" /\ UNCHANGED <<plan, killed>>
  BY DEF Forget, InUse
<1>2. Live(call) /\ call.id = Len(ended) + 1 /\ ~Stopped /\ killed \in BOOLEAN
  BY <1>1, TheCall
<1>3. PICK c : c = [call EXCEPT !.letgo = call.letgo \/ ~call.flushed]
  OBVIOUS
<1>4. Live(c) /\ c.id = call.id /\ (c.flushed \/ c.letgo)
  BY <1>2, <1>3 DEF Live, CallSound, IsCall, Fields, Flags
<1>5. \/ c.dangling /\ Over(c) /\ late' = late \cup {c}
      \/ (Over(c) \/ Finalize(c, FALSE, Over)) /\ late' = late
  BY <1>3 DEF Forget
<1>6. CASE c.dangling /\ Over(c) /\ late' = late \cup {c}
  BY <1>1, <1>2, <1>4, <1>6, SummaryOf, Ends
<1>7. CASE (Over(c) \/ Finalize(c, FALSE, Over)) /\ late' = late
  <2>1. PICK d : Over(d) /\ (d = c \/ Outcome(c, d, FALSE))
    BY <1>2, <1>7, FinalizeOver
  <2>2. Live(d)
    BY <1>2, <1>4, <2>1, OutcomeSound
  <2> QED
    BY <1>1, <1>2, <1>7, <2>1, <2>2, SummaryOf, Ends
<1> QED
  BY <1>5, <1>6, <1>7

LEMMA CloseLateLoopStep ==
    ASSUME WrapperInv, CloseLateLoop
    PROVE  WrapperInv'
<1>1. PICK c \in late : late' = late \ {c} /\ Finalize(c, FALSE, Retold)
  BY DEF CloseLateLoop
<1>2. Live(c) /\ (c.flushed \/ c.letgo) /\ killed \in BOOLEAN
  BY DEF WrapperInv, Late, Live, CallSound
<1>3. PICK d : Outcome(c, d, FALSE) /\ Retold(d)
  BY <1>1, <1>2, FinalizeRetold
<1>4. Live(d) /\ d.id = c.id /\ d.heard = c.heard
  BY <1>2, <1>3, OutcomeSound
<1>5. UNCHANGED <<plan, killed>>
  BY DEF CloseLateLoop
<1> QED
  BY <1>1, <1>3, <1>4, <1>5, SeenTo

LEMMA WrapperInvariant == Spec => []WrapperInv
<1>1. Init => WrapperInv
  <2> SUFFICES ASSUME Init PROVE WrapperInv
    OBVIOUS
  <2>1. ended = <<>> /\ late = {} /\ killed = FALSE /\ stage = "idle" /\ call = NoCall
    BY DEF Init
  <2>2. ended \in Seq(Summaries) /\ 1..Len(ended) = {}
    BY <2>1
  <2>3. Late
    BY <2>1 DEF Late
  <2> QED
    BY <2>1, <2>2, <2>3 DEF WrapperInv, InHand, Past, HeardLast
<1>2. WrapperInv /\ [Next]_vars => WrapperInv'
  <2> SUFFICES ASSUME WrapperInv, [Next]_vars PROVE WrapperInv'
    OBVIOUS
  <2>1. CASE UNCHANGED vars
    <3>1. Planned' = Planned /\ UNCHANGED <<plan, killed, stage, call, late, ended>>
      BY <2>1 DEF vars, Planned
    <3> QED
      BY <3>1 DEF WrapperInv, InHand, Past, Late, HeardLast, Live, Summaries
  <2>2. CASE Next
    BY <2>2, KillStep, BeginStep, PlainSteps, ReadingSteps, StreamSteps, ForgetStep,
       CloseLateLoopStep DEF Next
  <2> QED
    BY <2>1, <2>2
<1> QED
  BY <1>1, <1>2, PTL DEF Spec

(***************************************************************************)
(* The theorems                                                            *)
(***************************************************************************)
\* _safe_finalize and every plain wrapper: whatever the reader of a stream
\* does with it, a call is recorded at most once.
THEOREM RecordedOnce == Spec => []CountedOnce
<1>1. WrapperInv => CountedOnce
  <2> SUFFICES ASSUME WrapperInv PROVE CountedOnce
    OBVIOUS
  <2>1. ASSUME call # NoCall PROVE call.reports <= 1
    <3>1. call.reports \in {0, 1}
      BY <2>1 DEF WrapperInv, InHand, Live, CallSound, IsCall
    <3> QED
      BY <3>1
  <2>2. ASSUME NEW i \in DOMAIN ended PROVE ended[i].reports <= 1
    <3>1. ended[i] \in Summaries
      BY <2>2 DEF WrapperInv, Past
    <3> QED
      BY <3>1 DEF Summaries
  <2> QED
    BY <2>1, <2>2 DEF CountedOnce
<1> QED
  BY <1>1, WrapperInvariant, PTL

\* finalize's re-raise of LeakDetected, and where it is suppressed: a halt
\* reaches the application unless it let its stream go before the record.
THEOREM HaltsAreHeard == Spec => []HaltIsHeard
<1>1. WrapperInv => HaltIsHeard
  BY DEF WrapperInv, InHand, Live, CallSound, Past, SummarySound, HaltIsHeard
<1> QED
  BY <1>1, WrapperInvariant, PTL

\* guard_before_call and record_call under the kill switch: no call with a
\* preflight is paid for, and of those without one only the first, whose
\* record stops the application.
THEOREM KillStopsSpending == Spec => []KillBoundsSpending
<1>1. WrapperInv => KillBoundsSpending
  <2> SUFFICES ASSUME WrapperInv PROVE KillBoundsSpending
    OBVIOUS
  <2> DEFINE n == Len(ended)
             paid == {i \in DOMAIN ended : ended[i].killed /\ ended[i].paid}
             used == {i \in paid : ended[i].reports = 1 /\ ~ended[i].letgo}
  <2>1. /\ ended \in Seq(Summaries) /\ DOMAIN ended = 1..n /\ n \in Nat
        /\ \A i \in 1..n : SummarySound(ended[i])
    BY DEF WrapperInv, Past
  <2>2. \A i \in paid : ~ended[i].guarded
    BY <2>1 DEF SummarySound
  <2>3. ASSUME NEW i \in used PROVE i = n
    <3>1. ended[i].heard
      BY <2>1, <2>3 DEF SummarySound
    <3> QED
      BY <2>1, <2>3, <3>1 DEF WrapperInv, HeardLast
  <2>4. used \in SUBSET {n}
    BY <2>3
  <2>5. Cardinality(used) <= 1
    <3>1. IsFiniteSet({n}) /\ Cardinality({n}) = 1
      BY FS_Singleton
    <3> QED
      BY <2>4, <3>1, FS_Subset
  <2> QED
    BY <2>2, <2>5 DEF KillBoundsSpending
<1> QED
  BY <1>1, WrapperInvariant, PTL

(***************************************************************************)
(* What a call is charged at                                               *)
(***************************************************************************)
\* A set of natural numbers has a first one.
LEMMA LeastNumber ==
    ASSUME NEW S \in SUBSET Nat, S # {}
    PROVE  \E i \in S : \A j \in S : i <= j
<1> DEFINE R == OpToRel(<, Nat)
<1>1. \A x, y \in Nat : <<x, y>> \in R <=> x < y
  BY DEF OpToRel
<1>2. IsWellFoundedOn(R, Nat)
  BY NatLessThanWellFounded
<1> HIDE DEF R
<1>3. PICK i \in S : \A j \in S : ~(<<j, i>> \in R)
  BY <1>2, WFMin
<1>4. ASSUME NEW j \in S PROVE i <= j
  <2>1. i \in Nat /\ j \in Nat /\ ~(j < i)
    BY <1>1, <1>3, <1>4
  <2> QED
    BY <2>1
<1> QED
  BY <1>4

\* A model is priced by an entry of the table or by none.
Priced(rate) == rate = NoRate \/ (rate \in Prices /\ Sane(rate))

\* The longest key there is that a name starts with: the keys are no longer
\* than the name.
LEMMA LookedUp ==
    ASSUME NEW model, Len(model.name) \in Nat
    PROVE  Priced(LookupRate(model))
<1> DEFINE keys == Candidates(model.name)
           spare(k) == Len(model.name) - Len(k)
<1>1. CASE NormalizedPath(model.path) # <<>> \/ keys = {}
  BY <1>1 DEF LookupRate, Priced
<1>2. CASE NormalizedPath(model.path) = <<>> /\ keys # {}
  <2>1. \A k \in keys : k \in DOMAIN Rates /\ Len(k) \in Nat /\ Len(k) <= Len(model.name)
    BY RatesAssumption DEF Candidates, IsPrefix
  <2> HIDE DEF keys
  <2>2. \A k \in keys : spare(k) \in Nat
    BY <2>1
  <2>3. PICK i \in {spare(k) : k \in keys} : \A j \in {spare(k) : k \in keys} : i <= j
    <3>1. {spare(k) : k \in keys} \in SUBSET Nat /\ {spare(k) : k \in keys} # {}
      BY <1>2, <2>2
    <3> QED
      BY <3>1, LeastNumber
  <2>4. PICK longest \in keys : spare(longest) = i
    BY <2>3
  <2>5. ASSUME NEW other \in keys PROVE Len(other) <= Len(longest)
    <3>1. spare(longest) <= spare(other)
      BY <2>3, <2>4
    <3> QED
      BY <2>1, <3>1
  <2> DEFINE chosen == CHOOSE k \in keys : \A other \in keys : Len(other) <= Len(k)
  <2>6. chosen \in keys
    BY <2>5
  <2>7. LookupRate(model) = Rates[chosen]
    BY <1>2 DEF LookupRate, keys
  <2> HIDE DEF chosen
  <2> QED
    BY <2>1, <2>6, <2>7, RatesAssumption DEF Priced
<1> QED
  BY <1>1, <1>2

LEMMA Products ==
    ASSUME NEW a \in Nat, NEW b \in Nat, NEW m \in Nat, a <= b
    PROVE  /\ a * m \in Nat /\ b * m \in Nat /\ a * m <= b * m
           /\ m * a \in Nat /\ m * b \in Nat /\ m * a <= m * b
<1>1. PICK d \in Nat : b = a + d
  <2>1. b - a \in Nat /\ b = a + (b - a)
    OBVIOUS
  <2> QED
    BY <2>1
<1>2. a * m \in Nat /\ d * m \in Nat
  OBVIOUS
<1>3. b * m = a * m + d * m
  BY <1>1
<1>4. m * a = a * m /\ m * b = b * m
  OBVIOUS
<1> QED
  BY <1>2, <1>3, <1>4

LEMMA Differences ==
    ASSUME NEW i \in Nat, NEW p \in Nat, NEW m \in Nat, m <= p
    PROVE  i * (p - m) = i * p - i * m /\ i * p \in Nat /\ i * m \in Nat
<1>1. PICK d \in Nat : p = m + d
  <2>1. p - m \in Nat /\ p = m + (p - m)
    OBVIOUS
  <2> QED
    BY <2>1
<1>2. i * m \in Nat /\ i * d \in Nat /\ i * p \in Nat
  OBVIOUS
<1>3. i * p = i * m + i * d
  BY <1>1
<1>4. p - m = d
  BY <1>1
<1> QED
  BY <1>2, <1>3, <1>4

LEMMA ClampIs ==
    ASSUME NEW p \in Int
    PROVE  Clamp(p) \in Nat /\ \A q \in Int : p <= q => Clamp(p) <= Clamp(q)
BY DEF Clamp

LEMMA CacheReadIs ==
    ASSUME NEW p \in Int, NEW k \in Int
    PROVE  CacheRead(p, k) \in Nat /\ CacheRead(p, k) <= Clamp(p)
BY ClampIs DEF CacheRead

LEMMA RatesAre ==
    ASSUME NEW rate \in Prices, Sane(rate)
    PROVE  /\ rate.input \in Nat /\ rate.output \in Nat
           /\ 10 * rate.input \in Nat /\ 10 * rate.output \in Nat
           /\ CacheReadRate(rate) \in Nat /\ CacheReadRate(rate) <= 10 * rate.input
BY DEF Prices, Sane, CacheReadRate

\* estimate_call_usd: what was read from a prompt cache leaves the input it was
\* part of, so that a hit of any size, even one larger than the prompt or a
\* negative one, costs no more than none.
THEOREM CacheReadIsNeverDearer ==
    ASSUME NEW model, Len(model.name) \in Nat,
           NEW prompt \in Int, NEW completion \in Int, NEW cached \in Int
    PROVE  EstimateUsd(LookupRate(model), prompt, completion, cached)
               <= EstimateUsd(LookupRate(model), prompt, completion, 0)
<1> DEFINE rate == LookupRate(model)
           p == Clamp(prompt)
           m == CacheRead(prompt, cached)
<1>1. p \in Nat /\ Clamp(completion) \in Nat /\ m \in Nat /\ m <= p
  BY ClampIs, CacheReadIs
<1>2. CacheRead(prompt, 0) = 0
  BY ClampIs DEF CacheRead, Clamp
<1>3. Priced(rate)
  BY LookedUp
<1> HIDE DEF rate, p, m
<1>4. CASE rate = NoRate
  <2>1. PICK b \in Nat : b = 10 * FallbackRate * (Clamp(prompt) + Clamp(completion))
    <3>1. 10 * FallbackRate \in Nat /\ Clamp(prompt) + Clamp(completion) \in Nat
      BY <1>1, RatesAssumption DEF p
    <3> QED
      BY <3>1, Products
  <2>2. /\ EstimateUsd(rate, prompt, completion, cached) = b
        /\ EstimateUsd(rate, prompt, completion, 0) = b
    BY <1>4, <2>1 DEF EstimateUsd
  <2> QED
    BY <2>2 DEF rate
<1>5. CASE rate # NoRate
  <2>1. PICK i \in Nat, o \in Nat, c \in Nat :
           /\ i = 10 * rate.input /\ o = 10 * rate.output /\ c = CacheReadRate(rate)
           /\ c <= i
    BY <1>3, <1>5, RatesAre DEF Priced
  <2>2. PICK w \in Nat : w = o * Clamp(completion)
    BY <1>1, <2>1
  <2>3. EstimateUsd(rate, prompt, completion, cached) = i * (p - m) + c * m + w
    BY <1>5, <2>1, <2>2 DEF EstimateUsd, p, m
  <2>4. EstimateUsd(rate, prompt, completion, 0) = i * (p - 0) + c * 0 + w
    BY <1>2, <1>5, <2>1, <2>2 DEF EstimateUsd, p
  <2>5. i * (p - m) = i * p - i * m /\ i * (p - 0) = i * p /\ c * 0 = 0
    <3>1. i * (p - m) = i * p - i * m
      BY <1>1, <2>1, Differences
    <3>2. p - 0 = p
      BY <1>1
    <3>3. c * 0 = 0
      BY <2>1
    <3> QED
      BY <3>1, <3>2, <3>3
  <2>6. i * p \in Nat /\ i * m \in Nat /\ c * m \in Nat /\ c * m <= i * m
    <3>1. i * p \in Nat /\ i * m \in Nat
      BY <1>1, <2>1, Differences
    <3>2. c * m \in Nat /\ c * m <= i * m
      BY <1>1, <2>1, Products
    <3> QED
      BY <3>1, <3>2
  <2>7. i * p - i * m + c * m + w <= i * p + w
    BY <2>2, <2>6
  <2> QED
    BY <2>2, <2>3, <2>4, <2>5, <2>6, <2>7 DEF rate
<1> QED
  BY <1>4, <1>5

\* estimate_call_usd: a call that uses no fewer tokens of either kind costs no
\* less, with the same number of them read from a cache.
THEOREM MoreTokensCostNoLess ==
    ASSUME NEW model, Len(model.name) \in Nat, NEW cached \in Int,
           NEW prompt \in Int, NEW completion \in Int,
           NEW prompt2 \in Int, NEW completion2 \in Int,
           prompt <= prompt2, completion <= completion2
    PROVE  EstimateUsd(LookupRate(model), prompt, completion, cached)
               <= EstimateUsd(LookupRate(model), prompt2, completion2, cached)
<1>1. PICK rate : rate = LookupRate(model)
  OBVIOUS
<1>2. Priced(rate)
  BY <1>1, LookedUp
<1>3. PICK p \in Nat, q \in Nat, a \in Nat, b \in Nat :
         /\ p = Clamp(prompt) /\ q = Clamp(prompt2)
         /\ a = Clamp(completion) /\ b = Clamp(completion2)
         /\ p <= q /\ a <= b
  BY ClampIs
<1>4. PICK m \in Nat, n \in Nat :
         /\ m = CacheRead(prompt, cached) /\ n = CacheRead(prompt2, cached)
         /\ m <= p /\ n <= q
  BY <1>3, CacheReadIs
<1>5. m <= n /\ p - m <= q - n /\ p - m \in Nat /\ q - n \in Nat
  <2>1. PICK k \in Nat : k = Clamp(cached)
    BY ClampIs
  <2>2. p <= q /\ m <= p /\ n <= q
    BY <1>3, <1>4
  <2>3. m = (IF k < p THEN k ELSE p) /\ n = (IF k < q THEN k ELSE q)
    BY <1>3, <1>4, <2>1 DEF CacheRead
  <2>4. CASE k < p
    BY <2>2, <2>3, <2>4
  <2>5. CASE ~(k < p)
    BY <2>2, <2>3, <2>5
  <2> QED
    BY <2>4, <2>5
<1>6. CASE rate = NoRate
  <2>1. PICK f \in Nat : f = 10 * FallbackRate
    <3>1. 10 * FallbackRate \in Nat
      BY RatesAssumption
    <3> QED
      BY <3>1
  <2>2. EstimateUsd(rate, prompt, completion, cached) = f * (p + a)
    BY <1>3, <1>6, <2>1 DEF EstimateUsd
  <2>3. EstimateUsd(rate, prompt2, completion2, cached) = f * (q + b)
    BY <1>3, <1>6, <2>1 DEF EstimateUsd
  <2>4. p + a \in Nat /\ q + b \in Nat /\ p + a <= q + b
    BY <1>3
  <2>5. f * (p + a) <= f * (q + b)
    BY <2>1, <2>4, Products
  <2> QED
    BY <1>1, <2>2, <2>3, <2>5
<1>7. CASE rate # NoRate
  <2>1. PICK i \in Nat, o \in Nat, c \in Nat :
           i = 10 * rate.input /\ o = 10 * rate.output /\ c = CacheReadRate(rate)
    BY <1>2, <1>7, RatesAre DEF Priced
  <2>2. EstimateUsd(rate, prompt, completion, cached) = i * (p - m) + c * m + o * a
    BY <1>3, <1>4, <1>7, <2>1 DEF EstimateUsd
  <2>3. EstimateUsd(rate, prompt2, completion2, cached) = i * (q - n) + c * n + o * b
    BY <1>3, <1>4, <1>7, <2>1 DEF EstimateUsd
  <2>4. i * (p - m) \in Nat /\ i * (q - n) \in Nat /\ i * (p - m) <= i * (q - n)
    <3>1. PICK x \in Nat, y \in Nat : x = p - m /\ y = q - n /\ x <= y
      BY <1>5
    <3>2. i * x \in Nat /\ i * y \in Nat /\ i * x <= i * y
      BY <3>1, Products
    <3> QED
      BY <3>1, <3>2
  <2>5. c * m \in Nat /\ c * n \in Nat /\ c * m <= c * n
    BY <1>5, Products
  <2>6. o * a \in Nat /\ o * b \in Nat /\ o * a <= o * b
    BY <1>3, Products
  <2> QED
    BY <1>1, <2>2, <2>3, <2>4, <2>5, <2>6
<1> QED
  BY <1>6, <1>7

(***************************************************************************)
(* Counting positions                                                      *)
(***************************************************************************)
\* The positions up to the next one are as many, or one more.
LEMMA CountUp ==
    ASSUME NEW S, NEW n \in Nat
    PROVE  /\ Cardinality(S \cap (1..n)) \in Nat
           /\ Cardinality(S \cap (1..n)) <= n
           /\ Cardinality(S \cap (1..(n + 1)))
                  = Cardinality(S \cap (1..n)) + IF n + 1 \in S THEN 1 ELSE 0
<1>1. IsFiniteSet(1..n) /\ Cardinality(1..n) = n
  BY FS_Interval
<1>2. /\ IsFiniteSet(S \cap (1..n)) /\ Cardinality(S \cap (1..n)) \in Nat
      /\ Cardinality(S \cap (1..n)) <= n
  <2>1. S \cap (1..n) \in SUBSET (1..n)
    OBVIOUS
  <2>2. IsFiniteSet(S \cap (1..n)) /\ Cardinality(S \cap (1..n)) <= Cardinality(1..n)
    BY <1>1, <2>1, FS_Subset
  <2> QED
    BY <1>1, <2>2, FS_CardinalityType
<1>3. 1..(n + 1) = (1..n) \cup {n + 1} /\ n + 1 \notin 1..n
  OBVIOUS
<1>4. CASE n + 1 \in S
  <2>1. S \cap (1..(n + 1)) = (S \cap (1..n)) \cup {n + 1} /\ n + 1 \notin S \cap (1..n)
    BY <1>3, <1>4
  <2>2. Cardinality((S \cap (1..n)) \cup {n + 1}) = Cardinality(S \cap (1..n)) + 1
    BY <1>2, <2>1, FS_AddElement
  <2> QED
    BY <1>2, <1>4, <2>1, <2>2
<1>5. CASE n + 1 \notin S
  <2>1. S \cap (1..(n + 1)) = S \cap (1..n)
    BY <1>3, <1>5
  <2> QED
    BY <1>2, <1>5, <2>1
<1> QED
  BY <1>2, <1>4, <1>5

(***************************************************************************)
(* Positions in their order                                                *)
(***************************************************************************)
UpTo(S, k) == {j \in S : j <= k}

\* The later of two positions has more up to it, and the i-th has i.
LEMMA Ranks ==
    ASSUME NEW S \in SUBSET Nat, IsFiniteSet(S)
    PROVE  /\ \A k \in S : Cardinality(UpTo(S, k)) \in 1..Cardinality(S)
           /\ \A k, l \in S : k < l => Cardinality(UpTo(S, k)) < Cardinality(UpTo(S, l))
           /\ \A i \in 1..Cardinality(S) : \E k \in S : Cardinality(UpTo(S, k)) = i
<1> DEFINE n == Cardinality(S)
           rank(k) == Cardinality(UpTo(S, k))
<1>1. n \in Nat
  BY FS_CardinalityType
<1>2. ASSUME NEW k \in S
      PROVE  IsFiniteSet(UpTo(S, k)) /\ rank(k) \in 1..n
  <2>1. UpTo(S, k) \in SUBSET S /\ k \in UpTo(S, k)
    BY DEF UpTo
  <2>2. IsFiniteSet(UpTo(S, k)) /\ rank(k) <= n
    BY <2>1, FS_Subset
  <2>3. rank(k) \in Nat /\ rank(k) # 0
    BY <2>1, <2>2, FS_CardinalityType, FS_EmptySet
  <2> QED
    BY <1>1, <2>2, <2>3
<1>3. ASSUME NEW k \in S, NEW l \in S, k < l
      PROVE  rank(k) < rank(l)
  <2>1. UpTo(S, k) \in SUBSET UpTo(S, l) /\ l \in UpTo(S, l) /\ l \notin UpTo(S, k)
    <3>1. \A j \in S : j <= k => j <= l
      BY <1>3
    <3>2. l <= l /\ ~(l <= k)
      BY <1>3
    <3> QED
      BY <3>1, <3>2 DEF UpTo
  <2>2. rank(k) <= rank(l) /\ rank(k) # rank(l)
    BY <1>2, <2>1, FS_Subset
  <2> QED
    BY <1>1, <1>2, <2>2
<1>4. ASSUME NEW i \in 1..n
      PROVE  \E k \in S : rank(k) = i
  <2> DEFINE f == [k \in S |-> rank(k)]
  <2>1. f \in [S -> 1..n]
    BY <1>2
  <2>2. ASSUME NEW k \in S, NEW l \in S, f[k] = f[l] PROVE k = l
    <3>1. rank(k) = rank(l) /\ rank(k) \in Nat
      BY <1>2, <2>2
    <3>2. k \in Nat /\ l \in Nat /\ ~(k < l) /\ ~(l < k)
      BY <1>3, <3>1
    <3> QED
      BY <3>2
  <2>3. f \in Injection(S, 1..n)
    BY <2>1, <2>2 DEF Injection, IsInjective
  <2>4. IsFiniteSet(1..n) /\ Cardinality(1..n) = n
    BY <1>1, FS_Interval
  <2> HIDE DEF f
  <2>5. f \in Surjection(S, 1..n)
    BY <2>3, <2>4, FS_Injection
  <2>6. \E k \in S : f[k] = i
    BY <2>5 DEF Surjection
  <2> QED
    BY <2>6 DEF f
<1> QED
  BY <1>2, <1>3, <1>4

\* Ascending has at i the only position that is the i-th.
LEMMA AscendingIs ==
    ASSUME NEW S \in SUBSET Nat, IsFiniteSet(S)
    PROVE  /\ Cardinality(S) \in Nat
           /\ DOMAIN Ascending(S) = 1..Cardinality(S)
           /\ Ascending(S) = [i \in 1..Cardinality(S) |-> Ascending(S)[i]]
           /\ \A i \in 1..Cardinality(S) :
                 Ascending(S)[i] \in S /\ Cardinality(UpTo(S, Ascending(S)[i])) = i
           /\ \A k \in S : Ascending(S)[Cardinality(UpTo(S, k))] = k
<1>1. Cardinality(S) \in Nat
  BY FS_CardinalityType
<1>2. DOMAIN Ascending(S) = 1..Cardinality(S)
  BY DEF Ascending
<1>3. ASSUME NEW i \in 1..Cardinality(S)
      PROVE  Ascending(S)[i] \in S /\ Cardinality(UpTo(S, Ascending(S)[i])) = i
  <2>1. Ascending(S)[i] = CHOOSE k \in S : Cardinality(UpTo(S, k)) = i
    BY DEF Ascending, UpTo
  <2>2. \E k \in S : Cardinality(UpTo(S, k)) = i
    BY Ranks
  <2> QED
    BY <2>1, <2>2
<1>4. ASSUME NEW k \in S
      PROVE  Ascending(S)[Cardinality(UpTo(S, k))] = k
  <2>1. PICK i \in 1..Cardinality(S) : i = Cardinality(UpTo(S, k))
    BY Ranks
  <2>2. PICK l \in S : l = Ascending(S)[i] /\ Cardinality(UpTo(S, l)) = i
    BY <1>3
  <2>3. ~(k < l) /\ ~(l < k)
    BY <2>1, <2>2, Ranks
  <2> QED
    BY <2>1, <2>2, <2>3
<1>5. Ascending(S) = [i \in 1..Cardinality(S) |-> Ascending(S)[i]]
  BY DEF Ascending
<1> QED
  BY <1>1, <1>2, <1>3, <1>4, <1>5

\* The numbers of tool calls that are counted from 0.
LEMMA AscendingFromZero ==
    ASSUME NEW m \in Nat
    PROVE  Ascending(0..(m - 1)) = [i \in 1..m |-> i - 1]
<1> DEFINE S == 0..(m - 1)
<1>1. S \in SUBSET Nat /\ IsFiniteSet(S) /\ Cardinality(S) = m
  BY FS_Interval
<1>2. ASSUME NEW i \in 1..m PROVE Ascending(S)[i] = i - 1
  <2>1. UpTo(S, i - 1) = 0..(i - 1) /\ i - 1 \in S
    BY DEF UpTo
  <2>2. Cardinality(UpTo(S, i - 1)) = i
    BY <2>1, FS_Interval
  <2> QED
    BY <1>1, <2>1, <2>2, AscendingIs
<1> HIDE DEF S
<1>3. Ascending(S) = [i \in 1..m |-> Ascending(S)[i]]
  BY <1>1, AscendingIs
<1> QED
  BY <1>2, <1>3 DEF S

\* A later position comes last.
LEMMA AscendingLater ==
    ASSUME NEW S \in SUBSET Nat, IsFiniteSet(S), NEW m \in Nat, \A k \in S : k < m
    PROVE  /\ IsFiniteSet(S \cup {m}) /\ Cardinality(S \cup {m}) = Cardinality(S) + 1
           /\ Ascending(S \cup {m})
                  = [i \in 1..(Cardinality(S) + 1) |->
                        IF i <= Cardinality(S) THEN Ascending(S)[i] ELSE m]
<1> DEFINE M == S \cup {m}
           n == Cardinality(S)
<1>1. n \in Nat /\ m \notin S /\ M \in SUBSET Nat
  BY FS_CardinalityType
<1>2. IsFiniteSet(M) /\ Cardinality(M) = n + 1
  BY <1>1, FS_AddElement
<1>3. ASSUME NEW i \in 1..(n + 1)
      PROVE  Ascending(M)[i] = IF i <= n THEN Ascending(S)[i] ELSE m
  <2>1. CASE i <= n
    <3>1. PICK k \in S : k = Ascending(S)[i] /\ Cardinality(UpTo(S, k)) = i
      BY <1>1, <2>1, AscendingIs
    <3>2. UpTo(M, k) = UpTo(S, k) /\ k \in M
      BY DEF UpTo
    <3>3. Cardinality(UpTo(M, k)) = i
      BY <3>1, <3>2
    <3> HIDE DEF M
    <3>4. Ascending(M)[i] = k
      BY <1>1, <1>2, <3>2, <3>3, AscendingIs
    <3> QED
      BY <2>1, <3>1, <3>4
  <2>2. CASE ~(i <= n)
    <3>1. i = n + 1
      BY <1>1, <2>2
    <3>2. UpTo(M, m) = M /\ m \in M
      <4>1. \A j \in M : j <= m
        OBVIOUS
      <4> QED
        BY <4>1 DEF UpTo
    <3> HIDE DEF M
    <3>3. Cardinality(UpTo(M, m)) = i
      BY <1>2, <3>1, <3>2
    <3>4. Ascending(M)[i] = m
      BY <1>1, <1>2, <3>2, <3>3, AscendingIs
    <3> QED
      BY <2>2, <3>4
  <2> QED
    BY <2>1, <2>2
<1> HIDE DEF M
<1>4. Ascending(M) = [i \in 1..(n + 1) |-> Ascending(M)[i]]
  BY <1>1, <1>2, AscendingIs
<1> QED
  BY <1>2, <1>3, <1>4 DEF M

(***************************************************************************)
(* A dictionary's keys                                                     *)
(***************************************************************************)
Firsts(s) == {i \in DOMAIN s : \A j \in 1..i - 1 : s[j] # s[i]}

LEMMA FirstSeenIs ==
    ASSUME NEW X, NEW s \in Seq(X)
    PROVE  /\ Firsts(s) \in SUBSET (1..Len(s)) /\ IsFiniteSet(Firsts(s))
           /\ Cardinality(Firsts(s)) \in Nat
           /\ FirstSeen(s) \in Seq(X) /\ Len(FirstSeen(s)) = Cardinality(Firsts(s))
           /\ FirstSeen(s) = [k \in 1..Cardinality(Firsts(s)) |-> s[Ascending(Firsts(s))[k]]]
           /\ \A x : Contains(FirstSeen(s), x) <=> \E i \in 1..Len(s) : s[i] = x
<1> DEFINE F == Firsts(s)
           n == Cardinality(F)
<1>1. Len(s) \in Nat /\ DOMAIN s = 1..Len(s)
  OBVIOUS
<1>2. F \in SUBSET (1..Len(s)) /\ F \in SUBSET Nat
  BY <1>1 DEF Firsts
<1>3. IsFiniteSet(F)
  <2>1. IsFiniteSet(1..Len(s))
    BY <1>1, FS_Interval
  <2> QED
    BY <1>2, <2>1, FS_Subset
<1>4. FirstSeen(s) = [k \in 1..n |-> s[Ascending(F)[k]]]
  BY DEF FirstSeen, Firsts, Picked
<1>5. /\ n \in Nat /\ DOMAIN Ascending(F) = 1..n
      /\ \A k \in 1..n : Ascending(F)[k] \in F
      /\ \A i \in F : Ascending(F)[Cardinality(UpTo(F, i))] = i
  BY <1>2, <1>3, AscendingIs
<1>6. \A i \in F : Cardinality(UpTo(F, i)) \in 1..n
  BY <1>2, <1>3, Ranks
<1>7. ASSUME NEW i \in 1..Len(s)
      PROVE  \E j \in F : s[j] = s[i]
  <2>1. PICK j \in {h \in 1..Len(s) : s[h] = s[i]} :
           \A h \in {h \in 1..Len(s) : s[h] = s[i]} : j <= h
    <3>1. {h \in 1..Len(s) : s[h] = s[i]} \in SUBSET Nat
      BY <1>1
    <3> QED
      BY <3>1, LeastNumber
  <2>2. ASSUME NEW h \in 1..j - 1 PROVE s[h] # s[j]
    BY <1>1, <2>1
  <2> QED
    BY <1>1, <2>1, <2>2 DEF Firsts
<1> HIDE DEF F
<1>8. FirstSeen(s) = [k \in 1..n |-> s[Ascending(F)[k]]]
  BY <1>4
<1>9. \A k \in 1..n : s[Ascending(F)[k]] \in X
  <2>1. \A i \in 1..Len(s) : s[i] \in X
    OBVIOUS
  <2> QED
    BY <1>2, <1>5, <2>1
<1>10. FirstSeen(s) \in Seq(X) /\ Len(FirstSeen(s)) = n
  <2>1. PICK t : t = FirstSeen(s)
    OBVIOUS
  <2>2. t = [k \in 1..n |-> t[k]] /\ \A k \in 1..n : t[k] \in X
    BY <1>8, <1>9, <2>1
  <2>3. t \in [1..n -> X]
    BY <2>2
  <2> QED
    BY <1>5, <2>1, <2>3
<1>11. ASSUME NEW x
       PROVE  Contains(FirstSeen(s), x) <=> \E i \in 1..Len(s) : s[i] = x
  <2>1. Contains(FirstSeen(s), x) <=> \E k \in 1..n : s[Ascending(F)[k]] = x
    BY <1>8, <1>10 DEF Contains
  <2>2. ASSUME NEW i \in 1..Len(s), s[i] = x
        PROVE  \E k \in 1..n : s[Ascending(F)[k]] = x
    <3>1. PICK j \in F : s[j] = x
      BY <1>7, <2>2
    <3>2. PICK k \in 1..n : k = Cardinality(UpTo(F, j))
      BY <1>6
    <3> QED
      BY <1>5, <3>1, <3>2
  <2> QED
    BY <1>2, <1>5, <2>1, <2>2
<1> QED
  BY <1>2, <1>3, <1>5, <1>8, <1>10, <1>11 DEF F

\* A key that is new comes last, one that is not changes nothing.
LEMMA FirstSeenNext ==
    ASSUME NEW X, NEW s \in Seq(X), NEW x \in X
    PROVE  FirstSeen(Append(s, x)) =
               IF Contains(FirstSeen(s), x) THEN FirstSeen(s)
               ELSE Append(FirstSeen(s), x)
<1>1. PICK n \in Nat : n = Len(s)
  OBVIOUS
<1>2. PICK t \in Seq(X) : t = Append(s, x)
  <2>1. Append(s, x) \in Seq(X)
    OBVIOUS
  <2> QED
    BY <2>1
<1>3. /\ Len(t) = n + 1 /\ t[n + 1] = x /\ \A i \in 1..n : t[i] = s[i]
      /\ DOMAIN t = 1..(n + 1) /\ DOMAIN s = 1..n
  BY <1>1, <1>2
<1>4. Contains(FirstSeen(s), x) <=> \E i \in 1..n : s[i] = x
  BY <1>1, FirstSeenIs
<1>5. \A i \in 1..n : i \in Firsts(t) <=> i \in Firsts(s)
  <2> SUFFICES ASSUME NEW i \in 1..n PROVE i \in Firsts(t) <=> i \in Firsts(s)
    OBVIOUS
  <2>1. \A j \in 1..i - 1 : j \in 1..n
    OBVIOUS
  <2>2. i \in 1..(n + 1)
    OBVIOUS
  <2> QED
    BY <1>3, <2>1, <2>2 DEF Firsts
<1>6. n + 1 \in Firsts(t) <=> ~\E i \in 1..n : s[i] = x
  <2>1. n + 1 \in 1..(n + 1) /\ 1..((n + 1) - 1) = 1..n
    OBVIOUS
  <2>2. n + 1 \in Firsts(t) <=> \A j \in 1..((n + 1) - 1) : t[j] # t[n + 1]
    BY <1>3, <2>1 DEF Firsts
  <2>3. n + 1 \in Firsts(t) <=> \A j \in 1..n : t[j] # t[n + 1]
    BY <2>1, <2>2
  <2> QED
    BY <1>3, <2>3
<1>7. Firsts(s) \in SUBSET (1..n) /\ IsFiniteSet(Firsts(s)) /\ Firsts(t) \in SUBSET (1..(n + 1))
  BY <1>1, <1>3, FirstSeenIs
<1>8. PICK c \in Nat : c = Cardinality(Firsts(s))
  BY FirstSeenIs
<1>9. PICK f : f = FirstSeen(s)
  OBVIOUS
<1>10. f \in Seq(X) /\ Len(f) = c /\ f = [k \in 1..c |-> s[Ascending(Firsts(s))[k]]]
  BY <1>8, <1>9, FirstSeenIs
<1>11. FirstSeen(t) = [k \in 1..Cardinality(Firsts(t)) |-> t[Ascending(Firsts(t))[k]]]
  BY FirstSeenIs
<1>12. \A k \in 1..c : Ascending(Firsts(s))[k] \in 1..n
  <2>1. Firsts(s) \in SUBSET Nat
    BY <1>7
  <2>2. \A k \in 1..c : Ascending(Firsts(s))[k] \in Firsts(s)
    BY <1>7, <1>8, <2>1, AscendingIs
  <2> QED
    BY <1>7, <2>2
<1>13. CASE \E i \in 1..n : s[i] = x
  <2>1. Firsts(t) = Firsts(s)
    <3>1. \A i \in 1..(n + 1) : i \in 1..n \/ i = n + 1
      OBVIOUS
    <3>2. n + 1 \notin 1..n
      OBVIOUS
    <3> QED
      BY <1>5, <1>6, <1>7, <1>13, <3>1, <3>2
  <2>2. FirstSeen(t) = [k \in 1..c |-> s[Ascending(Firsts(s))[k]]]
    BY <1>3, <1>8, <1>11, <1>12, <2>1
  <2> QED
    BY <1>2, <1>4, <1>9, <1>10, <1>13, <2>2
<1>14. CASE ~\E i \in 1..n : s[i] = x
  <2>1. Firsts(t) = Firsts(s) \cup {n + 1}
    <3>1. \A i \in 1..(n + 1) : i \in 1..n \/ i = n + 1
      OBVIOUS
    <3> QED
      BY <1>5, <1>6, <1>7, <1>14, <3>1
  <2>2. \A k \in Firsts(s) : k < n + 1
    BY <1>7
  <2>3. Firsts(s) \in SUBSET Nat /\ n + 1 \in Nat
    BY <1>7
  <2>4. /\ Cardinality(Firsts(t)) = c + 1
        /\ Ascending(Firsts(t)) = [k \in 1..(c + 1) |->
               IF k <= c THEN Ascending(Firsts(s))[k] ELSE n + 1]
    BY <1>7, <1>8, <2>1, <2>2, <2>3, AscendingLater
  <2>5. FirstSeen(t) = [k \in 1..(c + 1) |-> t[Ascending(Firsts(t))[k]]]
    BY <1>11, <2>4
  <2>6. \A k \in 1..(c + 1) :
           t[Ascending(Firsts(t))[k]] = IF k <= c THEN f[k] ELSE x
    <3>1. ASSUME NEW k \in 1..(c + 1), k <= c
          PROVE  t[Ascending(Firsts(t))[k]] = f[k]
      <4>1. k \in 1..c
        BY <3>1
      <4>2. Ascending(Firsts(t))[k] = Ascending(Firsts(s))[k]
        BY <2>4, <3>1
      <4> QED
        BY <1>3, <1>10, <1>12, <4>1, <4>2
    <3>2. ASSUME NEW k \in 1..(c + 1), ~(k <= c)
          PROVE  t[Ascending(Firsts(t))[k]] = x
      BY <1>3, <2>4, <3>2
    <3> QED
      BY <3>1, <3>2
  <2>7. FirstSeen(t) = [k \in 1..(c + 1) |-> IF k <= c THEN f[k] ELSE x]
    BY <2>5, <2>6
  <2>8. Append(f, x) = [k \in 1..(c + 1) |-> IF k <= c THEN f[k] ELSE x]
    BY <1>10
  <2> QED
    BY <1>2, <1>4, <1>9, <1>14, <2>7, <2>8
<1> QED
  BY <1>13, <1>14

(***************************************************************************)
(* What has been read of a stream                                          *)
(***************************************************************************)
IsBlocks(b) ==
    b \in [DOMAIN b -> Tools] /\ DOMAIN b \subseteq Nat /\ IsFiniteSet(DOMAIN b)

AccFields ==
    {"prompt", "completion", "cached", "seconds", "text", "tools", "blocks", "message",
     "unknown"}

HasFields(acc) == acc = [x \in AccFields |-> acc[x]]

\* A stream's accumulator.
IsAcc(acc, a) ==
    /\ HasFields(acc)
    /\ \A x \in {"prompt", "completion", "cached", "seconds"} : acc[x] \in Nat
    /\ acc.text \in BOOLEAN /\ acc.unknown \in BOOLEAN
    /\ acc.tools \in Seq(Tools) /\ IsBlocks(acc.blocks)
    /\ acc.message \in {a, None}

\* Its counts are the largest of the first n pieces', none where there were none.
CountsSoFar(acc, a, w, n) ==
    /\ \A x \in Kinds : acc[x] <= a[x]
    /\ acc.prompt > 0 => acc.cached = a.cached
    /\ \A i \in 1..n : w[i].usage # None =>
          ~acc.unknown /\ \A x \in Kinds : w[i].usage[x] <= acc[x]
    /\ (\A i \in 1..n : w[i].usage = None) => acc.unknown
    /\ acc.unknown => \A x \in Kinds : acc[x] = 0

TextSoFar(acc, w, n) == acc.text <=> \E i \in 1..n : w[i].text

\* The arguments that have arrived of a tool call.
Arrived(a, w, n, k) ==
    SubSeq(a.tools[k + 1].arguments, 1, Cardinality(Fragments(w, n, k)))

\* OpenAI's tool calls, each as far as its fragments and its name arrived.
OpenAISoFar(acc, a, w, n) ==
    /\ DOMAIN acc.blocks = {w[i].index : i \in 1..n} \ {None}
    /\ \A k \in DOMAIN acc.blocks :
          /\ acc.blocks[k].arguments = Arrived(a, w, n, k)
          /\ acc.blocks[k].name \in {"", a.tools[k + 1].name}
          /\ (\E i \in 1..n : w[i].index = k /\ w[i].name = a.tools[k + 1].name)
                => acc.blocks[k].name = a.tools[k + 1].name

GeminiSoFar(acc, a, w, n) ==
    acc.tools = FirstSeen(SubSeq(a.tools, 1, Cardinality(Called(w, n))))

\* Bedrock's: those that were stopped, and those that are not stopped yet.
BedrockSoFar(acc, a, w, n) ==
    /\ acc.tools = SubSeq(a.tools, 1, Cardinality(BlocksStopped(w, n)))
    /\ \A k \in Nat : k \in DOMAIN acc.blocks <=>
          /\ \E i \in 1..n : Starts(w, i, k)
          /\ \A i \in 1..n : ~Stops(w, i, k)
    /\ \A k \in DOMAIN acc.blocks :
          acc.blocks[k] = [name |-> a.tools[k + 1].name, arguments |-> Arrived(a, w, n, k)]

DeepgramSoFar(acc, a, w, n) ==
    /\ HasFields(acc) /\ acc.seconds \in Nat /\ acc.text \in BOOLEAN
    /\ acc.seconds = IF \E i \in 1..n : w[i].type = "Metadata" THEN a.duration ELSE 0
    /\ acc.text <=> \E i \in 1..n : w[i].type # "Metadata" /\ w[i].text

SoFar(f, acc, a, w, n) ==
    CASE f \in OpenAIStreams -> /\ IsAcc(acc, a) /\ CountsSoFar(acc, a, w, n)
                                /\ TextSoFar(acc, w, n) /\ OpenAISoFar(acc, a, w, n)
      [] f \in AnthropicStreams -> /\ IsAcc(acc, a) /\ CountsSoFar(acc, a, w, n)
                                   /\ ~acc.text /\ acc.tools = <<>>
      [] f \in GeminiStreams -> /\ IsAcc(acc, a) /\ CountsSoFar(acc, a, w, n)
                                /\ TextSoFar(acc, w, n) /\ GeminiSoFar(acc, a, w, n)
      [] f = "bedrock.stream" -> /\ IsAcc(acc, a) /\ CountsSoFar(acc, a, w, n)
                                 /\ TextSoFar(acc, w, n) /\ BedrockSoFar(acc, a, w, n)
      [] f = "deepgram.live" -> DeepgramSoFar(acc, a, w, n)
      [] OTHER -> TRUE

\* n pieces of w went through the proxy, and the rest is still to be read or
\* was read past it.
ReadUpTo(c, w, n) ==
    /\ n <= Len(w)
    /\ c.wire = IF c.aside THEN <<>> ELSE [i \in 1..Len(w) - n |-> w[n + i]]
    /\ SoFar(c.flavour, c.acc, c.answer, w, n)

Answered(c) == c.flavour \in DOMAIN Answers /\ c.answer \in Answers[c.flavour]

ReadsWell(c) ==
    /\ Answered(c) /\ How(c.flavour).stream
    /\ c.aside \in BOOLEAN
    /\ \E w \in Wires(c.flavour, c.answer), n \in Nat : ReadUpTo(c, w, n)

\* What record_call is given is what was made of such a call.
Given(c, r) ==
    /\ filed.call = c /\ filed.full = (c.wire = <<>> /\ ~c.aside)
    /\ filed.record = Filled(c.flavour, r)

FiledSound ==
    filed # None =>
        \/ /\ Answered(filed.call) /\ ~How(filed.call.flavour).stream
           /\ Given(filed.call, RecordOf(filed.call.flavour, filed.call.answer))
        \/ ReadsWell(filed.call) /\ Given(filed.call, StreamRecord(filed.call))

ReadInv ==
    /\ plan \in Plans /\ Len(ended) <= Len(plan)
    /\ stage \in {"idle", "cleared", "open", "looping"}
    /\ stage # "idle" => Answered(call) /\ Len(ended) < Len(plan)
    /\ stage = "cleared" => call.wire = <<>> /\ call.acc = Fresh /\ ~call.aside
    /\ stage \in {"open", "looping"} => ReadsWell(call)
    /\ \A c \in late : ReadsWell(c)
    /\ FiledSound

LEMMA NextPosition ==
    ASSUME NEW n \in Nat
    PROVE  \A i \in 1..(n + 1) : i \in 1..n \/ i = n + 1
OBVIOUS

(***************************************************************************)
(* One more piece: its counts and its text                                 *)
(***************************************************************************)
LEMMA PieceIs ==
    ASSUME NEW a, NEW w \in Seq(Pieces(a)), NEW i \in 1..Len(w)
    PROVE  /\ w[i].type \in STRING /\ w[i].index \in Nat \cup {None}
           /\ w[i].name \in STRING \cup {None} /\ w[i].arguments \in Seq(Nat)
           /\ w[i].text \in BOOLEAN /\ w[i].message \in {a, None}
           /\ w[i].usage # None => w[i].usage \in Totals(a)
<1>1. w[i] \in Pieces(a)
  OBVIOUS
<1> QED
  BY <1>1 DEF Pieces, Count

LEMMA AccIs ==
    ASSUME NEW acc, NEW a, IsAcc(acc, a)
    PROVE  /\ acc.prompt \in Nat /\ acc.completion \in Nat /\ acc.cached \in Nat
           /\ acc.seconds \in Nat /\ acc.text \in BOOLEAN /\ acc.tools \in Seq(Tools)
           /\ acc.message \in {a, None} /\ acc.unknown \in BOOLEAN
           /\ IsBlocks(acc.blocks) /\ HasFields(acc)
BY DEF IsAcc

LEMMA TotalsAre ==
    ASSUME NEW a, NEW u \in Totals(a)
    PROVE  /\ u.prompt \in Nat /\ u.completion \in Nat /\ u.cached \in Nat
           /\ u.prompt <= a.prompt /\ u.completion <= a.completion /\ u.cached <= a.cached
           /\ u.prompt > 0 => u.cached = a.cached
           /\ \A x \in Kinds : u[x] \in Nat /\ u[x] <= a[x]
BY DEF Totals, Kinds

LEMMA NoCounts ==
    ASSUME NEW a, NEW w, NEW n \in Nat, NEW acc, CountsSoFar(acc, a, w, n),
           w[n + 1].usage = None
    PROVE  CountsSoFar(acc, a, w, n + 1)
BY NextPosition DEF CountsSoFar

LEMMA NoteUsageSoFar ==
    ASSUME NEW a \in Chats, NEW w \in Seq(Pieces(a)), NEW n \in Nat, n + 1 <= Len(w),
           NEW acc, IsAcc(acc, a), CountsSoFar(acc, a, w, n),
           NEW new, new = NoteUsage(acc, w[n + 1].usage)
    PROVE  /\ IsAcc(new, a) /\ CountsSoFar(new, a, w, n + 1)
           /\ new.seconds = acc.seconds /\ new.text = acc.text /\ new.tools = acc.tools
           /\ new.blocks = acc.blocks /\ new.message = acc.message
<1>1. CASE w[n + 1].usage = None
  <2>1. new = acc
    BY <1>1 DEF NoteUsage
  <2> QED
    BY <1>1, <2>1, NoCounts
<1>2. CASE w[n + 1].usage # None
  <2>1. PICK u \in Totals(a) : u = w[n + 1].usage
    <3>1. n + 1 \in 1..Len(w)
      OBVIOUS
    <3> QED
      BY <1>2, <3>1, PieceIs
  <2>2. /\ a.prompt \in Nat /\ a.completion \in Nat /\ a.cached \in Nat
    BY DEF Chats
  <2> DEFINE p == LargerOf(acc.prompt, u.prompt)
             c == LargerOf(acc.completion, u.completion)
             k == LargerOf(acc.cached, u.cached)
  <2>3. /\ HasFields(new)
        /\ new.prompt = p /\ new.completion = c /\ new.cached = k /\ new.unknown = FALSE
        /\ new.seconds = acc.seconds /\ new.text = acc.text /\ new.tools = acc.tools
        /\ new.blocks = acc.blocks /\ new.message = acc.message
    <3>1. new = [acc EXCEPT !.prompt = p, !.completion = c, !.cached = k,
                            !.unknown = FALSE]
      BY <1>2, <2>1 DEF NoteUsage
    <3> HIDE DEF p, c, k
    <3>2. HasFields(acc)
      BY AccIs
    <3> QED
      BY <3>1, <3>2 DEF AccFields, HasFields
  <2>4. /\ acc.prompt \in Nat /\ acc.completion \in Nat /\ acc.cached \in Nat
        /\ acc.prompt <= a.prompt /\ acc.completion <= a.completion
        /\ acc.cached <= a.cached
        /\ acc.prompt > 0 => acc.cached = a.cached
    BY AccIs DEF CountsSoFar, Kinds
  <2>5. /\ p \in Nat /\ acc.prompt <= p /\ u.prompt <= p /\ p <= a.prompt
        /\ c \in Nat /\ acc.completion <= c /\ u.completion <= c /\ c <= a.completion
        /\ k \in Nat /\ acc.cached <= k /\ u.cached <= k /\ k <= a.cached
    <3>1. \A x, y, z \in Nat : x <= z /\ y <= z =>
             LET l == LargerOf(x, y) IN l \in Nat /\ x <= l /\ y <= l /\ l <= z
      BY DEF LargerOf
    <3> HIDE DEF p, c, k
    <3>2. /\ u.prompt \in Nat /\ u.completion \in Nat /\ u.cached \in Nat
          /\ u.prompt <= a.prompt /\ u.completion <= a.completion /\ u.cached <= a.cached
      BY TotalsAre
    <3>3. p \in Nat /\ acc.prompt <= p /\ u.prompt <= p /\ p <= a.prompt
      BY <2>2, <2>4, <3>1, <3>2 DEF p
    <3>4. c \in Nat /\ acc.completion <= c /\ u.completion <= c /\ c <= a.completion
      BY <2>2, <2>4, <3>1, <3>2 DEF c
    <3>5. k \in Nat /\ acc.cached <= k /\ u.cached <= k /\ k <= a.cached
      BY <2>2, <2>4, <3>1, <3>2 DEF k
    <3> QED
      BY <3>3, <3>4, <3>5
  <2>6. p > 0 => k = a.cached
    BY <2>2, <2>4, <2>5, TotalsAre DEF LargerOf
  <2> HIDE DEF p, c, k
  <2>7. IsAcc(new, a)
    <3>1. /\ acc.seconds \in Nat /\ acc.text \in BOOLEAN /\ acc.tools \in Seq(Tools)
          /\ IsBlocks(acc.blocks) /\ acc.message \in {a, None}
      BY AccIs
    <3> QED
      BY <2>3, <2>5, <3>1 DEF IsAcc
  <2>8. \A x \in Kinds : new[x] <= a[x] /\ acc[x] <= new[x] /\ u[x] <= new[x]
    BY <2>3, <2>5 DEF Kinds
  <2>9. \A x \in Kinds : acc[x] \in Nat /\ new[x] \in Nat /\ u[x] \in Nat
    BY <2>3, <2>4, <2>5, TotalsAre DEF Kinds
  <2>10. ASSUME NEW i \in 1..(n + 1), w[i].usage # None, NEW x \in Kinds
         PROVE  w[i].usage[x] <= new[x]
    <3>1. CASE i = n + 1
      BY <2>1, <2>8, <3>1
    <3>2. CASE i # n + 1
      <4>1. i \in 1..n /\ i \in 1..Len(w)
        BY <3>2
      <4>2. w[i].usage[x] <= acc[x]
        BY <2>10, <4>1 DEF CountsSoFar
      <4>3. w[i].usage[x] \in Nat
        BY <2>10, <4>1, PieceIs, TotalsAre
      <4> QED
        BY <2>8, <2>9, <4>2, <4>3
    <3> QED
      BY <3>1, <3>2
  <2>11. n + 1 \in 1..(n + 1)
    OBVIOUS
  <2>12. CountsSoFar(new, a, w, n + 1)
    <3>1. new.prompt = p /\ new.cached = k /\ new.unknown = FALSE
      BY <2>3
    <3>2. new.prompt > 0 => new.cached = a.cached
      BY <2>6, <3>1
    <3>3. ~\A i \in 1..(n + 1) : w[i].usage = None
      BY <1>2, <2>11
    <3> QED
      BY <2>8, <2>10, <3>1, <3>2, <3>3 DEF CountsSoFar
  <2> QED
    BY <2>3, <2>7, <2>12
<1> QED
  BY <1>1, <1>2

\* Of the counts, nothing changes with what else is noted of a piece.
LEMMA CountsKept ==
    ASSUME NEW a, NEW w, NEW n, NEW acc, NEW new, CountsSoFar(acc, a, w, n),
           new.prompt = acc.prompt, new.completion = acc.completion,
           new.cached = acc.cached, new.unknown = acc.unknown
    PROVE  CountsSoFar(new, a, w, n)
<1>1. \A x \in Kinds : new[x] = acc[x]
  BY DEF Kinds
<1> QED
  BY <1>1 DEF CountsSoFar

LEMMA TextNext ==
    ASSUME NEW w, NEW n \in Nat, NEW acc, NEW new, TextSoFar(acc, w, n),
           w[n + 1].text \in BOOLEAN, acc.text \in BOOLEAN,
           new.text = (acc.text \/ w[n + 1].text)
    PROVE  TextSoFar(new, w, n + 1)
<1>1. n + 1 \in 1..(n + 1) /\ \A i \in 1..n : i \in 1..(n + 1)
  OBVIOUS
<1> QED
  BY <1>1, NextPosition DEF TextSoFar

(***************************************************************************)
(* One more piece: its tool call                                           *)
(***************************************************************************)
LEMMA Noted ==
    ASSUME NEW a \in Chats, NEW w \in Seq(Pieces(a)), NEW n \in Nat, n + 1 <= Len(w),
           NEW acc, IsAcc(acc, a), CountsSoFar(acc, a, w, n), TextSoFar(acc, w, n),
           NEW new, new = NoteText(NoteUsage(acc, w[n + 1].usage), w[n + 1])
    PROVE  /\ IsAcc(new, a) /\ CountsSoFar(new, a, w, n + 1) /\ TextSoFar(new, w, n + 1)
           /\ new.seconds = acc.seconds /\ new.tools = acc.tools
           /\ new.blocks = acc.blocks /\ new.message = acc.message
<1>1. PICK seen : seen = NoteUsage(acc, w[n + 1].usage)
  OBVIOUS
<1>2. /\ IsAcc(seen, a) /\ CountsSoFar(seen, a, w, n + 1)
      /\ seen.seconds = acc.seconds /\ seen.text = acc.text /\ seen.tools = acc.tools
      /\ seen.blocks = acc.blocks /\ seen.message = acc.message
  BY <1>1, NoteUsageSoFar
<1>3. w[n + 1].text \in BOOLEAN /\ acc.text \in BOOLEAN
  <2>1. n + 1 \in 1..Len(w)
    OBVIOUS
  <2> QED
    BY <2>1, PieceIs, AccIs
<1>4. PICK t \in BOOLEAN : t = (seen.text \/ w[n + 1].text)
  OBVIOUS
<1>5. new = [seen EXCEPT !.text = t]
  BY <1>1, <1>4 DEF NoteText
<1>6. HasFields(seen)
  BY <1>2, AccIs
<1>7. /\ HasFields(new) /\ new.text = t
      /\ \A x \in AccFields \ {"text"} : new[x] = seen[x]
  BY <1>5, <1>6 DEF HasFields, AccFields
<1>8. /\ new.prompt = seen.prompt /\ new.completion = seen.completion
      /\ new.cached = seen.cached /\ new.unknown = seen.unknown
      /\ new.seconds = seen.seconds /\ new.tools = seen.tools
      /\ new.blocks = seen.blocks /\ new.message = seen.message
  BY <1>7 DEF AccFields
<1>9. IsAcc(new, a)
  BY <1>2, <1>7, <1>8 DEF IsAcc
<1>10. CountsSoFar(new, a, w, n + 1)
  BY <1>2, <1>8, CountsKept
<1>11. TextSoFar(new, w, n + 1)
  BY <1>2, <1>3, <1>4, <1>7, TextNext
<1> QED
  BY <1>2, <1>8, <1>9, <1>10, <1>11

\* The tool calls of an accumulator are apart from its counts and its text.
ButForCalls(new, acc) == \A x \in AccFields \ {"blocks", "tools"} : new[x] = acc[x]

LEMMA CallsSet ==
    ASSUME NEW a, NEW w, NEW n, NEW acc, IsAcc(acc, a), CountsSoFar(acc, a, w, n),
           TextSoFar(acc, w, n), NEW new, HasFields(new), ButForCalls(new, acc),
           IsBlocks(new.blocks), new.tools \in Seq(Tools)
    PROVE  IsAcc(new, a) /\ CountsSoFar(new, a, w, n) /\ TextSoFar(new, w, n)
<1>1. /\ new.prompt = acc.prompt /\ new.completion = acc.completion
      /\ new.cached = acc.cached /\ new.unknown = acc.unknown
      /\ new.seconds = acc.seconds /\ new.text = acc.text /\ new.message = acc.message
  BY DEF ButForCalls, AccFields
<1>2. IsAcc(new, a)
  BY <1>1 DEF IsAcc
<1>3. CountsSoFar(new, a, w, n)
  BY <1>1, CountsKept
<1> QED
  BY <1>1, <1>2, <1>3 DEF TextSoFar

LEMMA FragmentsNext ==
    ASSUME NEW w, NEW n \in Nat, NEW k
    PROVE  /\ Cardinality(Fragments(w, n, k)) \in Nat
           /\ Cardinality(Fragments(w, n + 1, k)) =
                 Cardinality(Fragments(w, n, k))
                 + IF w[n + 1].index = k /\ w[n + 1].arguments # <<>> THEN 1 ELSE 0
<1> DEFINE S == {i \in Nat : w[i].index = k /\ w[i].arguments # <<>>}
<1>1. Fragments(w, n, k) = S \cap (1..n) /\ Fragments(w, n + 1, k) = S \cap (1..(n + 1))
  BY DEF Fragments
<1>2. n + 1 \in S <=> w[n + 1].index = k /\ w[n + 1].arguments # <<>>
  OBVIOUS
<1> HIDE DEF S
<1>3. /\ Cardinality(S \cap (1..n)) \in Nat
      /\ Cardinality(S \cap (1..(n + 1)))
             = Cardinality(S \cap (1..n)) + IF n + 1 \in S THEN 1 ELSE 0
  BY CountUp
<1>4. CASE n + 1 \in S
  BY <1>1, <1>2, <1>3, <1>4
<1>5. CASE n + 1 \notin S
  BY <1>1, <1>2, <1>3, <1>5
<1> QED
  BY <1>4, <1>5

LEMMA OneLonger ==
    ASSUME NEW s \in Seq(Nat), NEW c \in Nat, c + 1 \in DOMAIN s
    PROVE  /\ SubSeq(s, 1, c) \in Seq(Nat)
           /\ SubSeq(s, 1, c) \o <<s[c + 1]>> = SubSeq(s, 1, c + 1)
<1>1. PICK t \in Seq(Nat) : t = SubSeq(s, 1, c) /\ Len(t) = c
  <2>1. SubSeq(s, 1, c) \in Seq(Nat) /\ Len(SubSeq(s, 1, c)) = c
    OBVIOUS
  <2> QED
    BY <2>1
<1>2. \A i \in 1..c : t[i] = s[i]
  BY <1>1
<1>3. PICK u \in Seq(Nat) : u = t \o <<s[c + 1]>> /\ Len(u) = c + 1
  <2>1. s[c + 1] \in Nat
    OBVIOUS
  <2>2. t \o <<s[c + 1]>> \in Seq(Nat) /\ Len(t \o <<s[c + 1]>>) = c + 1
    BY <1>1, <2>1
  <2> QED
    BY <2>2
<1>4. \A i \in 1..(c + 1) : u[i] = s[i]
  BY <1>1, <1>2, <1>3
<1>5. PICK v \in Seq(Nat) : v = SubSeq(s, 1, c + 1) /\ Len(v) = c + 1
  <2>1. SubSeq(s, 1, c + 1) \in Seq(Nat) /\ Len(SubSeq(s, 1, c + 1)) = c + 1
    OBVIOUS
  <2> QED
    BY <2>1
<1>6. \A i \in 1..(c + 1) : v[i] = s[i]
  BY <1>5
<1>7. u = v
  <2>1. u \in [1..Len(u) -> Nat] /\ v \in [1..Len(v) -> Nat]
    OBVIOUS
  <2>2. Len(u) = c + 1 /\ Len(v) = c + 1
    BY <1>3, <1>5
  <2>3. u \in [1..(c + 1) -> Nat] /\ v \in [1..(c + 1) -> Nat]
    BY <2>1, <2>2
  <2>4. \A i \in 1..(c + 1) : u[i] = v[i]
    BY <1>4, <1>6
  <2> QED
    BY <2>3, <2>4
<1> QED
  BY <1>1, <1>3, <1>5, <1>7

\* What a piece brings is what was missing next.
LEMMA ArrivedNext ==
    ASSUME NEW a \in Chats, NEW w \in Seq(Pieces(a)), NEW n \in Nat, n + 1 <= Len(w),
           NEW k \in Nat, k + 1 \in DOMAIN a.tools
    PROVE  /\ w[n + 1].index # k => Arrived(a, w, n + 1, k) = Arrived(a, w, n, k)
           /\ w[n + 1].index = k /\ BringsNext(w, n + 1, a) =>
                 Arrived(a, w, n + 1, k) = Arrived(a, w, n, k) \o w[n + 1].arguments
<1>1. PICK s \in Seq(Nat) : s = a.tools[k + 1].arguments
  <2>1. a.tools \in Seq(Tools)
    BY DEF Chats
  <2>2. a.tools[k + 1] \in Tools
    BY <2>1
  <2> QED
    BY <2>2 DEF Tools
<1>2. PICK c \in Nat : c = Cardinality(Fragments(w, n, k))
  BY FragmentsNext
<1>3. Cardinality(Fragments(w, n + 1, k)) =
          c + IF w[n + 1].index = k /\ w[n + 1].arguments # <<>> THEN 1 ELSE 0
  BY <1>2, FragmentsNext
<1>4. CASE w[n + 1].index # k
  BY <1>2, <1>3, <1>4 DEF Arrived
<1>5. CASE w[n + 1].index = k /\ BringsNext(w, n + 1, a) /\ w[n + 1].arguments = <<>>
  <2>1. Arrived(a, w, n, k) = SubSeq(s, 1, c) /\ Arrived(a, w, n + 1, k) = SubSeq(s, 1, c)
    BY <1>1, <1>2, <1>3, <1>5 DEF Arrived
  <2>2. c <= Len(s)
    BY <1>1, <1>3, <1>5 DEF BringsNext
  <2>3. PICK t \in Seq(Nat) : t = SubSeq(s, 1, c)
    <3>1. SubSeq(s, 1, c) \in Seq(Nat)
      BY <2>2
    <3> QED
      BY <3>1
  <2>4. t \o <<>> = t
    OBVIOUS
  <2> QED
    BY <1>5, <2>1, <2>3, <2>4
<1>6. CASE w[n + 1].index = k /\ BringsNext(w, n + 1, a) /\ w[n + 1].arguments # <<>>
  <2>1. Cardinality(Fragments(w, n + 1, k)) = c + 1
    BY <1>3, <1>6
  <2>2. c + 1 \in DOMAIN s /\ w[n + 1].arguments = <<s[c + 1]>>
    <3>1. c + 1 <= Len(s) /\ w[n + 1].arguments = <<s[c + 1]>>
      BY <1>1, <1>6, <2>1 DEF BringsNext
    <3> QED
      BY <3>1
  <2>3. Arrived(a, w, n, k) = SubSeq(s, 1, c) /\ Arrived(a, w, n + 1, k) = SubSeq(s, 1, c + 1)
    BY <1>1, <1>2, <2>1 DEF Arrived
  <2>4. SubSeq(s, 1, c) \o <<s[c + 1]>> = SubSeq(s, 1, c + 1)
    BY <2>2, OneLonger
  <2> QED
    BY <1>6, <2>2, <2>3, <2>4
<1> QED
  BY <1>4, <1>5, <1>6

\* A piece stitched to its tool call: the others are as they were.
Stitched(b, acc, p, block) ==
    /\ IsBlocks(b) /\ DOMAIN b = DOMAIN acc.blocks \cup {p.index}
    /\ b[p.index].name = NameOf(block, p)
    /\ b[p.index].arguments = block.arguments \o p.arguments
    /\ \A k \in DOMAIN acc.blocks : k # p.index => b[k] = acc.blocks[k]

LEMMA StitchIs ==
    ASSUME NEW acc, IsBlocks(acc.blocks), NEW a, NEW p \in Pieces(a), p.index # None,
           NEW b, b = Stitch(acc, p), NEW block, block = OpenBlock(acc, p)
    PROVE  block \in Tools /\ Stitched(b, acc, p, block)
<1>0. p.index \in Nat /\ p.name \in STRING \cup {None} /\ p.arguments \in Seq(Nat)
  BY DEF Pieces, Count
<1>1. block \in Tools
  <2>1. CASE p.index \in DOMAIN acc.blocks
    BY <2>1 DEF IsBlocks, OpenBlock
  <2>2. CASE p.index \notin DOMAIN acc.blocks
    <3>1. PICK noname \in STRING : noname = ""
      <4>1. "" \in STRING
        BY AnswersAssumption
      <4> QED
        BY <4>1
    <3>2. PICK none \in Seq(Nat) : none = <<>>
      <4>1. <<>> \in Seq(Nat)
        OBVIOUS
      <4> QED
        BY <4>1
    <3>3. block = [name |-> noname, arguments |-> none]
      BY <2>2, <3>1, <3>2 DEF OpenBlock
    <3> QED
      BY <3>3 DEF Tools
  <2> QED
    BY <2>1, <2>2
<1>2. PICK args : args = block.arguments \o p.arguments
  OBVIOUS
<1>14. PICK new : new = [name |-> NameOf(block, p), arguments |-> args]
  OBVIOUS
<1>3. new \in Tools
  <2>1. NameOf(block, p) \in STRING
    BY <1>0, <1>1 DEF NameOf, Tools
  <2>2. args \in Seq(Nat)
    BY <1>0, <1>1, <1>2 DEF Tools
  <2> QED
    BY <1>14, <2>1, <2>2 DEF Tools
<1>4. b = [k \in {p.index} \cup DOMAIN acc.blocks |->
              IF k \in {p.index} THEN new ELSE acc.blocks[k]]
  BY <1>2, <1>14 DEF Stitch, Put
<1>5. DOMAIN b = DOMAIN acc.blocks \cup {p.index} /\ DOMAIN b \subseteq Nat
  BY <1>0, <1>4 DEF IsBlocks
<1>6. IsFiniteSet(DOMAIN b)
  <2>1. IsFiniteSet(DOMAIN acc.blocks)
    BY DEF IsBlocks
  <2>2. PICK D : D = DOMAIN acc.blocks
    OBVIOUS
  <2>3. IsFiniteSet(D \cup {p.index})
    BY <2>1, <2>2, FS_AddElement
  <2> QED
    BY <1>5, <2>2, <2>3
<1>7. \A k \in DOMAIN b : b[k] \in Tools
  BY <1>3, <1>4 DEF IsBlocks
<1>8. b \in [DOMAIN b -> Tools]
  BY <1>4, <1>7
<1>9. b[p.index] = new /\ \A k \in DOMAIN acc.blocks : k # p.index => b[k] = acc.blocks[k]
  BY <1>4
<1>10. IsBlocks(b)
  BY <1>5, <1>6, <1>8 DEF IsBlocks
<1>11. b[p.index].name = NameOf(block, p) /\ b[p.index].arguments = args
  BY <1>14, <1>9
<1>12. b[p.index].arguments = block.arguments \o p.arguments
  BY <1>2, <1>11
<1>13. DOMAIN b = DOMAIN acc.blocks \cup {p.index}
  BY <1>5
<1> QED
  BY <1>1, <1>9, <1>10, <1>11, <1>12, <1>13 DEF Stitched

(***************************************************************************)
(* One more piece, provider by provider                                    *)
(***************************************************************************)
LEMMA NoneArrived ==
    ASSUME NEW a, NEW w, NEW n, NEW k, \A i \in 1..n : w[i].index # k
    PROVE  Arrived(a, w, n, k) = <<>>
<1>1. Fragments(w, n, k) = {}
  BY DEF Fragments
<1>2. Cardinality(Fragments(w, n, k)) = 0
  BY <1>1, FS_EmptySet
<1> QED
  BY <1>2 DEF Arrived

\* The tool call a piece belongs to is one of the answer's.
LEMMA ToolOfPiece ==
    ASSUME NEW a \in Chats, NEW w, NEW i, BringsNext(w, i, a), NEW k, w[i].index = k
    PROVE  /\ k + 1 \in DOMAIN a.tools /\ a.tools[k + 1] \in Tools
           /\ a.tools[k + 1].name \in STRING
<1>1. a.tools \in Seq(Tools)
  BY DEF Chats
<1>2. k + 1 \in DOMAIN a.tools
  BY DEF BringsNext
<1>3. a.tools[k + 1] \in Tools
  BY <1>1, <1>2
<1> QED
  BY <1>2, <1>3 DEF Tools

LEMMA OpenAIBlocks ==
    ASSUME NEW a \in Chats, NEW w \in Seq(Pieces(a)), OpenAISends(w, a), NEW n \in Nat,
           n + 1 <= Len(w), NEW acc, OpenAISoFar(acc, a, w, n), IsBlocks(acc.blocks),
           w[n + 1].index # None
    PROVE  /\ IsBlocks(Stitch(acc, w[n + 1]))
           /\ \A new : new.blocks = Stitch(acc, w[n + 1]) => OpenAISoFar(new, a, w, n + 1)
<1>1. n + 1 \in 1..Len(w) /\ n + 1 \in DOMAIN w /\ n + 1 \in 1..(n + 1)
  OBVIOUS
<1>0. PICK p : p = w[n + 1]
  OBVIOUS
<1>2. /\ p.index \in Nat /\ p.name \in STRING \cup {None} /\ p.arguments \in Seq(Nat)
  BY <1>0, <1>1, PieceIs
<1>3. /\ \A i \in DOMAIN w : w[i].index # None =>
            /\ BringsNext(w, i, a)
            /\ w[i].name \in {None, "", a.tools[w[i].index + 1].name}
  BY DEF OpenAISends
<1>4. PICK j \in Nat : j = p.index
  BY <1>0, <1>2
<1>5. PICK real \in STRING : real = a.tools[j + 1].name
  BY <1>0, <1>1, <1>3, <1>4, ToolOfPiece
<1>6. PICK block : block = OpenBlock(acc, p)
  OBVIOUS
<1>7. PICK b : b = Stitch(acc, p)
  OBVIOUS
<1>8. /\ IsBlocks(b) /\ DOMAIN b = DOMAIN acc.blocks \cup {j}
      /\ b[j].name = NameOf(block, p)
      /\ b[j].arguments = block.arguments \o p.arguments
      /\ \A k \in DOMAIN acc.blocks : k # j => b[k] = acc.blocks[k]
  <2>1. p \in Pieces(a) /\ p.index # None
    BY <1>0, <1>1
  <2>2. Stitched(b, acc, p, block)
    BY <1>6, <1>7, <2>1, StitchIs
  <2> QED
    BY <1>4, <2>2 DEF Stitched
<1>9. /\ block.arguments = Arrived(a, w, n, j)
      /\ block.name \in {"", real}
      /\ (\E i \in 1..n : w[i].index = j /\ w[i].name = real) => block.name = real
  <2>1. CASE j \in DOMAIN acc.blocks
    BY <1>4, <1>5, <1>6, <2>1 DEF OpenBlock, OpenAISoFar
  <2>2. CASE j \notin DOMAIN acc.blocks
    <3>1. block = [name |-> "", arguments |-> <<>>]
      BY <1>4, <1>6, <2>2 DEF OpenBlock
    <3>2. \A i \in 1..n : w[i].index # j
      BY <2>2, <1>4, AnswersAssumption DEF OpenAISoFar
    <3> QED
      BY <3>1, <3>2, NoneArrived
  <2> QED
    BY <2>1, <2>2
<1>10. b[j].arguments = Arrived(a, w, n + 1, j)
  <2>1. BringsNext(w, n + 1, a) /\ j + 1 \in DOMAIN a.tools
    BY <1>0, <1>1, <1>3, <1>4, ToolOfPiece
  <2>2. Arrived(a, w, n + 1, j) = Arrived(a, w, n, j) \o p.arguments
    BY <1>0, <1>4, <2>1, ArrivedNext
  <2> QED
    BY <1>8, <1>9, <2>2
<1>11. /\ b[j].name \in {"", real}
       /\ (\E i \in 1..(n + 1) : w[i].index = j /\ w[i].name = real) => b[j].name = real
  <2>1. p.name \in {None, "", real}
    BY <1>0, <1>1, <1>3, <1>4, <1>5
  <2>2. /\ NameOf(block, p) \in {"", real}
        /\ block.name = real \/ p.name = real => NameOf(block, p) = real
    BY <1>5, <1>9, <2>1, AnswersAssumption DEF NameOf
  <2> QED
    BY <1>0, <1>8, <1>9, <2>2, NextPosition
<1>12. DOMAIN b = {w[i].index : i \in 1..(n + 1)} \ {None}
  <2>1. DOMAIN acc.blocks = {w[i].index : i \in 1..n} \ {None}
    BY DEF OpenAISoFar
  <2>2. \A i \in 1..n : i \in 1..(n + 1)
    OBVIOUS
  <2>3. {w[i].index : i \in 1..(n + 1)} = {w[i].index : i \in 1..n} \cup {j}
    BY <1>0, <1>1, <1>4, <2>2, NextPosition
  <2>4. j # None
    BY <1>4, AnswersAssumption
  <2> QED
    BY <1>8, <2>1, <2>3, <2>4
<1>13. ASSUME NEW k \in DOMAIN acc.blocks, k # j
       PROVE  /\ b[k].arguments = Arrived(a, w, n + 1, k)
              /\ b[k].name \in {"", a.tools[k + 1].name}
              /\ (\E i \in 1..(n + 1) : w[i].index = k /\ w[i].name = a.tools[k + 1].name)
                    => b[k].name = a.tools[k + 1].name
  <2>1. PICK i \in 1..n : w[i].index = k /\ k # None
    BY <1>13 DEF OpenAISoFar
  <2>2. k \in Nat /\ i \in DOMAIN w
    BY <1>13 DEF IsBlocks
  <2>3. k + 1 \in DOMAIN a.tools
    BY <1>3, <2>1, <2>2, ToolOfPiece
  <2>4. Arrived(a, w, n + 1, k) = Arrived(a, w, n, k)
    BY <1>0, <1>4, <1>13, <2>2, <2>3, ArrivedNext
  <2>5. b[k] = acc.blocks[k]
    BY <1>8, <1>13
  <2> QED
    BY <1>0, <1>4, <1>13, <2>4, <2>5, NextPosition DEF OpenAISoFar
<1>14. \A k \in DOMAIN b :
          /\ b[k].arguments = Arrived(a, w, n + 1, k)
          /\ b[k].name \in {"", a.tools[k + 1].name}
          /\ (\E i \in 1..(n + 1) : w[i].index = k /\ w[i].name = a.tools[k + 1].name)
                => b[k].name = a.tools[k + 1].name
  BY <1>5, <1>8, <1>10, <1>11, <1>13
<1>15. \A new : new.blocks = b => OpenAISoFar(new, a, w, n + 1)
  BY <1>12, <1>14 DEF OpenAISoFar
<1> QED
  BY <1>0, <1>7, <1>8, <1>15

LEMMA OpenAIStep ==
    ASSUME NEW a \in Chats, NEW w \in Seq(Pieces(a)), OpenAISends(w, a), NEW n \in Nat,
           n + 1 <= Len(w), NEW acc, IsAcc(acc, a), CountsSoFar(acc, a, w, n),
           TextSoFar(acc, w, n), OpenAISoFar(acc, a, w, n),
           NEW new, new = OpenAIObserve(acc, w[n + 1])
    PROVE  /\ IsAcc(new, a) /\ CountsSoFar(new, a, w, n + 1) /\ TextSoFar(new, w, n + 1)
           /\ OpenAISoFar(new, a, w, n + 1)
<1>1. PICK seen : seen = NoteText(NoteUsage(acc, w[n + 1].usage), w[n + 1])
  OBVIOUS
<1>2. /\ IsAcc(seen, a) /\ CountsSoFar(seen, a, w, n + 1) /\ TextSoFar(seen, w, n + 1)
      /\ seen.blocks = acc.blocks /\ seen.tools = acc.tools
  BY <1>1, Noted
<1>3. CASE w[n + 1].index = None
  <2>1. new = seen
    BY <1>1, <1>3 DEF OpenAIObserve
  <2>2. {w[i].index : i \in 1..(n + 1)} \ {None} = {w[i].index : i \in 1..n} \ {None}
    <3>1. \A i \in 1..n : i \in 1..(n + 1)
      OBVIOUS
    <3> QED
      BY <1>3, <3>1, NextPosition
  <2>3. ASSUME NEW k \in DOMAIN acc.blocks
        PROVE  /\ Arrived(a, w, n + 1, k) = Arrived(a, w, n, k) /\ k # None
    <3>1. PICK i \in 1..n : w[i].index = k /\ k # None
      BY DEF OpenAISoFar
    <3>2. k \in Nat /\ i \in DOMAIN w
      BY AccIs DEF IsBlocks
    <3>3. k + 1 \in DOMAIN a.tools
      BY <3>1, <3>2, ToolOfPiece DEF OpenAISends
    <3> QED
      BY <1>3, <3>1, <3>2, <3>3, ArrivedNext
  <2>4. OpenAISoFar(seen, a, w, n + 1)
    BY <1>2, <1>3, <2>2, <2>3, NextPosition DEF OpenAISoFar
  <2> QED
    BY <1>2, <2>1, <2>4
<1>4. CASE w[n + 1].index # None
  <2>1. IsBlocks(acc.blocks)
    BY AccIs
  <2>2. PICK b : b = Stitch(acc, w[n + 1])
    OBVIOUS
  <2>3. IsBlocks(b) /\ \A x : x.blocks = b => OpenAISoFar(x, a, w, n + 1)
    BY <1>4, <2>1, <2>2, OpenAIBlocks
  <2>4. new = [seen EXCEPT !.blocks = b]
    BY <1>1, <1>4, <2>2 DEF OpenAIObserve
  <2>5. /\ HasFields(new) /\ ButForCalls(new, seen)
        /\ new.blocks = b /\ new.tools = seen.tools
    <3>1. HasFields(seen)
      BY <1>2, AccIs
    <3> QED
      BY <2>4, <3>1 DEF HasFields, ButForCalls, AccFields
  <2>6. IsBlocks(new.blocks) /\ new.tools \in Seq(Tools)
    BY <1>2, <2>3, <2>5, AccIs
  <2>7. IsAcc(new, a) /\ CountsSoFar(new, a, w, n + 1) /\ TextSoFar(new, w, n + 1)
    BY <1>2, <2>5, <2>6, CallsSet
  <2> QED
    BY <2>3, <2>5, <2>7
<1> QED
  BY <1>3, <1>4

LEMMA AnthropicStep ==
    ASSUME NEW a \in Chats, NEW w \in Seq(Pieces(a)), NEW n \in Nat, n + 1 <= Len(w),
           NEW acc, IsAcc(acc, a), CountsSoFar(acc, a, w, n), ~acc.text, acc.tools = <<>>,
           NEW new, new = AnthropicObserve(acc, w[n + 1])
    PROVE  /\ IsAcc(new, a) /\ CountsSoFar(new, a, w, n + 1)
           /\ ~new.text /\ new.tools = <<>>
<1>1. PICK seen : seen = NoteUsage(acc, w[n + 1].usage)
  OBVIOUS
<1>2. /\ IsAcc(seen, a) /\ CountsSoFar(seen, a, w, n + 1)
      /\ seen.text = acc.text /\ seen.tools = acc.tools
  BY <1>1, NoteUsageSoFar
<1>3. PICK m \in {a, None} :
          m = IF w[n + 1].message = None THEN seen.message ELSE w[n + 1].message
  <2>1. n + 1 \in 1..Len(w)
    OBVIOUS
  <2>2. w[n + 1].message \in {a, None} /\ seen.message \in {a, None}
    BY <1>2, <2>1, PieceIs, AccIs
  <2> QED
    BY <2>2
<1>4. new = [seen EXCEPT !.message = m]
  BY <1>1, <1>3 DEF AnthropicObserve
<1>5. HasFields(seen)
  BY <1>2, AccIs
<1>6. /\ HasFields(new) /\ new.message = m
      /\ \A x \in AccFields \ {"message"} : new[x] = seen[x]
  BY <1>4, <1>5 DEF HasFields, AccFields
<1>7. /\ new.prompt = seen.prompt /\ new.completion = seen.completion
      /\ new.cached = seen.cached /\ new.unknown = seen.unknown
      /\ new.seconds = seen.seconds /\ new.tools = seen.tools
      /\ new.blocks = seen.blocks /\ new.text = seen.text
  BY <1>6 DEF AccFields
<1>8. IsAcc(new, a)
  BY <1>2, <1>6, <1>7 DEF IsAcc
<1>9. CountsSoFar(new, a, w, n + 1)
  BY <1>2, <1>7, CountsKept
<1> QED
  BY <1>2, <1>7, <1>8, <1>9

LEMMA OneMore ==
    ASSUME NEW X, NEW s \in Seq(X), NEW c \in Nat, c + 1 \in DOMAIN s
    PROVE  /\ SubSeq(s, 1, c) \in Seq(X) /\ s[c + 1] \in X
           /\ Append(SubSeq(s, 1, c), s[c + 1]) = SubSeq(s, 1, c + 1)
<1>1. PICK t \in Seq(X) : t = SubSeq(s, 1, c) /\ Len(t) = c
  <2>1. SubSeq(s, 1, c) \in Seq(X) /\ Len(SubSeq(s, 1, c)) = c
    OBVIOUS
  <2> QED
    BY <2>1
<1>2. \A i \in 1..c : t[i] = s[i]
  BY <1>1
<1>3. PICK u \in Seq(X) : u = Append(t, s[c + 1]) /\ Len(u) = c + 1
  <2>1. s[c + 1] \in X
    OBVIOUS
  <2>2. Append(t, s[c + 1]) \in Seq(X) /\ Len(Append(t, s[c + 1])) = c + 1
    BY <1>1, <2>1
  <2> QED
    BY <2>2
<1>4. \A i \in 1..(c + 1) : u[i] = s[i]
  BY <1>1, <1>2, <1>3
<1>5. PICK v \in Seq(X) : v = SubSeq(s, 1, c + 1) /\ Len(v) = c + 1
  <2>1. SubSeq(s, 1, c + 1) \in Seq(X) /\ Len(SubSeq(s, 1, c + 1)) = c + 1
    OBVIOUS
  <2> QED
    BY <2>1
<1>6. \A i \in 1..(c + 1) : v[i] = s[i]
  BY <1>5
<1>7. u = v
  <2>1. u \in [1..Len(u) -> X] /\ v \in [1..Len(v) -> X]
    OBVIOUS
  <2>2. Len(u) = c + 1 /\ Len(v) = c + 1
    BY <1>3, <1>5
  <2>3. u \in [1..(c + 1) -> X] /\ v \in [1..(c + 1) -> X]
    BY <2>1, <2>2
  <2>4. \A i \in 1..(c + 1) : u[i] = v[i]
    BY <1>4, <1>6
  <2> QED
    BY <2>3, <2>4
<1>8. s[c + 1] \in X
  OBVIOUS
<1> QED
  BY <1>1, <1>3, <1>5, <1>7, <1>8

LEMMA CalledNext ==
    ASSUME NEW w, NEW n \in Nat
    PROVE  /\ Cardinality(Called(w, n)) \in Nat
           /\ w[n + 1].name = None =>
                 Cardinality(Called(w, n + 1)) = Cardinality(Called(w, n))
           /\ w[n + 1].name # None =>
                 Cardinality(Called(w, n + 1)) = Cardinality(Called(w, n)) + 1
<1> DEFINE S == {i \in Nat : w[i].name # None}
<1>1. Called(w, n) = S \cap (1..n) /\ Called(w, n + 1) = S \cap (1..(n + 1))
  BY DEF Called
<1>2. n + 1 \in S <=> w[n + 1].name # None
  OBVIOUS
<1> HIDE DEF S
<1>3. /\ Cardinality(S \cap (1..n)) \in Nat
      /\ Cardinality(S \cap (1..(n + 1)))
             = Cardinality(S \cap (1..n)) + IF n + 1 \in S THEN 1 ELSE 0
  BY CountUp
<1>4. CASE n + 1 \in S
  BY <1>1, <1>2, <1>3, <1>4
<1>5. CASE n + 1 \notin S
  BY <1>1, <1>2, <1>3, <1>5
<1> QED
  BY <1>4, <1>5

LEMMA GeminiStep ==
    ASSUME NEW a \in Chats, NEW w \in Seq(Pieces(a)), GeminiSends(w, a), NEW n \in Nat,
           n + 1 <= Len(w), NEW acc, IsAcc(acc, a), CountsSoFar(acc, a, w, n),
           TextSoFar(acc, w, n), GeminiSoFar(acc, a, w, n),
           NEW new, new = GeminiObserve(acc, w[n + 1])
    PROVE  /\ IsAcc(new, a) /\ CountsSoFar(new, a, w, n + 1) /\ TextSoFar(new, w, n + 1)
           /\ GeminiSoFar(new, a, w, n + 1)
<1>1. PICK seen : seen = NoteText(NoteUsage(acc, w[n + 1].usage), w[n + 1])
  OBVIOUS
<1>2. /\ IsAcc(seen, a) /\ CountsSoFar(seen, a, w, n + 1) /\ TextSoFar(seen, w, n + 1)
      /\ seen.blocks = acc.blocks /\ seen.tools = acc.tools
  BY <1>1, Noted
<1>3. PICK all \in Seq(Tools) : all = a.tools
  BY DEF Chats
<1>4. PICK c \in Nat : c = Cardinality(Called(w, n))
  BY CalledNext
<1>5. acc.tools = FirstSeen(SubSeq(all, 1, c))
  BY <1>3, <1>4 DEF GeminiSoFar
<1>6. CASE w[n + 1].name = None
  <2>1. new = seen
    BY <1>1, <1>6 DEF GeminiObserve
  <2>2. Cardinality(Called(w, n + 1)) = c
    BY <1>4, <1>6, CalledNext
  <2> QED
    BY <1>2, <1>3, <1>5, <2>1, <2>2 DEF GeminiSoFar
<1>7. CASE w[n + 1].name # None
  <2>1. PICK entry : entry = [name |-> w[n + 1].name, arguments |-> w[n + 1].arguments]
    OBVIOUS
  <2>2. Cardinality(Called(w, n + 1)) = c + 1
    BY <1>4, <1>7, CalledNext
  <2>3. c + 1 \in DOMAIN all /\ all[c + 1] = entry
    <3>1. n + 1 \in Called(w, Len(w))
      BY <1>7 DEF Called
    <3> QED
      BY <1>3, <2>1, <2>2, <3>1 DEF GeminiSends
  <2>4. PICK s \in Seq(Tools) : s = SubSeq(all, 1, c)
    BY <1>3, <1>4, <2>3, OneMore
  <2>5. entry \in Tools /\ Append(s, entry) = SubSeq(all, 1, c + 1)
    BY <1>3, <1>4, <2>3, <2>4, OneMore
  <2>6. FirstSeen(SubSeq(all, 1, c + 1)) =
            IF Contains(FirstSeen(s), entry) THEN FirstSeen(s)
            ELSE Append(FirstSeen(s), entry)
    BY <2>4, <2>5, FirstSeenNext
  <2>7. acc.tools = FirstSeen(s)
    BY <1>5, <2>4
  <2>8. CASE Contains(acc.tools, entry)
    <3>1. new = seen
      BY <1>1, <2>1, <2>8 DEF GeminiObserve
    <3>2. seen.tools = FirstSeen(SubSeq(all, 1, c + 1))
      BY <1>2, <2>6, <2>7, <2>8
    <3> QED
      BY <1>2, <1>3, <2>2, <3>1, <3>2 DEF GeminiSoFar
  <2>9. CASE ~Contains(acc.tools, entry)
    <3>1. PICK tools : tools = Append(acc.tools, entry)
      OBVIOUS
    <3>2. new = [seen EXCEPT !.tools = tools]
      BY <1>1, <1>2, <1>7, <2>1, <2>9, <3>1 DEF GeminiObserve
    <3>3. tools \in Seq(Tools)
      <4>1. acc.tools \in Seq(Tools)
        BY AccIs
      <4> QED
        BY <2>5, <3>1, <4>1
    <3>4. /\ HasFields(new) /\ ButForCalls(new, seen)
          /\ new.blocks = seen.blocks /\ new.tools = tools
      <4>1. HasFields(seen)
        BY <1>2, AccIs
      <4> QED
        BY <3>2, <4>1 DEF HasFields, ButForCalls, AccFields
    <3>5. IsBlocks(new.blocks) /\ new.tools \in Seq(Tools)
      BY <1>2, <3>3, <3>4, AccIs
    <3>6. IsAcc(new, a) /\ CountsSoFar(new, a, w, n + 1) /\ TextSoFar(new, w, n + 1)
      BY <1>2, <3>4, <3>5, CallsSet
    <3>7. new.tools = FirstSeen(SubSeq(all, 1, c + 1))
      BY <2>6, <2>7, <2>9, <3>1, <3>4
    <3> QED
      BY <1>3, <2>2, <3>6, <3>7 DEF GeminiSoFar
  <2> QED
    BY <2>8, <2>9
<1> QED
  BY <1>6, <1>7

LEMMA DeepgramStep ==
    ASSUME NEW a, a.duration \in Count, NEW w \in Seq(DeepgramPieces), DeepgramSends(w, a),
           NEW n \in Nat, n + 1 <= Len(w), NEW acc, DeepgramSoFar(acc, a, w, n),
           NEW new, new = DeepgramObserve(acc, w[n + 1])
    PROVE  DeepgramSoFar(new, a, w, n + 1)
<1>1. n + 1 \in DOMAIN w /\ n + 1 \in 1..(n + 1) /\ \A i \in 1..n : i \in 1..(n + 1)
  OBVIOUS
<1>2. PICK p \in DeepgramPieces : p = w[n + 1]
  BY <1>1
<1>3. HasFields(acc) /\ acc.seconds \in Nat /\ acc.text \in BOOLEAN
  BY DEF DeepgramSoFar
<1>4. CASE p.type = "Metadata"
  <2>1. PICK d \in Nat : d = a.duration /\ d = p.usage
    BY <1>1, <1>2, <1>4 DEF DeepgramSends, Count
  <2>2. new = [acc EXCEPT !.seconds = d]
    BY <1>2, <1>4, <2>1 DEF DeepgramObserve
  <2>3. HasFields(new) /\ new.seconds = d /\ new.text = acc.text
    BY <1>3, <2>2 DEF HasFields, AccFields
  <2>4. new.seconds = IF \E i \in 1..(n + 1) : w[i].type = "Metadata" THEN a.duration ELSE 0
    BY <1>1, <1>2, <1>4, <2>1, <2>3
  <2>5. new.text <=> \E i \in 1..(n + 1) : w[i].type # "Metadata" /\ w[i].text
    BY <1>1, <1>2, <1>4, <2>3, NextPosition DEF DeepgramSoFar
  <2> QED
    BY <1>3, <2>1, <2>3, <2>4, <2>5 DEF DeepgramSoFar
<1>5. CASE p.type # "Metadata"
  <2>1. PICK t \in BOOLEAN : t = (acc.text \/ p.text)
    OBVIOUS
  <2>2. new = [acc EXCEPT !.text = t]
    BY <1>2, <1>5, <2>1 DEF DeepgramObserve, NoteText
  <2>3. HasFields(new) /\ new.seconds = acc.seconds /\ new.text = t
    BY <1>3, <2>2 DEF HasFields, AccFields
  <2>4. new.seconds = IF \E i \in 1..(n + 1) : w[i].type = "Metadata" THEN a.duration ELSE 0
    BY <1>1, <1>2, <1>5, <2>3, NextPosition DEF DeepgramSoFar
  <2>5. new.text <=> \E i \in 1..(n + 1) : w[i].type # "Metadata" /\ w[i].text
    <3>1. t <=> acc.text \/ w[n + 1].text
      BY <1>2, <2>1
    <3> QED
      BY <1>1, <1>2, <1>5, <2>3, <3>1, NextPosition DEF DeepgramSoFar
  <2> QED
    BY <1>3, <2>1, <2>3, <2>4, <2>5 DEF DeepgramSoFar
<1> QED
  BY <1>4, <1>5

LEMMA StoppedNext ==
    ASSUME NEW w, NEW n \in Nat
    PROVE  /\ Cardinality(BlocksStopped(w, n)) \in Nat
           /\ ~(w[n + 1].type = "contentBlockStop" /\ w[n + 1].index # None) =>
                 Cardinality(BlocksStopped(w, n + 1)) = Cardinality(BlocksStopped(w, n))
           /\ w[n + 1].type = "contentBlockStop" /\ w[n + 1].index # None =>
                 Cardinality(BlocksStopped(w, n + 1)) = Cardinality(BlocksStopped(w, n)) + 1
<1> DEFINE S == {i \in Nat : w[i].type = "contentBlockStop" /\ w[i].index # None}
<1>1. BlocksStopped(w, n) = S \cap (1..n) /\ BlocksStopped(w, n + 1) = S \cap (1..(n + 1))
  BY DEF BlocksStopped
<1>2. n + 1 \in S <=> w[n + 1].type = "contentBlockStop" /\ w[n + 1].index # None
  OBVIOUS
<1> HIDE DEF S
<1>3. /\ Cardinality(S \cap (1..n)) \in Nat
      /\ Cardinality(S \cap (1..(n + 1)))
             = Cardinality(S \cap (1..n)) + IF n + 1 \in S THEN 1 ELSE 0
  BY CountUp
<1>4. CASE n + 1 \in S
  BY <1>1, <1>2, <1>3, <1>4
<1>5. CASE n + 1 \notin S
  <2>1. Cardinality(S \cap (1..(n + 1))) = Cardinality(S \cap (1..n))
    BY <1>3, <1>5
  <2> QED
    BY <1>1, <1>2, <1>3, <1>5, <2>1
<1> QED
  BY <1>4, <1>5

\* The calls that are open after one more piece.
OpenNow(w, n, k) == (\E i \in 1..n : Starts(w, i, k)) /\ \A i \in 1..n : ~Stops(w, i, k)

LEMMA OpenNext ==
    ASSUME NEW w, NEW n \in Nat, NEW k
    PROVE  /\ w[n + 1].index # k => (OpenNow(w, n + 1, k) <=> OpenNow(w, n, k))
           /\ w[n + 1].type \notin {"contentBlockStart", "contentBlockStop"} =>
                 (OpenNow(w, n + 1, k) <=> OpenNow(w, n, k))
           /\ Starts(w, n + 1, k) /\ (\A i \in 1..n : ~Stops(w, i, k)) =>
                 OpenNow(w, n + 1, k)
           /\ Stops(w, n + 1, k) => ~OpenNow(w, n + 1, k)
<1>1. n + 1 \in 1..(n + 1) /\ \A i \in 1..n : i \in 1..(n + 1)
  OBVIOUS
<1> QED
  BY <1>1, NextPosition DEF OpenNow, Starts, Stops

\* What is known of Bedrock's calls, by their numbers.
LEMMA BedrockCalls ==
    ASSUME NEW a, NEW w, NEW n, NEW acc
    PROVE  BedrockSoFar(acc, a, w, n) <=>
             /\ acc.tools = SubSeq(a.tools, 1, Cardinality(BlocksStopped(w, n)))
             /\ \A k \in Nat : k \in DOMAIN acc.blocks <=> OpenNow(w, n, k)
             /\ \A k \in DOMAIN acc.blocks :
                   acc.blocks[k] = [name |-> a.tools[k + 1].name,
                                    arguments |-> Arrived(a, w, n, k)]
BY DEF BedrockSoFar, OpenNow

LEMMA BedrockIndexed ==
    ASSUME NEW a \in Chats, NEW w \in Seq(Pieces(a)), BedrockSends(w, a), NEW n \in Nat,
           n + 1 <= Len(w)
    PROVE  /\ BedrockPiece(w, n + 1, a) /\ w[n + 1] \in Pieces(a)
           /\ w[n + 1].index = None => w[n + 1].index \notin Nat
           /\ w[n + 1].text \in BOOLEAN
           /\ \A k \in Nat : OpenNow(w, n, k) => k + 1 \in DOMAIN a.tools
<1>1. n + 1 \in DOMAIN w /\ \A i \in 1..n : i \in DOMAIN w
  OBVIOUS
<1>2. \A i \in DOMAIN w : BedrockPiece(w, i, a)
  BY DEF BedrockSends
<1>3. w[n + 1] \in Pieces(a)
  BY <1>1
<1>4. ASSUME NEW k \in Nat, OpenNow(w, n, k) PROVE k + 1 \in DOMAIN a.tools
  <2>1. PICK i \in 1..n : Starts(w, i, k)
    BY <1>4 DEF OpenNow
  <2>2. BringsNext(w, i, a) /\ w[i].index = k
    BY <1>1, <1>2, <1>4, <2>1, AnswersAssumption DEF Starts, BedrockPiece
  <2> QED
    BY <2>2, ToolOfPiece
<1>5. w[n + 1].index = None => w[n + 1].index \notin Nat
  BY AnswersAssumption
<1>6. w[n + 1].text \in BOOLEAN
  BY <1>3 DEF Pieces
<1> QED
  BY <1>1, <1>2, <1>3, <1>4, <1>5, <1>6

\* A piece that is of no call leaves them.
LEMMA BedrockNone ==
    ASSUME NEW a \in Chats, NEW w \in Seq(Pieces(a)), BedrockSends(w, a), NEW n \in Nat,
           n + 1 <= Len(w), NEW acc, IsBlocks(acc.blocks), BedrockSoFar(acc, a, w, n),
           w[n + 1].index = None,
           NEW new, new.tools = acc.tools, new.blocks = acc.blocks
    PROVE  BedrockSoFar(new, a, w, n + 1)
<1>1. \A k \in Nat : w[n + 1].index # k
  BY AnswersAssumption
<1>2. \A k \in Nat : OpenNow(w, n + 1, k) <=> OpenNow(w, n, k)
  BY <1>1, OpenNext
<1>3. Cardinality(BlocksStopped(w, n + 1)) = Cardinality(BlocksStopped(w, n))
  BY StoppedNext
<1>4. ASSUME NEW k \in DOMAIN acc.blocks PROVE Arrived(a, w, n + 1, k) = Arrived(a, w, n, k)
  <2>1. k \in Nat
    BY DEF IsBlocks
  <2>2. k + 1 \in DOMAIN a.tools
    BY <2>1, BedrockCalls, BedrockIndexed
  <2> QED
    BY <1>1, <2>1, <2>2, ArrivedNext
<1>5. /\ acc.tools = SubSeq(a.tools, 1, Cardinality(BlocksStopped(w, n)))
      /\ \A k \in Nat : k \in DOMAIN acc.blocks <=> OpenNow(w, n, k)
      /\ \A k \in DOMAIN acc.blocks :
            acc.blocks[k] = [name |-> a.tools[k + 1].name, arguments |-> Arrived(a, w, n, k)]
  BY BedrockCalls
<1>6. /\ new.tools = SubSeq(a.tools, 1, Cardinality(BlocksStopped(w, n + 1)))
      /\ \A k \in Nat : k \in DOMAIN new.blocks <=> OpenNow(w, n + 1, k)
      /\ \A k \in DOMAIN new.blocks :
            new.blocks[k] = [name |-> a.tools[k + 1].name,
                             arguments |-> Arrived(a, w, n + 1, k)]
  BY <1>2, <1>3, <1>4, <1>5
<1> QED
  BY <1>6, BedrockCalls

\* A piece that adds to a call that is open from then on.
LEMMA BedrockBlock ==
    ASSUME NEW a \in Chats, NEW w \in Seq(Pieces(a)), BedrockSends(w, a), NEW n \in Nat,
           n + 1 <= Len(w), NEW acc, IsBlocks(acc.blocks), BedrockSoFar(acc, a, w, n),
           NEW j \in Nat, w[n + 1].index = j, w[n + 1].type # "contentBlockStop",
           OpenNow(w, n + 1, j),
           NEW b, DOMAIN b = DOMAIN acc.blocks \cup {j},
           b[j] = [name |-> a.tools[j + 1].name, arguments |-> Arrived(a, w, n + 1, j)],
           \A k \in DOMAIN acc.blocks : k # j => b[k] = acc.blocks[k],
           NEW new, new.tools = acc.tools, new.blocks = b
    PROVE  BedrockSoFar(new, a, w, n + 1)
<1>1. /\ acc.tools = SubSeq(a.tools, 1, Cardinality(BlocksStopped(w, n)))
      /\ \A k \in Nat : k \in DOMAIN acc.blocks <=> OpenNow(w, n, k)
      /\ \A k \in DOMAIN acc.blocks :
            acc.blocks[k] = [name |-> a.tools[k + 1].name, arguments |-> Arrived(a, w, n, k)]
  BY BedrockCalls
<1>2. Cardinality(BlocksStopped(w, n + 1)) = Cardinality(BlocksStopped(w, n))
  BY StoppedNext
<1>3. \A k \in Nat : k # j => (OpenNow(w, n + 1, k) <=> OpenNow(w, n, k))
  BY OpenNext
<1>4. \A k \in Nat : k \in DOMAIN b <=> OpenNow(w, n + 1, k)
  BY <1>1, <1>3
<1>5. ASSUME NEW k \in DOMAIN b
      PROVE  b[k] = [name |-> a.tools[k + 1].name, arguments |-> Arrived(a, w, n + 1, k)]
  <2>1. CASE k = j
    BY <2>1
  <2>2. CASE k # j
    <3>1. k \in DOMAIN acc.blocks /\ k \in Nat
      BY <2>2 DEF IsBlocks
    <3>2. k + 1 \in DOMAIN a.tools
      BY <1>1, <3>1, BedrockIndexed
    <3>3. Arrived(a, w, n + 1, k) = Arrived(a, w, n, k)
      BY <2>2, <3>1, <3>2, ArrivedNext
    <3> QED
      BY <1>1, <2>2, <3>1, <3>3
  <2> QED
    BY <2>1, <2>2
<1>6. /\ new.tools = SubSeq(a.tools, 1, Cardinality(BlocksStopped(w, n + 1)))
      /\ \A k \in Nat : k \in DOMAIN new.blocks <=> OpenNow(w, n + 1, k)
      /\ \A k \in DOMAIN new.blocks :
            new.blocks[k] = [name |-> a.tools[k + 1].name,
                             arguments |-> Arrived(a, w, n + 1, k)]
  BY <1>1, <1>2, <1>4, <1>5
<1> QED
  BY <1>6, BedrockCalls

\* The start of a call.
LEMMA BedrockStart ==
    ASSUME NEW a \in Chats, NEW w \in Seq(Pieces(a)), BedrockSends(w, a), NEW n \in Nat,
           n + 1 <= Len(w), NEW acc, IsBlocks(acc.blocks), BedrockSoFar(acc, a, w, n),
           NEW p, p = w[n + 1], p.type = "contentBlockStart", p.name # None,
           NEW b, b = Put(acc.blocks, p.index, [name |-> p.name, arguments |-> <<>>])
    PROVE  /\ IsBlocks(b)
           /\ \A new : new.tools = acc.tools /\ new.blocks = b =>
                  BedrockSoFar(new, a, w, n + 1)
<1>1. BedrockPiece(w, n + 1, a) /\ p \in Pieces(a)
  BY BedrockIndexed
<1>2. /\ p.index # None /\ p.name = a.tools[p.index + 1].name /\ p.arguments = <<>>
      /\ \A i \in 1..n : w[i].index # p.index
      /\ BringsNext(w, n + 1, a)
  <2>1. (n + 1) - 1 = n
    OBVIOUS
  <2> QED
    BY <1>1, <2>1 DEF BedrockPiece
<1>3. PICK j \in Nat : j = p.index
  BY <1>1, <1>2 DEF Pieces, Count
<1>4. j + 1 \in DOMAIN a.tools /\ a.tools[j + 1].name \in STRING
  BY <1>2, <1>3, ToolOfPiece
<1>5. PICK block : block = [name |-> p.name, arguments |-> <<>>]
  OBVIOUS
<1>6. Arrived(a, w, n + 1, j) = <<>>
  <2>1. Arrived(a, w, n, j) = <<>>
    BY <1>2, <1>3, NoneArrived
  <2>2. Arrived(a, w, n + 1, j) = Arrived(a, w, n, j) \o p.arguments
    BY <1>2, <1>3, <1>4, ArrivedNext
  <2>3. <<>> \o <<>> = <<>>
    OBVIOUS
  <2> QED
    BY <1>2, <2>1, <2>2, <2>3
<1>7. b = [k \in DOMAIN acc.blocks \cup {j} |-> IF k = j THEN block ELSE acc.blocks[k]]
  BY <1>3, <1>5 DEF Put
<1>8. /\ DOMAIN b = DOMAIN acc.blocks \cup {j} /\ b[j] = block
      /\ \A k \in DOMAIN acc.blocks : k # j => b[k] = acc.blocks[k]
  BY <1>7
<1>9. IsBlocks(b)
  <2>1. block \in Tools
    <3>1. p.name \in STRING
      BY <1>2, <1>3, <1>4
    <3>2. PICK none \in Seq(Nat) : none = <<>>
      <4>1. <<>> \in Seq(Nat)
        OBVIOUS
      <4> QED
        BY <4>1
    <3>3. block = [name |-> p.name, arguments |-> none]
      BY <1>5, <3>2
    <3> QED
      BY <3>1, <3>2, <3>3 DEF Tools
  <2>2. PICK D : D = DOMAIN acc.blocks /\ IsFiniteSet(D) /\ D \subseteq Nat
    BY DEF IsBlocks
  <2>3. IsFiniteSet(D \cup {j})
    BY <2>2, FS_AddElement
  <2>4. \A k \in DOMAIN b : b[k] \in Tools
    BY <1>8, <2>1 DEF IsBlocks
  <2>5. b \in [DOMAIN b -> Tools]
    BY <1>7, <2>4
  <2>6. DOMAIN b = D \cup {j}
    BY <1>8, <2>2
  <2>7. IsFiniteSet(DOMAIN b) /\ DOMAIN b \subseteq Nat
    BY <1>3, <2>2, <2>3, <2>6
  <2> QED
    BY <2>5, <2>7 DEF IsBlocks
<1>10. OpenNow(w, n + 1, j)
  BY <1>2, <1>3, OpenNext DEF Starts, Stops
<1>11. b[j] = [name |-> a.tools[j + 1].name, arguments |-> Arrived(a, w, n + 1, j)]
  BY <1>2, <1>3, <1>5, <1>6, <1>8
<1>12. w[n + 1].index = j /\ w[n + 1].type # "contentBlockStop"
  BY <1>3
<1>13. ASSUME NEW new, new.tools = acc.tools, new.blocks = b
       PROVE  BedrockSoFar(new, a, w, n + 1)
  BY <1>3, <1>8, <1>10, <1>11, <1>12, <1>13, BedrockBlock
<1> QED
  BY <1>9, <1>13

\* A fragment of its arguments.
LEMMA BedrockDelta ==
    ASSUME NEW a \in Chats, NEW w \in Seq(Pieces(a)), BedrockSends(w, a), NEW n \in Nat,
           n + 1 <= Len(w), NEW acc, IsBlocks(acc.blocks), BedrockSoFar(acc, a, w, n),
           NEW p, p = w[n + 1], p.type = "contentBlockDelta", p.index # None,
           NEW b, b = Stitch(acc, p)
    PROVE  /\ IsBlocks(b)
           /\ \A new : new.tools = acc.tools /\ new.blocks = b =>
                  BedrockSoFar(new, a, w, n + 1)
<1>1. BedrockPiece(w, n + 1, a) /\ p \in Pieces(a)
  BY BedrockIndexed
<1>2. /\ p.name = None
      /\ \E i \in 1..n : Starts(w, i, p.index)
      /\ \A i \in 1..n : ~Stops(w, i, p.index)
      /\ BringsNext(w, n + 1, a)
  <2>1. (n + 1) - 1 = n
    OBVIOUS
  <2> QED
    BY <1>1, <2>1 DEF BedrockPiece
<1>3. PICK j \in Nat : j = p.index
  BY <1>1 DEF Pieces, Count
<1>4. OpenNow(w, n, j) /\ OpenNow(w, n + 1, j)
  <2>1. OpenNow(w, n, j)
    BY <1>2, <1>3 DEF OpenNow
  <2>2. w[n + 1].type \notin {"contentBlockStart", "contentBlockStop"}
    OBVIOUS
  <2> QED
    BY <2>1, <2>2, OpenNext
<1>5. /\ j \in DOMAIN acc.blocks
      /\ acc.blocks[j] = [name |-> a.tools[j + 1].name, arguments |-> Arrived(a, w, n, j)]
  BY <1>3, <1>4, BedrockCalls
<1>6. PICK block : block = OpenBlock(acc, p) /\ block = acc.blocks[j]
  BY <1>3, <1>5 DEF OpenBlock
<1>7. Stitched(b, acc, p, block) /\ block \in Tools
  BY <1>1, <1>6, StitchIs
<1>8. b[j].name = a.tools[j + 1].name
  <2>1. NameOf(block, p) = block.name
    BY <1>2 DEF NameOf
  <2>2. block.name = a.tools[j + 1].name
    BY <1>5, <1>6
  <2> QED
    BY <1>3, <1>7, <2>1, <2>2 DEF Stitched
<1>9. b[j].arguments = Arrived(a, w, n + 1, j)
  <2>1. j + 1 \in DOMAIN a.tools
    BY <1>3, <1>4, BedrockIndexed
  <2>2. Arrived(a, w, n + 1, j) = Arrived(a, w, n, j) \o p.arguments
    BY <1>2, <1>3, <2>1, ArrivedNext
  <2>3. block.arguments = Arrived(a, w, n, j)
    BY <1>5, <1>6
  <2> QED
    BY <1>3, <1>7, <2>2, <2>3 DEF Stitched
<1>10. /\ IsBlocks(b) /\ DOMAIN b = DOMAIN acc.blocks \cup {j}
       /\ \A k \in DOMAIN acc.blocks : k # j => b[k] = acc.blocks[k]
  BY <1>3, <1>7 DEF Stitched
<1>11. b[j] = [name |-> a.tools[j + 1].name, arguments |-> Arrived(a, w, n + 1, j)]
  <2>1. b[j] \in Tools
    BY <1>10 DEF IsBlocks
  <2> QED
    BY <1>8, <1>9, <2>1 DEF Tools
<1>12. w[n + 1].index = j /\ w[n + 1].type # "contentBlockStop"
  BY <1>3
<1>13. ASSUME NEW new, new.tools = acc.tools, new.blocks = b
       PROVE  BedrockSoFar(new, a, w, n + 1)
  BY <1>3, <1>4, <1>10, <1>11, <1>12, <1>13, BedrockBlock
<1> QED
  BY <1>10, <1>13

Without(b, blocks, j) == b = [i \in DOMAIN blocks \ {j} |-> blocks[i]]

\* Its end: what arrived of its arguments is all of them.
LEMMA BedrockStop ==
    ASSUME NEW a \in Chats, NEW w \in Seq(Pieces(a)), BedrockSends(w, a), NEW n \in Nat,
           n + 1 <= Len(w), NEW acc, IsBlocks(acc.blocks), acc.tools \in Seq(Tools),
           BedrockSoFar(acc, a, w, n),
           NEW p, p = w[n + 1], p.type = "contentBlockStop", p.index # None,
           NEW tools, tools = Append(acc.tools, acc.blocks[p.index]),
           NEW b, Without(b, acc.blocks, p.index)
    PROVE  /\ p.index \in DOMAIN acc.blocks
           /\ IsBlocks(b) /\ tools \in Seq(Tools)
           /\ \A new : new.tools = tools /\ new.blocks = b => BedrockSoFar(new, a, w, n + 1)
<1>1. BedrockPiece(w, n + 1, a) /\ p \in Pieces(a)
  BY BedrockIndexed
<1>2. /\ p.arguments = <<>> /\ BringsAll(w, n + 1, p.index, a)
      /\ p.index + 1 = Cardinality(BlocksStopped(w, n + 1))
      /\ \E i \in 1..n : Starts(w, i, p.index)
      /\ \A i \in 1..n : ~Stops(w, i, p.index)
      /\ BringsNext(w, n + 1, a)
  <2>1. (n + 1) - 1 = n
    OBVIOUS
  <2>2. p.type # "contentBlockStart"
    OBVIOUS
  <2> QED
    BY <1>1, <2>1, <2>2 DEF BedrockPiece
<1>3. PICK j \in Nat : j = p.index
  BY <1>1 DEF Pieces, Count
<1>4. OpenNow(w, n, j)
  BY <1>2, <1>3 DEF OpenNow
<1>5. PICK all \in Seq(Tools) : all = a.tools
  BY DEF Chats
<1>6. j + 1 \in DOMAIN all /\ all[j + 1] \in Tools
  BY <1>2, <1>3, <1>5, ToolOfPiece
<1>7. /\ acc.tools = SubSeq(a.tools, 1, Cardinality(BlocksStopped(w, n)))
      /\ \A k \in Nat : k \in DOMAIN acc.blocks <=> OpenNow(w, n, k)
      /\ \A k \in DOMAIN acc.blocks :
            acc.blocks[k] = [name |-> a.tools[k + 1].name, arguments |-> Arrived(a, w, n, k)]
  BY BedrockCalls
<1>8. Arrived(a, w, n, j) = all[j + 1].arguments
  <2>1. PICK s \in Seq(Nat) : s = all[j + 1].arguments
    BY <1>6 DEF Tools
  <2>2. Cardinality(Fragments(w, n + 1, j)) = Len(s)
    BY <1>2, <1>3, <1>5, <2>1 DEF BringsAll
  <2>3. Cardinality(Fragments(w, n, j)) = Len(s)
    <3>1. Fragments(w, n + 1, j) = Fragments(w, n, j)
      <4>1. \A i \in 1..n : i \in 1..(n + 1)
        OBVIOUS
      <4> QED
        BY <1>2, <4>1, NextPosition DEF Fragments
    <3> QED
      BY <2>2, <3>1
  <2>4. SubSeq(s, 1, Len(s)) = s
    OBVIOUS
  <2> QED
    BY <1>5, <2>1, <2>3, <2>4 DEF Arrived
<1>9. j \in DOMAIN acc.blocks /\ acc.blocks[j] = all[j + 1]
  <2>1. j \in DOMAIN acc.blocks
    BY <1>4, <1>7
  <2>2. acc.blocks[j] = [name |-> all[j + 1].name, arguments |-> all[j + 1].arguments]
    BY <1>5, <1>7, <1>8, <2>1
  <2> QED
    BY <1>6, <2>1, <2>2 DEF Tools
<1>10. Cardinality(BlocksStopped(w, n)) = j /\ Cardinality(BlocksStopped(w, n + 1)) = j + 1
  BY <1>2, <1>3, StoppedNext
<1>11. tools \in Seq(Tools) /\ tools = SubSeq(all, 1, j + 1)
  <2>1. acc.tools = SubSeq(all, 1, j)
    BY <1>5, <1>7, <1>10
  <2>2. tools = Append(SubSeq(all, 1, j), all[j + 1])
    BY <1>3, <1>9, <2>1
  <2>3. Append(SubSeq(all, 1, j), all[j + 1]) = SubSeq(all, 1, j + 1)
    BY <1>3, <1>5, <1>6, OneMore
  <2>4. PICK t \in Seq(Tools) : t = acc.tools
    OBVIOUS
  <2>5. Append(t, all[j + 1]) \in Seq(Tools)
    BY <1>6, <2>4
  <2> QED
    BY <2>1, <2>2, <2>3, <2>4, <2>5
<1>12. DOMAIN b = DOMAIN acc.blocks \ {j} /\ \A k \in DOMAIN b : b[k] = acc.blocks[k]
  BY <1>3 DEF Without
<1>13. IsBlocks(b)
  <2>1. \A k \in DOMAIN b : b[k] \in Tools
    BY <1>12 DEF IsBlocks
  <2>2. b \in [DOMAIN b -> Tools]
    BY <2>1 DEF Without
  <2>3. PICK D : D = DOMAIN acc.blocks /\ IsFiniteSet(D) /\ D \subseteq Nat
    BY DEF IsBlocks
  <2>4. IsFiniteSet(D \ {j})
    BY <2>3, FS_RemoveElement
  <2>5. DOMAIN b = D \ {j}
    BY <1>12, <2>3
  <2> QED
    BY <2>2, <2>3, <2>4, <2>5 DEF IsBlocks
<1>14. \A k \in Nat : k \in DOMAIN b <=> OpenNow(w, n + 1, k)
  <2>1. ~OpenNow(w, n + 1, j)
    BY <1>3, OpenNext DEF Stops
  <2>2. \A k \in Nat : k # j => (OpenNow(w, n + 1, k) <=> OpenNow(w, n, k))
    BY <1>3, OpenNext
  <2> QED
    BY <1>7, <1>12, <2>1, <2>2
<1>15. ASSUME NEW k \in DOMAIN b
       PROVE  b[k] = [name |-> a.tools[k + 1].name, arguments |-> Arrived(a, w, n + 1, k)]
  <2>1. k \in DOMAIN acc.blocks /\ k \in Nat /\ k # j
    BY <1>12 DEF IsBlocks
  <2>2. k + 1 \in DOMAIN a.tools
    BY <1>7, <2>1, BedrockIndexed
  <2>3. Arrived(a, w, n + 1, k) = Arrived(a, w, n, k)
    BY <1>3, <2>1, <2>2, ArrivedNext
  <2> QED
    BY <1>7, <1>12, <2>1, <2>3
<1>16. ASSUME NEW new, new.tools = tools, new.blocks = b
       PROVE  BedrockSoFar(new, a, w, n + 1)
  <2>1. /\ new.tools = SubSeq(a.tools, 1, Cardinality(BlocksStopped(w, n + 1)))
        /\ \A k \in Nat : k \in DOMAIN new.blocks <=> OpenNow(w, n + 1, k)
        /\ \A k \in DOMAIN new.blocks :
              new.blocks[k] = [name |-> a.tools[k + 1].name,
                               arguments |-> Arrived(a, w, n + 1, k)]
    BY <1>5, <1>10, <1>11, <1>14, <1>15, <1>16
  <2> QED
    BY <2>1, BedrockCalls
<1> QED
  BY <1>3, <1>9, <1>11, <1>13, <1>16

LEMMA BedrockStep ==
    ASSUME NEW a \in Chats, NEW w \in Seq(Pieces(a)), BedrockSends(w, a), NEW n \in Nat,
           n + 1 <= Len(w), NEW acc, IsAcc(acc, a), CountsSoFar(acc, a, w, n),
           TextSoFar(acc, w, n), BedrockSoFar(acc, a, w, n),
           NEW new, new = BedrockObserve(acc, w[n + 1])
    PROVE  /\ IsAcc(new, a) /\ CountsSoFar(new, a, w, n + 1) /\ TextSoFar(new, w, n + 1)
           /\ BedrockSoFar(new, a, w, n + 1)
<1>1. PICK p \in Pieces(a) : p = w[n + 1] /\ BedrockPiece(w, n + 1, a)
  BY BedrockIndexed
<1>2. /\ p.text \in BOOLEAN /\ acc.text \in BOOLEAN
      /\ IsBlocks(acc.blocks) /\ acc.tools \in Seq(Tools) /\ HasFields(acc)
  BY <1>1, BedrockIndexed, AccIs
<1>3. /\ p.usage # None => p.type = "metadata"
      /\ p.text => p.type = "contentBlockDelta" /\ p.index = None
      /\ p.index # None =>
            p.type \in {"contentBlockStart", "contentBlockDelta", "contentBlockStop"}
      /\ p.type = "contentBlockStart" /\ p.index = None => p.name = None
  BY <1>1 DEF BedrockPiece
<1>4. p.type # "metadata" => CountsSoFar(acc, a, w, n + 1)
  BY <1>1, <1>3, NoCounts
<1>5. ~p.text => TextSoFar(acc, w, n + 1)
  <2>1. ~p.text => acc.text = (acc.text \/ p.text)
    BY <1>2
  <2> QED
    BY <1>1, <1>2, <2>1, TextNext
<1>6. CASE p.type = "contentBlockStart"
  <2>1. CountsSoFar(acc, a, w, n + 1) /\ TextSoFar(acc, w, n + 1)
    BY <1>3, <1>4, <1>5, <1>6
  <2>2. CASE p.name = None
    <3>1. new = acc
      BY <1>1, <1>6, <2>2 DEF BedrockObserve
    <3>2. p.index = None
      <4>1. p.index # None => p.name = a.tools[p.index + 1].name
        BY <1>1, <1>6 DEF BedrockPiece
      <4>2. p.index # None => a.tools[p.index + 1].name \in STRING
        BY <1>1, ToolOfPiece DEF BedrockPiece
      <4> QED
        BY <2>2, <4>1, <4>2, AnswersAssumption
    <3>3. BedrockSoFar(acc, a, w, n + 1)
      BY <1>1, <1>2, <3>2, BedrockNone
    <3> QED
      BY <2>1, <3>1, <3>3
  <2>3. CASE p.name # None
    <3>1. PICK b : b = Put(acc.blocks, p.index, [name |-> p.name, arguments |-> <<>>])
      OBVIOUS
    <3>2. IsBlocks(b) /\ \A x : x.tools = acc.tools /\ x.blocks = b => BedrockSoFar(x, a, w, n + 1)
      BY <1>1, <1>2, <1>6, <2>3, <3>1, BedrockStart
    <3>3. new = [acc EXCEPT !.blocks = b]
      BY <1>1, <1>6, <2>3, <3>1 DEF BedrockObserve
    <3>4. HasFields(new) /\ ButForCalls(new, acc) /\ new.blocks = b /\ new.tools = acc.tools
      BY <1>2, <3>3 DEF HasFields, ButForCalls, AccFields
    <3>5. IsBlocks(new.blocks) /\ new.tools \in Seq(Tools)
      BY <1>2, <3>2, <3>4
    <3>6. IsAcc(new, a) /\ CountsSoFar(new, a, w, n + 1) /\ TextSoFar(new, w, n + 1)
      BY <2>1, <3>4, <3>5, CallsSet
    <3> QED
      BY <3>2, <3>4, <3>6
  <2> QED
    BY <2>2, <2>3
<1>7. CASE p.type = "contentBlockDelta"
  <2>1. CASE p.index = None
    <3>1. PICK t \in BOOLEAN : t = (acc.text \/ p.text)
      OBVIOUS
    <3>2. new = [acc EXCEPT !.text = t]
      BY <1>1, <1>7, <2>1, <3>1 DEF BedrockObserve, NoteText
    <3>3. /\ HasFields(new) /\ new.text = t
          /\ \A x \in AccFields \ {"text"} : new[x] = acc[x]
      BY <1>2, <3>2 DEF HasFields, AccFields
    <3>4. /\ new.prompt = acc.prompt /\ new.completion = acc.completion
          /\ new.cached = acc.cached /\ new.unknown = acc.unknown
          /\ new.seconds = acc.seconds /\ new.tools = acc.tools
          /\ new.blocks = acc.blocks /\ new.message = acc.message
      BY <3>3 DEF AccFields
    <3>5. IsAcc(new, a)
      BY <3>1, <3>3, <3>4 DEF IsAcc
    <3>6. CountsSoFar(acc, a, w, n + 1)
      BY <1>4, <1>7
    <3>7. CountsSoFar(new, a, w, n + 1)
      BY <3>4, <3>6, CountsKept
    <3>8. TextSoFar(new, w, n + 1)
      BY <1>1, <1>2, <3>1, <3>3, TextNext
    <3>9. BedrockSoFar(new, a, w, n + 1)
      BY <1>1, <1>2, <2>1, <3>4, BedrockNone
    <3> QED
      BY <3>5, <3>7, <3>8, <3>9
  <2>2. CASE p.index # None
    <3>1. PICK b : b = Stitch(acc, p)
      OBVIOUS
    <3>2. IsBlocks(b) /\ \A x : x.tools = acc.tools /\ x.blocks = b => BedrockSoFar(x, a, w, n + 1)
      BY <1>1, <1>2, <1>7, <2>2, <3>1, BedrockDelta
    <3>3. new = [acc EXCEPT !.blocks = b]
      BY <1>1, <1>7, <2>2, <3>1 DEF BedrockObserve
    <3>4. HasFields(new) /\ ButForCalls(new, acc) /\ new.blocks = b /\ new.tools = acc.tools
      BY <1>2, <3>3 DEF HasFields, ButForCalls, AccFields
    <3>5. IsBlocks(new.blocks) /\ new.tools \in Seq(Tools)
      BY <1>2, <3>2, <3>4
    <3>6. CountsSoFar(acc, a, w, n + 1) /\ TextSoFar(acc, w, n + 1)
      BY <1>3, <1>4, <1>5, <1>7, <2>2
    <3>7. IsAcc(new, a) /\ CountsSoFar(new, a, w, n + 1) /\ TextSoFar(new, w, n + 1)
      BY <3>4, <3>5, <3>6, CallsSet
    <3> QED
      BY <3>2, <3>4, <3>7
  <2> QED
    BY <2>1, <2>2
<1>8. CASE p.type = "contentBlockStop"
  <2>1. CountsSoFar(acc, a, w, n + 1) /\ TextSoFar(acc, w, n + 1)
    BY <1>3, <1>4, <1>5, <1>8
  <2>2. CASE p.index = None
    <3>1. p.index \notin DOMAIN acc.blocks
      BY <1>1, <1>2, <2>2, BedrockIndexed DEF IsBlocks
    <3>2. new = acc
      BY <1>1, <1>8, <3>1 DEF BedrockObserve
    <3>3. BedrockSoFar(acc, a, w, n + 1)
      BY <1>1, <1>2, <2>2, BedrockNone
    <3> QED
      BY <2>1, <3>2, <3>3
  <2>3. CASE p.index # None
    <3>1. PICK tools : tools = Append(acc.tools, acc.blocks[p.index])
      OBVIOUS
    <3>2. PICK b : Without(b, acc.blocks, p.index)
      BY DEF Without
    <3>3. /\ p.index \in DOMAIN acc.blocks /\ IsBlocks(b) /\ tools \in Seq(Tools)
          /\ \A x : x.tools = tools /\ x.blocks = b => BedrockSoFar(x, a, w, n + 1)
      BY <1>1, <1>2, <1>8, <2>3, <3>1, <3>2, BedrockStop
    <3>4. new = [acc EXCEPT !.tools = tools, !.blocks = b]
      BY <1>1, <1>8, <3>1, <3>2, <3>3 DEF BedrockObserve, Without
    <3>5. HasFields(new) /\ ButForCalls(new, acc) /\ new.blocks = b /\ new.tools = tools
      BY <1>2, <3>4 DEF HasFields, ButForCalls, AccFields
    <3>6. IsBlocks(new.blocks) /\ new.tools \in Seq(Tools)
      BY <3>3, <3>5
    <3>7. IsAcc(new, a) /\ CountsSoFar(new, a, w, n + 1) /\ TextSoFar(new, w, n + 1)
      BY <2>1, <3>5, <3>6, CallsSet
    <3> QED
      BY <3>3, <3>5, <3>7
  <2> QED
    BY <2>2, <2>3
<1>9. CASE p.type \notin {"contentBlockStart", "contentBlockDelta", "contentBlockStop"}
  <2>1. new = NoteUsage(acc, p.usage)
    BY <1>1, <1>9 DEF BedrockObserve
  <2>2. /\ IsAcc(new, a) /\ CountsSoFar(new, a, w, n + 1)
        /\ new.text = acc.text /\ new.tools = acc.tools /\ new.blocks = acc.blocks
    BY <1>1, <2>1, NoteUsageSoFar
  <2>3. p.index = None /\ ~p.text
    BY <1>3, <1>9
  <2>4. TextSoFar(new, w, n + 1)
    BY <1>5, <2>2, <2>3 DEF TextSoFar
  <2>5. BedrockSoFar(new, a, w, n + 1)
    BY <1>1, <1>2, <2>2, <2>3, BedrockNone
  <2> QED
    BY <2>2, <2>4, <2>5
<1> QED
  BY <1>6, <1>7, <1>8, <1>9

(***************************************************************************)
(* One more piece of any stream                                            *)
(***************************************************************************)
OtherStreams ==
    {"bedrock.stream", "deepgram.live", "elevenlabs.stream", "elevenlabs.astream"}

LEMMA StreamFlavours ==
    ASSUME NEW f \in Flavours, How(f).stream
    PROVE  f \in OpenAIStreams \cup AnthropicStreams \cup GeminiStreams \cup OtherStreams
<1>1. f \in {"openai.chat", "openai.embeddings", "openai.audio", "anthropic.create",
             "gemini.generate", "bedrock.converse", "cohere.chat", "cohere.embed",
             "cohere.rerank", "voyage.embed", "voyage.rerank", "deepgram.file",
             "elevenlabs.convert", "replicate.run"} => ~How(f).stream
  BY DEF How, Plain, OpenAIChat, OpenAIEmbeddings, OpenAIAudio, AnthropicCreate,
         GeminiGenerate, BedrockConverse, CohereChat, CohereEmbed, CohereRerank,
         VoyageEmbed, VoyageRerank, DeepgramFile, ElevenLabsValue, ReplicateRun
<1> QED
  BY <1>1 DEF Flavours, ChatFlavours, SpeechFlavours, VoiceFlavours, OpenAIStreams,
              AnthropicStreams, GeminiStreams, OtherStreams

LEMMA ShapeOf ==
    ASSUME NEW f
    PROVE  /\ f \in ChatFlavours => Shape(f) = Chats
           /\ f \in SpeechFlavours =>
                 Shape(f) = [text : {"none", "words"}, duration : Count]
           /\ f \in VoiceFlavours => Shape(f) = [chars : Nat]
<1> DEFINE Rest == {"openai.embeddings", "openai.audio", "cohere.embed", "cohere.rerank",
                    "voyage.embed", "voyage.rerank", "replicate.run"}
<1>1. /\ f \in ChatFlavours => f \notin SpeechFlavours \cup VoiceFlavours \cup Rest
      /\ f \in SpeechFlavours => f \notin ChatFlavours \cup VoiceFlavours \cup Rest
      /\ f \in VoiceFlavours => f \notin ChatFlavours \cup SpeechFlavours \cup Rest
  BY DEF ChatFlavours, SpeechFlavours, VoiceFlavours, OpenAIStreams, AnthropicStreams,
         GeminiStreams
<1>2. f \in ChatFlavours => Shape(f) = Chats
  BY <1>1 DEF Shape
<1>3. f \in SpeechFlavours => Shape(f) = [text : {"none", "words"}, duration : Count]
  BY <1>1 DEF Shape
<1>4. f \in VoiceFlavours => Shape(f) = [chars : Nat]
  BY <1>1 DEF Shape
<1> QED
  BY <1>2, <1>3, <1>4

\* An answer and its pieces, as the provider of a stream sends them.
Sent(f, a, w) ==
    /\ f \in OpenAIStreams \cup AnthropicStreams \cup GeminiStreams \cup OtherStreams
    /\ f \in OpenAIStreams => a \in Chats /\ w \in Seq(Pieces(a)) /\ OpenAISends(w, a)
    /\ f \in AnthropicStreams => a \in Chats /\ w \in Seq(Pieces(a))
    /\ f \in GeminiStreams => a \in Chats /\ w \in Seq(Pieces(a)) /\ GeminiSends(w, a)
    /\ f = "bedrock.stream" => a \in Chats /\ w \in Seq(Pieces(a)) /\ BedrockSends(w, a)
    /\ f = "deepgram.live" => /\ a.duration \in Count /\ a.text \in {"none", "words"}
                              /\ w \in Seq(DeepgramPieces) /\ DeepgramSends(w, a)
    /\ f \in {"elevenlabs.stream", "elevenlabs.astream"} => a.chars \in Nat
    /\ Len(w) \in Nat /\ w = [i \in 1..Len(w) |-> w[i]] /\ a # None

LEMMA SentAs ==
    ASSUME NEW f, f \in DOMAIN Answers, NEW a \in Answers[f], NEW w \in Wires(f, a),
           How(f).stream
    PROVE  Sent(f, a, w)
<1>1. /\ Sends(f, a, w) /\ a \in Shape(f) /\ f \in Flavours /\ a # None
  BY WiresAssumption, AnswersAssumption
<1>2. f \in OpenAIStreams \cup AnthropicStreams \cup GeminiStreams \cup OtherStreams
  BY <1>1, StreamFlavours
<1>3. CASE f \in OpenAIStreams \cup AnthropicStreams \cup GeminiStreams \cup {"bedrock.stream"}
  <2>1. a \in Chats
    BY <1>1, <1>3, ShapeOf DEF ChatFlavours
  <2>2. w \in Seq(Pieces(a)) /\ (f \in OpenAIStreams => OpenAISends(w, a))
        /\ (f \in GeminiStreams => GeminiSends(w, a))
        /\ (f = "bedrock.stream" => BedrockSends(w, a))
    BY <1>1, <1>3 DEF Sends, OpenAIStreams, AnthropicStreams, GeminiStreams
  <2>3. Len(w) \in Nat /\ w = [i \in 1..Len(w) |-> w[i]]
    BY <2>2
  <2>4. f \notin {"deepgram.live", "elevenlabs.stream", "elevenlabs.astream"}
    BY <1>3 DEF OpenAIStreams, AnthropicStreams, GeminiStreams
  <2> QED
    BY <1>1, <1>2, <2>1, <2>2, <2>3, <2>4 DEF Sent
<1>4. CASE f = "deepgram.live"
  <2>1. a.duration \in Count /\ a.text \in {"none", "words"}
    <3>1. f \in SpeechFlavours
      BY <1>4 DEF SpeechFlavours
    <3>2. a \in [text : {"none", "words"}, duration : Count]
      BY <1>1, <3>1, ShapeOf
    <3> QED
      BY <3>2
  <2>2. w \in Seq(DeepgramPieces) /\ DeepgramSends(w, a)
    BY <1>1, <1>4 DEF Sends, OpenAIStreams, AnthropicStreams, GeminiStreams
  <2>3. Len(w) \in Nat /\ w = [i \in 1..Len(w) |-> w[i]]
    BY <2>2
  <2> QED
    BY <1>1, <1>2, <1>4, <2>1, <2>2, <2>3
       DEF Sent, OpenAIStreams, AnthropicStreams, GeminiStreams
<1>5. CASE f \in {"elevenlabs.stream", "elevenlabs.astream"}
  <2>1. a.chars \in Nat
    <3>1. f \in VoiceFlavours
      BY <1>5 DEF VoiceFlavours
    <3>2. a \in [chars : Nat]
      BY <1>1, <3>1, ShapeOf
    <3> QED
      BY <3>2
  <2>3. w \in Seq({Piece})
    BY <1>1, <1>5 DEF Sends, OpenAIStreams, AnthropicStreams, GeminiStreams
  <2>2. Len(w) \in Nat /\ w = [i \in 1..Len(w) |-> w[i]]
    BY <2>3
  <2> QED
    BY <1>1, <1>2, <1>5, <2>1, <2>2 DEF Sent, OpenAIStreams, AnthropicStreams, GeminiStreams
<1> QED
  BY <1>2, <1>3, <1>4, <1>5 DEF OtherStreams

\* Of the streams, one provider's are not another's.
Kind(f) ==
    /\ f \in OpenAIStreams <=> f \notin AnthropicStreams \cup GeminiStreams \cup OtherStreams
    /\ f \in AnthropicStreams <=> f \notin OpenAIStreams \cup GeminiStreams \cup OtherStreams
    /\ f \in GeminiStreams <=> f \notin OpenAIStreams \cup AnthropicStreams \cup OtherStreams

LEMMA Apart ==
    ASSUME NEW f, f \in OpenAIStreams \cup AnthropicStreams \cup GeminiStreams \cup OtherStreams
    PROVE  Kind(f)
BY DEF Kind, OpenAIStreams, AnthropicStreams, GeminiStreams, OtherStreams

LEMMA SoFarOf ==
    ASSUME NEW f, NEW acc, NEW a, NEW w, NEW n
    PROVE  /\ f \in OpenAIStreams =>
                 (SoFar(f, acc, a, w, n) <=>
                     /\ IsAcc(acc, a) /\ CountsSoFar(acc, a, w, n)
                     /\ TextSoFar(acc, w, n) /\ OpenAISoFar(acc, a, w, n))
           /\ f \in AnthropicStreams =>
                 (SoFar(f, acc, a, w, n) <=>
                     /\ IsAcc(acc, a) /\ CountsSoFar(acc, a, w, n)
                     /\ ~acc.text /\ acc.tools = <<>>)
           /\ f \in GeminiStreams =>
                 (SoFar(f, acc, a, w, n) <=>
                     /\ IsAcc(acc, a) /\ CountsSoFar(acc, a, w, n)
                     /\ TextSoFar(acc, w, n) /\ GeminiSoFar(acc, a, w, n))
           /\ f = "bedrock.stream" =>
                 (SoFar(f, acc, a, w, n) <=>
                     /\ IsAcc(acc, a) /\ CountsSoFar(acc, a, w, n)
                     /\ TextSoFar(acc, w, n) /\ BedrockSoFar(acc, a, w, n))
           /\ f = "deepgram.live" =>
                 (SoFar(f, acc, a, w, n) <=> DeepgramSoFar(acc, a, w, n))
           /\ f \in {"elevenlabs.stream", "elevenlabs.astream"} => SoFar(f, acc, a, w, n)
<1>1. ASSUME f \in OpenAIStreams \cup AnthropicStreams \cup GeminiStreams \cup OtherStreams
      PROVE  Kind(f)
  BY <1>1, Apart
<1>2. CASE f \in OpenAIStreams
  BY <1>1, <1>2 DEF SoFar, Kind, OtherStreams
<1>3. CASE f \in AnthropicStreams
  BY <1>1, <1>3 DEF SoFar, Kind, OtherStreams
<1>4. CASE f \in GeminiStreams
  BY <1>1, <1>4 DEF SoFar, Kind, OtherStreams
<1>5. CASE f \in OtherStreams
  BY <1>1, <1>5 DEF SoFar, Kind, OtherStreams
<1> QED
  BY <1>2, <1>3, <1>4, <1>5 DEF OtherStreams

LEMMA ObserveOf ==
    ASSUME NEW f, NEW acc, NEW p
    PROVE  /\ f \in OpenAIStreams => Observe(f, acc, p) = OpenAIObserve(acc, p)
           /\ f \in AnthropicStreams => Observe(f, acc, p) = AnthropicObserve(acc, p)
           /\ f \in GeminiStreams => Observe(f, acc, p) = GeminiObserve(acc, p)
           /\ f = "bedrock.stream" => Observe(f, acc, p) = BedrockObserve(acc, p)
           /\ f = "deepgram.live" => Observe(f, acc, p) = DeepgramObserve(acc, p)
<1>1. ASSUME f \in OpenAIStreams \cup AnthropicStreams \cup GeminiStreams \cup OtherStreams
      PROVE  Kind(f)
  BY <1>1, Apart
<1>2. CASE f \in OpenAIStreams
  BY <1>1, <1>2 DEF Observe, Kind, OtherStreams
<1>3. CASE f \in AnthropicStreams
  BY <1>1, <1>3 DEF Observe, Kind, OtherStreams
<1>4. CASE f \in GeminiStreams
  BY <1>1, <1>4 DEF Observe, Kind, OtherStreams
<1>5. CASE f \in OtherStreams
  BY <1>1, <1>5 DEF Observe, Kind, OtherStreams
<1> QED
  BY <1>2, <1>3, <1>4, <1>5 DEF OtherStreams

LEMMA SoFarStep ==
    ASSUME NEW f, NEW a, NEW w, Sent(f, a, w), NEW n \in Nat, n + 1 <= Len(w),
           NEW acc, SoFar(f, acc, a, w, n),
           NEW new, new = Observe(f, acc, w[n + 1])
    PROVE  SoFar(f, new, a, w, n + 1)
<1>0. PICK p : p = w[n + 1]
  OBVIOUS
<1>1. CASE f \in OpenAIStreams
  <2>1. /\ a \in Chats /\ w \in Seq(Pieces(a)) /\ OpenAISends(w, a)
    BY <1>1 DEF Sent
  <2>2. new = OpenAIObserve(acc, w[n + 1])
    BY <1>1, ObserveOf
  <2>3. /\ IsAcc(new, a) /\ CountsSoFar(new, a, w, n + 1)
        /\ TextSoFar(new, w, n + 1) /\ OpenAISoFar(new, a, w, n + 1)
    BY <1>1, <2>1, <2>2, SoFarOf, OpenAIStep
  <2> QED
    BY <1>1, <2>3, SoFarOf
<1>2. CASE f \in AnthropicStreams
  <2>1. a \in Chats /\ w \in Seq(Pieces(a))
    BY <1>2 DEF Sent
  <2>2. new = AnthropicObserve(acc, w[n + 1])
    BY <1>2, ObserveOf
  <2>3. /\ IsAcc(new, a) /\ CountsSoFar(new, a, w, n + 1) /\ ~new.text /\ new.tools = <<>>
    BY <1>2, <2>1, <2>2, SoFarOf, AnthropicStep
  <2> QED
    BY <1>2, <2>3, SoFarOf
<1>3. CASE f \in GeminiStreams
  <2>1. a \in Chats /\ w \in Seq(Pieces(a)) /\ GeminiSends(w, a)
    BY <1>3 DEF Sent
  <2>2. new = GeminiObserve(acc, w[n + 1])
    BY <1>3, ObserveOf
  <2>3. /\ IsAcc(new, a) /\ CountsSoFar(new, a, w, n + 1)
        /\ TextSoFar(new, w, n + 1) /\ GeminiSoFar(new, a, w, n + 1)
    BY <1>3, <2>1, <2>2, SoFarOf, GeminiStep
  <2> QED
    BY <1>3, <2>3, SoFarOf
<1>4. CASE f = "bedrock.stream"
  <2>1. a \in Chats /\ w \in Seq(Pieces(a)) /\ BedrockSends(w, a)
    BY <1>4 DEF Sent
  <2>2. new = BedrockObserve(acc, w[n + 1])
    BY <1>4, ObserveOf
  <2>3. /\ IsAcc(new, a) /\ CountsSoFar(new, a, w, n + 1)
        /\ TextSoFar(new, w, n + 1) /\ BedrockSoFar(new, a, w, n + 1)
    BY <1>4, <2>1, <2>2, SoFarOf, BedrockStep
  <2> QED
    BY <1>4, <2>3, SoFarOf
<1>5. CASE f = "deepgram.live"
  <2>1. a.duration \in Count /\ w \in Seq(DeepgramPieces) /\ DeepgramSends(w, a)
    BY <1>5 DEF Sent
  <2>2. new = DeepgramObserve(acc, w[n + 1]) /\ DeepgramSoFar(acc, a, w, n)
    BY <1>5, ObserveOf, SoFarOf
  <2>3. DeepgramSoFar(new, a, w, n + 1)
    BY <2>1, <2>2, DeepgramStep
  <2> QED
    BY <1>5, <2>3, SoFarOf
<1>6. CASE f \in {"elevenlabs.stream", "elevenlabs.astream"}
  BY <1>6, SoFarOf
<1> QED
  BY <1>1, <1>2, <1>3, <1>4, <1>5, <1>6 DEF Sent, OtherStreams

LEMMA FreshIs ==
    ASSUME NEW a \in Chats
    PROVE  IsAcc(Fresh, a) /\ (\A w : CountsSoFar(Fresh, a, w, 0) /\ TextSoFar(Fresh, w, 0))
<1>1. /\ Fresh.prompt = 0 /\ Fresh.completion = 0 /\ Fresh.cached = 0 /\ Fresh.seconds = 0
      /\ Fresh.text = FALSE /\ Fresh.tools = <<>> /\ Fresh.blocks = <<>>
      /\ Fresh.message = None /\ Fresh.unknown = TRUE
  BY DEF Fresh
<1>2. HasFields(Fresh)
  BY DEF Fresh, HasFields, AccFields
<1>3. IsBlocks(Fresh.blocks)
  <2>1. PICK b : b = <<>>
    OBVIOUS
  <2>2. DOMAIN b = {} /\ b \in [{} -> Tools]
    BY <2>1
  <2>3. IsFiniteSet({})
    BY FS_EmptySet
  <2> QED
    BY <1>1, <2>1, <2>2, <2>3 DEF IsBlocks
<1>4. Fresh.tools \in Seq(Tools)
  <2>1. <<>> \in Seq(Tools)
    OBVIOUS
  <2> QED
    BY <1>1, <2>1
<1>5. IsAcc(Fresh, a)
  <2>1. \A x \in {"prompt", "completion", "cached", "seconds"} : Fresh[x] \in Nat
    BY <1>1
  <2>2. Fresh.text \in BOOLEAN /\ Fresh.unknown \in BOOLEAN
    BY <1>1
  <2>3. Fresh.message \in {a, None}
    BY <1>1
  <2> QED
    BY <1>2, <1>3, <1>4, <2>1, <2>2, <2>3 DEF IsAcc
<1>6. \A x \in Kinds : Fresh[x] = 0 /\ 0 <= a[x]
  BY <1>1 DEF Kinds, Chats
<1>7. \A i \in 1..0 : FALSE
  OBVIOUS
<1>8. ASSUME NEW w PROVE CountsSoFar(Fresh, a, w, 0) /\ TextSoFar(Fresh, w, 0)
  BY <1>1, <1>6, <1>7 DEF CountsSoFar, TextSoFar
<1> QED
  BY <1>5, <1>8

LEMMA FirstSeenNone == FirstSeen(<<>>) = <<>>
<1>1. PICK s \in Seq({}) : s = <<>>
  <2>1. <<>> \in Seq({})
    OBVIOUS
  <2> QED
    BY <2>1
<1>2. Firsts(s) \subseteq {}
  <2>1. Firsts(s) \in SUBSET (1..Len(s)) /\ Len(s) = 0
    BY <1>1, FirstSeenIs
  <2> QED
    BY <2>1
<1>3. PICK t \in Seq({}) : t = FirstSeen(s)
  BY <1>1, FirstSeenIs
<1>4. Len(t) = 0
  <2>1. Firsts(s) = {}
    BY <1>2
  <2>2. Cardinality(Firsts(s)) = 0
    BY <2>1, FS_EmptySet
  <2> QED
    BY <1>1, <1>3, <2>2, FirstSeenIs
<1>5. t = <<>>
  BY <1>4
<1> QED
  BY <1>1, <1>3, <1>5

\* Before the first piece.
LEMMA FreshSoFar ==
    ASSUME NEW f, NEW a, NEW w, Sent(f, a, w)
    PROVE  SoFar(f, Fresh, a, w, 0)
<1>1. /\ Fresh.tools = <<>> /\ Fresh.blocks = <<>> /\ Fresh.text = FALSE /\ Fresh.seconds = 0
  BY DEF Fresh
<1>2. \A i \in 1..0 : FALSE
  OBVIOUS
<1>3. DOMAIN Fresh.blocks = {}
  BY <1>1
<1>4. CASE f \in OpenAIStreams
  <2>1. OpenAISoFar(Fresh, a, w, 0)
    BY <1>2, <1>3 DEF OpenAISoFar
  <2> QED
    BY <1>4, <2>1, FreshIs, SoFarOf DEF Sent
<1>5. CASE f \in AnthropicStreams
  BY <1>1, <1>5, FreshIs, SoFarOf DEF Sent
<1>6. CASE f \in GeminiStreams
  <2>1. Called(w, 0) = {}
    BY <1>2 DEF Called
  <2>2. Cardinality(Called(w, 0)) = 0
    BY <2>1, FS_EmptySet
  <2>3. SubSeq(a.tools, 1, 0) = <<>>
    OBVIOUS
  <2>4. GeminiSoFar(Fresh, a, w, 0)
    BY <1>1, <2>2, <2>3, FirstSeenNone DEF GeminiSoFar
  <2> QED
    BY <1>6, <2>4, FreshIs, SoFarOf DEF Sent
<1>7. CASE f = "bedrock.stream"
  <2>1. BlocksStopped(w, 0) = {}
    BY <1>2 DEF BlocksStopped
  <2>2. Cardinality(BlocksStopped(w, 0)) = 0
    BY <2>1, FS_EmptySet
  <2>3. SubSeq(a.tools, 1, 0) = <<>>
    OBVIOUS
  <2>4. \A k : ~OpenNow(w, 0, k)
    BY <1>2 DEF OpenNow
  <2>5. BedrockSoFar(Fresh, a, w, 0)
    BY <1>1, <1>3, <2>2, <2>3, <2>4, BedrockCalls
  <2> QED
    BY <1>7, <2>5, FreshIs, SoFarOf DEF Sent
<1>8. CASE f = "deepgram.live"
  <2>1. HasFields(Fresh)
    BY DEF Fresh, HasFields, AccFields
  <2>3. Fresh.seconds \in Nat /\ Fresh.text \in BOOLEAN
    <3>1. Fresh.seconds \in Nat
      BY <1>1
    <3>2. Fresh.text \in BOOLEAN
      BY <1>1
    <3> QED
      BY <3>1, <3>2
  <2>4. Fresh.seconds = IF \E i \in 1..0 : w[i].type = "Metadata" THEN a.duration ELSE 0
    BY <1>1, <1>2
  <2>5. Fresh.text <=> \E i \in 1..0 : w[i].type # "Metadata" /\ w[i].text
    BY <1>1, <1>2
  <2>2. DeepgramSoFar(Fresh, a, w, 0)
    BY <2>1, <2>3, <2>4, <2>5 DEF DeepgramSoFar
  <2> QED
    BY <1>8, <2>2, SoFarOf
<1>9. CASE f \in {"elevenlabs.stream", "elevenlabs.astream"}
  BY <1>9, SoFarOf
<1> QED
  BY <1>4, <1>5, <1>6, <1>7, <1>8, <1>9 DEF Sent, OtherStreams

(***************************************************************************)
(* What a step reads                                                       *)
(***************************************************************************)
SameRead(d, c) ==
    /\ d.flavour = c.flavour /\ d.answer = c.answer /\ d.wire = c.wire
    /\ d.acc = c.acc /\ d.aside = c.aside

LEMMA SameReads ==
    ASSUME NEW c, NEW d, ReadsWell(c), SameRead(d, c)
    PROVE  ReadsWell(d)
BY DEF SameRead, ReadsWell, ReadUpTo, Answered

LEMMA OutcomeReads ==
    ASSUME NEW c, NEW d, NEW heard, Live(c), Outcome(c, d, heard)
    PROVE  SameRead(d, c)
<1>1. CASE c.flushed /\ d = c
  BY <1>1 DEF SameRead
<1>2. CASE ~c.flushed /\ d = [c EXCEPT !.flushed = TRUE]
  BY <1>2 DEF Live, CallSound, IsCall, Fields, SameRead
<1>3. ASSUME ~c.flushed, NEW t, t = Told(c)
      PROVE  SameRead(t, c) /\ t = [x \in Fields |-> t[x]]
  BY <1>3, ToldSound DEF Fields, SameRead
<1>4. CASE ~c.flushed /\ ~killed /\ d = Told(c)
  BY <1>3, <1>4
<1>5. CASE ~c.flushed /\ d = Raise(Told(c), heard)
  <2>1. PICK t : t = Told(c)
    OBVIOUS
  <2>2. PICK h : d = [t EXCEPT !.raised = TRUE, !.heard = h]
    BY <1>5, <2>1 DEF Raise
  <2>3. SameRead(t, c) /\ t = [x \in Fields |-> t[x]]
    BY <1>3, <1>5, <2>1
  <2>4. /\ d.flavour = t.flavour /\ d.answer = t.answer /\ d.wire = t.wire
        /\ d.acc = t.acc /\ d.aside = t.aside
    BY <2>2, <2>3 DEF Fields
  <2> QED
    BY <2>3, <2>4 DEF SameRead
<1> QED
  BY <1>1, <1>2, <1>4, <1>5 DEF Outcome

\* What is filed is what was made of the call.
FilesOf(c) == NothingFiled \/ File(c, StreamRecord(c))

LEMMA KeepFiles ==
    ASSUME NEW c, NEW heard, Finalize(c, heard, Keep)
    PROVE  FilesOf(c)
BY DEF Finalize, FilesOf

LEMMA OverFiles ==
    ASSUME NEW c, NEW heard, Finalize(c, heard, Over)
    PROVE  FilesOf(c)
BY DEF Finalize, FilesOf

LEMMA RetoldFiles ==
    ASSUME NEW c, NEW heard, Finalize(c, heard, Retold)
    PROVE  FilesOf(c)
BY DEF Finalize, FilesOf

LEMMA FiledWell ==
    ASSUME NEW c, FilesOf(c), ReadsWell(c)
    PROVE  FiledSound'
<1>1. CASE NothingFiled
  BY <1>1 DEF NothingFiled, FiledSound
<1>2. CASE File(c, StreamRecord(c))
  <2>1. /\ filed'.call = c /\ filed'.full = (c.wire = <<>> /\ ~c.aside)
        /\ filed'.record = Filled(c.flavour, StreamRecord(c))
    BY <1>2 DEF File
  <2>2. Given(c, StreamRecord(c))'
    BY <2>1 DEF Given
  <2> QED
    BY <2>1, <2>2 DEF FiledSound
<1> QED
  BY <1>1, <1>2 DEF FilesOf

\* A stream that is opened, and one more piece of it.
LEMMA OpensWell ==
    ASSUME NEW c, Answered(c), How(c.flavour).stream, c.acc = Fresh, ~c.aside,
           c.aside \in BOOLEAN, c.wire \in Wires(c.flavour, c.answer)
    PROVE  ReadsWell(c)
<1>1. PICK w \in Wires(c.flavour, c.answer) : w = c.wire
  OBVIOUS
<1>2. Sent(c.flavour, c.answer, w)
  BY <1>1, SentAs DEF Answered
<1>3. SoFar(c.flavour, c.acc, c.answer, w, 0)
  BY <1>2, FreshSoFar
<1>4. Len(w) \in Nat /\ w = [i \in 1..Len(w) |-> w[i]]
  BY <1>2 DEF Sent
<1>5. w = [i \in 1..Len(w) - 0 |-> w[0 + i]]
  BY <1>4
<1>6. ReadUpTo(c, w, 0)
  BY <1>1, <1>3, <1>4, <1>5 DEF ReadUpTo
<1> QED
  BY <1>1, <1>6 DEF ReadsWell

LEMMA FunctionIsSeq ==
    ASSUME NEW X, NEW k \in Nat, NEW s \in [1..k -> X]
    PROVE  s \in Seq(X) /\ Len(s) = k
OBVIOUS

LEMMA RestOf ==
    ASSUME NEW w, NEW m \in Nat, NEW n \in Nat, n <= m,
           NEW s, s = [i \in 1..(m - n) |-> w[n + i]], s # <<>>
    PROVE  /\ n + 1 <= m /\ Head(s) = w[n + 1]
           /\ Tail(s) = [i \in 1..(m - (n + 1)) |-> w[(n + 1) + i]]
<1>1. PICK k \in Nat : k = m - n
  OBVIOUS
<1> DEFINE X == {w[n + i] : i \in 1..k}
<1>2. s \in [1..k -> X]
  BY <1>1
<1> HIDE DEF X
<1>3. s \in Seq(X) /\ Len(s) = k
  BY <1>1, <1>2, FunctionIsSeq
<1>4. k # 0
  BY <1>3
<1>5. n + 1 <= m /\ m - (n + 1) = k - 1
  BY <1>1, <1>4
<1>6. Head(s) = w[n + 1]
  <2>1. 1 \in 1..k
    BY <1>4
  <2>2. Head(s) = s[1]
    BY <1>3, <1>4
  <2> QED
    BY <1>1, <2>1, <2>2
<1>7. Tail(s) = [i \in 1..(k - 1) |-> w[(n + 1) + i]]
  <2>1. Tail(s) = [i \in 1..(k - 1) |-> s[i + 1]]
    BY <1>3, <1>4
  <2>2. \A i \in 1..(k - 1) : i + 1 \in 1..(m - n) /\ n + (i + 1) = (n + 1) + i
    BY <1>1
  <2>3. \A i \in 1..(k - 1) : s[i + 1] = w[(n + 1) + i]
    BY <2>2
  <2> QED
    BY <2>1, <2>3
<1> QED
  BY <1>5, <1>6, <1>7

LEMMA ReadsOn ==
    ASSUME NEW c, ReadsWell(c), c.wire # <<>>,
           NEW d, d.flavour = c.flavour, d.answer = c.answer, d.aside = c.aside,
           d.wire = Tail(c.wire), d.acc = Observe(c.flavour, c.acc, Head(c.wire))
    PROVE  ReadsWell(d)
<1>1. PICK w \in Wires(c.flavour, c.answer), n \in Nat : ReadUpTo(c, w, n)
  BY DEF ReadsWell
<1>2. Sent(c.flavour, c.answer, w)
  BY SentAs DEF ReadsWell, Answered
<1>3. PICK m \in Nat : m = Len(w)
  BY <1>2 DEF Sent
<1>4. ~c.aside /\ n <= m /\ c.wire = [i \in 1..(m - n) |-> w[n + i]]
  BY <1>1, <1>3 DEF ReadUpTo
<1>5. PICK s : s = c.wire
  OBVIOUS
<1>6. /\ n + 1 <= m /\ Head(s) = w[n + 1]
      /\ Tail(s) = [i \in 1..(m - (n + 1)) |-> w[(n + 1) + i]]
  BY <1>4, <1>5, RestOf
<1>7. SoFar(c.flavour, d.acc, c.answer, w, n + 1)
  <2>1. d.acc = Observe(c.flavour, c.acc, w[n + 1])
    BY <1>5, <1>6
  <2>2. SoFar(c.flavour, c.acc, c.answer, w, n)
    BY <1>1 DEF ReadUpTo
  <2> QED
    BY <1>2, <1>3, <1>6, <2>1, <2>2, SoFarStep
<1>8. ReadUpTo(d, w, n + 1)
  BY <1>3, <1>4, <1>5, <1>6, <1>7 DEF ReadUpTo
<1>9. n + 1 \in Nat
  OBVIOUS
<1> QED
  BY <1>1, <1>8, <1>9 DEF ReadsWell, Answered

\* The rest is read past the proxy.
LEMMA ReadsAside ==
    ASSUME NEW c, ReadsWell(c), NEW d, d.flavour = c.flavour, d.answer = c.answer,
           d.acc = c.acc, d.wire = <<>>, d.aside = TRUE
    PROVE  ReadsWell(d)
<1>1. PICK w \in Wires(c.flavour, c.answer), n \in Nat : ReadUpTo(c, w, n)
  BY DEF ReadsWell
<1>2. ReadUpTo(d, w, n)
  BY <1>1 DEF ReadUpTo
<1> QED
  BY <1>1, <1>2 DEF ReadsWell, Answered

LEMMA ReadingOn ==
    ASSUME WrapperInv, ReadInv, stage # "idle", UNCHANGED <<plan, late, ended>>,
           stage' \in {"open", "looping"}, NEW d, call' = d, ReadsWell(d), FiledSound'
    PROVE  ReadInv'
<1>1. Answered(d)
  BY DEF ReadsWell
<1>2. Answered(call)'
  BY <1>1
<1>3. ReadsWell(call)'
  OBVIOUS
<1>4. \A c \in late' : ReadsWell(c)
  BY DEF ReadInv
<1>5. /\ plan' \in Plans /\ Len(ended') <= Len(plan') /\ Len(ended') < Len(plan')
  BY DEF ReadInv
<1>6. stage' \in {"idle", "cleared", "open", "looping"} /\ stage' # "cleared"
  OBVIOUS
<1> QED
  BY <1>2, <1>3, <1>4, <1>5, <1>6 DEF ReadInv

LEMMA PlanIs ==
    ASSUME plan \in Plans
    PROVE  plan \in Seq(DOMAIN Answers) /\ Len(plan) \in Nat /\ Len(plan) <= MaxCalls
<1>1. plan \in Seq(DOMAIN Answers) /\ Len(plan) <= MaxCalls
  BY PlansAssumption
<1> QED
  BY <1>1

LEMMA ReadingEnds ==
    ASSUME WrapperInv, ReadInv, Len(ended) < Len(plan), UNCHANGED plan,
           NEW d, Over(d), FiledSound',
           late' = late \/ (late' = late \cup {d} /\ ReadsWell(d))
    PROVE  ReadInv'
<1>1. Len(plan) \in Nat
  BY PlanIs DEF ReadInv
<1>2. Len(ended) \in Nat /\ Len(ended') = Len(ended) + 1
  <2>1. ended \in Seq(Summaries)
    BY DEF WrapperInv, Past
  <2> QED
    BY <2>1 DEF Over
<1>3. Len(ended') <= Len(plan')
  BY <1>1, <1>2
<1>4. \A c \in late' : ReadsWell(c)
  BY DEF ReadInv
<1>5. stage' = "idle"
  BY DEF Over
<1> QED
  BY <1>3, <1>4, <1>5 DEF ReadInv

\* The call in hand.
LEMMA InReading ==
    ASSUME WrapperInv, ReadInv, stage # "idle"
    PROVE  /\ Live(call) /\ call = [x \in Fields |-> call[x]] /\ Answered(call)
           /\ Len(ended) < Len(plan)
           /\ stage = "cleared" => call.wire = <<>> /\ call.acc = Fresh /\ ~call.aside
           /\ stage \in {"open", "looping"} => ReadsWell(call)
BY TheCall DEF ReadInv, Live, CallSound, IsCall

LEMMA NothingIsSound ==
    ASSUME NothingFiled
    PROVE  FiledSound'
BY DEF NothingFiled, FiledSound

LEMMA ReadingBegins ==
    ASSUME WrapperInv, ReadInv, Begin
    PROVE  ReadInv'
<1>1. /\ Len(ended) < Len(plan) /\ UNCHANGED <<plan, killed, late>> /\ FiledSound'
  BY NothingIsSound DEF Begin
<1>2. PICK f, a, odd : f = plan[Len(ended) + 1] /\ a \in Answers[f] /\ Guard(NewCall(f, a, odd))
  BY DEF Begin
<1>3. PICK c : c = NewCall(f, a, odd)
  OBVIOUS
<1>4. /\ c.flavour = f /\ c.answer = a /\ c.wire = <<>> /\ c.acc = Fresh /\ c.aside = FALSE
  BY <1>3 DEF NewCall
<1>5. CASE \E d : Over(d)
  BY <1>1, <1>5, ReadingEnds
<1>6. CASE stage' = "cleared" /\ call' = c /\ UNCHANGED ended
  <2>1. f \in DOMAIN Answers
    <3>1. plan \in Seq(DOMAIN Answers) /\ Len(plan) \in Nat
      BY PlanIs DEF ReadInv
    <3>2. Len(ended) \in Nat
      BY DEF WrapperInv, Past
    <3>3. Len(ended) + 1 \in 1..Len(plan)
      BY <1>1, <3>1, <3>2
    <3> QED
      BY <1>2, <3>1, <3>3
  <2>2. Answered(c)
    BY <1>2, <1>4, <2>1 DEF Answered
  <2>3. Answered(call)'
    BY <1>6, <2>2
  <2>4. stage' = "cleared" => call'.wire = <<>> /\ call'.acc = Fresh /\ ~call'.aside
    BY <1>4, <1>6
  <2>5. stage' \notin {"open", "looping"} /\ stage' \in {"idle", "cleared", "open", "looping"}
    BY <1>6
  <2> QED
    BY <1>1, <1>6, <2>3, <2>4, <2>5 DEF ReadInv
<1> QED
  BY <1>2, <1>3, <1>5, <1>6 DEF Guard

LEMMA ReadingPlain ==
    ASSUME WrapperInv, ReadInv, ProviderFails \/ AnswerWhole
    PROVE  ReadInv'
<1>1. stage # "idle" /\ UNCHANGED <<plan, killed, late>>
  BY DEF ProviderFails, AnswerWhole, InUse
<1>2. /\ call = [x \in Fields |-> call[x]] /\ Answered(call) /\ Len(ended) < Len(plan)
  BY <1>1, InReading
<1>3. CASE ProviderFails
  <2>1. Over(call) /\ FiledSound'
    BY <1>3, NothingIsSound DEF ProviderFails
  <2>2. PICK d : d = call
    OBVIOUS
  <2> QED
    BY <1>1, <1>2, <2>1, <2>2, ReadingEnds
<1>4. CASE AnswerWhole
  <2>1. PICK c : c = [call EXCEPT !.paid = TRUE, !.flushed = TRUE]
    OBVIOUS
  <2>2. c.flavour = call.flavour /\ c.answer = call.answer
    BY <1>2, <2>1 DEF Fields
  <2>3. Answered(c) /\ ~How(c.flavour).stream
    BY <1>2, <1>4, <2>2 DEF Answered, AnswerWhole, T
  <2>4. NothingFiled \/ File(c, RecordOf(c.flavour, c.answer))
    BY <1>4, <2>1 DEF AnswerWhole
  <2>5. FiledSound'
    <3>1. CASE NothingFiled
      BY <3>1, NothingIsSound
    <3>2. CASE File(c, RecordOf(c.flavour, c.answer))
      <4>1. /\ filed'.call = c /\ filed'.full = (c.wire = <<>> /\ ~c.aside)
            /\ filed'.record = Filled(c.flavour, RecordOf(c.flavour, c.answer))
        BY <3>2 DEF File
      <4>2. Given(c, RecordOf(c.flavour, c.answer))'
        BY <4>1 DEF Given
      <4> QED
        BY <2>3, <4>1, <4>2 DEF FiledSound
    <3> QED
      BY <2>4, <3>1, <3>2
  <2>6. \E d : Over(d)
    BY <1>4 DEF AnswerWhole
  <2> QED
    BY <1>1, <1>2, <2>5, <2>6, ReadingEnds
<1> QED
  BY <1>3, <1>4

LEMMA ReadingOpens ==
    ASSUME WrapperInv, ReadInv, OpenStream \/ Enter \/ Loop \/ ReadPiece \/ ReadPastProxy
    PROVE  ReadInv'
<1>1. /\ stage # "idle" /\ stage' \in {"open", "looping"}
      /\ UNCHANGED <<plan, late, ended>> /\ FiledSound'
  BY NothingIsSound DEF OpenStream, Enter, Loop, ReadPiece, ReadPastProxy, InUse
<1>2. /\ call = [x \in Fields |-> call[x]] /\ Answered(call)
  BY <1>1, InReading
<1>3. PICK c : c = call
  OBVIOUS
<1>4. PICK d : d = call'
  OBVIOUS
<1>5. ReadsWell(d)
  <2>1. CASE OpenStream
    <3>0. PICK v : v = (T.with = "must")
      OBVIOUS
    <3>1. PICK w \in Wires(c.flavour, c.answer) :
              d = [c EXCEPT !.paid = TRUE, !.wire = w, !.within = v]
      BY <1>3, <1>4, <2>1, <3>0 DEF OpenStream
    <3>2. /\ d.flavour = c.flavour /\ d.answer = c.answer /\ d.wire = w /\ d.acc = c.acc
          /\ d.aside = c.aside
      BY <1>2, <1>3, <3>1 DEF Fields
    <3>3. c.acc = Fresh /\ c.aside = FALSE
      <4>1. stage = "cleared"
        BY <2>1 DEF OpenStream, InUse
      <4> QED
        BY <1>1, <1>3, <4>1 DEF ReadInv
    <3>4. How(c.flavour).stream
      BY <1>3, <2>1 DEF OpenStream, T
    <3>5. Answered(d)
      BY <1>2, <1>3, <3>2 DEF Answered
    <3> QED
      BY <3>1, <3>2, <3>3, <3>4, <3>5, OpensWell
  <2>2. ASSUME Enter \/ Loop \/ ReadPiece \/ ReadPastProxy
        PROVE  ReadsWell(c)
    <3>1. stage \in {"open", "looping"}
      BY <2>2 DEF Enter, Loop, ReadPiece, ReadPastProxy, InUse
    <3> QED
      BY <1>1, <1>3, <3>1, InReading
  <2>3. CASE Enter
    <3>1. d = [c EXCEPT !.within = TRUE, !.entered = TRUE]
      BY <1>3, <1>4, <2>3 DEF Enter
    <3>2. SameRead(d, c)
      BY <1>2, <1>3, <3>1 DEF Fields, SameRead
    <3> QED
      BY <2>2, <2>3, <3>2, SameReads
  <2>4. CASE Loop
    <3>1. d = [c EXCEPT !.looped = TRUE]
      BY <1>3, <1>4, <2>4 DEF Loop
    <3>2. SameRead(d, c)
      BY <1>2, <1>3, <3>1 DEF Fields, SameRead
    <3> QED
      BY <2>2, <2>4, <3>2, SameReads
  <2>5. CASE ReadPiece
    <3>1. PICK rest, acc : /\ rest = Tail(c.wire)
                           /\ acc = Observe(c.flavour, c.acc, Head(c.wire))
      OBVIOUS
    <3>2. d = [c EXCEPT !.wire = rest, !.acc = acc] /\ c.wire # <<>>
      BY <1>3, <1>4, <2>5, <3>1 DEF ReadPiece
    <3>3. /\ d.flavour = c.flavour /\ d.answer = c.answer /\ d.aside = c.aside
          /\ d.wire = rest /\ d.acc = acc
      BY <1>2, <1>3, <3>2 DEF Fields
    <3> QED
      BY <2>2, <2>5, <3>1, <3>2, <3>3, ReadsOn
  <2>6. CASE ReadPastProxy
    <3>1. PICK none : none = <<>>
      OBVIOUS
    <3>2. d = [c EXCEPT !.wire = none, !.aside = TRUE]
      BY <1>3, <1>4, <2>6, <3>1 DEF ReadPastProxy
    <3>3. /\ d.flavour = c.flavour /\ d.answer = c.answer /\ d.acc = c.acc
          /\ d.wire = none /\ d.aside = TRUE
      BY <1>2, <1>3, <3>2 DEF Fields
    <3> QED
      BY <2>2, <2>6, <3>1, <3>3, ReadsAside
  <2> QED
    BY <2>1, <2>3, <2>4, <2>5, <2>6
<1> QED
  BY <1>1, <1>4, <1>5, ReadingOn

\* Steps that may finalise a stream the application keeps.
LEMMA ReadingKeeps ==
    ASSUME WrapperInv, ReadInv, stage # "idle", UNCHANGED <<plan, killed, late>>,
           NEW c, NEW heard, Live(c), ReadsWell(c),
           Finalize(c, heard, Keep) \/ (Keep(c) /\ NothingFiled)
    PROVE  ReadInv'
<1>1. killed \in BOOLEAN
  BY DEF WrapperInv
<1>2. PICK d : Keep(d) /\ (d = c \/ Outcome(c, d, heard))
  <2>1. CASE Finalize(c, heard, Keep)
    <3>1. \E e : Outcome(c, e, heard) /\ Keep(e)
      BY <1>1, <2>1 DEF Finalize, Gate, Told, Outcome, Verdicts
    <3> QED
      BY <3>1
  <2>2. CASE Keep(c)
    BY <2>2
  <2> QED
    BY <2>1, <2>2
<1>3. ReadsWell(d)
  BY <1>2, OutcomeReads, SameReads
<1>4. FiledSound'
  <2>1. FilesOf(c)
    BY KeepFiles DEF FilesOf
  <2> QED
    BY <2>1, FiledWell
<1>5. stage' \in {"open", "looping"} /\ call' = d /\ UNCHANGED ended
  BY <1>2 DEF Keep
<1> QED
  BY <1>3, <1>4, <1>5, ReadingOn

LEMMA ReadingStreams ==
    ASSUME WrapperInv, ReadInv, LoopEnds \/ LeaveLoop \/ CloseStream \/ Exit \/ CloseLeftLoop
    PROVE  ReadInv'
<1>1. stage \in {"open", "looping"} /\ stage # "idle" /\ UNCHANGED <<plan, killed, late>>
  BY DEF LoopEnds, LeaveLoop, CloseStream, Exit, CloseLeftLoop, InUse
<1>2. Live(call) /\ call = [x \in Fields |-> call[x]] /\ ReadsWell(call)
  BY <1>1, InReading
<1>3. PICK c : c = call
  OBVIOUS
<1>4. ASSUME NEW d, NEW v, NEW u,
             \/ d = [c EXCEPT !.cut = TRUE]
             \/ d = [c EXCEPT !.letgo = v]
             \/ d = [c EXCEPT !.within = FALSE, !.cut = TRUE]
             \/ d = [c EXCEPT !.dangling = u]
      PROVE  SameRead(d, c)
  BY <1>2, <1>3, <1>4 DEF Fields, SameRead
<1>5. CASE LoopEnds
  <2>1. PICK d : d = [c EXCEPT !.cut = TRUE]
    OBVIOUS
  <2>2. Live(d)
    BY <1>2, <1>3, <2>1 DEF Live, CallSound, IsCall, Fields, Flags
  <2>3. ReadsWell(d)
    BY <1>2, <1>3, <1>4, <2>1, SameReads
  <2>4. Finalize(d, TRUE, Keep) \/ (Keep(d) /\ NothingFiled)
    BY <1>3, <1>5, <2>1 DEF LoopEnds
  <2> QED
    BY <1>1, <2>2, <2>3, <2>4, ReadingKeeps
<1>6. CASE LeaveLoop
  <2>1. PICK v : v = (c.letgo \/ ~c.flushed)
    OBVIOUS
  <2>2. PICK d : d = [c EXCEPT !.letgo = v]
    OBVIOUS
  <2>3. Live(d) /\ (d.flushed \/ d.letgo) /\ d = [x \in Fields |-> d[x]]
    BY <1>2, <1>3, <2>1, <2>2 DEF Live, CallSound, IsCall, Fields, Flags
  <2>4. ReadsWell(d)
    BY <1>2, <1>3, <1>4, <2>2, SameReads
  <2>5. PICK e : e = [d EXCEPT !.dangling = TRUE]
    OBVIOUS
  <2>6. Live(e)
    BY <2>3, <2>5 DEF Live, CallSound, IsCall, Fields, Flags
  <2>7. SameRead(e, d)
    BY <2>3, <2>5 DEF Fields, SameRead
  <2>8. ReadsWell(e)
    BY <2>4, <2>7, SameReads
  <2>9. \/ Keep(c) /\ NothingFiled
        \/ Keep(e) /\ NothingFiled
        \/ Finalize(d, FALSE, Keep)
    BY <1>3, <1>6, <2>1, <2>2, <2>5 DEF LeaveLoop
  <2>10. CASE Keep(c) /\ NothingFiled
    BY <1>1, <1>2, <1>3, <2>10, ReadingKeeps
  <2>11. CASE Keep(e) /\ NothingFiled
    BY <1>1, <2>6, <2>8, <2>11, ReadingKeeps
  <2>12. CASE Finalize(d, FALSE, Keep)
    BY <1>1, <2>3, <2>4, <2>12, ReadingKeeps
  <2> QED
    BY <2>9, <2>10, <2>11, <2>12
<1>7. CASE CloseStream
  <2>1. PICK d : d = [c EXCEPT !.cut = TRUE]
    OBVIOUS
  <2>2. Live(d)
    BY <1>2, <1>3, <2>1 DEF Live, CallSound, IsCall, Fields, Flags
  <2>3. ReadsWell(d)
    BY <1>2, <1>3, <1>4, <2>1, SameReads
  <2>4. Finalize(d, TRUE, Keep)
    BY <1>3, <1>7, <2>1 DEF CloseStream
  <2> QED
    BY <1>1, <2>2, <2>3, <2>4, ReadingKeeps
<1>8. CASE Exit
  <2>1. PICK d : d = [c EXCEPT !.within = FALSE, !.cut = TRUE]
    OBVIOUS
  <2>2. Live(d)
    BY <1>2, <1>3, <2>1 DEF Live, CallSound, IsCall, Fields, Flags
  <2>3. ReadsWell(d)
    <3>1. SameRead(d, c)
      BY <1>4, <2>1
    <3>2. ReadsWell(c)
      BY <1>2, <1>3
    <3> QED
      BY <3>1, <3>2, SameReads
  <2>4. Finalize(d, TRUE, Keep)
    BY <1>3, <1>8, <2>1 DEF Exit
  <2> QED
    BY <1>1, <2>2, <2>3, <2>4, ReadingKeeps
<1>9. CASE CloseLeftLoop
  <2>1. PICK d : d = [c EXCEPT !.dangling = FALSE]
    OBVIOUS
  <2>2. Live(d)
    BY <1>2, <1>3, <2>1 DEF Live, CallSound, IsCall, Fields, Flags
  <2>3. ReadsWell(d)
    <3>1. SameRead(d, c)
      BY <1>4, <2>1
    <3>2. ReadsWell(c)
      BY <1>2, <1>3
    <3> QED
      BY <3>1, <3>2, SameReads
  <2>4. Finalize(d, FALSE, Keep)
    BY <1>3, <1>9, <2>1 DEF CloseLeftLoop
  <2> QED
    BY <1>1, <2>2, <2>3, <2>4, ReadingKeeps
<1> QED
  BY <1>5, <1>6, <1>7, <1>8, <1>9

LEMMA ReadingForgotten ==
    ASSUME WrapperInv, ReadInv, Forget
    PROVE  ReadInv'
<1>1. stage = "open" /\ stage # "idle" /\ UNCHANGED <<plan, killed>> /\ killed \in BOOLEAN
  BY DEF Forget, InUse, WrapperInv
<1>2. /\ Live(call) /\ call = [x \in Fields |-> call[x]] /\ ReadsWell(call)
      /\ Len(ended) < Len(plan)
  BY <1>1, InReading
<1>3. PICK v : v = (call.letgo \/ ~call.flushed)
  OBVIOUS
<1>4. PICK c : c = [call EXCEPT !.letgo = v]
  OBVIOUS
<1>5. Live(c)
  BY <1>2, <1>3, <1>4 DEF Live, CallSound, IsCall, Fields, Flags
<1>6. SameRead(c, call)
  BY <1>2, <1>4 DEF Fields, SameRead
<1>7. PICK o : o = call
  OBVIOUS
<1>8. ReadsWell(c)
  <2>1. ReadsWell(o) /\ SameRead(c, o)
    BY <1>2, <1>6, <1>7
  <2> QED
    BY <2>1, SameReads
<1>9. \/ Over(c) /\ late' = late \cup {c} /\ NothingFiled
      \/ ((Over(c) /\ NothingFiled) \/ Finalize(c, FALSE, Over)) /\ late' = late
  BY <1>3, <1>4 DEF Forget
<1>10. CASE Over(c) /\ late' = late \cup {c} /\ NothingFiled
  BY <1>1, <1>2, <1>8, <1>10, NothingIsSound, ReadingEnds
<1>11. CASE ((Over(c) /\ NothingFiled) \/ Finalize(c, FALSE, Over)) /\ late' = late
  <2>1. FilesOf(c)
    BY <1>11, OverFiles DEF FilesOf
  <2>2. FiledSound'
    BY <1>8, <2>1, FiledWell
  <2>3. PICK d : Over(d)
    BY <1>1, <1>11, FinalizeOver
  <2> QED
    BY <1>1, <1>2, <1>11, <2>2, <2>3, ReadingEnds
<1> QED
  BY <1>9, <1>10, <1>11

LEMMA ReadingLate ==
    ASSUME WrapperInv, ReadInv, CloseLateLoop
    PROVE  ReadInv'
<1>1. PICK c \in late : late' = late \ {c} /\ Finalize(c, FALSE, Retold)
  BY DEF CloseLateLoop
<1>2. ReadsWell(c) /\ killed \in BOOLEAN
  BY DEF ReadInv, WrapperInv
<1>3. FiledSound'
  BY <1>1, <1>2, RetoldFiles, FiledWell
<1>4. UNCHANGED <<stage, call, plan>> /\ Len(ended') = Len(ended)
  <2>1. PICK d : Retold(d)
    BY <1>1, <1>2, FinalizeRetold
  <2>2. ended \in Seq(Summaries)
    BY DEF WrapperInv, Past
  <2>3. Len([ended EXCEPT ![c.id] = Summary(d)]) = Len(ended)
    BY <2>2
  <2>4. UNCHANGED <<stage, call>>
    BY <2>1 DEF Retold
  <2>5. \E x, y : ended' = [ended EXCEPT ![x] = y]
    BY <2>1 DEF Retold
  <2>6. Len(ended') = Len(ended)
    BY <2>2, <2>5
  <2> QED
    BY <2>4, <2>6 DEF CloseLateLoop
<1>5. \A d \in late' : ReadsWell(d)
  BY <1>1 DEF ReadInv
<1> QED
  BY <1>3, <1>4, <1>5 DEF ReadInv

LEMMA ReadingStutters ==
    ASSUME ReadInv, UNCHANGED <<plan, stage, call, late, ended>>, FiledSound'
    PROVE  ReadInv'
BY DEF ReadInv

\* What a stream's accumulator holds is what was read of the stream, and what
\* record_call is given is made of it.
LEMMA ReadInvariant == Spec => []ReadInv
<1>1. Init => ReadInv
  <2> SUFFICES ASSUME Init PROVE ReadInv
    OBVIOUS
  <2>1. /\ plan \in Plans /\ ended = <<>> /\ late = {} /\ stage = "idle" /\ filed = None
    BY DEF Init
  <2>2. Len(ended) <= Len(plan)
    <3>1. PICK p \in Seq(DOMAIN Answers) : p = plan
      BY <2>1, PlanIs
    <3>2. Len(p) \in Nat /\ Len(ended) = 0
      BY <2>1
    <3> QED
      BY <3>1, <3>2
  <2>3. FiledSound
    BY <2>1 DEF FiledSound
  <2> QED
    BY <2>1, <2>2, <2>3 DEF ReadInv
<1>2. WrapperInv /\ ReadInv /\ [Next]_vars => ReadInv'
  <2> SUFFICES ASSUME WrapperInv, ReadInv, [Next]_vars PROVE ReadInv'
    OBVIOUS
  <2>1. CASE UNCHANGED vars
    <3>1. FiledSound'
      BY <2>1 DEF vars, ReadInv, FiledSound, Given
    <3> QED
      BY <2>1, <3>1, ReadingStutters DEF vars
  <2>2. CASE Kill
    BY <2>2, NothingIsSound, ReadingStutters DEF Kill
  <2>3. CASE Next
    BY <2>2, <2>3, ReadingBegins, ReadingPlain, ReadingOpens, ReadingStreams,
       ReadingForgotten, ReadingLate DEF Next
  <2> QED
    BY <2>1, <2>3
<1> QED
  BY <1>1, <1>2, WrapperInvariant, PTL DEF Spec

(***************************************************************************)
(* What is made of a call is a CallRecord                                  *)
(***************************************************************************)
Made(p, c, k, t, u, m, x) ==
    [prompt_tokens |-> p, completion_tokens |-> c, cached |-> k, tool_calls |-> t,
     user_facing_output |-> u, amount |-> m, unknown |-> x]

\* The record of a chat.
Faces(text, tools) == text /\ tools = <<>>
No(o) == o = FALSE
Uses(used, p, c, k) == used.prompt = p /\ used.completion = c /\ used.cached = k

LEMMA ChatMade ==
    ASSUME NEW p, NEW c, NEW k, NEW used, Uses(used, p, c, k), NEW t, NEW text,
           NEW u, u = Faces(text, t), NEW o, No(o)
    PROVE  ChatRecord(used, t, text) = Made(p, c, k, t, u, None, o)
<1>1. PICK z, r : z = 0 /\ r = Record(p, c, t, u)
  OBVIOUS
<1>2. r = Made(p, c, z, t, u, None, o)
  BY <1>1 DEF Record, Made, No
<1>3. ChatRecord(used, t, text) = [r EXCEPT !.cached = k]
  BY <1>1 DEF ChatRecord, Faces, Uses
<1>4. [r EXCEPT !.cached = k] = Made(p, c, k, t, u, None, o)
  BY <1>2 DEF Made
<1> QED
  BY <1>1, <1>3, <1>4

LEMMA ChatIs ==
    ASSUME NEW a \in Chats
    PROVE  /\ a.prompt \in Nat /\ a.completion \in Nat /\ a.cached \in Nat
           /\ a.tools \in Seq(Tools) /\ a.text \in {"none", "empty", "words"}
           /\ Uncached(a).prompt = a.prompt /\ Uncached(a).completion = a.completion
           /\ Uncached(a).cached = 0
BY DEF Chats, Uncached

LEMMA PlainMade ==
    ASSUME NEW a
    PROVE  /\ OpenAIEmbeddingRecord(a)
                  = Made(Reported(a.usage, 0), 0, 0, <<>>, FALSE, None, FALSE)
           /\ CohereChatRecord(a)
                  = Made(a.prompt, a.completion, 0, a.tools, a.text = "words", None, FALSE)
           /\ CohereEmbedRecord(a)
                  = Made(Reported(a.billed, a.chars), 0, 0, <<>>, FALSE, None, FALSE)
           /\ CohereRerankRecord(a) = Made(a.query + a.chars, 0, 0, <<>>, FALSE, None, FALSE)
           /\ VoyageEmbedRecord(a) = Made(a.chars, 0, 0, <<>>, FALSE, None, FALSE)
           /\ VoyageRerankRecord(a) = Made(a.documents, 0, 0, <<>>, FALSE, None, FALSE)
           /\ DeepgramRecord(a)
                  = Made(0, 0, 0, <<>>, a.text = "words", Reported(a.duration, 0), FALSE)
           /\ ElevenLabsRecord(a) = Made(a.chars, 0, 0, <<>>, TRUE, a.chars, FALSE)
           /\ ReplicateRunRecord(a) = Made(0, 0, 0, <<>>, TRUE, RunAmount(a), FALSE)
           /\ OpenAIAudioRecord(a)
                  = Made(0, a.chars, 0, <<>>, a.chars > 0, Reported(AudioDuration(a), 0),
                         AudioDuration(a) = None)
           /\ DeepgramLiveRecord(a) = Made(0, 0, 0, <<>>, a.text, a.seconds, FALSE)
<1>1. OpenAIEmbeddingRecord(a)
          = Made(Reported(a.usage, 0), 0, 0, <<>>, FALSE, None, FALSE)
  BY DEF OpenAIEmbeddingRecord, Record, Made
<1>2. CohereChatRecord(a)
          = Made(a.prompt, a.completion, 0, a.tools, a.text = "words", None, FALSE)
  BY DEF CohereChatRecord, Record, Made
<1>3. CohereEmbedRecord(a)
          = Made(Reported(a.billed, a.chars), 0, 0, <<>>, FALSE, None, FALSE)
  BY DEF CohereEmbedRecord, Record, Made
<1>4. CohereRerankRecord(a) = Made(a.query + a.chars, 0, 0, <<>>, FALSE, None, FALSE)
  BY DEF CohereRerankRecord, Record, Made
<1>5. VoyageEmbedRecord(a) = Made(a.chars, 0, 0, <<>>, FALSE, None, FALSE)
  BY DEF VoyageEmbedRecord, Record, Made
<1>6. VoyageRerankRecord(a) = Made(a.documents, 0, 0, <<>>, FALSE, None, FALSE)
  BY DEF VoyageRerankRecord, Record, Made
<1>7. DeepgramRecord(a)
          = Made(0, 0, 0, <<>>, a.text = "words", Reported(a.duration, 0), FALSE)
  <2>1. PICK p, z, e, u, n, o, r :
           /\ p = 0 /\ z = 0 /\ e = <<>> /\ u = (a.text = "words") /\ n = Reported(a.duration, 0) /\ o = FALSE
           /\ r = Record(p, z, e, u)
    OBVIOUS
  <2>2. r = Made(p, z, z, e, u, None, o)
    BY <2>1 DEF Record, Made
  <2>3. DeepgramRecord(a) = [r EXCEPT !.amount = n]
    BY <2>1 DEF DeepgramRecord
  <2>4. [r EXCEPT !.amount = n] = Made(p, z, z, e, u, n, o)
    BY <2>2 DEF Made
  <2> QED
    BY <2>1, <2>3, <2>4
<1>8. ElevenLabsRecord(a) = Made(a.chars, 0, 0, <<>>, TRUE, a.chars, FALSE)
  <2>1. PICK p, z, e, u, n, o, r :
           /\ p = a.chars /\ z = 0 /\ e = <<>> /\ u = (TRUE) /\ n = a.chars /\ o = FALSE
           /\ r = Record(p, z, e, u)
    OBVIOUS
  <2>2. r = Made(p, z, z, e, u, None, o)
    BY <2>1 DEF Record, Made
  <2>3. ElevenLabsRecord(a) = [r EXCEPT !.amount = n]
    BY <2>1 DEF ElevenLabsRecord
  <2>4. [r EXCEPT !.amount = n] = Made(p, z, z, e, u, n, o)
    BY <2>2 DEF Made
  <2> QED
    BY <2>1, <2>3, <2>4
<1>9. ReplicateRunRecord(a) = Made(0, 0, 0, <<>>, TRUE, RunAmount(a), FALSE)
  <2>1. PICK p, z, e, u, n, o, r :
           /\ p = 0 /\ z = 0 /\ e = <<>> /\ u = (TRUE) /\ n = RunAmount(a) /\ o = FALSE
           /\ r = Record(p, z, e, u)
    OBVIOUS
  <2>2. r = Made(p, z, z, e, u, None, o)
    BY <2>1 DEF Record, Made
  <2>3. ReplicateRunRecord(a) = [r EXCEPT !.amount = n]
    BY <2>1 DEF ReplicateRunRecord
  <2>4. [r EXCEPT !.amount = n] = Made(p, z, z, e, u, n, o)
    BY <2>2 DEF Made
  <2> QED
    BY <2>1, <2>3, <2>4
<1>10. OpenAIAudioRecord(a)
           = Made(0, a.chars, 0, <<>>, a.chars > 0, Reported(AudioDuration(a), 0),
                  AudioDuration(a) = None)
  <2>1. PICK c, z, e, u, n, x, o, r :
           /\ c = a.chars /\ z = 0 /\ e = <<>> /\ u = (a.chars > 0) /\ o = FALSE
           /\ n = Reported(AudioDuration(a), 0) /\ x = (AudioDuration(a) = None)
           /\ r = Record(z, c, e, u)
    OBVIOUS
  <2>2. r = Made(z, c, z, e, u, None, o)
    BY <2>1 DEF Record, Made
  <2>3. OpenAIAudioRecord(a) = [r EXCEPT !.amount = n, !.unknown = x]
    BY <2>1 DEF OpenAIAudioRecord
  <2>4. PICK s : s = [r EXCEPT !.amount = n]
    OBVIOUS
  <2>5. s = Made(z, c, z, e, u, n, o)
    BY <2>2, <2>4 DEF Made
  <2>6. [s EXCEPT !.unknown = x] = Made(z, c, z, e, u, n, x)
    BY <2>5 DEF Made
  <2> QED
    BY <2>1, <2>3, <2>4, <2>6
<1>11. DeepgramLiveRecord(a) = Made(0, 0, 0, <<>>, a.text, a.seconds, FALSE)
  <2>1. PICK p, z, e, u, n, o, r :
           /\ p = 0 /\ z = 0 /\ e = <<>> /\ u = (a.text) /\ n = a.seconds /\ o = FALSE
           /\ r = Record(p, z, e, u)
    OBVIOUS
  <2>2. r = Made(p, z, z, e, u, None, o)
    BY <2>1 DEF Record, Made
  <2>3. DeepgramLiveRecord(a) = [r EXCEPT !.amount = n]
    BY <2>1 DEF DeepgramLiveRecord
  <2>4. [r EXCEPT !.amount = n] = Made(p, z, z, e, u, n, o)
    BY <2>2 DEF Made
  <2> QED
    BY <2>1, <2>3, <2>4
<1> QED
  BY <1>1, <1>2, <1>3, <1>4, <1>5, <1>6, <1>7, <1>8, <1>9, <1>10, <1>11

LEMMA Reports ==
    ASSUME NEW n \in Count, NEW m \in Nat
    PROVE  Reported(n, m) \in Nat
BY DEF Count, Reported

\* What a chat's answer is charged by.
LEMMA ChatsMade ==
    ASSUME NEW a \in Chats
    PROVE  /\ OpenAIChatRecord(a)
                  = Made(a.prompt, a.completion, a.cached, a.tools,
                         a.text = "words" /\ a.tools = <<>>, None, FALSE)
           /\ AnthropicMessageRecord(a)
                  = Made(a.prompt, a.completion, a.cached, a.tools,
                         a.text # "none" /\ a.tools = <<>>, None, FALSE)
           /\ GeminiRecord(a)
                  = Made(a.prompt, a.completion, 0, a.tools,
                         a.text = "words" /\ a.tools = <<>>, None, FALSE)
           /\ BedrockConverseRecord(a)
                  = Made(a.prompt, a.completion, 0, a.tools,
                         a.text = "words" /\ a.tools = <<>>, None, FALSE)
<1>1. PICK b : b = Uncached(a)
  OBVIOUS
<1>2. b.prompt = a.prompt /\ b.completion = a.completion /\ b.cached = 0
  BY <1>1, ChatIs
<1>3. OpenAIChatRecord(a)
          = Made(a.prompt, a.completion, a.cached, a.tools,
                 a.text = "words" /\ a.tools = <<>>, None, FALSE)
  <2>1. PICK text, p, c, k, u, o :
           /\ p = a.prompt /\ c = a.completion /\ text = (a.text = "words") /\ k = a.cached /\ No(o)
           /\ u = Faces(text, a.tools)
    BY DEF No
  <2>2. OpenAIChatRecord(a) = ChatRecord(a, a.tools, text)
    BY <2>1 DEF OpenAIChatRecord
  <2>3. Uses(a, p, c, k)
    BY <1>2, <2>1 DEF Uses
  <2>4. ChatRecord(a, a.tools, text) = Made(p, c, k, a.tools, u, None, o)
    BY <2>1, <2>3, ChatMade
  <2> QED
    BY <2>1, <2>2, <2>4 DEF Faces, No
<1>4. AnthropicMessageRecord(a)
          = Made(a.prompt, a.completion, a.cached, a.tools,
                 a.text # "none" /\ a.tools = <<>>, None, FALSE)
  <2>1. PICK text, p, c, k, u, o :
           /\ p = a.prompt /\ c = a.completion /\ text = (a.text # "none") /\ k = a.cached /\ No(o)
           /\ u = Faces(text, a.tools)
    BY DEF No
  <2>2. AnthropicMessageRecord(a) = ChatRecord(a, a.tools, text)
    BY <2>1 DEF AnthropicMessageRecord
  <2>3. Uses(a, p, c, k)
    BY <1>2, <2>1 DEF Uses
  <2>4. ChatRecord(a, a.tools, text) = Made(p, c, k, a.tools, u, None, o)
    BY <2>1, <2>3, ChatMade
  <2> QED
    BY <2>1, <2>2, <2>4 DEF Faces, No
<1>5. GeminiRecord(a)
          = Made(a.prompt, a.completion, 0, a.tools,
                 a.text = "words" /\ a.tools = <<>>, None, FALSE)
  <2>1. PICK text, p, c, k, u, o :
           /\ p = a.prompt /\ c = a.completion /\ text = (a.text = "words") /\ k = 0 /\ No(o)
           /\ u = Faces(text, a.tools)
    BY DEF No
  <2>2. GeminiRecord(a) = ChatRecord(b, a.tools, text)
    BY <2>1, <1>1 DEF GeminiRecord
  <2>3. Uses(b, p, c, k)
    BY <1>2, <2>1 DEF Uses
  <2>4. ChatRecord(b, a.tools, text) = Made(p, c, k, a.tools, u, None, o)
    BY <2>1, <2>3, ChatMade
  <2> QED
    BY <2>1, <2>2, <2>4 DEF Faces, No
<1>6. BedrockConverseRecord(a)
          = Made(a.prompt, a.completion, 0, a.tools,
                 a.text = "words" /\ a.tools = <<>>, None, FALSE)
  <2>1. PICK text, p, c, k, u, o :
           /\ p = a.prompt /\ c = a.completion /\ text = (a.text = "words") /\ k = 0 /\ No(o)
           /\ u = Faces(text, a.tools)
    BY DEF No
  <2>2. BedrockConverseRecord(a) = ChatRecord(b, a.tools, text)
    BY <2>1, <1>1 DEF BedrockConverseRecord
  <2>3. Uses(b, p, c, k)
    BY <1>2, <2>1 DEF Uses
  <2>4. ChatRecord(b, a.tools, text) = Made(p, c, k, a.tools, u, None, o)
    BY <2>1, <2>3, ChatMade
  <2> QED
    BY <2>1, <2>2, <2>4 DEF Faces, No
<1> QED
  BY <1>3, <1>4, <1>5, <1>6

PlainFlavours ==
    {"openai.chat", "openai.embeddings", "openai.audio", "anthropic.create",
     "gemini.generate", "bedrock.converse", "cohere.chat", "cohere.embed",
     "cohere.rerank", "voyage.embed", "voyage.rerank", "deepgram.file",
     "elevenlabs.convert", "replicate.run"}

LEMMA PlainAre ==
    ASSUME NEW f \in Flavours, ~How(f).stream
    PROVE  f \in PlainFlavours
<1>1. f \in OpenAIStreams \cup AnthropicStreams \cup GeminiStreams \cup OtherStreams
          => How(f).stream
  BY DEF How, Stream, OpenAIStreams, AnthropicStreams, GeminiStreams, OtherStreams,
         OpenAIStream, OpenAIAsyncStream, AnthropicStream, AnthropicAsyncStream,
         GeminiStream, GeminiAsyncStream, BedrockStream, DeepgramLive,
         ElevenLabsStream, ElevenLabsAsyncStream
<1> QED
  BY <1>1 DEF PlainFlavours, Flavours, ChatFlavours, SpeechFlavours, VoiceFlavours,
              OpenAIStreams, AnthropicStreams, GeminiStreams, OtherStreams

LEMMA OtherShapes ==
    /\ Shape("openai.embeddings") = [usage : Count]
    /\ Shape("openai.audio") =
          [duration : Count, stream : BOOLEAN, chars : Nat, file : Files]
    /\ Shape("cohere.embed") = [billed : Count, chars : Nat]
    /\ Shape("cohere.rerank") = [query : Nat, chars : Nat]
    /\ Shape("voyage.embed") = [chars : Nat]
    /\ Shape("voyage.rerank") = [documents : Nat]
    /\ Shape("replicate.run") = [video : BOOLEAN, outputs : Count \cup {Iterator}]
<1> DEFINE Rest == {"openai.embeddings", "openai.audio", "cohere.embed", "cohere.rerank",
                    "voyage.embed", "voyage.rerank", "replicate.run"}
<1>1. \A f \in Rest : f \notin ChatFlavours \cup SpeechFlavours \cup VoiceFlavours
  BY DEF ChatFlavours, SpeechFlavours, VoiceFlavours, OpenAIStreams, AnthropicStreams,
         GeminiStreams
<1>2. Shape("openai.embeddings") = [usage : Count]
  BY <1>1 DEF Shape
<1>3. Shape("openai.audio") =
          [duration : Count, stream : BOOLEAN, chars : Nat, file : Files]
  BY <1>1 DEF Shape
<1>4. Shape("cohere.embed") = [billed : Count, chars : Nat]
  BY <1>1 DEF Shape
<1>5. Shape("cohere.rerank") = [query : Nat, chars : Nat]
  BY <1>1 DEF Shape
<1>6. Shape("voyage.embed") = [chars : Nat]
  BY <1>1 DEF Shape
<1>7. Shape("voyage.rerank") = [documents : Nat]
  BY <1>1 DEF Shape
<1>8. Shape("replicate.run") = [video : BOOLEAN, outputs : Count \cup {Iterator}]
  BY <1>1 DEF Shape
<1> QED
  BY <1>2, <1>3, <1>4, <1>5, <1>6, <1>7, <1>8

\* Seconds of audio, and how they were measured.
LEMMA AudioIs ==
    ASSUME NEW a, a.duration \in Count, a.stream \in BOOLEAN, a.file \in Files
    PROVE  /\ AudioDuration(a) \in Count
           /\ a.duration # None => AudioDuration(a) = a.duration
           /\ a.duration = None /\ AudioDuration(a) # None =>
                 /\ AudioDuration(a) = a.file.length
                 /\ a.stream => a.file.size <= MaxAudioBytes
<1>1. /\ MaxAudioBytes \in Nat /\ None \notin Nat
  BY AnswersAssumption
<1>2. /\ a.file.size \in Nat /\ a.file.length \in Count
      /\ a.file.kind \in {"path", "object", "bytes", "missing", "unreadable"}
  BY DEF Files
<1>3. CASE a.duration # None
  BY <1>3 DEF AudioDuration
<1>4. CASE a.duration = None /\ ~a.stream
  BY <1>2, <1>4 DEF AudioDuration, ProbeAudio, Count
<1>5. CASE a.duration = None /\ a.stream
  <2>1. PICK captured : captured = CapturedAudioBytes(a.file)
    OBVIOUS
  <2>2. AudioDuration(a) = IF captured = None THEN None
                           ELSE ProbeStreaming(a.file, captured)
    BY <1>5, <2>1 DEF AudioDuration
  <2>3. CASE captured = None \/ ProbeStreaming(a.file, captured) = None
    BY <1>5, <2>2, <2>3 DEF Count
  <2>4. CASE captured # None /\ ProbeStreaming(a.file, captured) # None
    <3>1. captured \in Nat /\ (captured = a.file.size \/ captured = SmallerOf(a.file.size, MaxAudioBytes + 1))
      BY <1>1, <1>2, <2>1, <2>4 DEF CapturedAudioBytes, SmallerOf
    <3>2. captured <= MaxAudioBytes /\ AudioDuration(a) = a.file.length
      BY <1>1, <2>2, <2>4, <3>1 DEF ProbeStreaming
    <3>3. a.file.size <= MaxAudioBytes
      BY <1>1, <1>2, <3>1, <3>2 DEF SmallerOf
    <3> QED
      BY <1>2, <1>5, <3>2, <3>3 DEF Count
  <2> QED
    BY <2>3, <2>4
<1> QED
  BY <1>3, <1>4, <1>5

LEMMA OutputsAre ==
    ASSUME NEW a \in [video : BOOLEAN, outputs : Count \cup {Iterator}]
    PROVE  RunAmount(a) \in Nat
BY DEF RunAmount, CountOutputs, LargerOf, Count

\* An answer that comes whole makes a CallRecord.
LEMMA ChatsTyped ==
    ASSUME NEW a \in Chats
    PROVE  /\ OpenAIChatRecord(a) \in Counts /\ AnthropicMessageRecord(a) \in Counts
           /\ GeminiRecord(a) \in Counts /\ BedrockConverseRecord(a) \in Counts
           /\ CohereChatRecord(a) \in Counts
<1>1. /\ a.prompt \in Nat /\ a.completion \in Nat /\ a.cached \in Nat
      /\ a.tools \in Seq([name : STRING, arguments : Seq(Nat)])
  BY ChatIs DEF Tools
<1>2. OpenAIChatRecord(a) \in Counts
  <2>1. OpenAIChatRecord(a) = Made(a.prompt, a.completion, a.cached, a.tools,
                     a.text = "words" /\ a.tools = <<>>, None, FALSE)
    BY ChatsMade
  <2> QED
    BY <1>1, <2>1 DEF Made, Counts
<1>3. AnthropicMessageRecord(a) \in Counts
  <2>1. AnthropicMessageRecord(a) = Made(a.prompt, a.completion, a.cached, a.tools,
                     a.text # "none" /\ a.tools = <<>>, None, FALSE)
    BY ChatsMade
  <2> QED
    BY <1>1, <2>1 DEF Made, Counts
<1>4. GeminiRecord(a) \in Counts
  <2>1. GeminiRecord(a) = Made(a.prompt, a.completion, 0, a.tools,
                     a.text = "words" /\ a.tools = <<>>, None, FALSE)
    BY ChatsMade
  <2> QED
    BY <1>1, <2>1 DEF Made, Counts
<1>5. BedrockConverseRecord(a) \in Counts
  <2>1. BedrockConverseRecord(a) = Made(a.prompt, a.completion, 0, a.tools,
                     a.text = "words" /\ a.tools = <<>>, None, FALSE)
    BY ChatsMade
  <2> QED
    BY <1>1, <2>1 DEF Made, Counts
<1>6. CohereChatRecord(a) \in Counts
  <2>1. CohereChatRecord(a) = Made(a.prompt, a.completion, 0, a.tools,
                     a.text = "words", None, FALSE)
    BY PlainMade
  <2> QED
    BY <1>1, <2>1 DEF Made, Counts
<1> QED
  BY <1>2, <1>3, <1>4, <1>5, <1>6

LEMMA RecordsTyped ==
    ASSUME NEW f \in PlainFlavours, NEW a, a \in Shape(f)
    PROVE  RecordOf(f, a) \in Counts
<1>1. CASE f \in {"openai.chat", "anthropic.create", "gemini.generate",
                  "bedrock.converse", "cohere.chat"}
  <2>1. a \in Chats
    BY <1>1, ShapeOf DEF ChatFlavours
  <2> QED
    BY <1>1, <2>1, ChatsTyped DEF RecordOf
<1>2. CASE f = "openai.embeddings"
  <2>1. a \in [usage : Count]
    BY <1>2, OtherShapes
  <2>2. a.usage \in Count
    BY <2>1
  <2>3. Reported(a.usage, 0) \in Nat
    BY <2>2, Reports
  <2>4. OpenAIEmbeddingRecord(a) = Made(Reported(a.usage, 0), 0, 0, <<>>, FALSE, None, FALSE)
    BY PlainMade
  <2>5. OpenAIEmbeddingRecord(a) \in Counts
    BY <2>3, <2>4 DEF Made, Counts
  <2> QED
    BY <1>2, <2>5 DEF RecordOf
<1>3. CASE f = "openai.audio"
  <2>1. a \in [duration : Count, stream : BOOLEAN, chars : Nat, file : Files]
    BY <1>3, OtherShapes
  <2>2. a.duration \in Count /\ a.stream \in BOOLEAN /\ a.chars \in Nat /\ a.file \in Files
    BY <2>1
  <2>3. a.chars \in Nat /\ Reported(AudioDuration(a), 0) \in Nat
    BY <2>2, AudioIs, Reports
  <2>4. OpenAIAudioRecord(a) = Made(0, a.chars, 0, <<>>, a.chars > 0, Reported(AudioDuration(a), 0),
                     AudioDuration(a) = None)
    BY PlainMade
  <2>5. OpenAIAudioRecord(a) \in Counts
    BY <2>3, <2>4 DEF Made, Counts
  <2> QED
    BY <1>3, <2>5 DEF RecordOf
<1>4. CASE f = "cohere.embed"
  <2>1. a \in [billed : Count, chars : Nat]
    BY <1>4, OtherShapes
  <2>2. a.billed \in Count /\ a.chars \in Nat
    BY <2>1
  <2>3. Reported(a.billed, a.chars) \in Nat
    BY <2>2, Reports
  <2>4. CohereEmbedRecord(a) = Made(Reported(a.billed, a.chars), 0, 0, <<>>, FALSE, None, FALSE)
    BY PlainMade
  <2>5. CohereEmbedRecord(a) \in Counts
    BY <2>3, <2>4 DEF Made, Counts
  <2> QED
    BY <1>4, <2>5 DEF RecordOf
<1>5. CASE f = "cohere.rerank"
  <2>1. a \in [query : Nat, chars : Nat]
    BY <1>5, OtherShapes
  <2>2. a.query \in Nat /\ a.chars \in Nat
    BY <2>1
  <2>3. a.query + a.chars \in Nat
    BY <2>2
  <2>4. CohereRerankRecord(a) = Made(a.query + a.chars, 0, 0, <<>>, FALSE, None, FALSE)
    BY PlainMade
  <2>5. CohereRerankRecord(a) \in Counts
    BY <2>3, <2>4 DEF Made, Counts
  <2> QED
    BY <1>5, <2>5 DEF RecordOf
<1>6. CASE f = "voyage.embed"
  <2>1. a \in [chars : Nat]
    BY <1>6, OtherShapes
  <2>2. a.chars \in Nat
    BY <2>1
  <2>3. a.chars \in Nat
    BY <2>2
  <2>4. VoyageEmbedRecord(a) = Made(a.chars, 0, 0, <<>>, FALSE, None, FALSE)
    BY PlainMade
  <2>5. VoyageEmbedRecord(a) \in Counts
    BY <2>3, <2>4 DEF Made, Counts
  <2> QED
    BY <1>6, <2>5 DEF RecordOf
<1>7. CASE f = "voyage.rerank"
  <2>1. a \in [documents : Nat]
    BY <1>7, OtherShapes
  <2>2. a.documents \in Nat
    BY <2>1
  <2>3. a.documents \in Nat
    BY <2>2
  <2>4. VoyageRerankRecord(a) = Made(a.documents, 0, 0, <<>>, FALSE, None, FALSE)
    BY PlainMade
  <2>5. VoyageRerankRecord(a) \in Counts
    BY <2>3, <2>4 DEF Made, Counts
  <2> QED
    BY <1>7, <2>5 DEF RecordOf
<1>8. CASE f = "deepgram.file"
  <2>1. a \in [text : {"none", "words"}, duration : Count]
    BY <1>8, ShapeOf DEF SpeechFlavours
  <2>2. a.duration \in Count
    BY <2>1
  <2>3. Reported(a.duration, 0) \in Nat
    BY <2>2, Reports
  <2>4. DeepgramRecord(a) = Made(0, 0, 0, <<>>, a.text = "words", Reported(a.duration, 0), FALSE)
    BY PlainMade
  <2>5. DeepgramRecord(a) \in Counts
    BY <2>3, <2>4 DEF Made, Counts
  <2> QED
    BY <1>8, <2>5 DEF RecordOf
<1>9. CASE f = "elevenlabs.convert"
  <2>1. a \in [chars : Nat]
    BY <1>9, ShapeOf DEF VoiceFlavours
  <2>2. a.chars \in Nat
    BY <2>1
  <2>3. a.chars \in Nat
    BY <2>2
  <2>4. ElevenLabsRecord(a) = Made(a.chars, 0, 0, <<>>, TRUE, a.chars, FALSE)
    BY PlainMade
  <2>5. ElevenLabsRecord(a) \in Counts
    BY <2>3, <2>4 DEF Made, Counts
  <2> QED
    BY <1>9, <2>5 DEF RecordOf
<1>10. CASE f = "replicate.run"
  <2>1. a \in [video : BOOLEAN, outputs : Count \cup {Iterator}]
    BY <1>10, OtherShapes
  <2>3. RunAmount(a) \in Nat
    BY <2>1, OutputsAre
  <2>4. ReplicateRunRecord(a) = Made(0, 0, 0, <<>>, TRUE, RunAmount(a), FALSE)
    BY PlainMade
  <2>5. ReplicateRunRecord(a) \in Counts
    BY <2>3, <2>4 DEF Made, Counts
  <2> QED
    BY <1>10, <2>5 DEF RecordOf
<1> QED
  BY <1>1, <1>2, <1>3, <1>4, <1>5, <1>6, <1>7, <1>8, <1>9, <1>10 DEF PlainFlavours

(***************************************************************************)
(* The record of a stream, and that of the same answer come whole          *)
(***************************************************************************)
LEMMA TwinOf ==
    ASSUME NEW f
    PROVE  /\ f \in OpenAIStreams => How(f).twin = "openai.chat" /\ How(f).messages
           /\ f \in AnthropicStreams => How(f).twin = "anthropic.create" /\ How(f).messages
           /\ f \in GeminiStreams => How(f).twin = "gemini.generate" /\ ~How(f).messages
           /\ f = "bedrock.stream" => How(f).twin = "bedrock.converse" /\ How(f).messages
           /\ f = "deepgram.live" => How(f).twin = "deepgram.file" /\ ~How(f).messages
           /\ f \in {"elevenlabs.stream", "elevenlabs.astream"} =>
                 How(f).twin = "elevenlabs.convert" /\ ~How(f).messages
BY DEF How, Stream, OpenAIStreams, AnthropicStreams, GeminiStreams,
       OpenAIStream, OpenAIAsyncStream, AnthropicStream, AnthropicAsyncStream,
       GeminiStream, GeminiAsyncStream, BedrockStream, DeepgramLive,
       ElevenLabsStream, ElevenLabsAsyncStream

LEMMA TwinMessages ==
    /\ How("openai.chat").messages /\ How("anthropic.create").messages
    /\ ~How("gemini.generate").messages /\ How("bedrock.converse").messages
    /\ ~How("deepgram.file").messages /\ ~How("elevenlabs.convert").messages
BY DEF How, Plain, OpenAIChat, AnthropicCreate, GeminiGenerate, BedrockConverse,
       DeepgramFile, ElevenLabsValue

LEMMA StreamRecordOf ==
    ASSUME NEW c
    PROVE  /\ c.flavour \in OpenAIStreams => StreamRecord(c) = OpenAIStreamRecord(c.acc)
           /\ c.flavour \in AnthropicStreams =>
                 StreamRecord(c) = StreamedChatRecord(FinalizeFromMessage(c.acc,
                                       IF c.wire = <<>> THEN c.answer ELSE None))
           /\ c.flavour \in GeminiStreams \cup {"bedrock.stream"} =>
                 StreamRecord(c) = StreamedChatRecord(Uncached(c.acc))
           /\ c.flavour = "deepgram.live" => StreamRecord(c) = DeepgramLiveRecord(c.acc)
           /\ c.flavour \in {"elevenlabs.stream", "elevenlabs.astream"} =>
                 StreamRecord(c) = ElevenLabsRecord(c.answer)
<1>0. PICK f : f = c.flavour
  OBVIOUS
<1>1. ASSUME f \in OpenAIStreams \cup AnthropicStreams \cup GeminiStreams \cup OtherStreams
      PROVE  Kind(f)
  BY <1>1, Apart
<1>2. CASE f \in OpenAIStreams
  BY <1>0, <1>1, <1>2 DEF StreamRecord, Kind, OtherStreams
<1>3. CASE f \in AnthropicStreams
  BY <1>0, <1>1, <1>3 DEF StreamRecord, Kind, OtherStreams
<1>4. CASE f \in GeminiStreams
  BY <1>0, <1>1, <1>4 DEF StreamRecord, Kind, OtherStreams
<1>5. CASE f \in OtherStreams
  BY <1>0, <1>1, <1>5 DEF StreamRecord, Kind, OtherStreams
<1> QED
  BY <1>0, <1>2, <1>3, <1>4, <1>5 DEF OtherStreams

\* What an accumulator of a chat has counted.
Counted(used, a) ==
    /\ used.prompt \in Nat /\ used.completion \in Nat /\ used.cached \in Nat
    /\ used.prompt <= a.prompt /\ used.completion <= a.completion
    /\ used.prompt > 0 => used.cached = a.cached
    /\ used.tools \in Seq(Tools) /\ used.text \in BOOLEAN

LEMMA AccCounted ==
    ASSUME NEW acc, NEW a, NEW w, NEW n, IsAcc(acc, a), CountsSoFar(acc, a, w, n)
    PROVE  Counted(acc, a)
BY AccIs DEF Counted, CountsSoFar, Kinds

FinalWhole(fin, a) ==
    /\ fin.prompt = a.prompt /\ fin.completion = a.completion
    /\ fin.cached = a.cached /\ fin.tools = a.tools
    /\ fin.text = (a.text # "none")

LEMMA LargerIs ==
    ASSUME NEW x \in Nat, NEW y \in Nat, x <= y
    PROVE  LargerOf(x, y) = y
BY DEF LargerOf

\* Anthropic's final message, where there is one.
LEMMA FinalIs ==
    ASSUME NEW a \in Chats, a # None, NEW acc, HasFields(acc), Counted(acc, a),
           acc.cached <= a.cached, acc.message \in {a, None}, acc.text = FALSE,
           acc.tools = <<>>, NEW asked \in {a, None},
           NEW fin, fin = FinalizeFromMessage(acc, asked)
    PROVE  /\ Counted(fin, a)
           /\ asked = a => FinalWhole(fin, a)
<1>1. PICK m : m = IF asked = None THEN acc.message ELSE asked
  OBVIOUS
<1>2. m \in {a, None} /\ (asked = a => m = a)
  BY <1>1
<1>3. CASE m = None
  BY <1>1, <1>2, <1>3 DEF FinalizeFromMessage
<1>4. CASE m = a
  <2>1. PICK p, c, k : p = a.prompt /\ c = a.completion /\ k = a.cached
    OBVIOUS
  <2>2. PICK u : u = Usage(p, c, k)
    OBVIOUS
  <2>3. u.prompt = p /\ u.completion = c /\ u.cached = k
    BY <2>2 DEF Usage
  <2>4. p \in Nat /\ c \in Nat /\ k \in Nat
    BY <2>1, ChatIs
  <2>5. u # None
    <3>1. u \in [prompt : Nat, completion : Nat, cached : Nat]
      BY <2>2, <2>4 DEF Usage
    <3>2. None \notin [prompt : Nat, completion : Nat, cached : Nat]
      BY AnswersAssumption
    <3> QED
      BY <3>1, <3>2
  <2>6. PICK s : s = NoteUsage(acc, u)
    OBVIOUS
  <2>7. s = [acc EXCEPT !.prompt = LargerOf(acc.prompt, p),
                        !.completion = LargerOf(acc.completion, c),
                        !.cached = LargerOf(acc.cached, k), !.unknown = FALSE]
    BY <2>3, <2>5, <2>6 DEF NoteUsage
  <2>8. /\ LargerOf(acc.prompt, p) = p /\ LargerOf(acc.completion, c) = c
        /\ LargerOf(acc.cached, k) = k
    BY <2>1, <2>4, LargerIs DEF Counted
  <2>9. s = [acc EXCEPT !.prompt = p, !.completion = c, !.cached = k, !.unknown = FALSE]
    BY <2>7, <2>8
  <2>10. PICK t, x : t = a.tools /\ x = (a.text # "none")
    OBVIOUS
  <2>11. s.tools = <<>> /\ s.text = FALSE /\ HasFields(s)
    BY <2>9 DEF HasFields, AccFields
  <2>12. FinalizeFromMessage(acc, asked)
            = [NoteUsage(acc, Usage(m.prompt, m.completion, m.cached)) EXCEPT
                  !.tools = @ \o m.tools, !.text = @ \/ m.text # "none"]
    BY <1>1, <1>4 DEF FinalizeFromMessage
  <2>13. fin = [s EXCEPT !.tools = s.tools \o t, !.text = s.text \/ x]
    BY <1>4, <2>1, <2>2, <2>6, <2>10, <2>12
  <2>14. s.tools \o t = t
    BY <2>10, <2>11, ChatIs
  <2>15. fin.tools = t /\ fin.text = x
    <3>1. fin.tools = s.tools \o t
      BY <2>11, <2>13 DEF HasFields, AccFields
    <3>2. fin.text = (s.text \/ x)
      BY <2>11, <2>13 DEF HasFields, AccFields
    <3> QED
      BY <2>10, <2>11, <2>14, <3>1, <3>2
  <2>16. fin.prompt = p /\ fin.completion = c /\ fin.cached = k
    <3>1. fin.prompt = s.prompt /\ fin.completion = s.completion /\ fin.cached = s.cached
      BY <2>11, <2>13 DEF HasFields, AccFields
    <3>2. s.prompt = p /\ s.completion = c /\ s.cached = k
      BY <2>9 DEF HasFields, AccFields
    <3> QED
      BY <3>1, <3>2
  <2> QED
    BY <2>1, <2>4, <2>10, <2>15, <2>16, ChatIs DEF Counted, FinalWhole
<1> QED
  BY <1>2, <1>3, <1>4

\* The calls of a dictionary in the order of their indexes.
LEMMA BlocksOrdered ==
    ASSUME NEW b, IsBlocks(b)
    PROVE  /\ Cardinality(DOMAIN b) \in Nat
           /\ BlocksInOrder(b)
                  = [i \in 1..Cardinality(DOMAIN b) |-> b[Ascending(DOMAIN b)[i]]]
           /\ BlocksInOrder(b) \in Seq(Tools)
<1>1. DOMAIN b \in SUBSET Nat /\ IsFiniteSet(DOMAIN b) /\ b \in [DOMAIN b -> Tools]
  BY DEF IsBlocks
<1>2. PICK m : m = Cardinality(DOMAIN b)
  OBVIOUS
<1>3. /\ m \in Nat /\ DOMAIN Ascending(DOMAIN b) = 1..m
      /\ \A i \in 1..m : Ascending(DOMAIN b)[i] \in DOMAIN b
  BY <1>1, <1>2, AscendingIs
<1>4. BlocksInOrder(b) = [i \in 1..m |-> b[Ascending(DOMAIN b)[i]]]
  BY <1>3 DEF BlocksInOrder
<1>5. [i \in 1..m |-> b[Ascending(DOMAIN b)[i]]] \in [1..m -> Tools]
  BY <1>1, <1>3
<1>6. BlocksInOrder(b) \in Seq(Tools)
  BY <1>3, <1>4, <1>5, FunctionIsSeq
<1> QED
  BY <1>2, <1>3, <1>4, <1>6

LEMMA OpenAIStreamMade ==
    ASSUME NEW acc, NEW r, r = OpenAIStreamRecord(acc)
    PROVE  r = Made(acc.prompt, acc.completion, acc.cached, BlocksInOrder(acc.blocks),
                    Faces(acc.text, BlocksInOrder(acc.blocks)), None, acc.unknown)
<1>1. PICK p, c, k, t, text, u, o, x :
         /\ p = acc.prompt /\ c = acc.completion /\ k = acc.cached
         /\ t = BlocksInOrder(acc.blocks) /\ text = acc.text /\ u = Faces(text, t)
         /\ No(o) /\ x = acc.unknown
  BY DEF No
<1>2. Uses(acc, p, c, k)
  BY <1>1 DEF Uses
<1>3. PICK s : s = ChatRecord(acc, t, text)
  OBVIOUS
<1>4. s = Made(p, c, k, t, u, None, o)
  BY <1>1, <1>2, <1>3, ChatMade
<1>5. r = [s EXCEPT !.unknown = x]
  BY <1>1, <1>3 DEF OpenAIStreamRecord
<1>6. [s EXCEPT !.unknown = x] = Made(p, c, k, t, u, None, x)
  BY <1>4 DEF Made
<1> QED
  BY <1>1, <1>5, <1>6

LEMMA StreamedMade ==
    ASSUME NEW used, NEW r, r = StreamedChatRecord(used)
    PROVE  r = Made(used.prompt, used.completion, used.cached, used.tools,
                    Faces(used.text, used.tools), None, FALSE)
<1>1. PICK p, c, k, t, text, u, o :
         /\ p = used.prompt /\ c = used.completion /\ k = used.cached
         /\ t = used.tools /\ text = used.text /\ u = Faces(text, t) /\ No(o)
  BY DEF No
<1>2. Uses(used, p, c, k)
  BY <1>1 DEF Uses
<1>3. PICK s : s = ChatRecord(used, t, text)
  OBVIOUS
<1>4. s = Made(p, c, k, t, u, None, o)
  BY <1>1, <1>2, <1>3, ChatMade
<1>5. r = s
  BY <1>1, <1>3 DEF StreamedChatRecord
<1> QED
  BY <1>1, <1>4, <1>5 DEF No

LEMMA UncachedAcc ==
    ASSUME NEW acc, HasFields(acc), NEW used, used = Uncached(acc)
    PROVE  /\ used.prompt = acc.prompt /\ used.completion = acc.completion
           /\ used.cached = 0 /\ used.tools = acc.tools /\ used.text = acc.text
BY DEF Uncached, HasFields, AccFields

\* A record that counts no more than another one, and what it counts of the
\* cache no less.
Below(r, whole) ==
    /\ r \in Counts /\ whole \in Counts
    /\ r.prompt_tokens <= whole.prompt_tokens
    /\ r.completion_tokens <= whole.completion_tokens
    /\ r.prompt_tokens > 0 => r.cached = whole.cached

Within(used, p, c, k) ==
    /\ used.prompt \in Nat /\ used.completion \in Nat /\ used.cached \in Nat
    /\ p \in Nat /\ c \in Nat /\ k \in Nat
    /\ used.prompt <= p /\ used.completion <= c
    /\ used.prompt > 0 => used.cached = k

LEMMA ChatBelow ==
    ASSUME NEW used, NEW p, NEW c, NEW k, Within(used, p, c, k),
           NEW t, t \in Seq(Tools), NEW x, x \in BOOLEAN,
           NEW r, r = Made(used.prompt, used.completion, used.cached, t,
                           Faces(used.text, t), None, x),
           NEW s, s \in Seq(Tools), NEW u, u \in BOOLEAN,
           NEW whole, whole = Made(p, c, k, s, u, None, FALSE)
    PROVE  Below(r, whole)
<1>1. /\ s \in Seq([name : STRING, arguments : Seq(Nat)])
      /\ t \in Seq([name : STRING, arguments : Seq(Nat)])
  BY DEF Tools
<1>2. r \in Counts
  BY <1>1 DEF Within, Made, Counts, Faces
<1>3. whole \in Counts
  BY <1>1 DEF Within, Made, Counts
<1>4. /\ r.prompt_tokens <= whole.prompt_tokens
      /\ r.completion_tokens <= whole.completion_tokens
      /\ r.prompt_tokens > 0 => r.cached = whole.cached
  BY DEF Made, Within
<1> QED
  BY <1>2, <1>3, <1>4 DEF Below

\* The record of a stream, however far it was read, and its answer's.
TwinRecord(c) == RecordOf(How(c.flavour).twin, c.answer)

LEMMA StreamBelow ==
    ASSUME NEW c, ReadsWell(c)
    PROVE  Below(StreamRecord(c), TwinRecord(c))
<1>1. PICK w \in Wires(c.flavour, c.answer), n \in Nat : ReadUpTo(c, w, n)
  BY DEF ReadsWell
<1>2. PICK f, a, acc : f = c.flavour /\ a = c.answer /\ acc = c.acc
  OBVIOUS
<1>3. Sent(f, a, w) /\ SoFar(f, acc, a, w, n)
  BY <1>1, <1>2, SentAs DEF ReadsWell, Answered, ReadUpTo
<1>4. PICK r, whole : r = StreamRecord(c) /\ whole = RecordOf(How(f).twin, a)
  OBVIOUS
<1>5. CASE f \in OpenAIStreams
  <2>1. IsAcc(acc, a) /\ Counted(acc, a) /\ a \in Chats
    BY <1>3, <1>5, SoFarOf, AccCounted DEF Sent
  <2>2. PICK t : t = BlocksInOrder(acc.blocks)
    OBVIOUS
  <2>3. t \in Seq(Tools) /\ acc.unknown \in BOOLEAN
    BY <2>1, <2>2, AccIs, BlocksOrdered
  <2>4. r = Made(acc.prompt, acc.completion, acc.cached, t, Faces(acc.text, t), None,
                 acc.unknown)
    BY <1>2, <1>4, <1>5, <2>2, StreamRecordOf, OpenAIStreamMade
  <2>5. whole = Made(a.prompt, a.completion, a.cached, a.tools,
                     a.text = "words" /\ a.tools = <<>>, None, FALSE)
    BY <1>4, <1>5, <2>1, TwinOf, ChatsMade DEF RecordOf
  <2>6. Within(acc, a.prompt, a.completion, a.cached) /\ a.tools \in Seq(Tools)
    BY <2>1, ChatIs DEF Counted, Within
  <2>7. Below(r, whole)
    BY <2>3, <2>4, <2>5, <2>6, ChatBelow
  <2> QED
    BY <1>2, <1>4, <2>7 DEF TwinRecord
<1>6. CASE f \in AnthropicStreams
  <2>1. IsAcc(acc, a) /\ Counted(acc, a) /\ a \in Chats /\ a # None
    BY <1>3, <1>6, SoFarOf, AccCounted DEF Sent
  <2>2. PICK asked, fin : /\ asked = (IF c.wire = <<>> THEN a ELSE None)
                          /\ fin = FinalizeFromMessage(acc, asked)
    OBVIOUS
  <2>3. Counted(fin, a)
    <3>1. /\ HasFields(acc) /\ acc.cached <= a.cached /\ acc.message \in {a, None}
          /\ acc.text = FALSE /\ acc.tools = <<>>
      BY <1>3, <1>6, <2>1, AccIs, SoFarOf DEF CountsSoFar, Kinds
    <3>2. asked \in {a, None}
      BY <2>2
    <3> QED
      BY <2>1, <2>2, <3>1, <3>2, FinalIs
  <2>4. r = StreamedChatRecord(fin)
    BY <1>2, <1>4, <1>6, <2>2, StreamRecordOf
  <2>5. PICK t, o : t = fin.tools /\ o = FALSE
    OBVIOUS
  <2>6. r = Made(fin.prompt, fin.completion, fin.cached, t, Faces(fin.text, t), None, o)
    BY <2>4, <2>5, StreamedMade
  <2>7. whole = Made(a.prompt, a.completion, a.cached, a.tools,
                     a.text # "none" /\ a.tools = <<>>, None, FALSE)
    BY <1>4, <1>6, <2>1, TwinOf, ChatsMade DEF RecordOf
  <2>8. /\ Within(fin, a.prompt, a.completion, a.cached) /\ a.tools \in Seq(Tools)
        /\ t \in Seq(Tools)
    BY <2>1, <2>3, <2>5, ChatIs DEF Counted, Within
  <2>9. Below(r, whole)
    BY <2>5, <2>6, <2>7, <2>8, ChatBelow
  <2> QED
    BY <1>2, <1>4, <2>9 DEF TwinRecord
<1>7. CASE f \in GeminiStreams \cup {"bedrock.stream"}
  <2>1. IsAcc(acc, a) /\ Counted(acc, a) /\ a \in Chats
    BY <1>3, <1>7, SoFarOf, AccCounted DEF Sent
  <2>2. PICK used, t, o : used = Uncached(acc) /\ t = acc.tools /\ o = FALSE
    OBVIOUS
  <2>3. /\ used.prompt = acc.prompt /\ used.completion = acc.completion
        /\ used.cached = 0 /\ used.tools = t /\ used.text = acc.text
    BY <2>1, <2>2, AccIs, UncachedAcc
  <2>4. r = StreamedChatRecord(used)
    BY <1>2, <1>4, <1>7, <2>2, StreamRecordOf
  <2>5. r = Made(used.prompt, used.completion, used.cached, t, Faces(used.text, t), None, o)
    BY <2>2, <2>3, <2>4, StreamedMade
  <2>6. whole = Made(a.prompt, a.completion, 0, a.tools,
                     a.text = "words" /\ a.tools = <<>>, None, FALSE)
    BY <1>4, <1>7, <2>1, TwinOf, ChatsMade DEF RecordOf
  <2>7. /\ Within(used, a.prompt, a.completion, 0) /\ a.tools \in Seq(Tools)
        /\ t \in Seq(Tools)
    BY <2>1, <2>2, <2>3, ChatIs DEF Counted, Within
  <2>8. Below(r, whole)
    BY <2>2, <2>5, <2>6, <2>7, ChatBelow
  <2> QED
    BY <1>2, <1>4, <2>8 DEF TwinRecord
<1>8. CASE f = "deepgram.live"
  <2>1. acc.seconds \in Nat /\ acc.text \in BOOLEAN /\ a.duration \in Count
    BY <1>3, <1>8, SoFarOf DEF Sent, DeepgramSoFar
  <2>2. r = Made(0, 0, 0, <<>>, acc.text, acc.seconds, FALSE)
    BY <1>2, <1>4, <1>8, StreamRecordOf, PlainMade
  <2>3. whole = Made(0, 0, 0, <<>>, a.text = "words", Reported(a.duration, 0), FALSE)
    BY <1>4, <1>8, TwinOf, PlainMade DEF RecordOf
  <2>4. Reported(a.duration, 0) \in Nat
    BY <2>1, Reports
  <2>5. r \in Counts /\ whole \in Counts
    BY <2>1, <2>2, <2>3, <2>4 DEF Made, Counts
  <2>6. /\ r.prompt_tokens = 0 /\ whole.prompt_tokens = 0
        /\ r.completion_tokens = 0 /\ whole.completion_tokens = 0
    BY <2>2, <2>3 DEF Made
  <2> QED
    BY <1>2, <1>4, <2>5, <2>6 DEF TwinRecord, Below
<1>9. CASE f \in {"elevenlabs.stream", "elevenlabs.astream"}
  <2>1. a.chars \in Nat
    BY <1>3, <1>9 DEF Sent
  <2>2. r = Made(a.chars, 0, 0, <<>>, TRUE, a.chars, FALSE)
    BY <1>2, <1>4, <1>9, StreamRecordOf, PlainMade
  <2>3. whole = r
    BY <1>4, <1>9, <2>2, TwinOf, PlainMade DEF RecordOf
  <2>4. r \in Counts
    BY <2>1, <2>2 DEF Made, Counts
  <2>5. r.prompt_tokens = a.chars /\ r.completion_tokens = 0
    BY <2>2 DEF Made
  <2> QED
    BY <1>2, <1>4, <2>1, <2>3, <2>4, <2>5 DEF TwinRecord, Below
<1> QED
  BY <1>3, <1>5, <1>6, <1>7, <1>8, <1>9 DEF Sent, OtherStreams

(***************************************************************************)
(* What is charged                                                         *)
(***************************************************************************)
LEMMA CountsHave ==
    ASSUME NEW r, r \in Counts
    PROVE  /\ r.prompt_tokens \in Nat /\ r.completion_tokens \in Nat /\ r.cached \in Nat
           /\ r.tool_calls \in Seq(Tools) /\ r.user_facing_output \in BOOLEAN
           /\ r.amount \in Nat \cup {None} /\ r.unknown \in BOOLEAN
BY DEF Counts, Tools

LEMMA FilledIs ==
    ASSUME NEW f, NEW r, r \in Counts, NEW s, s = Filled(f, r)
    PROVE  /\ s \in Counts
           /\ \/ s = r
              \/ /\ r.prompt_tokens = 0 /\ r.completion_tokens = 0
                 /\ s.prompt_tokens = Estimate /\ s.completion_tokens = 0
           /\ s.amount = r.amount /\ s.unknown = r.unknown /\ s.cached = r.cached
           /\ s.tool_calls = r.tool_calls
           /\ s.user_facing_output = r.user_facing_output
<1>1. PICK e : e = IF How(f).messages THEN Estimate ELSE 0
  OBVIOUS
<1>2. s = MaybeFillMissingTokens(r, e) /\ Estimate \in Nat /\ e \in {0, Estimate}
  BY <1>1, PlansAssumption DEF Filled
<1>3. CASE s = r
  BY <1>3
<1>4. CASE s # r
  <2>1. /\ r.prompt_tokens = 0 /\ r.completion_tokens = 0 /\ e = Estimate
        /\ s = [r EXCEPT !.prompt_tokens = e]
    BY <1>2, <1>4, CountsHave DEF MaybeFillMissingTokens
  <2>2. s \in Counts /\ s.prompt_tokens = Estimate
    BY <1>2, <2>1 DEF Counts
  <2>3. /\ s.completion_tokens = r.completion_tokens
        /\ s.amount = r.amount /\ s.unknown = r.unknown /\ s.cached = r.cached
        /\ s.tool_calls = r.tool_calls
        /\ s.user_facing_output = r.user_facing_output
    BY <2>1 DEF Counts
  <2> QED
    BY <2>1, <2>2, <2>3
<1> QED
  BY <1>3, <1>4

\* Of no input, nothing was read from a cache.
LEMMA NothingCached ==
    ASSUME NEW rate, NEW c \in Nat, NEW k \in Nat, NEW l \in Nat
    PROVE  EstimateUsd(rate, 0, c, k) = EstimateUsd(rate, 0, c, l)
<1>1. CacheRead(0, k) = 0 /\ CacheRead(0, l) = 0
  BY DEF CacheRead, Clamp
<1> QED
  BY <1>1 DEF EstimateUsd

LEMMA BelowCosts ==
    ASSUME NEW r, NEW whole, Below(r, whole)
    PROVE  EstimateCallUsd(Model, r) <= EstimateCallUsd(Model, whole)
<1>1. PICK p \in Nat, c \in Nat, k \in Nat :
         p = r.prompt_tokens /\ c = r.completion_tokens /\ k = r.cached
  BY CountsHave DEF Below
<1>2. PICK q \in Nat, d \in Nat, l \in Nat :
         q = whole.prompt_tokens /\ d = whole.completion_tokens /\ l = whole.cached
  BY CountsHave DEF Below
<1>3. p <= q /\ c <= d /\ (p > 0 => k = l)
  BY <1>1, <1>2 DEF Below
<1>4. Len(Model.name) \in Nat
  BY PlansAssumption
<1>5. PICK rate : rate = LookupRate(Model)
  OBVIOUS
<1>6. EstimateUsd(rate, p, c, l) <= EstimateUsd(rate, q, d, l)
  <2>1. l \in Int /\ p \in Int /\ c \in Int /\ q \in Int /\ d \in Int
    BY <1>1, <1>2
  <2> QED
    BY <1>3, <1>4, <1>5, <2>1, MoreTokensCostNoLess
<1>7. EstimateUsd(rate, p, c, k) = EstimateUsd(rate, p, c, l)
  <2>1. CASE p > 0
    BY <1>3, <2>1
  <2>2. CASE p = 0
    BY <1>1, <1>2, <2>2, NothingCached
  <2> QED
    BY <1>1, <2>1, <2>2
<1>8. /\ EstimateCallUsd(Model, r) = EstimateUsd(rate, p, c, k)
      /\ EstimateCallUsd(Model, whole) = EstimateUsd(rate, q, d, l)
  BY <1>1, <1>2, <1>5 DEF EstimateCallUsd
<1> QED
  BY <1>6, <1>7, <1>8

LEMMA CacheCosts ==
    ASSUME NEW r, r \in Counts
    PROVE  EstimateCallUsd(Model, r) <= EstimateCallUsd(Model, [r EXCEPT !.cached = 0])
<1>1. PICK p \in Nat, c \in Nat, k \in Nat :
         p = r.prompt_tokens /\ c = r.completion_tokens /\ k = r.cached
  BY CountsHave
<1>2. PICK s : s = [r EXCEPT !.cached = 0]
  OBVIOUS
<1>3. s.prompt_tokens = p /\ s.completion_tokens = c /\ s.cached = 0
  BY <1>1, <1>2 DEF Counts
<1>4. Len(Model.name) \in Nat
  BY PlansAssumption
<1>5. EstimateUsd(LookupRate(Model), p, c, k) <= EstimateUsd(LookupRate(Model), p, c, 0)
  <2>1. p \in Int /\ c \in Int /\ k \in Int
    BY <1>1
  <2> QED
    BY <1>4, <2>1, CacheReadIsNeverDearer
<1>6. EstimateCallUsd(Model, r) = EstimateUsd(LookupRate(Model), p, c, k)
  BY <1>1 DEF EstimateCallUsd
<1>7. EstimateCallUsd(Model, s) = EstimateUsd(LookupRate(Model), p, c, 0)
  BY <1>3 DEF EstimateCallUsd
<1> QED
  BY <1>2, <1>5, <1>6, <1>7

\* What record_call is given: of a plain call, or of a stream.
LEMMA FiledOf ==
    ASSUME ReadInv, filed # None
    PROVE  /\ Answered(filed.call) /\ filed.record \in Counts
           /\ \/ /\ ~How(filed.call.flavour).stream
                 /\ Given(filed.call, RecordOf(filed.call.flavour, filed.call.answer))
              \/ /\ ReadsWell(filed.call)
                 /\ Given(filed.call, StreamRecord(filed.call))
<1>1. PICK c : c = filed.call
  OBVIOUS
<1>2. \/ /\ Answered(c) /\ ~How(c.flavour).stream
         /\ Given(c, RecordOf(c.flavour, c.answer))
      \/ ReadsWell(c) /\ Given(c, StreamRecord(c))
  BY <1>1 DEF ReadInv, FiledSound
<1>3. CASE Answered(c) /\ ~How(c.flavour).stream /\ Given(c, RecordOf(c.flavour, c.answer))
  <2>1. PICK f, a : f = c.flavour /\ a = c.answer
    OBVIOUS
  <2>2. f \in PlainFlavours /\ a \in Shape(f)
    <3>1. f \in Flavours /\ a \in Shape(f)
      BY <1>3, <2>1, AnswersAssumption DEF Answered
    <3> QED
      BY <1>3, <2>1, <3>1, PlainAre
  <2>3. RecordOf(f, a) \in Counts
    BY <2>2, RecordsTyped
  <2>4. filed.record = Filled(f, RecordOf(f, a))
    BY <1>3, <2>1 DEF Given
  <2>5. filed.record \in Counts
    BY <2>3, <2>4, FilledIs
  <2> QED
    BY <1>1, <1>3, <2>5
<1>4. CASE ReadsWell(c) /\ Given(c, StreamRecord(c))
  <2>1. StreamRecord(c) \in Counts
    BY <1>4, StreamBelow DEF Below
  <2>2. filed.record = Filled(c.flavour, StreamRecord(c))
    BY <1>4 DEF Given
  <2>3. filed.record \in Counts
    BY <2>1, <2>2, FilledIs
  <2> QED
    BY <1>1, <1>4, <2>3 DEF ReadsWell
<1> QED
  BY <1>2, <1>3, <1>4

LEMMA TypesHold ==
    ASSUME WrapperInv, ReadInv
    PROVE  TypeOK
<1>1. killed \in BOOLEAN /\ InHand
  BY DEF WrapperInv
<1>2. /\ stage \in {"idle", "cleared", "open", "looping"}
      /\ plan \in Plans /\ Len(ended) <= Len(plan) /\ Len(plan) <= MaxCalls
  BY PlansAssumption DEF ReadInv
<1>3. Idle <=> call = NoCall
  <2>1. CASE stage = "idle"
    BY <1>1, <2>1 DEF InHand, Idle
  <2>2. CASE stage # "idle"
    <3>1. call = [x \in Fields |-> call[x]]
      BY <1>1, <2>2 DEF InHand, Live, CallSound, IsCall
    <3>2. DOMAIN call = Fields /\ "id" \in Fields
      BY <3>1 DEF Fields
    <3>3. DOMAIN NoCall = {"flavour"}
      BY DEF NoCall
    <3> QED
      BY <2>2, <3>2, <3>3 DEF Idle
  <2> QED
    BY <2>1, <2>2
<1>4. filed # None => filed.record \in Counts
  BY FiledOf
<1> QED
  BY <1>1, <1>2, <1>3, <1>4 DEF TypeOK

LEMMA AbandonedCosts ==
    ASSUME ReadInv
    PROVE  AbandonedNeverDearer
<1> SUFFICES ASSUME filed # None, How(filed.call.flavour).stream
             PROVE  \/ EstimateCallUsd(Model, filed.record)
                          <= EstimateCallUsd(Model, TwinRecord(filed.call))
                    \/ /\ filed.record.prompt_tokens = Estimate
                       /\ filed.record.completion_tokens = 0
  BY DEF AbandonedNeverDearer, TwinRecord
<1>1. PICK c, s, r : c = filed.call /\ s = filed.record /\ r = StreamRecord(c)
  OBVIOUS
<1>2. ReadsWell(c) /\ s = Filled(c.flavour, r)
  BY <1>1, FiledOf DEF Given
<1>3. Below(r, TwinRecord(c))
  BY <1>1, <1>2, StreamBelow
<1>4. s = r \/ (s.prompt_tokens = Estimate /\ s.completion_tokens = 0)
  BY <1>2, <1>3, FilledIs DEF Below
<1> QED
  BY <1>1, <1>3, <1>4, BelowCosts

LEMMA AudioMeasured ==
    ASSUME ReadInv
    PROVE  AudioNeverMeasuredByPart
<1> SUFFICES ASSUME filed # None, filed.call.flavour = "openai.audio"
             PROVE  LET a == filed.call.answer
                        r == filed.record
                    IN  \/ ~r.unknown /\ a.duration # None /\ r.amount = a.duration
                        \/ ~r.unknown /\ a.duration = None /\ r.amount = a.file.length
                                     /\ (a.stream => a.file.size <= MaxAudioBytes)
                        \/ r.unknown /\ r.amount = 0 /\ a.duration = None
  BY DEF AudioNeverMeasuredByPart
<1>1. PICK c, a, s, r : /\ c = filed.call /\ a = c.answer /\ s = filed.record
                        /\ r = OpenAIAudioRecord(a)
  OBVIOUS
<1>2. ~How("openai.audio").stream /\ RecordOf("openai.audio", a) = r
  BY <1>1 DEF How, OpenAIAudio, Plain, RecordOf
<1>3. /\ s = Filled("openai.audio", r) /\ a \in Shape("openai.audio")
  BY <1>1, <1>2, FiledOf, AnswersAssumption DEF Given, ReadsWell, Answered
<1>4. /\ a.duration \in Count /\ a.stream \in BOOLEAN /\ a.file \in Files
  <2>1. a \in [duration : Count, stream : BOOLEAN, chars : Nat, file : Files]
    BY <1>3, OtherShapes
  <2> QED
    BY <2>1
<1>5. r \in Counts
  BY <1>2, <1>3, RecordsTyped DEF PlainFlavours
<1>6. PICK n : n = AudioDuration(a)
  OBVIOUS
<1>7. r.amount = Reported(n, 0) /\ r.unknown = (n = None)
  <2>1. r = Made(0, a.chars, 0, <<>>, a.chars > 0, Reported(n, 0), n = None)
    BY <1>1, <1>6, PlainMade
  <2> QED
    BY <2>1 DEF Made
<1>8. s.amount = r.amount /\ s.unknown = r.unknown
  BY <1>3, <1>5, FilledIs
<1>9. /\ a.duration # None => n = a.duration
      /\ a.duration = None /\ n # None =>
            n = a.file.length /\ (a.stream => a.file.size <= MaxAudioBytes)
  BY <1>4, <1>6, AudioIs
<1>10. /\ ~s.unknown /\ a.duration # None => s.amount = a.duration
       /\ a.duration # None => ~s.unknown
  BY <1>7, <1>8, <1>9 DEF Reported
<1>11. a.duration = None /\ n # None =>
          ~s.unknown /\ s.amount = a.file.length /\ (a.stream => a.file.size <= MaxAudioBytes)
  BY <1>7, <1>8, <1>9 DEF Reported
<1>12. a.duration = None /\ n = None => s.unknown /\ s.amount = 0
  BY <1>7, <1>8 DEF Reported
<1> QED
  BY <1>1, <1>10, <1>11, <1>12

\* sentinel.py and pricing.py: no call is charged for more than it used, and no
\* transcription for less.  A stream that was abandoned at any piece costs no
\* more than its whole answer or than the estimate of its request, a cache hit
\* no more than none, and the seconds of audio are those of the whole file.
THEOREM ChargesAreFair == Spec => []ChargedFairly
<1>1. WrapperInv /\ ReadInv => ChargedFairly
  <2> SUFFICES ASSUME WrapperInv, ReadInv PROVE ChargedFairly
    OBVIOUS
  <2>1. CacheNeverDearer
    BY FiledOf, CacheCosts DEF CacheNeverDearer
  <2> QED
    BY <2>1, TypesHold, AbandonedCosts, AudioMeasured DEF ChargedFairly
<1> QED
  BY <1>1, WrapperInvariant, ReadInvariant, PTL

(***************************************************************************)
(* A stream that was read to its end                                       *)
(***************************************************************************)
LEMMA ReadWhole ==
    ASSUME NEW c, ReadsWell(c), c.wire = <<>>, ~c.aside
    PROVE  \E w : /\ Sent(c.flavour, c.answer, w)
                  /\ SoFar(c.flavour, c.acc, c.answer, w, Len(w))
<1>1. PICK w \in Wires(c.flavour, c.answer), n \in Nat : ReadUpTo(c, w, n)
  BY DEF ReadsWell
<1>2. Sent(c.flavour, c.answer, w)
  BY <1>1, SentAs DEF ReadsWell, Answered
<1>3. PICK m \in Nat : m = Len(w)
  BY <1>2 DEF Sent
<1>4. /\ n <= m /\ c.wire = [i \in 1..m - n |-> w[n + i]]
      /\ SoFar(c.flavour, c.acc, c.answer, w, n)
  BY <1>1, <1>3 DEF ReadUpTo
<1>5. n = m
  <2>1. DOMAIN c.wire = {} /\ DOMAIN c.wire = 1..m - n
    BY <1>4
  <2> QED
    BY <1>1, <1>3, <1>4, <2>1
<1> QED
  BY <1>2, <1>3, <1>4, <1>5

LEMMA CountedWhole ==
    ASSUME NEW a \in Chats, NEW w \in Seq(Pieces(a)), NEW acc, IsAcc(acc, a),
           CountsSoFar(acc, a, w, Len(w)), CountsAll(w, a)
    PROVE  acc.prompt = a.prompt /\ acc.completion = a.completion /\ acc.cached = a.cached
<1>1. ASSUME NEW x \in Kinds PROVE acc[x] = a[x]
  <2>1. PICK i \in 1..Len(w) : w[i].usage # None /\ w[i].usage[x] = a[x]
    BY DEF CountsAll
  <2>2. a[x] <= acc[x] /\ acc[x] <= a[x]
    BY <2>1 DEF CountsSoFar
  <2>3. acc[x] \in Nat /\ a[x] \in Nat
    <3>1. /\ acc.prompt \in Nat /\ acc.completion \in Nat /\ acc.cached \in Nat
          /\ a.prompt \in Nat /\ a.completion \in Nat /\ a.cached \in Nat
      BY AccIs, ChatIs
    <3> QED
      BY <3>1 DEF Kinds
  <2> QED
    BY <2>2, <2>3
<1> QED
  BY <1>1 DEF Kinds

LEMMA CountedNone ==
    ASSUME NEW a, NEW w, NEW n, NEW acc, CountsSoFar(acc, a, w, n),
           \A i \in 1..n : w[i].usage = None
    PROVE  acc.unknown /\ acc.prompt = 0 /\ acc.completion = 0
BY DEF CountsSoFar, Kinds

LEMMA SaidWhole ==
    ASSUME NEW a, NEW X, NEW w \in Seq(X), NEW acc, acc.text \in BOOLEAN,
           TextSoFar(acc, w, Len(w)), SaysWords(w, a)
    PROVE  acc.text = (a.text = "words")
BY DEF TextSoFar, SaysWords

LEMMA SameSeq ==
    ASSUME NEW X, NEW s \in Seq(X)
    PROVE  SubSeq(s, 1, Len(s)) = s
OBVIOUS

LEMMA SameTool ==
    ASSUME NEW b \in Tools, NEW t \in Tools, b.name = t.name, b.arguments = t.arguments
    PROVE  b = t
BY DEF Tools

\* OpenAI's calls, put together.
LEMMA CallsPutTogether ==
    ASSUME NEW a \in Chats, NEW w \in Seq(Pieces(a)), OpenAISends(w, a),
           NEW acc, IsAcc(acc, a), OpenAISoFar(acc, a, w, Len(w))
    PROVE  BlocksInOrder(acc.blocks) = a.tools
<1>1. PICK m \in Nat, n \in Nat : m = Len(a.tools) /\ n = Len(w)
  BY ChatIs
<1>2. a.tools \in Seq(Tools) /\ DOMAIN a.tools = 1..m /\ DOMAIN w = 1..n
  BY <1>1, ChatIs
<1>3. PICK b : b = acc.blocks
  OBVIOUS
<1>4. IsBlocks(b) /\ DOMAIN b = {w[i].index : i \in 1..n} \ {None}
  BY <1>1, <1>3, AccIs DEF OpenAISoFar
<1>5. ASSUME NEW k \in DOMAIN b PROVE k \in 0..m - 1
  <2>1. PICK i \in 1..n : k = w[i].index /\ k # None
    BY <1>4, <1>5
  <2>2. BringsNext(w, i, a)
    BY <1>2, <2>1 DEF OpenAISends
  <2>3. k + 1 \in 1..m /\ k \in Nat
    BY <1>2, <1>4, <1>5, <2>1, <2>2 DEF BringsNext, IsBlocks
  <2> QED
    BY <1>1, <2>3
<1>6. ASSUME NEW k \in 0..m - 1
      PROVE  /\ k \in DOMAIN b
             /\ (\E i \in 1..n : w[i].index = k /\ w[i].name = a.tools[k + 1].name)
             /\ BringsAll(w, n, k, a)
  <2>1. PICK i \in DOMAIN w : w[i].index = k /\ w[i].name = a.tools[k + 1].name
    BY <1>1, <1>6 DEF OpenAISends
  <2>2. k # None
    <3>1. k \in Nat
      BY <1>1, <1>6
    <3>2. None \notin Nat
      BY AnswersAssumption
    <3> QED
      BY <3>1, <3>2
  <2>3. BringsAll(w, n, k, a)
    BY <1>1, <1>6 DEF OpenAISends
  <2>4. k \in {w[j].index : j \in 1..n}
    BY <1>2, <2>1
  <2> QED
    BY <1>2, <1>4, <2>1, <2>2, <2>3, <2>4
<1>7. DOMAIN b = 0..m - 1
  BY <1>5, <1>6
<1>8. Cardinality(DOMAIN b) = m /\ Ascending(DOMAIN b) = [i \in 1..m |-> i - 1]
  <2>1. Cardinality(0..m - 1) = m
    <3>1. 0 \in Int /\ m - 1 \in Int
      BY <1>1
    <3>2. Cardinality(0..m - 1) = IF 0 > m - 1 THEN 0 ELSE (m - 1) - 0 + 1
      BY <3>1, FS_Interval
    <3> QED
      BY <1>1, <3>2
  <2>2. Ascending(0..m - 1) = [i \in 1..m |-> i - 1]
    BY <1>1, AscendingFromZero
  <2> QED
    BY <1>7, <2>1, <2>2
<1>9. BlocksInOrder(b) = [i \in 1..m |-> b[Ascending(DOMAIN b)[i]]]
  BY <1>4, <1>8, BlocksOrdered
<1>10. ASSUME NEW i \in 1..m PROVE b[Ascending(DOMAIN b)[i]] = a.tools[i]
  <2>1. PICK k \in 0..m - 1 : k = i - 1 /\ k + 1 = i
    BY <1>1
  <2>2. Ascending(DOMAIN b)[i] = k
    BY <1>8, <2>1
  <2>3. a.tools[i] \in Tools /\ a.tools[i].arguments \in Seq(Nat)
    <3>1. a.tools[i] \in Tools
      BY <1>2
    <3> QED
      BY <3>1 DEF Tools
  <2>4. /\ b[k].arguments = SubSeq(a.tools[i].arguments, 1, Cardinality(Fragments(w, n, k)))
        /\ b[k].name = a.tools[i].name
    <3>1. /\ k \in DOMAIN b
          /\ \E j \in 1..n : w[j].index = k /\ w[j].name = a.tools[k + 1].name
      BY <1>6, <2>1
    <3>2. b[k].arguments = Arrived(a, w, n, k)
      BY <1>1, <1>3, <3>1 DEF OpenAISoFar
    <3>3. b[k].name = a.tools[k + 1].name
      BY <1>1, <1>3, <3>1 DEF OpenAISoFar
    <3> QED
      BY <2>1, <3>2, <3>3 DEF Arrived
  <2>5. Cardinality(Fragments(w, n, k)) = Len(a.tools[i].arguments)
    BY <1>6, <2>1 DEF BringsAll
  <2>6. b[k].arguments = a.tools[i].arguments
    BY <2>3, <2>4, <2>5, SameSeq
  <2>7. b[k] \in Tools
    BY <1>4, <1>6, <2>1 DEF IsBlocks
  <2> QED
    BY <2>2, <2>3, <2>4, <2>6, <2>7, SameTool
<1>11. a.tools = [i \in 1..m |-> a.tools[i]]
  BY <1>1, <1>2
<1> QED
  BY <1>3, <1>9, <1>10, <1>11

\* Gemini's calls: one that repeats another is not a call of its own.
LEMMA FirstSeenSome ==
    ASSUME NEW s \in Seq(Tools)
    PROVE  FirstSeen(s) = <<>> <=> s = <<>>
<1>1. PICK t : t = FirstSeen(s)
  OBVIOUS
<1>2. t \in Seq(Tools) /\ \A x : Contains(t, x) <=> \E i \in 1..Len(s) : s[i] = x
  BY <1>1, FirstSeenIs
<1>3. ASSUME s # <<>> PROVE t # <<>>
  <2>1. 1 \in 1..Len(s)
    BY <1>3
  <2>2. Contains(t, s[1])
    BY <1>2, <2>1
  <2>3. \E i \in 1..Len(t) : t[i] = s[1]
    BY <2>2 DEF Contains
  <2>4. Len(t) # 0
    BY <1>2, <2>3
  <2> QED
    BY <2>4
<1> QED
  BY <1>1, <1>3, FirstSeenNone

\* The record of a stream says what that of the whole answer says; of OpenAI's
\* it may be without counts.
SameCharge(r, whole) ==
    /\ r.prompt_tokens = whole.prompt_tokens
    /\ r.completion_tokens = whole.completion_tokens
    /\ r.cached = whole.cached

NoCharge(r) == r.unknown /\ r.prompt_tokens = 0 /\ r.completion_tokens = 0

Alike(f, r, whole) ==
    /\ r.tool_calls = IF f \in GeminiStreams THEN FirstSeen(whole.tool_calls)
                      ELSE whole.tool_calls
    /\ r.user_facing_output = whole.user_facing_output
    /\ r.amount = whole.amount
    /\ SameCharge(r, whole) \/ (NoCharge(r) /\ How(f).messages)

LEMMA StreamAlike ==
    ASSUME NEW c, ReadsWell(c), c.wire = <<>>, ~c.aside
    PROVE  Alike(c.flavour, StreamRecord(c), TwinRecord(c))
<1>1. PICK w : /\ Sent(c.flavour, c.answer, w)
               /\ SoFar(c.flavour, c.acc, c.answer, w, Len(w))
  BY ReadWhole
<1>2. PICK f, a, acc, n : f = c.flavour /\ a = c.answer /\ acc = c.acc /\ n = Len(w)
  OBVIOUS
<1>3. Sent(f, a, w) /\ SoFar(f, acc, a, w, n) /\ n \in Nat
  BY <1>1, <1>2 DEF Sent
<1>4. PICK r, whole : r = StreamRecord(c) /\ whole = RecordOf(How(f).twin, a)
  OBVIOUS
<1>5. CASE f \in OpenAIStreams
  <2>1. /\ a \in Chats /\ w \in Seq(Pieces(a)) /\ OpenAISends(w, a)
        /\ IsAcc(acc, a) /\ CountsSoFar(acc, a, w, n) /\ TextSoFar(acc, w, n)
        /\ OpenAISoFar(acc, a, w, n)
    BY <1>3, <1>5, SoFarOf DEF Sent
  <2>2. BlocksInOrder(acc.blocks) = a.tools
    BY <1>2, <2>1, CallsPutTogether
  <2>3. acc.text = (a.text = "words")
    <3>1. SaysWords(w, a) /\ acc.text \in BOOLEAN
      BY <2>1, AccIs DEF OpenAISends
    <3> QED
      BY <1>2, <2>1, <3>1, SaidWhole
  <2>4. r = Made(acc.prompt, acc.completion, acc.cached, a.tools,
                 Faces(acc.text, a.tools), None, acc.unknown)
    BY <1>2, <1>4, <1>5, <2>2, StreamRecordOf, OpenAIStreamMade
  <2>5. whole = Made(a.prompt, a.completion, a.cached, a.tools,
                     a.text = "words" /\ a.tools = <<>>, None, FALSE)
    BY <1>4, <1>5, <2>1, TwinOf, ChatsMade DEF RecordOf
  <2>6. /\ r.tool_calls = whole.tool_calls /\ r.amount = whole.amount
        /\ r.user_facing_output = whole.user_facing_output
    BY <2>3, <2>4, <2>5 DEF Made, Faces
  <2>7. SameCharge(r, whole) \/ NoCharge(r)
    <3>1. CASE CountsAll(w, a)
      <4>1. /\ acc.prompt = a.prompt /\ acc.completion = a.completion
            /\ acc.cached = a.cached
        BY <1>2, <2>1, <3>1, CountedWhole
      <4> QED
        BY <2>4, <2>5, <4>1 DEF SameCharge, Made
    <3>2. CASE \A i \in DOMAIN w : w[i].usage = None
      <4>1. acc.unknown /\ acc.prompt = 0 /\ acc.completion = 0
        BY <1>2, <2>1, <3>2, CountedNone
      <4> QED
        BY <2>4, <4>1 DEF NoCharge, Made
    <3> QED
      BY <2>1, <3>1, <3>2 DEF OpenAISends
  <2>8. f \notin GeminiStreams /\ How(f).messages
    BY <1>5, TwinOf DEF OpenAIStreams, GeminiStreams
  <2> QED
    BY <1>2, <1>4, <2>6, <2>7, <2>8 DEF TwinRecord, Alike
<1>6. CASE f \in AnthropicStreams
  <2>1. a \in Chats /\ a # None /\ IsAcc(acc, a) /\ CountsSoFar(acc, a, w, n)
        /\ ~acc.text /\ acc.tools = <<>>
    BY <1>3, <1>6, SoFarOf DEF Sent
  <2>2. PICK asked, fin : asked = a /\ fin = FinalizeFromMessage(acc, asked)
    OBVIOUS
  <2>3. /\ fin.prompt = a.prompt /\ fin.completion = a.completion
        /\ fin.cached = a.cached /\ fin.tools = a.tools
        /\ fin.text = (a.text # "none")
    <3>1. /\ HasFields(acc) /\ Counted(acc, a) /\ acc.cached <= a.cached
          /\ acc.message \in {a, None} /\ acc.text = FALSE /\ acc.tools = <<>>
      BY <2>1, AccIs, AccCounted DEF CountsSoFar, Kinds
    <3>2. asked \in {a, None}
      BY <2>2
    <3>3. FinalWhole(fin, a)
      BY <2>1, <2>2, <3>1, <3>2, FinalIs
    <3> QED
      BY <3>3 DEF FinalWhole
  <2>4. r = StreamedChatRecord(fin)
    BY <1>2, <1>4, <1>6, <2>2, StreamRecordOf
  <2>5. r = Made(a.prompt, a.completion, a.cached, a.tools,
                 Faces(fin.text, a.tools), None, FALSE)
    BY <2>3, <2>4, StreamedMade
  <2>6. whole = Made(a.prompt, a.completion, a.cached, a.tools,
                     a.text # "none" /\ a.tools = <<>>, None, FALSE)
    BY <1>4, <1>6, <2>1, TwinOf, ChatsMade DEF RecordOf
  <2>7. /\ r.tool_calls = whole.tool_calls /\ r.amount = whole.amount
        /\ r.user_facing_output = whole.user_facing_output /\ SameCharge(r, whole)
    BY <2>3, <2>5, <2>6 DEF Made, Faces, SameCharge
  <2>8. f \notin GeminiStreams
    BY <1>6 DEF AnthropicStreams, GeminiStreams
  <2> QED
    BY <1>2, <1>4, <2>7, <2>8 DEF TwinRecord, Alike
<1>7. CASE f \in GeminiStreams \cup {"bedrock.stream"}
  <2>1. /\ a \in Chats /\ w \in Seq(Pieces(a)) /\ SaysWords(w, a) /\ CountsAll(w, a)
        /\ IsAcc(acc, a) /\ CountsSoFar(acc, a, w, n) /\ TextSoFar(acc, w, n)
    BY <1>3, <1>7, SoFarOf DEF Sent, GeminiSends, BedrockSends
  <2>2. acc.tools = IF f \in GeminiStreams THEN FirstSeen(a.tools) ELSE a.tools
    <3>1. CASE f \in GeminiStreams
      <4>1. GeminiSends(w, a) /\ GeminiSoFar(acc, a, w, n)
        BY <1>3, <3>1, SoFarOf DEF Sent
      <4>2. SubSeq(a.tools, 1, Cardinality(Called(w, n))) = a.tools
        BY <1>2, <2>1, <4>1, ChatIs, SameSeq DEF GeminiSends
      <4> QED
        BY <3>1, <4>1, <4>2 DEF GeminiSoFar
    <3>2. CASE f = "bedrock.stream"
      <4>1. BedrockSends(w, a) /\ BedrockSoFar(acc, a, w, n)
        BY <1>3, <3>2, SoFarOf DEF Sent
      <4>2. SubSeq(a.tools, 1, Cardinality(BlocksStopped(w, n))) = a.tools
        BY <1>2, <2>1, <4>1, ChatIs, SameSeq DEF BedrockSends
      <4>3. f \notin GeminiStreams
        BY <3>2 DEF GeminiStreams
      <4> QED
        BY <4>1, <4>2, <4>3 DEF BedrockSoFar
    <3> QED
      BY <1>7, <3>1, <3>2
  <2>3. acc.tools = <<>> <=> a.tools = <<>>
    BY <2>1, <2>2, ChatIs, FirstSeenSome
  <2>4. acc.text = (a.text = "words")
    BY <1>2, <2>1, AccIs, SaidWhole
  <2>5. acc.prompt = a.prompt /\ acc.completion = a.completion
    BY <1>2, <2>1, CountedWhole
  <2>6. PICK used : used = Uncached(acc)
    OBVIOUS
  <2>7. /\ used.prompt = acc.prompt /\ used.completion = acc.completion
        /\ used.cached = 0 /\ used.tools = acc.tools /\ used.text = acc.text
    BY <2>1, <2>6, AccIs, UncachedAcc
  <2>8. r = StreamedChatRecord(used)
    BY <1>2, <1>4, <1>7, <2>6, StreamRecordOf
  <2>9. r = Made(acc.prompt, acc.completion, 0, acc.tools,
                 Faces(acc.text, acc.tools), None, FALSE)
    BY <2>7, <2>8, StreamedMade
  <2>10. whole = Made(a.prompt, a.completion, 0, a.tools,
                      a.text = "words" /\ a.tools = <<>>, None, FALSE)
    BY <1>4, <1>7, <2>1, TwinOf, ChatsMade DEF RecordOf
  <2>11. /\ r.tool_calls = acc.tools /\ whole.tool_calls = a.tools
         /\ r.amount = whole.amount
         /\ r.user_facing_output = whole.user_facing_output /\ SameCharge(r, whole)
    BY <2>3, <2>4, <2>5, <2>9, <2>10 DEF Made, Faces, SameCharge
  <2> QED
    BY <1>2, <1>4, <2>2, <2>11 DEF TwinRecord, Alike
<1>8. CASE f = "deepgram.live"
  <2>1. DeepgramSends(w, a) /\ DeepgramSoFar(acc, a, w, n) /\ DOMAIN w = 1..n
    BY <1>2, <1>3, <1>8, SoFarOf DEF Sent
  <2>2. acc.text = (a.text = "words")
    BY <2>1 DEF DeepgramSends, DeepgramSoFar
  <2>3. acc.seconds = Reported(a.duration, 0)
    BY <2>1 DEF DeepgramSends, DeepgramSoFar, Reported
  <2>4. r = Made(0, 0, 0, <<>>, acc.text, acc.seconds, FALSE)
    BY <1>2, <1>4, <1>8, StreamRecordOf, PlainMade
  <2>5. whole = Made(0, 0, 0, <<>>, a.text = "words", Reported(a.duration, 0), FALSE)
    BY <1>4, <1>8, TwinOf, PlainMade DEF RecordOf
  <2>6. /\ r.tool_calls = whole.tool_calls /\ r.amount = whole.amount
        /\ r.user_facing_output = whole.user_facing_output /\ SameCharge(r, whole)
    BY <2>2, <2>3, <2>4, <2>5 DEF Made, SameCharge
  <2>7. f \notin GeminiStreams
    BY <1>8 DEF GeminiStreams
  <2> QED
    BY <1>2, <1>4, <2>6, <2>7 DEF TwinRecord, Alike
<1>9. CASE f \in {"elevenlabs.stream", "elevenlabs.astream"}
  <2>1. r = ElevenLabsRecord(a) /\ whole = ElevenLabsRecord(a)
    BY <1>2, <1>4, <1>9, StreamRecordOf, TwinOf DEF RecordOf
  <2>2. f \notin GeminiStreams
    BY <1>9 DEF GeminiStreams
  <2> QED
    BY <1>2, <1>4, <2>1, <2>2 DEF TwinRecord, Alike, SameCharge
<1> QED
  BY <1>3, <1>5, <1>6, <1>7, <1>8, <1>9 DEF Sent, OtherStreams

\* And what is filled in keeps it so: by request, the estimate is the same.
LEMMA TwinsFilledAlike ==
    ASSUME NEW f, f \in OpenAIStreams \cup AnthropicStreams \cup GeminiStreams \cup OtherStreams
    PROVE  How(How(f).twin).messages <=> How(f).messages
<1>1. CASE f \in OpenAIStreams
  BY <1>1, TwinOf, TwinMessages
<1>2. CASE f \in AnthropicStreams
  BY <1>2, TwinOf, TwinMessages
<1>3. CASE f \in GeminiStreams
  <2>1. How(f).twin = "gemini.generate" /\ ~How(f).messages
    BY <1>3, TwinOf
  <2> QED
    BY <2>1, TwinMessages
<1>4. CASE f = "bedrock.stream"
  BY <1>4, TwinOf, TwinMessages
<1>5. CASE f = "deepgram.live"
  BY <1>5, TwinOf, TwinMessages
<1>6. CASE f \in {"elevenlabs.stream", "elevenlabs.astream"}
  BY <1>6, TwinOf, TwinMessages
<1> QED
  BY <1>1, <1>2, <1>3, <1>4, <1>5, <1>6 DEF OtherStreams

LEMMA FilledAlike ==
    ASSUME NEW f, NEW g, How(g).messages <=> How(f).messages,
           NEW r, r \in Counts, NEW whole, whole \in Counts, Alike(f, r, whole),
           NEW s, s = Filled(f, r), NEW t, t = Filled(g, whole)
    PROVE  /\ s.tool_calls = IF f \in GeminiStreams THEN FirstSeen(t.tool_calls)
                             ELSE t.tool_calls
           /\ s.user_facing_output = t.user_facing_output
           /\ s.amount = t.amount
           /\ \/ Charged(s) = Charged(t)
              \/ s.unknown /\ s.prompt_tokens = Estimate /\ s.completion_tokens = 0
<1>1. /\ s \in Counts /\ s.amount = r.amount /\ s.unknown = r.unknown
      /\ s.cached = r.cached /\ s.tool_calls = r.tool_calls
      /\ s.user_facing_output = r.user_facing_output
  BY FilledIs
<1>2. /\ t \in Counts /\ t.amount = whole.amount
      /\ t.cached = whole.cached /\ t.tool_calls = whole.tool_calls
      /\ t.user_facing_output = whole.user_facing_output
  BY FilledIs
<1>3. PICK e \in Nat : e = IF How(f).messages THEN Estimate ELSE 0
  BY PlansAssumption
<1>4. s = MaybeFillMissingTokens(r, e) /\ t = MaybeFillMissingTokens(whole, e)
  BY <1>3 DEF Filled
<1>5. ASSUME NEW q, q \in Counts, NEW v, v = MaybeFillMissingTokens(q, e)
      PROVE  /\ v.completion_tokens = q.completion_tokens
             /\ v.prompt_tokens = IF q.prompt_tokens # 0 \/ q.completion_tokens # 0
                                  THEN q.prompt_tokens ELSE e
  <2>1. CASE q.prompt_tokens # 0 \/ q.completion_tokens # 0
    BY <1>5, <2>1 DEF MaybeFillMissingTokens
  <2>2. CASE q.prompt_tokens = 0 /\ q.completion_tokens = 0 /\ e = 0
    BY <1>5, <2>2 DEF MaybeFillMissingTokens
  <2>3. CASE q.prompt_tokens = 0 /\ q.completion_tokens = 0 /\ e # 0
    <3>1. v = [q EXCEPT !.prompt_tokens = e]
      BY <1>3, <1>5, <2>3 DEF MaybeFillMissingTokens
    <3>2. v.prompt_tokens = e /\ v.completion_tokens = q.completion_tokens
      BY <1>5, <3>1 DEF Counts
    <3> QED
      BY <2>3, <3>2
  <2> QED
    BY <2>1, <2>2, <2>3
<1>6. CASE SameCharge(r, whole)
  <2>1. s.prompt_tokens = t.prompt_tokens /\ s.completion_tokens = t.completion_tokens
    BY <1>4, <1>5, <1>6 DEF SameCharge
  <2>2. s.cached = t.cached /\ s.amount = t.amount
    BY <1>1, <1>2, <1>6 DEF SameCharge, Alike
  <2>3. Charged(s) = Charged(t)
    BY <2>1, <2>2 DEF Charged
  <2> QED
    BY <1>1, <1>2, <2>3 DEF Alike
<1>7. CASE NoCharge(r) /\ How(f).messages
  <2>1. s.unknown /\ s.prompt_tokens = Estimate /\ s.completion_tokens = 0
    BY <1>1, <1>3, <1>4, <1>5, <1>7 DEF NoCharge
  <2> QED
    BY <1>1, <1>2, <2>1 DEF Alike
<1> QED
  BY <1>6, <1>7 DEF Alike

\* The stream proxies: a stream that was read to its end makes the record of
\* the same answer come whole, whatever pieces it came in: the fragments of
\* parallel tool calls are put together in their order, each call with its
\* name, counts that are repeated are not added up, text is text.  Two
\* differences remain: OpenAI sends no counts unless asked, and of Gemini's
\* identical calls the first remains.
THEOREM FullReadsAreWhole == Spec => []FullReadIsWhole
<1>1. ReadInv => FullReadIsWhole
  <2> SUFFICES ASSUME ReadInv, filed # None, filed.full,
                      How(filed.call.flavour).stream
               PROVE  FullReadIsWhole
    BY DEF FullReadIsWhole
  <2>1. PICK c, f, r, s : /\ c = filed.call /\ f = c.flavour /\ s = filed.record
                          /\ r = StreamRecord(c)
    OBVIOUS
  <2>2. /\ ReadsWell(c) /\ s = Filled(f, r) /\ c.wire = <<>> /\ ~c.aside
    BY <2>1, FiledOf DEF Given
  <2>3. PICK g, whole : g = How(f).twin /\ whole = RecordOf(g, c.answer)
    OBVIOUS
  <2>4. whole = TwinRecord(c)
    BY <2>1, <2>3 DEF TwinRecord
  <2>5. r \in Counts /\ whole \in Counts
    BY <2>1, <2>2, <2>4, StreamBelow DEF Below
  <2>6. Alike(f, r, whole)
    BY <2>1, <2>2, <2>4, StreamAlike
  <2>7. How(g).messages <=> How(f).messages
    <3>1. f \in Flavours /\ How(f).stream
      BY <2>1, <2>2, AnswersAssumption DEF ReadsWell, Answered
    <3> QED
      BY <2>3, <3>1, StreamFlavours, TwinsFilledAlike
  <2>8. PICK t : t = Filled(g, whole)
    OBVIOUS
  <2>9. /\ s.tool_calls = IF f \in GeminiStreams THEN FirstSeen(t.tool_calls)
                          ELSE t.tool_calls
        /\ s.user_facing_output = t.user_facing_output
        /\ s.amount = t.amount
        /\ \/ Charged(s) = Charged(t)
           \/ s.unknown /\ s.prompt_tokens = Estimate /\ s.completion_tokens = 0
    BY <2>2, <2>5, <2>6, <2>7, <2>8, FilledAlike
  <2> QED
    BY <2>1, <2>3, <2>8, <2>9 DEF FullReadIsWhole
<1> QED
  BY <1>1, ReadInvariant, PTL
=============================================================================
