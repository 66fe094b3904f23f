---------------------------- MODULE VelocityWindow ----------------------------
(***************************************************************************)
(* The velocity cap of sentinel.py: a deque of (time, tokens) that         *)
(* _current_minute_tokens sums and _update_policy_trackers extends, both   *)
(* under _policy_lock.  The clock is read outside of the lock, so threads  *)
(* can prune and append with times that are already past.  These are the   *)
(* data behind the step EnforceVelocity of PolicyEnforcement.tla, where    *)
(* the check may go either way.                                            *)
(***************************************************************************)
EXTENDS Integers, Sequences, FiniteSets

CONSTANTS
    Threads,
    Tokens,       \* what calls use: prompt and completion tokens
    MaxTokens,    \* no call uses more
    Caps,         \* the values max_tokens_per_min may have while calls run
    MaxCap,       \* no cap is higher
    NoCap,        \* max_tokens_per_min is None
    Window,       \* _VELOCITY_WINDOW_SECONDS
    MaxTime,      \* bound on the clock
    MaxCalls      \* bound on the calls

ASSUME VelocityAssumption ==
    /\ IsFiniteSet(Threads) /\ Threads # {}
    /\ Window \in Nat
    /\ MaxTokens \in Nat /\ Tokens \subseteq 0..MaxTokens
    /\ MaxCap \in Nat /\ Caps \subseteq (0..MaxCap) \cup {NoCap}
    /\ NoCap \notin Nat
    /\ MaxTime \in Nat

VARIABLES
    clock,      \* time.monotonic()
    pc,         \* where each thread is
    now,        \* the time each thread has read
    tokens,     \* the tokens of its call
    cap,        \* the cap of the policy it read
    window,     \* _tokens_minute_window, as positions in charges
    charges,    \* history: every (time, tokens) ever appended, and whether
                \* the call was checked against a cap
    calls

callVars == <<pc, now, tokens, cap>>
vars == <<clock, callVars, window, charges, calls>>

Steps == {"idle", "clock", "count", "record", "append"}

TypeOK ==
    /\ clock \in Nat
    /\ pc \in [Threads -> Steps]
    /\ now \in [Threads -> Nat]
    /\ tokens \in [Threads -> 0..MaxTokens]
    /\ cap \in [Threads -> (0..MaxCap) \cup {NoCap}]
    /\ charges \in Seq([at : Nat, tokens : 0..MaxTokens, capped : BOOLEAN])
    /\ window \in Seq(1..Len(charges))
    /\ calls \in Nat

Init ==
    /\ clock = 0
    /\ pc = [t \in Threads |-> "idle"]
    /\ now = [t \in Threads |-> 0]
    /\ tokens = [t \in Threads |-> 0]
    /\ cap = [t \in Threads |-> NoCap]
    /\ window = <<>>
    /\ charges = <<>>
    /\ calls = 0

Tick ==
    /\ clock < MaxTime
    /\ clock' = clock + 1
    /\ UNCHANGED <<callVars, window, charges, calls>>

GoTo(t, step) == pc' = [pc EXCEPT ![t] = step]

\* A call under a policy with a cap is checked; under one without it, or
\* under none, it is only charged.
Begin(t) ==
    /\ pc[t] = "idle"
    /\ calls < MaxCalls
    /\ calls' = calls + 1
    /\ \E n \in Tokens, c \in Caps :
          /\ tokens' = [tokens EXCEPT ![t] = n]
          /\ cap' = [cap EXCEPT ![t] = c]
          /\ GoTo(t, IF c = NoCap THEN "record" ELSE "clock")
    /\ UNCHANGED <<clock, now, window, charges>>

\* Mutant of Monotonic: the cutoff is taken for the time.
Cutoff == clock - Window
Monotonic == clock

\* time.monotonic() before the lock, in _enforce_policy or in
\* _update_policy_trackers.
ReadClock(t) ==
    /\ \/ pc[t] = "clock" /\ GoTo(t, "count")
       \/ pc[t] = "record" /\ GoTo(t, "append")
    /\ now' = [now EXCEPT ![t] = Monotonic]
    /\ UNCHANGED <<clock, tokens, cap, window, charges, calls>>

\* Mutant of Expired: an entry as old as the window is gone.
ExpiredEarly(entry, time) == entry.at <= time - Window
Expired(entry, time) == entry.at < time - Window

\* Only the left end is looked at: the entries are not sorted by time.
Pruned(seq, entries, time) ==
    LET fresh == {i \in 1..Len(seq) : ~Expired(entries[seq[i]], time)}
    IN  IF fresh = {}
        THEN <<>>
        ELSE LET first == CHOOSE i \in fresh : \A j \in fresh : i <= j
             IN  SubSeq(seq, first, Len(seq))

\* The tokens of some of the entries.
TokensIn(entries, S) ==
    LET upTo[i \in 0..Len(entries)] ==
            IF i = 0 THEN 0
            ELSE upTo[i - 1] + (IF i \in S THEN entries[i].tokens ELSE 0)
    IN  upTo[Len(entries)]

\* A charge is in the window once at the most.
Total(seq) == TokensIn(charges, {seq[i] : i \in 1..Len(seq)})

\* Mutant of Projected: the call itself is left out.
Counted(t) == Total(window')
Projected(t) == Total(window') + tokens[t]

\* A call that is let through is charged later; a probe is not.
Count(t) ==
    /\ pc[t] = "count"
    /\ window' = Pruned(window, charges, now[t])
    /\ IF Projected(t) > cap[t]
       THEN GoTo(t, "idle")
       ELSE GoTo(t, "record") \/ GoTo(t, "idle")
    /\ UNCHANGED <<clock, now, tokens, cap, charges, calls>>

AppendTokens(t) ==
    /\ pc[t] = "append"
    /\ charges' = Append(charges, [at |-> now[t], tokens |-> tokens[t],
                                   capped |-> cap[t] # NoCap])
    /\ window' = Pruned(Append(window, Len(charges')), charges', now[t])
    /\ GoTo(t, "idle")
    /\ UNCHANGED <<clock, now, tokens, cap, calls>>

Next ==
    \/ Tick
    \/ \E t \in Threads :
          Begin(t) \/ ReadClock(t) \/ Count(t) \/ AppendTokens(t)

Spec == Init /\ [][Next]_vars

(***************************************************************************)
(* Properties                                                              *)
(***************************************************************************)
\* The charges of the last Window seconds.
Recent == {i \in 1..Len(charges) : charges[i].at >= clock - Window}

\* No thread that prunes, with whatever time it read, takes away a charge of
\* the last Window seconds (_current_minute_tokens, _update_policy_trackers):
\* a check never counts too little.
WindowComplete == Recent \subseteq {window[i] : i \in 1..Len(window)}

\* The check and the charge are two critical sections, so in any Window
\* seconds the calls that were checked use no more tokens than the highest
\* cap and one call for each other thread.  Calls no cap applied to come on
\* top.
VelocityOvershootBounded ==
    TokensIn(charges, {i \in Recent : charges[i].capped})
        <= MaxCap + (Cardinality(Threads) - 1) * MaxTokens
=============================================================================
