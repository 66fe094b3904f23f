------------------------------ MODULE Detection ------------------------------
(***************************************************************************)
(* The second half of Sentinel.record_call: the rules fire, duplicates are *)
(* filtered out, the handlers and the cloud sink hear of what is left, and *)
(* only then may the call raise.  The clock is read before _dedup_lock is  *)
(* taken, and the list of handlers is copied under _handler_lock for every *)
(* event.  What a rule sees of its session is Tracer.tla's subject, so any *)
(* of Firings may come of it here; the policy checks before and between    *)
(* these steps are PolicyEnforcement's.                                    *)
(***************************************************************************)
EXTENDS Integers, Sequences, FiniteSets, SequencesExt

CONSTANTS
    Threads,
    Sessions,
    NoSession,
    Kinds,          \* events with the same type, rule and evidence
    RuleOrder,      \* the order in which the rules run
    Firings,        \* the sets of kinds that may fire in one call
    ToolLoops,      \* the kinds of type tool_loop
    Thrashes,       \* the kinds of type retrieval_thrash
    Never,          \* no entry in _recent_event_keys
    Window,         \* dedup_window_seconds
    Handlers,       \* functions the application may register
    Sink,           \* CloudSink.enqueue
    MaxTime,        \* bound on the clock
    MaxCalls,       \* bound on the calls
    MaxHandlers,    \* bound on the registrations at one time
    MaxStall        \* a thread reads the clock and has the lock this soon

\* cleanup_horizon.
Horizon == 4 * Window

ASSUME DetectionAssumption ==
    /\ NoSession \notin Sessions
    /\ RuleOrder \in Seq(Kinds)
    /\ \A k \in Kinds : \E i \in 1..Len(RuleOrder) : RuleOrder[i] = k
    /\ \A i, j \in 1..Len(RuleOrder) : RuleOrder[i] = RuleOrder[j] => i = j
    /\ Firings \subseteq SUBSET Kinds /\ {} \notin Firings
    /\ ToolLoops \subseteq Kinds /\ Thrashes \subseteq Kinds
    /\ Window \in Nat
    /\ Never \notin Nat
    /\ Sink \notin Handlers
    /\ MaxStall \in Nat /\ MaxStall <= Horizon - Window

VARIABLES
    clock,      \* time.monotonic()
    recent,     \* _recent_event_keys
    handlers,   \* _handlers
    pc,         \* where each thread is
    sid,        \* the session of its call
    now,        \* the time it read
    events,     \* the events it has still to hand on, in the order of the rules
    calling,    \* the handlers it has still to call for the first of them
    shipped,    \* history: the events of each call that passed the filter
    hushed,     \* history: every event the filter dropped
    mine,       \* history: the events a call in flight has shipped
    heard,      \* history: who has been called for which of them
    steady,     \* history: handlers registered ever since it began
    calls

callVars == <<pc, sid, now, events, calling, mine, heard>>
vars == <<clock, recent, handlers, callVars, steady, shipped, hushed, calls>>

Steps == {"idle", "filter", "take", "call", "decide"}

\* What passed the filter at one time, and an event that the filter dropped.
Shipments == [session : Sessions, kinds : SUBSET Kinds, time : Nat]
Occurrences == [session : Sessions, kind : Kinds, time : Nat]

TypeOK ==
    /\ clock \in Nat
    /\ recent \in [Sessions -> [Kinds -> Nat \cup {Never}]]
    /\ handlers \in Seq(Handlers)
    /\ pc \in [Threads -> Steps]
    /\ sid \in [Threads -> Sessions \cup {NoSession}]
    /\ now \in [Threads -> Nat]
    /\ events \in [Threads -> SUBSET Kinds]
    /\ calling \in [Threads -> Seq(Handlers \cup {Sink})]
    /\ \A t \in Threads : pc[t] \in {"take", "call"} => events[t] # {}
    /\ \A t \in Threads : pc[t] = "call" => calling[t] # <<>>
    /\ shipped \in Seq(Shipments)
    /\ hushed \subseteq Occurrences
    /\ mine \in [Threads -> SUBSET Kinds]
    /\ heard \in [Threads -> SUBSET ((Handlers \cup {Sink}) \X Kinds)]
    /\ steady \in [Threads -> SUBSET Handlers]
    /\ calls \in Nat

Init ==
    /\ clock = 0
    /\ recent = [s \in Sessions |-> [k \in Kinds |-> Never]]
    /\ handlers = <<>>
    /\ pc = [t \in Threads |-> "idle"]
    /\ sid = [t \in Threads |-> NoSession]
    /\ now = [t \in Threads |-> 0]
    /\ events = [t \in Threads |-> {}]
    /\ calling = [t \in Threads |-> <<>>]
    /\ mine = [t \in Threads |-> {}]
    /\ heard = [t \in Threads |-> {}]
    /\ steady = [t \in Threads |-> {}]
    /\ shipped = <<>> /\ hushed = {}
    /\ calls = 0

\* Time passes, but no thread is held up for long between the clock and the
\* lock.
Tick ==
    /\ clock < MaxTime
    /\ \A t \in Threads : pc[t] = "filter" => clock - now[t] < MaxStall
    /\ clock' = clock + 1
    /\ UNCHANGED <<recent, handlers, callVars, steady, shipped, hushed, calls>>

(***************************************************************************)
(* on_leak and unregister                                                  *)
(***************************************************************************)
OnLeak(h) ==
    /\ Len(handlers) < MaxHandlers
    /\ handlers' = Append(handlers, h)
    /\ UNCHANGED <<clock, recent, callVars, steady, shipped, hushed, calls>>

Unregister(h) ==
    /\ \E i \in 1..Len(handlers) :
          /\ handlers[i] = h /\ \A j \in 1..(i - 1) : handlers[j] # h
          /\ handlers' = RemoveAt(handlers, i)
    /\ steady' = [t \in Threads |-> steady[t] \cap Range(handlers')]
    /\ UNCHANGED <<clock, recent, callVars, shipped, hushed, calls>>

(***************************************************************************)
(* record_call                                                             *)
(***************************************************************************)
Finish(t) ==
    /\ pc' = [pc EXCEPT ![t] = "idle"]
    /\ sid' = [sid EXCEPT ![t] = NoSession]
    /\ now' = [now EXCEPT ![t] = 0]
    /\ events' = [events EXCEPT ![t] = {}]
    /\ calling' = [calling EXCEPT ![t] = <<>>]
    /\ mine' = [mine EXCEPT ![t] = {}]
    /\ heard' = [heard EXCEPT ![t] = {}]
    /\ steady' = [steady EXCEPT ![t] = {}]

\* One signal for one RAG pattern.
Preferred(F) == IF F \cap Thrashes # {} THEN F \ ToolLoops ELSE F

\* The first of some events: a rule fires at most one in a call.
First(F) ==
    CHOOSE k \in F : \E i \in 1..Len(RuleOrder) :
        RuleOrder[i] = k /\ \A j \in 1..(i - 1) : RuleOrder[j] \notin F

\* Some rules fire above min_confidence, and the clock is read; nothing of
\* this is shared.  Without an event the call returns and nothing changes.
RunRules(t) ==
    /\ pc[t] = "idle"
    /\ calls < MaxCalls
    /\ calls' = calls + 1
    /\ \E s \in Sessions : sid' = [sid EXCEPT ![t] = s]
    /\ \E F \in Firings : events' = [events EXCEPT ![t] = Preferred(F)]
    /\ now' = [now EXCEPT ![t] = clock]
    /\ pc' = [pc EXCEPT ![t] = "filter"]
    /\ steady' = [steady EXCEPT ![t] = Range(handlers)]
    /\ UNCHANGED <<clock, recent, handlers, calling, mine, heard, shipped,
                   hushed>>

(***************************************************************************)
(* _filter_duplicate_events                                                *)
(***************************************************************************)
\* Mutant of Forgotten: a session goes with its oldest entry.
ForgottenByOldest(keymap, time) ==
    \E k \in Kinds : keymap[k] # Never /\ time - keymap[k] > Horizon
\* A session goes when its newest entry is older than the horizon.
Forgotten(keymap, time) ==
    \A k \in Kinds : keymap[k] # Never => time - keymap[k] > Horizon

Cleaned(time) ==
    [s \in Sessions |->
        IF Forgotten(recent[s], time) THEN [k \in Kinds |-> Never] ELSE recent[s]]

Duplicate(keymap, k, time) == keymap[k] # Never /\ time - keymap[k] <= Window

\* Mutant of Stamped: an event that is dropped counts as seen again.
StampedAlways(keymap, fired, time) ==
    [k \in Kinds |-> IF k \in fired THEN time ELSE keymap[k]]
Stamped(keymap, fired, time) ==
    [k \in Kinds |->
        IF k \in fired /\ ~Duplicate(keymap, k, time) THEN time ELSE keymap[k]]

\* With a window of 0 nothing is looked up.
Filter(t) ==
    /\ pc[t] = "filter"
    /\ LET table == IF Window = 0 THEN recent ELSE Cleaned(now[t])
           keymap == table[sid[t]]
           lost == {k \in events[t] : Window > 0 /\ Duplicate(keymap, k, now[t])}
           kept == events[t] \ lost
       IN  /\ recent' = IF Window = 0 THEN recent
                        ELSE [table EXCEPT ![sid[t]] =
                                Stamped(keymap, events[t], now[t])]
           /\ hushed' = hushed \cup
                 {[session |-> sid[t], kind |-> k, time |-> now[t]] : k \in lost}
           /\ IF kept = {}
              THEN Finish(t) /\ UNCHANGED shipped
              ELSE /\ pc' = [pc EXCEPT ![t] = "take"]
                   /\ events' = [events EXCEPT ![t] = kept]
                   /\ mine' = [mine EXCEPT ![t] = kept]
                   /\ shipped' = Append(shipped,
                         [session |-> sid[t], kinds |-> kept, time |-> now[t]])
                   /\ UNCHANGED <<sid, now, calling, heard, steady>>
    /\ UNCHANGED <<clock, handlers, calls>>

(***************************************************************************)
(* _run_handlers for each event, and the end of record_call                *)
(***************************************************************************)
TakeHandlers(t) ==
    /\ pc[t] = "take"
    /\ pc' = [pc EXCEPT ![t] = "call"]
    /\ calling' = [calling EXCEPT ![t] = Append(handlers, Sink)]
    /\ UNCHANGED <<clock, recent, handlers, sid, now, events, mine, heard, steady,
                   shipped, hushed, calls>>

\* Mutant of NextEvent: in block mode the first event would raise at once.
RaiseAtOnce(t) ==
    /\ pc' = [pc EXCEPT ![t] = "decide"]
    /\ events' = [events EXCEPT ![t] = @ \ {First(@)}]
\* Mutant of NextEvent: it would look for one event too many.
OneEventMore(t) ==
    /\ pc' = [pc EXCEPT ![t] = "take"]
    /\ events' = [events EXCEPT ![t] = @ \ {First(@)}]
NextEvent(t) ==
    /\ events' = [events EXCEPT ![t] = @ \ {First(@)}]
    /\ pc' = [pc EXCEPT ![t] = IF events'[t] = {} THEN "decide" ELSE "take"]

\* A handler's exception is swallowed: the next one is called all the same.
CallHandler(t) ==
    /\ pc[t] = "call"
    /\ heard' = [heard EXCEPT ![t] = @ \cup {<<Head(calling[t]), First(events[t])>>}]
    /\ calling' = [calling EXCEPT ![t] = Tail(@)]
    /\ IF Len(calling[t]) > 1
       THEN UNCHANGED <<pc, events>>
       ELSE NextEvent(t)
    /\ UNCHANGED <<clock, recent, handlers, sid, now, mine, steady, shipped,
                   hushed, calls>>

\* PreflightBlocked, or LeakDetected in block mode, or the events returned.
Decide(t) ==
    /\ pc[t] = "decide"
    /\ Finish(t)
    /\ UNCHANGED <<clock, recent, handlers, shipped, hushed, calls>>

Next ==
    \/ Tick
    \/ \E h \in Handlers : OnLeak(h) \/ Unregister(h)
    \/ \E t \in Threads :
          \/ RunRules(t) \/ Filter(t) \/ TakeHandlers(t)
          \/ CallHandler(t) \/ Decide(t)

Spec == Init /\ [][Next]_vars

(***************************************************************************)
(* Properties                                                              *)
(***************************************************************************)
\* The same event is not shipped twice for a session within the window,
\* although threads come to the lock with old times and the lazy cleanup
\* drops whole sessions (_filter_duplicate_events).
OncePerWindow ==
    Window > 0 =>
        \A i, j \in 1..Len(shipped) :
            /\ i < j
            /\ shipped[i].session = shipped[j].session
            /\ shipped[i].kinds \cap shipped[j].kinds # {}
            => shipped[j].time - shipped[i].time > Window

\* The same with the types of what is compared: stamps, times and shipments.
ShippedOncePerWindow == TypeOK /\ OncePerWindow

\* An event is only ever dropped for one that was shipped at most a window
\* earlier: a leak that goes on is reported again in every window.
DroppedForAReason ==
    \A e \in hushed :
        \E i \in 1..Len(shipped) :
            /\ shipped[i].session = e.session
            /\ e.kind \in shipped[i].kinds
            /\ shipped[i].time >= e.time - Window

\* When a call comes to return or raise, every handler that was registered
\* all along, and the cloud sink, have been called for every one of its
\* events, whoever registers or unregisters meanwhile.
AllHearBeforeTheRaise ==
    \A t \in Threads : pc[t] = "decide" =>
        \A k \in mine[t], h \in steady[t] \cup {Sink} : <<h, k>> \in heard[t]
=============================================================================
