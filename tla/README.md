# A verification project for the TokenSentinel Python SDK

These TLA+ modules model `token_sentinel`: the parts in which threads, clocks, a
cloud and a cache meet, the wrappers and enrichers that turn provider calls into
records, and the detectors that judge them. They state what must hold of each.
TLC checks the statements on small instances; TLAPS proves the most important
ones for every value of the constants. Paths below are relative to the
repository.

The SDK wraps LLM provider clients. Every call becomes a `CallRecord`, goes
through `Sentinel.record_call`, and may set off rules that detect waste; the
events go to handlers and to a cloud sink, and a cloud policy may halt calls.
All of it runs in the application's own threads, beside two daemon threads of
the SDK. A mistake costs money (a budget overrun), blinds the operator (an event
lost) or stops an agent that should run.

## 1. Inventory

| component | state | operations | met by |
|---|---|---|---|
| policy enforcement (`sentinel.py:1126-1561`) | `_session_burn`, `_org_burn_local`, `_org_burn_policy_version`, `_preflight_flagged`, all under `_policy_lock` | `preflight`, `_enforce_policy`, `_update_policy_trackers`, `_note_preflight_hits` | every thread that makes calls; reads the policy client's cache |
| velocity window (`sentinel.py:1259-1349`) | `_tokens_minute_window` | count and prune, append and prune | the same threads; `time.monotonic()` |
| policy client (`policy_client.py`) | `_policy`, `_auth_failed`, `_consecutive_5xx`, `_stop`, `_active_sessions` | `start`, `stop`, `current`, the session marks; the daemon's loop | the cloud over HTTP; readers without a lock |
| cloud sink (`cloud_client.py`) | bounded `_queue`, the daemon's batch, `_stop`, `_overflow_warning_emitted` | `enqueue`, `_run`, `_flush`, `_post`, `close` | handler dispatch; the cloud |
| tracer (`tracer.py`) | an `OrderedDict` of deques | `record`, `session`, `all_sessions`, `clear` | `record_call`, the rules |
| detection (`sentinel.py:835-1097`) | `_handlers`, `_recent_event_keys` | `on_leak`, `unregister`, `record_call`, `_filter_duplicate_events`, `_run_handlers` | tracer, rules, sink, handlers |
| rules (`rules/*.py`, 15 detectors) | none: functions of a session's buffer | `evaluate` | detection |
| wrappers, plain calls (`wrappers/*.py`, nine providers) | patched client methods | instrumented calls, `_build_*_record` | provider SDKs, `preflight`, `record_call` |
| wrappers, stream proxies | per stream an accumulator and `_finalized` | iteration, `close`, the with block, `__del__`, `_safe_finalize` | the application's loop, the garbage collector, the event loop |
| Replicate predictions (`replicate.py:97-344`) | `_REPLICATE_PENDING` under `_PENDING_LOCK` | `predictions.create`, `predictions.get`, pruning | threads that create and poll |
| LangChain enricher (`enrichers/langchain.py`) | `_runs`, `_session_id`, `_top_level_chain` | start, end and error callbacks, `new_session` | LangChain's callback bus, `record_call` |
| OpenTelemetry enricher (`enrichers/otel.py`) | none | `on_end` | tracer providers, `record_call` |
| session handles and tags (`sentinel.py:158-231, 503-588`) | `_session_tags`, `_long_running_sessions` | `session`, `Session.record_call`, the long-running marks | `record_call`, the zombie rule |
| pricing (`pricing.py`) | none | `lookup_rate`, `estimate_call_usd`, `maybe_fill_missing_tokens` | `record_call`, policy |
| construction, rule loading, `wrap`, `close` (`sentinel.py:259-500, 590-833, 1567-1605`) | the configuration | validation and dispatch | the application |
| events (`events.py`) | none | record types and exceptions | all of the above |

What is hard in each, and what makes it correct:

* **Policy enforcement.** A check and the charge it is for are two critical
  sections, with the provider's call and the rules in between, and every check
  after the first works on a policy object that may be old. Correct means: the
  overshoot of a shared budget is bounded by the calls in flight; a call with
  a standing reason to be halted never gets to the provider, but in the one case
  section 3 names; the burn table forgets the right session.
* **Velocity window.** The clock is read before the lock. Correct means: no
  entry of the last minute is pruned, whatever old time a thread prunes with.
* **Policy client.** Two fields are written by the daemon and read without a
  lock; polls fail in four ways; the clock ages the policy. Correct means: a
  closed-mode reader is never told "no policy" once one was cached; changes
  arrive within the longest interval; the kill-switch arrives; `stop` works.
* **Cloud sink.** Producers, the daemon, failing POSTs and `close` race for a
  bounded queue. Correct means: every accepted event has exactly one fate, in
  order, memory and retries are bounded, `close` drains.
* **Tracer, tags and detection.** Record and read back are two critical
  sections; time stamps arrive at the deduplication lock out of order; handlers
  come and go; the tag registry is pruned by insertion. Correct means: a rule
  sees the call it is run for; a call leaves with its session's tags; an event
  is reported once per window and again in the next one; everybody hears of an
  event before the call raises.
* **Rules.** Fifteen detectors count, group and compare calls over windows
  whose timestamps may run backwards, in a buffer that forgets. Correct means:
  they report what a full history would show, tell pages from loops, and do not
  depend on a route, an order or an earlier call.
* **Wrappers.** Five ways to finalise a stream, in any order, of which only some
  have a caller that can hear `LeakDetected`; counts that repeat, come late or
  never. Correct means: one record per call, the record of a whole answer if it
  was read to its end and never a dearer one, and a halt that is heard.
* **Predictions and LangChain runs.** Starts and ends come on different threads,
  and a session change, a second poll or old age may come between. Correct
  means: one record, in the session of the start, and nothing left behind.

`PROJECT.json` lists the hazards line by line, with the property each is
covered by or the reason it is not.

## 2. Modules and how they correspond to the code

```
PolicyFeed            what current() may answer: the abstract policy client
  PolicyEnforcement   the threads that make calls, on top of it
    PolicyHistory     the same with what an observer remembers  ->  PolicyProofs
      MCPolicy
PolicyClient          the daemon, the cache, the readers; implements PolicyFeed
                                                     ->  PolicyClientProofs
EventDelivery         what the sink promises
CloudSink             the queue, the daemon, the retries; implements EventDelivery
                                                     ->  CloudSinkProofs
VelocityWindow        the one-minute window          ->  VelocityProofs
Detection             from the rules' outcome to the raise  ->  DetectionProofs
Tracer, SpanProcessor
  Sessions            handles, tags and spans on their way into the tracer
                                                     ->  SessionsProofs
CallRecords           what detectors and wrappers read of a call
  RepetitionRules, ToolRules, RequestRules   the fifteen detectors
    RuleSession       a session that grows, and what they say of it
                                                     ->  DetectionProofs
  ProviderRecords     the record of an answer, whole or streamed
    Predictions       Replicate's pending registry
    ProviderAnswers   what providers send, whole or in pieces
      ProviderWrappers  (with Pricing) plain calls and stream proxies
                                                     ->  WrapperProofs
CallbackHandler       LangChain's runs and chains
  Capture             a LangChain or a Replicate application  ->  CaptureProofs
```

Each `MC` module gives the constants of the module it is named after.

**PolicyFeed** stands for `PolicyClient` as the enforcement sees it: a policy
is fetched with a growing version, it lapses, a 401 latches polling off and then
takes the policy away for good. `current()` is two steps there, as it is in the
code: `ReadPolicy` reads `_policy`, and `Return` gives the caller `Judged`, what
the clock or `_auth_failed` then makes of it. As long as nothing is written in
between, a thread's `reading` is `Live` and its answer is `Current`, the policy in
force; the daemon's writes leave it a copy of what it read (`Displace`), and the
copy may lapse in its hands. `snap` is the answer each thread acts on.

**PolicyEnforcement** has two steps per read of the policy cache, those of the
feed, and one per critical section of `_policy_lock`. A thread is `guarded` (the
wrappers with `guard_before_call`), `unguarded` (all other wrappers and the
enrichers) or a `probe` (an application that calls `preflight` with estimates).
`pc` names the place in `preflight`, the provider call or `record_call`. Costs
are natural numbers. `exempt` and `orgExempt` are history variables: what was
charged by calls that met no budget. The velocity check may go either way, which
is what `VelocityWindow` refines.

**PolicyHistory** adds no behaviour; its variables record which reasons to halt
a call have stood since the call began, under one policy and in the sight of the
thread (`Overtaken` says when it was not), which sessions fired a listed pattern,
and who was charged since.

**PolicyClient** models the daemon step by step between its accesses to shared
state (`request`, `store`, `latched`, `loop`, `wait`), with 5xx, 401, other
errors, an unreadable body and an outage as outcomes of a poll, and
`current()` as two steps, because it reads `_policy` first and the clock or
`_auth_failed` later. Time is counted in ticks; `left` is what a TTL has to
run. `ImplementsFeed` maps a reader's two steps to `ReadPolicy` and `Return`, and
what it got to `snap`, so that what `current()` answers is part of the refinement.

**CloudSink** separates `put_nowait`, the eviction and the second `put_nowait`
of `enqueue`, and the test and the setting of the overflow flag; the daemon
moves between `loop`, `get`, `check`, `post`, `backoff`, `drain` and `done`.
"The flush interval has elapsed" is a flag that may rise at any time. A POST
that fails may or may not have reached the cloud. `close` may time out and be
called again.

**VelocityWindow** keeps the deque as positions in the sequence of all charges,
so that a property can speak of a charge after it was pruned. `TokensIn`, the
sum over some of the charges, is a recursive function and no fold, because it is
reasoned about.

**Tracer** has the LRU order as a sequence of sessions, and the two critical
sections of `record_call` as two steps. The cap may be `None`. **Sessions** puts
in front of it what comes before in `record_call`: a call of a wrapped client,
of a `Session` handle or of an ended span (**SpanProcessor**: `on_end` as a
function of a span's attributes, where an attribute is whether it is true to
Python and the number `int()` makes of it, 0 if none) is stamped with the tags
registered for its session, if it has none of its own, in a critical section
before the tracer's. `registry` is `_session_tags` in insertion order.

**Detection** starts when the rules have run: any of `Firings` may have fired;
`Preferred` lets a retrieval thrash replace a tool loop; the clock is read, and
the filter runs under its lock later. A rule fires at most one event in a call,
so that the events a thread still has to hand on are a set, taken in the order
of the rules (`First`). Handlers are copied for every event and
called one at a time; the sink comes last; `Decide` stands for the return, the
`PreflightBlocked` and the `LeakDetected`.

**RepetitionRules**, **ToolRules** and **RequestRules** have one operator per
detector: a session's buffer in, a `Leak` or `None` out, with the detector's own
thresholds as constants and in its own order of tests and early returns. What a
regular expression, a tokenizer, a hash or an image decoder yields is part of the
modelled call: a text is the set of its words or of its keywords, an image a
payload and a look. Confidences are in hundredths. Both metrics of the tool
detectors are there, TF-IDF over character n-grams, their default, and Jaccard,
and so is the mean cosine of a repair loop's answers. What the cosine of two
texts that differ comes to is a constant (`ArgumentLikeness`, `DraftLikeness`),
any function of the two and of the set of texts they are weighed against; the
cosine of a text with itself is 1, since no text is without n-grams: `{}` is one,
so that calls without arguments are compared and alike. **RuleSession** grows one
session, each kind of traffic on its own, into a ring buffer, with gaps of time
that may be negative; the chat kinds carry the whole conversation in each
request, as chat APIs do.

**ProviderRecords** has the `_build_*_record` functions and the five
accumulators. A wire is a sequence of pieces; tool arguments are sequences of
fragments, so that one put together wrongly differs from the whole.
**ProviderAnswers** is what the accumulators take for granted and do not check:
the shape of each provider's answers, and which sequences of pieces one may come
in. `Sends(f, a, w)` says that `w` brings the answer `a` to a call of flavour
`f`: counts are totals so far, OpenAI numbers its tool calls and sends the
fragments of each in their order, whichever call's turn it is, Gemini sends a
call whole, Bedrock starts a call before its fragments and stops it after, one
after the other. `MCWrappers` gives some such answers and pieces, and TLC checks
that they are (`AnswersAssumption`, `WiresAssumption`). `Put` is an assignment
to a dict, `Ascending` its keys as `sorted` gives them; that order, like the
order in which values were first seen (`FirstSeen`), is stated by counting and
by no fold, because it is reasoned about.
An audio file whose length mutagen does not find, or which is sent where mutagen
is not installed, has the length `None`.
**Pricing** normalises a model's name (a key, a vendor before a slash and one
before a dot are stripped, in this order), looks up the longest prefix and charges
the cached part of the prompt at its own price. **ProviderWrappers** has 24
flavours of call, a flavour being what its proxy can do: whether it has a
preflight, whether `__iter__` finalises, whether it has a with block (one that
may, or must, be entered), `close`, `__del__`, and whether it is async. An
application calls one after another, reads, leaves loops, closes, forgets, and
stops at the first `LeakDetected`. A loop over a generator that is left is
finalised at once, an async one when the event loop closes it.

**Predictions** has a step for each critical section of `_PENDING_LOCK` and for
each reading of the clock that one of them uses. **CallbackHandler** has the
start of a run, the pop at its end and the record that follows as steps, with
`new_session` in between. **Capture** runs either of the two.

Mutants (`CurrentSession`, `StampedAlways`, ...) stand just before the
definition they replace. Each changes the model as a plausible slip would
change the code. `PROJECT.json` names one for every property of a run; where a
property is a conjunction of named parts, the other parts have mutants of their
own beside the definitions, each of which TLC finds by that part.

## 3. Runs, bounds and fairness

| run | instance | what it shows |
|---|---|---|
| `policy_session` | two guarded threads, one session, four policies (a budget, a lower one with a pattern, the kill-switch, an org budget), open mode, calls that cost 2, three of them | session overshoot bounded; no call with a standing reason to halt gets to the provider, but for one that lost sight of the policy |
| `policy_org` | an unguarded thread and a probe, three sessions and a burn table of two, two org ceilings, closed mode, four calls that cost 2 | org overshoot bounded with reseeding in between; the table stays bounded and forgets the right session |
| `client` | one reader, three policy versions (off, on, off), TTLs 0 and 2, backoffs 1 and 3, closed mode | closed stays closed, polling bounded, implements `PolicyFeed` with every answer, the kill-switch arrives, `stop` ends the daemon |
| `sink` | two producers, queue of one, batches of two, two attempts, three events | one fate, order, bounds, clean close, implements `EventDelivery`, everything settles, the daemon ends if it is let |
| `velocity` | two threads, window of two seconds in four, four calls | nothing recent is pruned, overshoot bounded |
| `sessions` | two threads, two named sessions and the one of spans without any, two tracked, one record each, one tagged, two openings with tags, four calls, five spans: with a conversation, with a trace only, with neither, and counts that are numbers, numerals, garbled, negative or missing | buffers are unbroken suffixes; when a rule may miss its own call; whose tags a call leaves with; what a span becomes |
| `detection` | two threads, one session, three kinds of event, window one and horizon four, one handler that comes and goes, three calls | once per window, dropped for a reason, all hear before the raise |
| `rules` | ten kinds of traffic, two to six calls, windows of a few seconds, thresholds of two or three, buffers of three or four | the detectors against their reference definitions |
| `wrappers` | each of 24 flavours alone and fifteen pairs, answers of text and of one or two tool calls, every piece of a stream a place to stop, two calls | one record, whole if read whole, never dearer, halts heard, the kill switch bounds spending, every ended call recorded |
| `capture` | three runs, two chains, three sessions, three shapes of answer; two threads, two predictions, a limit of two ticks in four | a record each, in its own session or to its own sentinel; nothing left behind |

The bounds are chosen so that the interesting cases fit. Two threads are enough
for every race in the models: each is between one thread that was held up and
another. Three policy calls let both threads pass a check together and one of
them come back; a thread in `current()` can see two fetches go by, and the copy
it read lapse. A queue of one with three enqueues reaches the full queue, the
eviction and the lost second `put_nowait`; a batch of two is flushed full and
partial; `MaxEvents` bounds the enqueues, in the guard of `Put`, and no property
leans on it: `StopEnds` says itself what goes on if they do. A TTL of 0 arrives
expired. Window one and horizon four, in a clock that runs to five, let the
cleanup forget a session; `MaxStall` (three) bounds the time between a thread's
clock reading and the lock to the horizon less the window, without which
`OncePerWindow` does not hold: a thread stopped for longer than three windows
(15 seconds by default) may ship a duplicate. In `sessions` one tagged session
at a time makes the second opening evict the first. In `rules` every kind has
more calls than its threshold, and its buffer or its window loses some; the
detectors of a single request need two calls, to be asked whether the first
matters. In `wrappers` two calls are what `KillBoundsSpending` is about, and the
second fragment of a tool call, a second loop and a second way of finalising all
fit in one stream. `capture` lets `new_session` overtake a run between the two
halves of its end callback and still has a session to spare, and a prediction
grow older than the limit while its create, or a poll of another thread, is on
its way. Sets of things that are alike are symmetry sets where only invariants
are checked, and in `capture`, whose one action property treats them alike too.

`CHECK_DEADLOCK FALSE` stands where the bounds on calls stop the model in the
end; the policy client and detection never stop, and deadlock is checked there.

Fairness is assumed in three modules. `PolicyClient`: the daemon runs and the
clock ticks (weak fairness), and among infinitely many polls one is answered
(strong fairness of `Serve`): liveness of the kill-switch can only be asked of
a cloud that is not out of reach for ever. `CloudSink`: the daemon runs, time
passes, a join returns, and a producer inside `enqueue` goes on.
`ProviderWrappers`: an event loop closes the async generators it is left with,
which asyncio does. No fairness is assumed of the application: nobody has to
call `enqueue`, `close` or `stop`, or to read a stream on. `EventsSettle` needs
no assumption about the cloud, since retries are bounded.

Two runs expect a violation. Each states what a comment or the documentation
says, and TLC shows how the code departs from it:

* `policy_rule_pattern`: a pattern that a policy lists by rule name raises
  after the call, but is flagged by type, so the next call is not stopped.
* `with_block`: the documentation promises that `with stream:` guarantees the
  halt of block mode. Breaking out of the loop inside the block closes the
  loop's generator first, which finalises with `GeneratorExit` in flight and
  turns `LeakDetected` into a warning; the end of the block finds the stream
  finalised and returns. `HaltIsHeard` states what does hold.

One exception is the code's and not the model's. In open mode a thread that has
read a policy in `current()` and is held up until that policy's TTL is over is
told that there is none, although the daemon has cached another in the meantime,
with the kill-switch on for instance (`policy_client.py:460-474`); its call goes to
the provider and, should the same happen in `_enforce_policy`, is not halted after
it either.
`NoSpendWhenHalted` spares exactly these calls (`Overtaken`); in closed mode
there are none, since such a thread is told to halt.

After `close()` the sink's daemon ends as soon as it finds its queue empty, and
`enqueue` does not look at `_stop` (`cloud_client.py:224, 311-317`): producers that
keep enqueueing keep it alive, beyond the timeout `close` joins it with. `StopEnds`
therefore has two parts. Every step of the daemon brings it nearer to its end, by
a measure of its queue and its place that only an event accepted late puts up
(`ClosingAdvances`); and if events come to an end, so does the daemon
(`EndsUnlessFed`).

Other disagreements met on the way, for which no run is spent:

* A call that `record_call` refuses was paid for and is not charged, so that
  `preflight` finds nothing changed and lets the session's next call be paid
  for (`sentinel.py:1232, 1507`), where `preflight`'s docstring speaks of not
  spending again (`sentinel.py:1411`).
* A thread that holds an older policy seeds the org burn back from it
  (`sentinel.py:1194`), where a comment says that it is seeded "whenever the
  policy version changes" (`sentinel.py:464`). `OrgOvershootBounded` holds
  nevertheless, because it counts what the cloud reported.
* With warnings turned into exceptions the warning about a dropped batch ends
  the sink's daemon (`cloud_client.py:370`), which the docstring says goes on
  (`cloud_client.py:148`). `WarnRaises = TRUE` in `MCCloudSink.cfg` shows it.
* Two producers may both emit the overflow warning that is announced once per
  sink (`cloud_client.py:254`); a batch is dropped after three attempts, two
  retries, where docstrings say three retries (`cloud_client.py:146, 332`).
* The set of active sessions is not bounded by the burn table's cap
  (`sentinel.py:1149`, `policy_client.py:485`), and `_preflight_flagged` by none.
* A closed-mode client that has not polled yet answers `None`
  (`policy_client.py:154`); `Sentinel.close` gives its timeout to both daemons,
  one after the other (`sentinel.py:1584`).
* `session`'s docstring says that tags propagate to every record of the session
  (`sentinel.py:512`): a span with a framework's tags keeps only those, and a
  session the registry has pruned has none.
* `langchain.py:24-29` says that the handler makes a session per top-level chain
  and that raised callbacks are fatal; `on_chain_start` keeps the session, and
  `raise_error` is `False` (`langchain.py:364`).
* The comment at `replicate.py:94` speaks of a weak reference to the sentinel;
  the entry holds a strong one.
* `rerank_thrash` says it "fires on the call that creates the duplicate, not
  later" (`rules/rerank_thrash.py:47`); its group is looked for among all calls
  of the window, so it goes on firing, and on calls that are no reranks.
* Gemini's streams that are never iterated are never recorded, and identical
  parallel tool calls of one of them become one; abandoned Bedrock and Deepgram
  streams are recorded with no usage and not marked as unknown.

## 4. What is proved

TLAPS proves 35 of the 40 properties the passing runs check: every safety
property, both refinements, and the one action property of a registry; of a 36th,
`StopEnds`, it proves the first half. Each theorem holds for every value of the
constants within the named assumptions; a run shows the same on a small instance.

| module | theorem | property |
|---|---|---|
| `PolicyProofs` | `TypeCorrect`, `SessionOvershoot`, `OrgOvershoot` | `TypeOK`, `SessionOvershootBounded`, `OrgOvershootBounded` |
| | `BurnTable`, `RecentChargesKept` | `BurnTableSound`, `RecentlyChargedKept` |
| | `HistoryAddsNothing`, `HaltsAreSeen` | `HSpec => Spec`, `NoSpendWhenHalted` |
| `PolicyClientProofs` | `PollingIsBounded`, `ClosedModeNeverOpens` | `PollingBounded`, `ClosedStaysClosed` |
| | `ClientImplementsFeed` | `ImplementsFeed` |
| `CloudSinkProofs` | `EveryEventHasOneFate`, `SinkWithinBounds`, `CloseHasDrained` | `OneFate`, `WithinBounds`, `CloseDrains` |
| | `SinkImplementsDelivery` | `ImplementsDelivery` |
| | `ClosingOnlyAdvances` | `ClosingAdvances`, the safety half of `StopEnds` |
| `VelocityProofs` | `NothingRecentPruned`, `VelocityOvershoot` | `WindowComplete`, `VelocityOvershootBounded` |
| `SessionsProofs` | `BuffersStaySound`, `RulesSeeTheirCall` | `TracerSound`, `SeesOwnCall` |
| | `TagsStaySound`, `SpansStaySound` | `TagsSound`, `SpansSound` |
| `DetectionProofs` | `ShippedOnce`, `DroppedOnlyAsDuplicates`, `EverybodyHearsFirst` | `ShippedOncePerWindow`, `DroppedForAReason`, `AllHearBeforeTheRaise` |
| | `SessionHasCalls` | `CallsInv`, which the next four rest on |
| | `VerdictsDoNotDrift`, `MatchesAreTrue` | `VerdictsStable`, `MatchesTrue` |
| | `LoopsAreTrue`, `CountsAreTrue` | `LoopsTrue`, `CountsTrue` |
| `WrapperProofs` | `RecordedOnce`, `HaltsAreHeard`, `KillStopsSpending` | `CountedOnce`, `HaltIsHeard`, `KillBoundsSpending` |
| | `FullReadsAreWhole`, `ChargesAreFair` | `FullReadIsWhole`, `ChargedFairly` |
| | `CacheReadIsNeverDearer`, `MoreTokensCostNoLess` | of `estimate_call_usd`, no run's |
| `CaptureProofs` | `RunsAreSound`, `RunsAreForgotten` | `RunsSound`, `RunsForgotten` |
| | `EndsAreSound`, `RegistryIsPruned` | `EndsSound`, `RegistryPruned` |

Hardly any of these properties is inductive. What is added to each, and why:

**Budgets.** `SessionOvershootBounded` and `OrgOvershootBounded` say nothing of
calls that have passed their check and are about to be charged. The
strengthening counts them. Let `F` be the threads whose call is cleared under a
budget and not charged yet. `Fits(b, F, w, limit)` says that the burn `b` still
fits when every call of `F` is charged at the highest cost, or when all but one
are and that one, the last to be checked, is charged at its own: its check
vouched for the burn and its own cost together. A passing check establishes the
second form, other steps keep either, and charging a call of `F` moves its cost
from `F` into `b`. `CostsBounded` and `ProbesStop` (a probe is never cleared)
say which threads can be in `F` at all; `SessionInv` and `OrgInv` add the room
that remains to `CallInv`. For the org ceiling a reseed replaces the burn under
all of the others' calls, which is why its bound counts every thread, probes
included.

**The burn table.** That it holds each session once and no more than it may
needs only what its two operators do (`MoveToEndShape`, `AppendShape`). That it
forgets the right one needs `Recency`: behind a session in the table are only
sessions charged since, and one that is no longer there has as many of those as
the table may hold. When the first key is evicted, all of the others are behind
it, so their number is the size of the table.

**Halts.** The history of `PolicyHistory` adds no behaviour (`HSpec => Spec`),
so what is known of `Spec` may be used. `NoSpendWhenHalted` speaks of the moment
of the provider's call only; `AllPending` says of every step of `preflight` on
the way there that a ground that still stands is not one the thread has checked,
and that its snapshot is the current policy while one stands. While the thread is
still in `current()` the answer it will get is that policy or one that blocks
(`TrueReading`): what it read is the cache's, or else it was replaced by the same
policy, fetched again, and has not lapsed, or the mode is closed. Each check then
either refuses, or moves its own ground to the checked ones, which do not stand.

**Policy client.** `ClientInv` has seven parts. `ClosedKept`: once a policy was
stored, the cache holds one or the 401 was latched, and a reader between its
two reads holds one or will find the latch: the daemon writes `_auth_failed`
before it drops the policy. `Waits`: the seconds since the daemon last knew the
cloud's policy, and those it is still to wait, are together no more than
the longest interval. `Versions`, `Latched` and `Caches` say that what is being
stored is not older than what is cached and that nothing is stored after a 401.
The refinement of `PolicyFeed` maps a store to `Fetched`, a tick, at which the TTL
of the cached policy or of copies in readers' hands runs out, to `Expired`, the
two writes of a 401 to `Latched` and `Wiped`, a reader's first step to
`ReadPolicy` and its second to `Return` with the same answer, and every other
step to a stutter. What a reader that is in `current()` has read is mapped to
`Live` as long as the cache still holds it, and else to the copy of it.

**Cloud sink.** `SinkInv` says where every event is (`Fates`: the received, the
dropped, the batch and the queue are disjoint, in order, and are all there is),
how often it was posted (`Receipts`: none in the queue, a batch in hand no more
often than the attempt it is at), how much is held (`Sizes`), what each step of
the daemon knows (`Control`: it leaves only after a drain under the stop flag,
and what came later is `late`), and what producers do. What a step does to the
events is one of five moves (`EventsMove`: nothing moved, one accepted, one
taken, one evicted, one batch settled), so that the invariant and the refinement
are argued once for each move and not for each action. `ClosingOnlyAdvances`
compares `StepsLeft` before and after each step of the daemon, place by place.
Under the mapping what waits is the batch followed by the queue: taking an event
moves the border between the two, and is a stutter.

**Velocity.** `WindowComplete` needs `ClocksPast`: no thread holds a clock
reading that is still to come, so its cutoff is never too late. `PrunedKeeps`
says that pruning from the left up to the first fresh entry loses nothing fresh,
wherever the entries stand. `VelocityOvershootBounded` is a sum over charges.
`OvershootInv` is the argument of the budgets again: the tokens of the minute
under a cap, with the cleared calls still to be charged, fit. Because the window
is complete and the checker's clock reading is not ahead, what it counted is at
least what the minute holds when it passes. The facts about the sum
(`SumExists`, `SumsCompare`, `SumAppended`) need no induction theorem: of the
indices at which one fails, the least one is taken, and the step before it
refutes it.

**Tracer and tags.** `TracerSound` is inductive. `SeesOwnCall` speaks of a
thread that has read back; `InBetween` says of one that has not that the
sessions behind its own in the LRU order were all used since (so that its own
comes first, and is evicted, only when they are as many as `MaxSessions`), and
that its call is no further from the end of its buffer than calls were pushed
since. The tag registry is argued the same way: behind a session's entry are
only sessions inserted after it (`Ordered`), and a session that lost its entry
has `MaxTagged` of those (`Accounted`); that retagging keeps the place is what
keeps this true. A step of `SSpec` is a step of the tracer's `Spec` or leaves it
alone, so that the tracer's theorems hold under it. `SpansSound` follows from
what `on_end` makes of a span's attributes, whatever they are: a count under the
name that is true to Python is taken, garbled or negative as it may be, and only
else the legacy alias's.

**Detection.** `StampsShipped` (a stamp is the time of a shipment) gives
`DroppedForAReason`. `ShippedOncePerWindow` needs the converse,
`ShipmentsStamped`: a shipment has a stamp at least as late, or is older than
the horizon and was cleaned up. An old clock reading could then ship again what
was forgotten, were it more than the horizon less the window behind: `MaxStall`
excludes that, and `ClocksRead` says how old a reading can be at the lock.
`AllHearBeforeTheRaise` comes from `HeardBy`: each handler that stayed has heard
of the events that are done with, and of the one at hand it has heard or is
still on the copied list.

**Detectors.** What a detector says is a function of the buffer, so the invariant is
short: `CallsInv`, the records in the history and in the buffer have the shape of
the menu's. The work is in what the functions compute. `Where` and `Picked` are
positions, not recursion, and `AscendingIs` says by cardinalities alone that they
keep what passes the test, in order; a sum is the last value of a function of
the number of summands (`SumsAre`), over which `StepByStep` is an induction with
no operator as a parameter, and so a sum reversed is the same (`SumReversed`).
`VerdictsStable`: the definitions pass `max_total_bytes` in one order exactly if
their whole sum is above it, and hence in every order (`SerialisedIs`); behind its
virtual keys, each route's name loses its vendor and nothing else (`NormalizedIs`);
a detector of one request looks at the last call only. `MatchesTrue`: a mean
similarity that reaches the threshold needs one pair of drafts whose cosine
reaches it (`SomePairReaches`, `SomeAlike`): were all below, the sum over the pairs
would be; and a count of the last calls in a row ends at the last one without
the image (`LastOfIs`). `LoopsTrue`: a corpus of equal arguments is as similar as can
be, at any number of pairs and by either metric (`WhollyAlike`), so above every
threshold; no number in
it goes up, so it is no pagination; and one tool there is something to say of is
enough for `FirstReported` to say something (`LoopReport`).

`CountsTrue` compares the buffer with the history, and so needs `BufferInv`: the
buffer has the last calls of the history, each at its place, as many as fit, and
every record has a time. What a detector selects of the buffer is `Placed`: an
increasing list of positions that leaves none of them out. A selection of a
selection is one again (`PlacedPicked`), so that a group has as many calls as the
history has positions of its key (`GroupedBy`), and the first key in the order of
insertion is that of the group that began first (`GroupsReported`): storms, reranks
and voices differ only in what is selected and counted. What a cache would have
saved is the sum over the buffer of the calls it would have answered, with zeros
between them, which is the sum of the group without its first call
(`SumScattered`, by induction on the buffer, whatever is between). `ZombieTrue`
asks how far back the last answer is: if the buffer has lost it, then every call
in the buffer is later (`AnchorIs`). That the slope of a least-squares fit lies between
the smallest and the largest step is Chebyshev's sum inequality, of the turns and
of the prompts less a line (`Covariance`); its induction is over the number of
turns, and no division is needed since numerator and denominator are kept apart.

**Wrappers.** `WrapperInv` follows one call (`CallSound`: a record is made only
behind the flag of `_safe_finalize`, which is set first; a raise is heard, or
comes from a stream that was let go; under the kill switch every record raises),
and says the same of the call in hand, of those whose async loop is still to be
closed, and, as far as it is remembered, of those that are over. `Late` ties the
second to the third; `HeardLast` says that an application stops where it hears
of a halt, without which `KillBoundsSpending` would not hold. None of it depends
on what the wires and the accumulators do.

**Streams.** `FullReadIsWhole` and the first part of `ChargedFairly` speak of the
record of a stream, and so of its accumulator. `ReadInv` says that, in the call in
hand as in those whose async loop is still open, some number of pieces of a wire
of the answer went through the proxy, that the rest is what is left to read (or was
read past it), and that the accumulator holds what those pieces add up to:
`SoFar`, which has a form for each provider. `CountsSoFar`: the counts are the
highest that arrived, and unknown as long as none did. `OpenAISoFar`: of each tool
call as many fragments as arrived of it, its name if that came. `BedrockSoFar`: the
calls that were stopped, whole and in order, and those that are open as far as
they came. `GeminiSoFar`: of the calls so far, each kind once. That one more piece
keeps `SoFar` is shown provider by provider, from what `Sends` says of that piece;
that nothing is missing once the wire is empty, from what `Sends` says of the
whole. No induction over the wire is needed, because the steps of the application
are the induction: reading a piece is an action. What is needed of `Ascending` is
that the positions it lists exist and are the only ones (`FirstSeen` of a sequence
with one more element is the same or has that element more), which follows from
cardinalities alone. `ReadInv` is not `WrapperInv`'s: what is recorded, and what it
is made of, do not depend on each other.

**Pricing.** `CacheReadIsNeverDearer` and `MoreTokensCostNoLess` are about
`estimate_call_usd` alone, for any table, model and counts, negative ones and
cache hits larger than the prompt included. They rest on `LookedUp`: the longest
key a name starts with exists, because no key is longer than the name. `Sane`,
that no table prices a cache read above an input token, is their assumption.
`ChargesAreFair` follows from them and `ReadInv`: counts so far are at most the
answer's, a stream whose prompt is known knows what was cached of it, and every
record that reaches `record_call` is one of counts (`FiledSound`). That a file is
not measured by a part of it is a case distinction over the shapes of a file.

**LangChain and Replicate.** `HandlerInv` says where each run is: in the table,
then it is open and of the session at hand; open and not in the table, or popped
and not of the session at hand, then a change of session overtook it, before the
pop or after it. Without the second half a late end could find a run of an old
session. `RegistryInv` says that a prediction is in exactly one place: held by
the thread whose create returned it, in the registry under its create's session
and time, told, or pruned. That a thread still registering holds a prediction
nobody else can pop is what keeps an end from being told twice; that no clock
reading is ahead of the clock is what keeps a young prediction from being
pruned.

The assumptions are those of the modules, and TLC evaluates each of them in
every run: finitely many threads, at least one of which spends; costs, tokens,
ceilings and caps that are natural numbers with upper bounds; policies with
versions; backoffs and intervals that are numbers, the backoffs growing; prices that are
numbers, with no cache read dearer than input; sizes
and attempts of at least one; caps that are numbers or the constant for none; a
rule for every kind of event, none twice, and the bound on stalls; shapes of
spans, tags and outcomes; calls whose lists are lists and whose arguments come out
of a JSON object (`MenuAssumption`), whose counts of tokens are natural numbers and
whose times are integers, late records included, and a `None` that is no event. What
is assumed of the providers' answers is `Sends`; a
provider that did otherwise, say sent a call's fragments out of their order, would
make wrong records, and no code in the wrappers would notice. (The empty string is
assumed to be a string because the provers do not know it.)

Only model-checked:

* All liveness (`KillReachesCache`, `StopEndsPolling`, `EventsSettle`,
  `StopEnds`, `EndedCallsAreRecorded`): fairness and `ENABLED` are out of the
  prover's reach; of `StopEnds` that holds for `EndsUnlessFed`.
* The two runs that expect a violation.

## 5. Not modelled, and what is left

* How values are dug out of SDK objects (`getattr` or key, and what is done when
  neither is there), request hashes, latency, redaction and wording.
* In the rules: evidence beyond what the properties read, `estimated_burn`, and
  which words a regular expression finds. Of TF-IDF, the default metric of
  `tool_loop` and `retrieval_thrash` and the only one of `repair_loop`, the
  n-grams themselves: how alike two texts are that differ is a constant of the
  model, for tool arguments as for a repair loop's answers, and depends on which
  texts are compared with them but not on how often one of these occurs, as the
  weights in the code do. No property depends on more. That two equal texts are
  wholly alike is exact, as the code rounds to six decimals.
* Records that cannot be built: the wrappers and the LangChain callbacks drop a
  call whose record raises in the making (`openai.py:388`, `langchain.py:524, 574,
  659`). Every answer of the models can be recorded, and so the properties that
  say a call is recorded are about those that can.
* `mark_long_running` is no action: `Zombie` takes as a parameter whether the
  session is marked. Tag validation is the sets `TagSets` and `RefusedTags`.
* The wire formats of `cloud_client.py` and `policy_client.py`, the construction
  of `Sentinel`, the loading of rules and the dispatch of `wrap`: straight-line
  code that runs before anything is shared.
* `Sentinel.close`: it calls the two closes that are modelled, in turn.
* `Detection` takes the rules' outcome as a choice and `PolicyEnforcement` a
  call's cost as a number. `RuleSession` and `Pricing` say which they are; a
  composition would multiply the state spaces without adding an interaction,
  with one exception: deduplication comes before `_note_preflight_hits`, so a
  pattern that becomes listed within the window of its last event is flagged
  only after it (`sentinel.py:970`).

A theorem worth proving next: that the records of `ProviderWrappers` are calls as
`PolicyEnforcement` takes them.
