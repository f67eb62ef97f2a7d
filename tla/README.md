# Sentinel verification

TLA+ models of Sentinel, the policy layer in `src/sentinel/` that wraps a
LangGraph agent: it checks every call against a policy before the graph runs,
meters the LLM calls inside it, and judges the output afterwards. The models are
checked with TLC on small instances; the most important results are proved with
TLAPS for every value of the constants. `PROJECT.json` holds the inventory in
machine-readable form: the lines each definition stands for, the runs, the
hazards, and for each property a plausible bug (a "seeded fault" operator in the
module) that breaks it.

## 1. The system

### Parts, their state and operations

| Part | Source | State | Operations |
|---|---|---|---|
| Call pipeline | `core.py` | `_policy`, `_violation_log`, `_background_tasks`, the run's own policy | `ainvoke`, `astream`, `get_violations`, `_on_policy_reload` |
| LLM callbacks | `callbacks.py` | one handler per run: `_current_node` | `on_chat_model_start`, `on_llm_start`, `on_llm_end`, `on_llm_error` |
| Budget gate | `sync_guards/budget_gate.py` | `_run_tokens`, `_run_cost` | `check` (commits), `peek`; `adjust`, `reset` (tests only) |
| Circuit breaker | `sync_guards/circuit_breaker.py` | `_node_counts`, `_retry_counts` | `check`, `record_retry`; `reset` (tests only) |
| Rate limiter | `sync_guards/rate_limiter.py` | two deques per user, a lock | `check` (commits), `peek`, `get_usage`, `reset` |
| Input validator, semantic detector | `sync_guards/input_validator.py`, `semantic_detector.py` | none (caches) | `validate`, `detect` |
| Output guards | `async_guards/*.py` | none | four coroutines that answer a violation or nothing |
| Violation stores | `stores/*.py` | a dictionary, an SQLite connection, a Redis client | `save`, `get`, `close` |
| Policy, loader | `policy.py` | none | `load_policy` |
| Policy watcher | `watcher.py` | `_last_reload`, an observer thread, reload threads | `on_modified`, `_reload`, `start`, `stop` |
| Metrics | `metrics.py` | counters and gauges nobody reads back | `record_violation`, `update_budget`, `update_rate_usage` |
| Tracing | `telemetry.py` | `_providers`, a lock | `emit_violation`, `shutdown_all` |
| CLI | `cli/check.py` | none | `main`, `_run_checks` |
| Dashboard, demo | `src/dashboard`, `src/examples` | none | |

### How they interact

A call runs on one asyncio event loop: `ainvoke` or `astream` resolves a policy
(`policy_router`, else `_policy`), runs the input, budget and rate guards in
this order (each records a violation and raises if its action blocks), resolves
a shadow policy and records what it would have said, and awaits the graph with
a callback handler in its config. Up to that await the call yields nothing, so
only other threads act between its steps. The handler runs inside the graph,
between concurrent LLM calls, and raises out of it. After the graph, output
guards are scheduled as tasks, for the live and for the shadow policy; every
record is counted, sent as a span (inline if it blocks, else by a daemon thread)
and written to a store by a further task. The watcher's threads assign
`_policy` at any moment. Callers from other threads may use the rate limiter,
which is documented as thread-safe.

### What is hard

- **interleaving**: reloads during a call, concurrent LLM calls sharing one
  handler, threads in the rate limiter, tasks sharing one SQLite connection,
  processes sharing one Redis list, notifications and reload threads of the
  watcher, export threads and the policy lock;
- **stale state**: a clock read before a lock, `_current_node`, `_conn` read
  again after an await, a file read while an editor writes it;
- **partial failure**: judges, saves, reloads, exports and the graph fail one at
  a time; one of two Redis requests fails, or its reply is lost;
- **ordering**: who is refused before whose quota is taken, what is on record
  before an exception leaves;
- **crash**: the process dies with saves, or daemon threads, under way;
- **boundaries**: limits at their exact value, entries exactly one window old.

`PROJECT.json` lists each at its line under "hazards".

### What makes each part correct

- *Pipeline*: one policy decides a call; a refused call never reaches the graph
  and its refusal is on record; only admitted calls take quota; every output
  delivered is judged, every verdict reported; records survive a restart.
- *Metering*: no token is lost, ceilings hold, loops and floods are stopped.
- *Rate limiter*: both limits hold over every window, for any threads; nobody
  is refused for quota not in use.
- *Stores*: a save that ended survives (for its TTL), a later read sees it,
  nothing leaks.
- *Validator, CLI*: no check hides another that would block; redaction replaces
  what was found and nothing else; the exit code agrees with the pipeline.
- *Reporting*: labels belong to one policy, spans of blocking violations are sent
  before the call ends, and no collector holds up a reload.
- *Watcher*: an edit is in force once the watcher has nothing left to do.

## 2. Modules

| Module | Models | Corresponds |
|---|---|---|
| `SentinelCore` | `core.py` with the guards as verdicts | one action per guard and await; `loop` is the call that holds the event loop, `pc` where each call is |
| `Enforcement` | the contract of the pipeline: each call keeps the policy `Resolve` gave it, and only that policy refuses or admits it | implemented by `SentinelCore` (`ImplementsEnforcement`) |
| `LlmMetering` | `callbacks.py`, `budget_gate.py`, `circuit_breaker.py` | one action per callback; `on_llm_end` is two, by whether the budget raises |
| `RateLimiter` | `rate_limiter.py` | `check` and `peek` are `Begin` (reads the clock) and `CheckCommits` or `ObserveOnly` (the critical section); `get_usage` is `BeginUsage` and `AnswerUsage`, and what it reports is `Usage` |
| `SlidingWindow` | the contract of a sliding-window limiter | implemented by `RateLimiter` (`ImplementsSlidingWindow`) |
| `SqliteStore` | `stores/sqlite.py` | `Start`, `StartClose`, `Resume`, `ResumeFails` are the code between two awaits; the other actions are aiosqlite's threads and SQLite |
| `RedisStore` | `stores/redis_store.py` | as `SqliteStore`; a request is executed once or more, fails, or loses its reply; `Tick` is the server's clock; processes die |
| `InputValidator` | `input_validator.py`, `semantic_detector.py` | operators: one per check of `validate`, and the redaction |
| `CliCheck` | `cli/check.py` | one action per step of `_run_checks` and `main`; the pipeline it stands for is the operator `PipelineRecords` |
| `Observability` | `_record_violation`, `metrics.py`, `telemetry.py` | the loop's steps around the policy lock, `_emit` in its two steps, `shutdown_all`, the end of the process |
| `PolicyWatcher` | `watcher.py`, the outcomes of `load_policy` | `OnModified`, `LoadPolicy`, `OnReload`, `Stop`; the editor is `Write` |
| `MC*` | instances | constants and definitions for TLC |
| `*_proof` | theorems | see section 5 |

`SentinelCore` composes the pipeline with the parts it calls at the level its
properties need: the rate limiter is how many entries each call has in its
user's window (one, unless a guard commits where it should observe),
the callbacks are `GraphReports`, a store is a set of saves that end or fail,
the watcher is `Reload`, the validator a verdict. Their detail is in their own
modules. `CliCheck` extends `InputValidator`, as the program imports it.

### Abstractions to know about

- **Texts** are nothing but a count of pieces; **records** keep the guard, the
  action and the shadow flag. Messages, severities and the dict codecs are left
  out. Token counts and costs are small numbers.
- `SentinelCore`: a policy is a table of verdicts (`Rules`), so what a guard
  says of an input is a constant of the instance, while when it says it, and
  what follows, is the code's. `rate_limit.enabled = False` is a limit larger
  than the number of calls. The token window is only in `RateLimiter`. The
  schema guard may answer `WARN` of its own (an unusable schema). A call is its
  `run_id`: ids are fresh UUIDs. After a raise the graph does nothing more.
- `RateLimiter`: a deque entry of the model is the whole grant, so that equal
  timestamps stay apart. Users share no state, so an instance has one.
- `InputValidator`: a text is a sequence of segments between blanks, each with
  its cells, its tokens and the spans the PII patterns match in it; what matches
  is a constant, assumed to be non-empty spans inside the segment (a phone number
  written with blanks is one segment). A text of blanks alone is left out. Similarity is an exact
  fraction where the code divides floats. The code's fallbacks are modelled, not
  the optional sklearn, Presidio and tiktoken.
- `RedisStore`: one run, one list. The server orders the requests of different
  tasks as it likes, for they travel on different connections of a pool.
  `await from_url(...)` may take time in the model; the library returns at once
  for a pooled client.
- `Observability`: the loop records each violation once; log and labels only. An
  export takes any time and has any result.
- `LlmMetering`: a handler has one policy for its life, as the code passes it.
  That an exception of a callback leaves the graph is an assumption about the
  environment: `raise_error = True` (`callbacks.py:29`) makes LangChain pass it on
  to the LLM call, and an async node that awaits the call and catches nothing
  passes it on to LangGraph. A node that swallows it is not modelled.
  A rate is the price `_estimate_cost` finds for `policy.service`.
- `SqliteStore`: tasks resume in the order their requests were executed, as the
  event loop's queue does; an insert on a connection waits while another holds
  uncommitted rows, and fails after SQLite's timeout. `":memory:"` and a failing
  `CREATE TABLE` are left out.
- `PolicyWatcher`: a content is its number in the order of writes and what
  `load_policy` makes of it: a policy, the default policy (an empty file), or an
  error. A write between the constructor's load and the watcher's start is left
  out.

## 3. Runs

Bounds are named constants; every run ends. All runs but `rate_threads` set
`CHECK_DEADLOCK FALSE`, because their models really stop: the calls are over, the
tasks have ended or the clock is at its bound. In `rate_threads` a user can be
reset at any time.

| Run | Expect | Question | Instance |
|---|---|---|---|
| `rate_threads` | pass | do both limits hold, are refusals justified, and does `get_usage` report what is in use, all with clock readings from before the lock? | 2 threads, limits 1 and 2 requests, 2 and 3 tokens, windows of 1 and 2 ticks over 4, 3 grants |
| `metering` | pass | does the budget hold in every order of responses, is what is raised on record, does the breaker stop loops, and only those, and a flood at the next response? | 3 nodes, two sharing an LLM; 3 calls in flight of 5; enforcing, cost-bound, flagging and half-flagging policies |
| `core_decisions` | pass | is each call decided under the policy it began with, whatever happens around it? | 2 invocations of one user, 3 policies that disagree on the input, the budget and the rate, a route, a shadow policy, reloads, crashes |
| `core_background` | pass | are outputs judged, verdicts reported and records kept? | 1 stream, 2 output guards, a store, reloads, failures, a crash, a shadow policy |
| `core_shadow_raises` | violation | does a shadow policy never disturb its call? | 1 call, a pattern that does not compile |
| `sqlite_concurrent` | pass | do saves, reads and a close share the connection safely, unless two tasks connect at once? | 2 saves, 1 get, 1 close |
| `sqlite_first_saves` | violation | does a save that ended survive? | 2 first saves |
| `watcher_spaced` | pass | is an edit that keeps its distance picked up, whatever came before? | 4 writes over 2.5 debounces |
| `watcher_edit_lost` | violation | is an edit picked up? | 2 writes |
| `preflight` | pass | does the CLI agree with the pipeline, does a check hide another, is redaction exact? | every prompt of up to 3 of 6 segments, 8 policies, 4 states of the file |
| `redis` | pass | does the row of a save that ended expire, and not too early? | 2 processes, 2 saves, a get, a close; TTL 2 of 4 ticks, 1 lost reply, crashes |
| `observability` | pass | whose labels does a report carry, which spans die with the process, what can wait for what? | 3 violations (abort, flag, shadow BLOCK), 3 policies, reloads, shutdowns |

Why the bounds are enough for the questions asked. *Rate limiter*: two threads
are the least with a stale reading overtaken by a fresh one; three grants exceed
each request limit, and four ticks outlast both windows, so entries expire in
one deque and not in the other. Both limits are also proved for every bound.
*Metering*: four tokens with responses of up to three cross the ceiling in two
responses with a third in flight; five calls reach two repeats too many and two
retries too many, and three nodes of two names tell names from nodes.
*Pipeline*: two calls of one user with a limit of one are the least with a
refusal; three policies give a reload between any two steps, a route and a
shadow that each disagree with the others. They disagree in every guard that can
refuse, and `strict` lets two calls in where the others let one: a guard that
read the policy in force in place of the call's own would refuse or admit some
call against the contract, whichever guard it is. *SQLite*: two saves and a get
give every pair of first uses, and the close comes before, between and after
them; the tasks run at most five awaits each. *Watcher*: four writes and two and
a half debounces hold a burst, a failing reload, two reloads that overtake each
other, and then an edit that keeps its distance. *Preflight*: three segments
exceed the token limits of the policies, hold every pair of PII spans apart and
overlapping, and one text below, at and above a threshold of the detector; each
policy turns one section of a strict one. *Redis*: two saves of two processes
are the least that share a list; the clock runs through two TTLs, so a list
expires before, between and after the requests of a save. *Observability*: three
violations give an export inline, one in a thread and one that only observes, at
once; three policies differ in endpoint or in service alone.

### The properties

*Safety.* `BlockedMeansRecorded`, `OnePolicyPerCall`, `OnlyAdmittedConsume`,
`ReportSurvives` (pipeline); `OverrunAborts`, `UncommittedIsLogged`,
`CommittedWithinCeiling`, `RaisedIsRecorded`, `RepeatsAbort`, `RepeatsJustified`
(metering); `RequestsWithinLimit`, `TokensWithinLimit`, `UsageMatchesLedger`,
`DenialJustified` (rate limiter); `DoneIsDurable`, `ReadsSeeDone`,
`NothingLeftBehind` (SQLite); `EndedExpires`, `EndedIsKept` (Redis);
`SpacedEditPickedUp` (watcher); `CliAgrees`, `BlocksUnlessHidden`,
`RedactionExact` (validator and CLI); `OnePolicyPerSpan`, `BlockingSurvivesExit`
(reporting). Each is stated in words above its definition.

*Action property.* `FloodStopsNextResponse`: what the code does about a flood.

*Refinement.* `ImplementsEnforcement` maps `pc` and `outcome` of a call to its
fate (new, deciding, admitted, refused, running, ended, lost), `pol` to the
policy the contract fixes when the call begins, and keeps `quota`. The contract
refuses and admits under that policy alone, and a call that it admits enters the
rate window once. The instance's shadow policies compile, for one that does not is
finding 1.
`ImplementsSlidingWindow` maps the deques to nothing at all: the contract speaks
of the grants.

*Liveness*, in `core_background` only: `JudgedEventually`, `VerdictsReported`,
`BackgroundDrains`. `FairSpec` assumes weak fairness of `SyncStep`, because a
call that awaits nothing is run on by the event loop, and of `Background`,
because the loop resumes every ready task, a judge answers or raises, and a
backend's save ends or raises. Nothing is assumed of the graph, the caller or
other threads. A judge that hangs is outside the assumption: `asyncio.gather`
has no timeout, and the verdicts of the other guards would wait with it.
In `observability`, `ReloadNeverWaits`: `FairSpec` assumes that the two critical
sections of the policy lock, which await nothing and call nothing, run on.
Nothing is assumed of collectors, exports, daemon threads or `shutdown_all`, which
may all hang; the loop may then hang with them, the reload may not. The lock is
taken by the loop at most once per violation, of which there are finitely many.

Some properties are conditional, and say on what: `DoneIsDurable`, `ReadsSeeDone`
and `NothingLeftBehind` hold while no two tasks connect at once (`raced`), which
`sqlite_first_saves` shows to be needed; `SpacedEditPickedUp` speaks of writes
that keep their distance; `DenialJustified` of deques whose stamps are in order,
as calls from one event loop always leave them; `RepeatsAbort` and
`RepeatsJustified` of runs whose LLM calls do not overlap (`overlapped`);
`RedactionExact` of spans that do not; `EndedIsKept` of rows that did not expire
before their own `EXPIRE` arrived (`dropped`); `BlocksUnlessHidden` names the one
answer of the code that hides a block.

## 4. Findings

1. **Shadow policy raises** (`core.py:320`, `core_shadow_raises`). A pattern of
   the shadow policy that is no regular expression raises `re.error` out of the
   call, against `README.md:264`.
2. **First saves** (`stores/sqlite.py:41`, `sqlite_first_saves`). `_connect`
   tests `_conn`, awaits, and assigns it; two first saves (or a save and any other
   first use of the store) both connect, and one
   inserts on its own connection and commits on the other's: it returns, and its
   row is not in the file, against `README.md:281`.
3. **Edit lost** (`watcher.py:35`, `watcher_edit_lost`). The debounce takes the
   first notification of a burst and drops the rest, so the last content, or the
   one written after a truncation, may never be loaded, against `README.md:40`.
   What stays in force is what the first notification made of the file: its
   policy, the default policy of an empty file, or, if it was malformed then, the
   policy from before the burst.

### Known divergences without a run

Seen while modelling, clear from the code alone, and therefore modelled as they
are and not given a run:

- The shadow rate peek (`core.py:150`) runs after the live check has committed
  the request, and counts the call itself: a candidate equal to the live policy
  reports the last call the live policy admits.
- A `REDACT` verdict stores the redacted text in the record; the graph is given
  the input as it came (`core.py:323`; `README.md:22`).
- The breaker counts names of LLMs, not nodes (`callbacks.py:58`; `README.md:29`
  speaks of a node). Nodes with one LLM share a count (`RepeatsJustified` is
  stated for names), and with concurrent LLM calls `_current_node`
  (`callbacks.py:96`) may name another call's LLM.
- `max_retries` is compared only when some response completes
  (`callbacks.py:111`): a flood of failing calls with no response in between is
  counted and never stopped, against `README.md:29`. What does hold is
  `FloodStopsNextResponse`.
- Output guards are scheduled after the last chunk (`core.py:370`): what a caller
  received of a stream it left, or that failed, is never judged
  (`README.md:168`).
- Redis: a crash, a failure or a close between `RPUSH` and `EXPIRE`
  (`redis_store.py:52`) leaves a list without TTL until a later save of the run
  ends; a list that expires between the two takes the new row with it; a resent
  `RPUSH` may store a row twice. The store does not check its `ttl`.
- Redaction of overlapping spans (`input_validator.py:83`) uses offsets that the
  first replacement has moved: part of an address, or a cut label, is left.
- A semantic verdict that only flags is returned before the PII check
  (`input_validator.py:126`), and `pii_action` `FLAG`, `WARN` or `ABORT` is no
  branch of `validate` (line 135): what was detected leaves no record.
- The CLI leaves out the rate limiter, which a single prompt cannot exceed unless
  a limit is below it, and a pattern that does not compile ends it with a
  traceback, which is exit code 1 (`README.md:318`: a blocking violation).
- Counters and spans are labelled by the policy in force (`core.py:165`), not by
  the call's own: a routed tenant's violations carry the default service. A
  shadow `BLOCK` is exported inline (`core.py:173`), though nothing will raise.
- The gauges are set on a refusal and when a call returns (`core.py:270`, `332`):
  an aborted run, or a user whose window has drained, keeps an old value.
- Input guards read strings and string contents only (`core.py:202-213`).
- The cost is that of `policy.service` (`callbacks.py:84`), whichever model
  answered; `README.md:176` calls it an arbitrary identifier.
- With several threads a stale stamp may stand behind a newer one, and eviction,
  which stops at the first live entry, then leaves it counted
  (`rate_limiter.py:47-57`). The limiter errs on the side of refusing.

## 5. Proofs

| Theorem | States | Module |
|---|---|---|
| `CoreTypes`, `GuardsEnforce`, `QuotaOfAdmitted`, `ReportsOutliveTheProcess`, `OnePolicyDecidesACall` | `TypeOK`, `BlockedMeansRecorded`, `OnlyAdmittedConsume`, `ReportSurvives`, `OnePolicyPerCall` | `SentinelCore_proof` |
| `CallsAreEnforced`, `ShadowIsSilent` | `ImplementsEnforcement` and `ShadowNeverPropagates`, both under `ShadowEvaluates` | `SentinelCore_proof` |
| `MeteringTypes`, `CommittedCeiling`, `NothingLost`, `OverrunAborted`, `FloodStopped` | `TypeOK`, `CommittedWithinCeiling`, `UncommittedIsLogged`, `OverrunAborts`, `FloodStopsNextResponse` | `LlmMetering_proof` |
| `RaisedIsExplained`, `LoopsAbort`, `TripsAreJust` | `RaisedIsRecorded`, `RepeatsAbort`, `RepeatsJustified` | `LlmMetering_proof` |
| `TypeCorrect`, `RequestLimit`, `TokenLimit`, `UsageIsTrue`, `RefusalsAreJust` | `TypeOK`, `RequestsWithinLimit`, `TokensWithinLimit`, `UsageMatchesLedger`, `DenialJustified` | `RateLimiter_proof` |
| `LimiterIsSlidingWindow` | `ImplementsSlidingWindow` | `RateLimiter_proof` |
| `SqliteTypes`, `SavedRowsAreDurable`, `GetsSeeSaved`, `IdleStoreIsClean` | `TypeOK`, `DoneIsDurable`, `ReadsSeeDone`, `NothingLeftBehind` | `SqliteStore_proof` |
| `RedisTypes`, `EndedSavesExpire`, `EndedSavesKept` | `TypeOK`, `EndedExpires`, `EndedIsKept` | `RedisStore_proof` |
| `ObservabilityTypes`, `LabelsOfOnePolicy`, `BlockingSpansSurvive` | `TypeOK`, `OnePolicyPerSpan`, `BlockingSurvivesExit` | `Observability_proof` |
| `CliTypes`, `OnlySemanticHides`, `CliMatchesPipeline`, `RedactionIsExact` | `TypeOK`, `BlocksUnlessHidden`, `CliAgrees`, `RedactionExact` | `CliCheck_proof` |
| `WatcherTypes`, `SpacedEdits` | `TypeOK`, `SpacedEditPickedUp` | `PolicyWatcher_proof` |

They hold for every value of the constants that satisfies the module's named
assumption (`CoreAssumption`, `MeteringAssumption`, `LimitsAssumption`,
`StoreAssumption`, `WatcherAssumption`, `RedisAssumption`,
`ObservabilityAssumption`, `ValidatorAssumption`, `CliAssumption`), which state
the ranges `policy.py` enforces, that the null values are no calls or policies,
and that a graph has finitely many nodes. TLC evaluates them in every run, and each
inductive invariant was checked as an invariant before it was proved.

**Pipeline.** `CoreInv == TypeOK /\ PolicyResolved /\ GuardsInv`.
`BlockedMeansRecorded` is not inductive: nothing in it says that a refused call
stays out of the graph. `RefusedStayOut` adds that a call with a blocking record
of a sync guard is over and not started, and `InvokedPassed` that a started call
is past the guards, so that no guard can refuse it later; background tasks only
add records of output guards, or shadow records. `RateUndecided` adds for
`OnlyAdmittedConsume` that nothing is on record of a call's rate before its rate
check, so that the call it admits takes its first entry and has no record
against it. `PolicyResolved` types the
verdicts: a call has a policy from its first step on. The proof has one lemma
per kind of step: a guard, a plain move, the shadow guards, the graph, the
background, the world, the crash.

`ReportSurvives` speaks of a quiet run alone; `StoreLog` says of every state
that a record of the log is in the store, on its way there, or lost, and that
nothing else is. For `OnePolicyPerCall`, `PolicyLog` adds what the pending tasks
are about to record: an answer of an output guard is one its task's own policy
may give, and a task carries the policy its call was resolved to, whatever
`_policy` has become.

**The pipeline implements its contract.** `CallsAreEnforced` shows that every
step of `SentinelCore` is a step of `Enforcement`, or changes none of its
variables. It needs `CoreInv` and `PassedGuards` (a call is past a guard only
with a verdict of its own policy that let it pass). Its hypothesis
`ShadowEvaluates` excludes exactly finding 1: a shadow policy with a pattern
that is no regular expression fails a call that the contract has admitted. Under
the same hypothesis `ShadowIsSilent` proves the sentence of `README.md:264` that
`core_shadow_raises` refutes, so that a bad pattern is the only way in which it
fails.

**Metering.** `MeterInv == TypeOK /\ CommittedWithinCeiling /\
UncommittedIsLogged /\ EnforcedIsCommitted`. `OverrunAborts` compares what the
LLMs reported with the ceiling, while the code only compares what it committed:
`EnforcedIsCommitted` says the two agree for a run a blocking budget has let go
on. `FloodStopped` is an action property that needs `TypeOK` alone. `RepeatsAbort`
compares responses per node, which the code does not count, with a limit on
counts per LLM name: `CountedLoops` says that, while the calls of a run do not
overlap, the handler remembers the node whose call is in flight, and a run that
goes on has counted every response. `RepeatsJustified` is the converse, and
needs a sum: `TrippedLoops` bounds the count of a name by the responses of all
nodes that bear it, and keeps the count that explains a trip.

**Rate limiter.** `RequestInv == TypeOK /\ CallsInPast /\ IdsKnown /\
LiveQueued /\ RequestsWithinLimit`. The code compares the length of a deque, the
property counts grants in a window that may begin later than the one the thread
measured. `LiveQueued` says that every grant not yet a window old is in the
deque, which eviction with an older clock reading preserves (`CallsInPast`:
no reading is from the future). The grants of the window then inject into the
deque, whose length the check bounded.

For the tokens, an injection is not enough: a deque must hold each grant once.
`LedgerInv` adds that both deques are `Faithful` to the grants: no grant twice,
none that was not made to the user, every live one. The sum over the deque is
then the sum over its grants, which contains the sum over any window that begins
later. `UsageIsTrue` bounds a `get_usage` from both sides: an entry that counts
when it has the lock is live now, hence in the deque, and was live at its
earlier reading of the clock; and what it counts are grants live at that
reading. The two bounds differ only by grants that expired while it waited; for
`RefusalsAreJust` the stamps are in order, and everything behind the first live
entry is live. `LimiterIsSlidingWindow` takes these facts step by step: a commit
is a grant the contract allows, since both sums fit; a reset forgets the user;
all else is a tick or nothing.

*Sums* (in `RateLimiter_proof` and `LlmMetering_proof`). `MapThenSumSet` is a
recursion that removes a chosen element. `SmallestSubset` takes a smallest
counterexample by well-foundedness of strict inclusion; from it follow
`FiniteInduction` (over sets, not over an operator) and `SumRecursion`: the
recursion has one solution, the additive function, whatever elements are chosen.
Monotonicity and the effect of one more element are then facts about that
function.

**SQLite.** `SqliteInv == StructureInv /\ (~raced => RaceFree)`. `StructureInv`
ties each task's point in the code to the one request it has queued, under way
or answered. `RaceFree` holds until two tasks connect at once: at most one
connects, and only while `_conn` is `None` (`OneConnects`); no request succeeds
on a connection after its close (`CloseIsLast`); a row that was inserted is
uncommitted on the connection its save will commit on, or in the file, or that
connection is closed and the commit fails (`RowHeld`, `PendingRows`), so that the
commit of any other task only helps; and a get has seen what was saved before it
(`Seen`). The three properties follow from it at once.

**Watcher.** `WatcherInv == TypeOK /\ NotificationsBounded /\ StampHandled /\
EditUnderWay`. After an edit that kept its distance, exactly one of its
notification, its reload thread and its policy is under way until it is in
force, and `StampHandled` shows the debounce lets that notification through.

**Redis.** `RedisInv` follows a save from its `RPUSH` on: `PushedHeld` says that
its row is in the list, or expired with it, until its `EXPIRE` is answered; from
then on `AnsweredIsKept` says that the list has the row and a deadline no earlier
than was asked for. `DeadlineNear` (no deadline is more than one TTL away) is what
makes every other save's `EXPIRE` an extension and never a cut.

**Reporting.** `ObsInv` adds to the two properties `SnapshotInv` (the policy in
force cannot change between the two reads, for the lock is held), `EmittedOnce`
(each violation is emitted once) and `InlineAwaited` (the loop is waiting for
every blocking span under way, so that it is idle, and the process may end, only
when there is none).

**Validator and CLI.** `FirstAnswer` resolves `Validate` to the first check that
has something to say; the token and pattern checks have no answer that lets a
text pass. `CliInv` says what has been heard at each step: the breaker adds
nothing, because a fresh one is within every limit the schema allows. `CliTypes`
adds the rules a verdict may name and that an exit code ends the program.

**Redaction.** The text with every match replaced is a concatenation of pieces,
one per cell: the cell, or a label where a match begins, or nothing
(`Pieces`). `ReplaceAhead` is one turn of the loop: if a match ends before all
that are replaced already begin, replacing it in what the others left gives the
pieces with it replaced too. Its proof follows the two concatenations cell by
cell (`Accumulates`), by counting up from 0 (`CountUp`): equal up to the match,
label against cells within it, and `Replace` of one another after it.
`LastIsAhead` shows that the order of the loop, descending starts, is what gives
each match that place when no two overlap; with the fold's recursion having one
solution (`OneLoop`) the loop returns `Pieces` of all of them. That a span's
offsets lie in the text (`EntitiesLie`) is proved of `_detect_pii_fallback`'s
model, from the assumption that a match is a non-empty part of its segment.

**Only model-checked**: liveness under fairness, for these proofs express
neither it nor `ENABLED` (`JudgedEventually`, `VerdictsReported`,
`BackgroundDrains`, `ReloadNeverWaits`). No module declares a recursive operator.

## 6. Not modelled

- *What matches*: regular expressions, Presidio's and sklearn's scores, and the
  answers of the LLM judges are inputs of the models.
- *Gauges and the metrics server*: output no part reads back.
- *Dashboard, demo agent*: presentation.
- *The in-memory store*: a dictionary, no await in its methods.
- *Construction*: a write between the constructor's load and the watcher's start
  notifies nobody (`core.py:47`).
- *Growth*: `_violation_log`, the budget tracker and the breaker keep an entry
  per run for ever; `reset` has no caller outside the tests.

## 7. Plan

The order was: the part with most interleaving first, each with its contract,
run and proof before the next.

1. `RateLimiter`, `SlidingWindow`: done; limits and refinement proved.
2. `LlmMetering`: done; proved.
3. `SentinelCore`, `Enforcement`: done; safety and refinement proved.
4. `SqliteStore`: done; proved.
5. `PolicyWatcher`: done; proved.
6. `InputValidator`, `CliCheck`: done; proved.
7. `RedisStore`: done; proved.
8. `Observability`: done; its safety proved.

Every safety property and both refinements the passing runs check are proved, the
pipeline's refinement under `ShadowEvaluates`.
