# A TLA+ model of cache-delay-eval

cache-delay-eval asks how often LMetric's cache-aware routing score goes wrong,
and what that costs. It replays request traces against several vLLM servers
through a client-side router, and against a simulator of servers and router.
It also replays conversations, searches small schedules exhaustively, and
records what vLLM's scheduler does, with hooks patched into a copy of it.
This directory holds TLA+ modules of its logic, TLC runs over small instances,
and proofs that TLAPS checks for every size.

Source paths below are relative to the repository; `PROJECT.json` maps every
definition to its lines.

## Inventory

| Component | State | Operations | What is hard |
| --- | --- | --- | --- |
| **Simulated instance**: `Engine` in `routing_sim.py` | block pool (`free`, `ref`), prefix cache (`cached`, `block_key`), queues (`waiting`, `running`), a plan in flight | `schedule`, `finish_step`, arrivals | sharing and eviction, preemption in the middle of planning, first come first served, lost wakeups |
| **Simulated router**: `simulate`, `RouterIndex`, `SMetric`, `choose`, `HotspotDetector` in `routing_sim.py` | `bs`, `queued`, `qcost`, `pending`, `lru`, window counts, streaks | arrival, first token, done, trim | books settled by callbacks, five kinds of index, a filter that starts and stops by streak |
| **Live router**: `routing.py` | an `InstanceView` per server, tasks, a gap counter | `send`, `stream`, `subscribe`, `apply` | failures at any await, events late or lost, closing down |
| **Toy oracle**: `toy_oracle.py` | a scheduler's state as a value | `transition`, `solve`, `fit_snapshot` | reservation, eviction choice, exhaustive search with a bound |
| **Eviction oracle**: `eviction_oracle.py` | blocks, queues, a list of choices | `replay`, `solve` | victims by choice, cycles in which nothing runs |
| **Chat replay**: `chat_replay.py` | sessions, rows, an event log | `run_session`, `stream_completion`, cancellation | every planned turn recorded once, whatever fails or is cancelled |
| **Open-loop replay, paired pilot**: `live_replay.py`, `paired_pilot.py` | server process, rows | probe, replay, stop | start-up races, always stopping the server |
| **Admission telemetry**: `admission_telemetry.py`, `scripts/prepare_vllm_telemetry.py`, `scripts/analyze_eviction_telemetry.py` | hook state per step, event files of several processes | hooks in vLLM's scheduler and pool, `resolve_events`, `reuse_report`, the audit `analyze` | state left over from an earlier step, a log that must tell the pool's state, ambiguous ids |
| **Trace format, generators, screens**: `trace.py`, `session_gen.py`, `pattern_screen.py`, `materialize.py` | none | pure functions | order and parents in a trace, an LRU reference |
| **Analysis** and **scripts** | none | batch statistics, drivers, plots | - |
| **Recorded vLLM** under `results/`, as patched | block pool, request queues, block tables | `schedule`, `update_from_output`, `finish_requests`, `reset_prefix_cache` | blocks cached before they are computed, preemption and aborts within a step, sharing |

How they interact. `simulate` owns one `Engine` and one `RouterIndex` per
instance, and calls `schedule` and `finish_step` from a heap of timed events;
`finish_step` calls back to the router at the first and the last token. The
live router has the same policies, but real servers: it learns of a first token
from a response stream and of cached blocks from ZeroMQ messages. The toy and
eviction oracles are schedulers of their own. The chat and open-loop replays
share only the server's HTTP interface with the rest. The telemetry hooks run
inside vLLM's scheduler and block pool, and their log is audited and followed
afterwards.

What makes each correct: for an instance, that blocks are neither lost nor given
out twice, that a cached prefix is the right one, that requests are answered in
order and all of them; for a router, that its indicators are the truth at the
moment of each choice and return to zero; for an oracle, that the states it
explores are states a scheduler can be in, and that the deadlines it prunes by
never drop the baseline they come from; for the replays, that every planned
request leaves exactly one record, with what came of it; for the telemetry, that
the log says what the scheduler did.

## The modules

| Module | Models |
| --- | --- |
| `Sublists` | Python's in-order filters of a list, in closed form |
| `EnginePromise` | what an instance promises the router: each submitted request is answered, token by token, to its end |
| `Engine` | class `Engine` and the part of `simulate` that drives it |
| `EngineMC` | an instance of `Engine` for TLC |
| `SublistProofs` | lemmas about lists, prefixes and counts that the proofs share |
| `EngineProofs`, `EngineServiceProofs` | the theorems about `Engine`: its accounting; what its blocks hold, who is served when, and the refinement of `EnginePromise` |
| `SimRouter` | `RouterIndex`, `choose`, `SMetric`, `HotspotDetector` and `simulate` of `routing_sim.py`, over several instances |
| `SimRouterMC`, `SimRouterProofs` | an instance of `SimRouter` for TLC; the theorems about it |
| `LiveRouter` | `replay`, `send`, `subscribe`, `InstanceView`, `choose` of `routing.py`, with the servers it relies on |
| `LiveRouterMC`, `LiveRouterProofs` | an instance of `LiveRouter` for TLC; the theorems about it |
| `ChatReplay`, `ChatReplayMC` | `replay_sessions`, `run_session`, `stream_completion` of `chat_replay.py`, with cancellation |
| `ChatReplayProofs` | the theorems about `ChatReplay` |
| `Deadlines` | the deadlines both oracles derive from a baseline and prune by |
| `ToyOracle`, `ToyOracleMC` | `transition`, `check_state` and `solve` of `toy_oracle.py` |
| `ToyOracleProofs` | the theorems about `ToyOracle` |
| `EvictionOracle`, `EvictionOracleMC` | `replay` and `solve` of `eviction_oracle.py` |
| `EvictionOracleProofs` | the theorems about `EvictionOracle`, and those about `Deadlines` |
| `TracedPool` | the patched `block_pool.py`, operation by operation, with the events it writes |
| `PoolLog` | what is made of these events: the audit, the reuse rows, and a replay of the pool |
| `TracedScheduler`, `TracedSchedulerMC` | the patched `scheduler.py` and `kv_cache_manager.py` over that pool, with the hooks' state |

### Engine

State. `free` is the ordered dict of unreferenced blocks, `blockKey`, `ref` and
`cached` the fields of the same names; a request's `computed`, `generated` and
`table` are functions of the request; `first`, `done` say that `first_ms`,
`done_ms` are set. `plan`, `budget`, `cursor`, `preempted` are the locals of
`schedule`.

Actions. Each iteration of a loop is one action, and `phase` keeps the code's
order: `Submit` (arrival), `PlanRunning`, `Preempt`, `EndRunning` (the first
loop of `schedule`), `Admit`, `EndAdmit` (the second), `StepDue` (the step's
event), `FinishChunk`, `FinishToken`, `FinishRequest` (`finish_step`, one
request), `NextStep`. An arrival comes only between two events of the heap.

Left out: the clock. The cost of a step decides only when it ends; the model
lets arrivals and step ends come in any order, which covers every cost.

Assumptions, named in the module: positive sizes; prompts and outputs are not
empty; the keys of one request are distinct and the number of prompt keys is
the number of full prompt blocks; and `FitsAssumption`, that each request fits
the pool alone. The last one is not checked by the code. Without it the head of
the queue is never admitted, everything behind it waits, `simulate` returns with
`done_ms` unset, and `summarize` fails. Of what is checked and proved, the
liveness run needs it, and so do `IdleMeansEmpty` and `OldestKeepsRunning`: an
instance whose head of the queue is too large goes idle with work waiting, and a
request that outgrows the pool preempts itself.

### SimRouter

State: the locals of `simulate` (`bs`, `queued`, `qcost`, `placed`, `newTokens`,
`newCost`, `turn`), `lru` and `pending` of each `RouterIndex`, and the fields of
the detector. Policy and index are chosen in `Init`, so every pair is explored.

An instance is reduced to what the router reads: the keys it holds and its
callbacks at a request's first and last token. `Engine` justifies the reduction:
that both callbacks come, once and in this order, is `EnginePromise`; that every
full prompt block is cached when `first` is called is the action property
`FirstTokenCached`. Blocks come (`CacheChunk`) and go (`Evict`) between.

Actions: `Arrive` (event kind 0: look up, judge, choose, charge, dispatch),
`First` and `Done` (the callbacks, event kind 1), `Trim` (event kind 2).
Arrivals keep the order of the trace, with their times, which the detector's
window needs. Callbacks and trims fall anywhere between them, which covers every
step cost and trim period. Scores are exact integers; where the code compares a
ratio with a decimal the model compares the products. Assumptions, named in the
module: the trace is in order of arrival and names each request once, as
`load_trace` leaves it; a request's keys are distinct, as many as its full
blocks; sizes are naturals, and the quadratic cost factor is even, which makes
the cost an integer. `load_trace` and
`summarize` are left out, and so are fields that are only reported.

The code's floats are the one place where this matters: `qcost` is summed and
taken back in different orders, so an idle instance can keep a residue of some
1e-12 ms, which breaks ties that `SMetric` would otherwise give in turn.

### LiveRouter

The client is one asyncio loop, so an action is what one task does from one
await to the next: `Dispatch` (from the sleep to the POST), `FirstToken` (the
callback), `End` (the end of the stream, complete or failed, with the
`finally`), `AllReturned` (`gather`), `Receive` (one message with its event) and
`Unsubscribe`. The policy and the kind of index are chosen in `Init`, and so is
what the servers hold when the run begins: nothing after the reset that
`replay` asks for, or, with `--no-reset`, what the constant `Leftovers` allows
(`Connected`; `left` remembers it).

The servers are vLLM's. The module keeps what the router depends on, read in the
copy under `results/` (`TracedScheduler` models more of it). `ServerAdmit` settles the prefix
found cached, short of the last token of the prompt (`get_computed_blocks`).
`ServerCache` is one chunk of the rest: its full blocks are cached when they are
scheduled, each in a block of its own, and published (`cache_full_blocks`), so
two requests that compute the same block at once leave two physical copies.
`ServerCompute` ends the prefill, and `ServerEvict` takes a block that no request
uses (`get_new_blocks`). A chunk may end anywhere in the prompt, since the
server's budget is not known here. External, because their code is not in the
repository or is ZeroMQ's, are the event messages and their delivery: a message
may be lost, and those of an instance keep their order. Assumed of the workload:
finitely many requests, prompts that are not empty, distinct keys within a
prompt, as many as its full blocks.

### ChatReplay

One asyncio loop again. `at` is the await a session's task is suspended at
(`created`, `sleep`, `render`, `stream`) or its end; `main` is where
`replay_sessions` is (the first `gather`, the second one in its handler, or
over). `row` holds every record appended for a turn, so that a second one would
show. `Start`, `Wake`, `Dispatch`, `NotSent` are `run_session`; `StreamEvent`,
`StreamDone`, `StreamBreaks` are `stream_completion`, with every check it makes;
`Interrupt` cancels the run, in either `gather`, and `Cancelled` throws the error
at the await where the task is. The first `gather` is over as soon as one task
was cancelled, with others perhaps still to be (`Gathered`); the second waits for
all of them even if it is cancelled too (`Settled`). A failed turn and all it blocks are recorded in
one step, because nothing is awaited in between.

The server is external and may answer anything: events with or without tokens,
finish and usage in any order, lies about the count. An answer is the number of
tokens kept, a prompt the list of messages it renders. Left out:
`load_scripts`, the prompt builder, clock readings (and with them the late
dispatches and the think delay), the summary's metrics, a disk that fails.

### Deadlines, ToyOracle, EvictionOracle

Both oracles replay first come, first served, give each request limits from its
outputs in that baseline, and search the other schedules that keep them. The
limits and the checks are `Deadlines`, used by both. A module has a mode,
`baseline` or `search`, and TLC itself is the search: a choice of `solve` is a
branch of the next-state relation.

`ToyOracle` splits `transition` where its loops turn: `Choose` (an order of the
waiting requests), `Run` (one running request is planned), `Admit` (one turn of
the admission loop), then `Serve` (the batch) and `Leave` (one completed request
gives up its blocks), or `Idle`; `Finish` is what `visit` makes of the result.
`EvictionOracle` splits one iteration of `replay` into `Start`, `Preempt`, `Run`,
`Admit`, then `Execute` and `Leave`, or `Idle`, and `Finish`; the choices are the
victims of an allocation. `Search` resets the state between the two modes. A
state that breaks a limit is `pruned` (`infeasible`) and goes no further. The
assertions of the code (`check_state`, `validate_state`) are properties of the
states in which the code evaluates them, the ends of an iteration.

Left out: the bounds that give a search up (`max_states`, nodes, iterations),
the choice of the best schedule among those found, certificates and reports, the
calibrated cost table, an initial cache, and the import of an instance from
telemetry. `EvictionOracle` begins with an empty cache.

### TracedPool, PoolLog, TracedScheduler

The copy of vLLM's scheduler under `results/eviction-telemetry-cpu-2026-09-29/patched`,
with the hooks `prepare_vllm_telemetry.py` writes into it. `TracedPool` is the
block pool as operators on a record; each appends the events its hook writes.
`PoolLog` folds a log, an event at a time, into what is made of it: whether
`analyze` accepts it, the rows of `reuse_report`, and the references and hashes
that a reader could rebuild. The last is not in the code; it is the reference
that `LogTellsPool` compares with the pool. `TracedScheduler` reads the log as it
is written, so no log is kept in the state.

`phase` keeps the order of a step: `StepStart`, the running loop
(`ScheduleRunning`, `Preempt`, `RunningDone`), the waiting loop (`Admit`,
`Refuse`, `RunningFull`), `StepEnd`, the forward pass (`Execute`, which writes
tokens into blocks), `update_from_output` (`Output`). `chunk` is the local
`num_new_tokens` while an allocation is tried again: the code computes it once,
before the loop that preempts. From outside come `AddRequest` between steps,
`Abort` between steps or while the model runs, and `Reset`.

Left out, because the project's servers do not use them: LoRA, KV connectors,
encoders, speculation, hybrid attention, streaming input, pausing. Class
`Scheduler` is modelled, which runs when asynchronous scheduling is off; its
asynchronous subclass is not in the repository.

The three schedulers are compared: `Engine` and `TracedScheduler` are both
checked against `EnginePromise`, where a client's abort is the abstract
`Cancel`. `Engine` has no aborts and never takes it.

## The runs

| Run | What it shows |
| --- | --- |
| `engine` | One instance with five requests in a pool of four blocks: pool, cache, plan and queue stay right in every order of arrivals and step ends, the oldest request is never preempted, and every full block of a prompt is cached when its first token is reported |
| `engine_live` | `Engine` implements `EnginePromise`, liveness included |
| `sim_router` | Every policy with every index: the indicators are the truth after any order of callbacks; the in-flight index counts the prefills of each key; the lru index keeps the most recent keys; the detector's counts are those of its window, its filter stands exactly when its docstring says, and a filtered request never reaches a holder |
| `live_router` | Both indexes and all three policies, with streams that fail anywhere, evictions and one lost message: indicators, index and gap counter mean what they are read for, and `replay` returns |
| `live_no_reset` | The same router over servers that were not reset and may hold blocks already: the index is behind a server by no more copies than that held at the start |
| `live_exact` | Expected violation: the events index is not exact |
| `chat_replay` | Whatever a server answers, and wherever the run is cancelled: each turn of a session that began has one record, a blocked turn names the failed turn that blocks it and was never sent, a prompt carries the whole conversation, a record keeps every token that came, and the replay ends |
| `chat_unstarted` | Expected violation: a session cancelled before its first step leaves no records |
| `toy_oracle` | In every order of admissions `check_state` holds, every iteration serves someone or has an arrival to wait for, the work is done within the bound the code asserts, and the deadlines never prune the baseline |
| `eviction_oracle` | With every choice of victims references, queue, contents and tables agree; none of the code's three ways of getting stuck is reached; and the deadlines never prune the baseline |
| `traced_scheduler` | Through preemption, aborts and resets the pool balances, what is cached was computed, the log tells the pool's state and passes the audit, reuse rows are in order, the recorded reasons are right, and the scheduler implements `EnginePromise` |
| `traced_priority` | Expected violation: under the priority policy, blocks nobody computed are handed out as hits |

Bounds of `engine`: blocks of 2 tokens, a pool of 4, a budget of 3 tokens and 3
requests at a time, prompts of 2 to 6 tokens and outputs of 2 to 5. Two prompts
are equal in their full blocks and two more share the first, so blocks are
shared, duplicated, evicted and hit again; one request needs the whole pool; the
budget splits prompts in chunks; preemption strikes the request being planned,
one behind it, and several in one call; requests are readmitted over their own
output. Every action fires. `engine_live` drops one request.

Bounds of `sim_router`: two instances, the least with a choice and with
0 < |M| < N; five requests, four of one class with a shared key (one has a
second key, so that a hit can be partial) and one of another class; a window
that the first two arrivals leave; blocks of 2 tokens and a class of one block;
`MinCount` 2 and 2|M| = 2, so that filtering starts, holds and stops within the
trace; an lru of 2 keys among 3; sglang's thresholds scaled down until both
sides are taken; `MaxEvict` 1. Each of these cases was seen to occur.

Bounds of `live_router`: two instances, three requests, of which two have the
same single full block (one is that block exactly, so it can be wholly cached)
and one has none; two evictions and one lost message in all. That is the
smallest instance with ties, a duplicate copy, a removal between two choices,
and a gap. `MaxEvict` and `MaxLost` are the bounds, in the guards of the servers.
`live_no_reset` has two requests, with one full block and with two of which the
first is the same, so that a prompt is cached in one step or in two; each server
may hold one copy of the shared block at the start (`Leftovers`), which may be
hit, duplicated, or evicted unknown to the index. Two evictions are enough for a
removal of a block the index never saw and one of a block it counts.

Bounds of `chat_replay`: a session of three turns, so that a turn can fail with
an answered one before it and several behind it, beside one of one turn; answers
of up to 2 tokens, one per event (`Burst` 1), so that a stream can fall short of
the cap, reach it and exceed it; `MaxInterrupts` 2, so that the run can be
cancelled in each `gather`, or twice in one. Some 410,000 states.

Bounds of `toy_oracle`: five requests in 7 blocks, 3 at a time, a budget of 3 and
chunks of 2. Four prompts share a first token and two of these are equal, so that
hits, partial hits and evictions happen; the last request arrives when, in some
orders, nothing is left, so that `Idle` is taken; the slack lets some orders
through and prunes others. Bounds of `eviction_oracle`: six requests in five
blocks of 2 tokens, 3 at a time; three at once outgrow the pool, which preempts;
prompts share one block or two, and the last is sent again when nothing else is
left.

Bounds of `traced_scheduler`: five requests in five blocks of 2 tokens, a budget
of 3, two at a time. Two prompts are equal and two more begin alike; another
needs the whole pool and comes between, so that blocks are evicted, computed
again and found again. `MaxAborts` 1 and `MaxResets` 1 are the bounds on what
clients and operators do. Some 94,000 states. `traced_priority` has two requests, a long prompt
and a shorter one of higher rank, a budget of 8 and chunks of 4: in the step that
matters the long prompt is scheduled first and then preempted for the other.

Fairness. `Engine`: weak fairness of the instance's own steps together, because
the event heap is finite in time: a step in flight has a finite end and is
taken. Nothing is assumed of arrivals. `LiveRouter`: weak fairness of each
request's `Dispatch` and `End` (a sleep ends; a stream ends at the latest at the
client's timeout), of `AllReturned`, and of each `Unsubscribe` (the subscriber
polls for 100 ms at a time and looks at `stop`). The servers owe nothing.
`ChatReplay`: weak fairness of each step a ready task takes, of a sleep and a
render, of the end of a stream (`StreamBreaks`: at the latest at the client's
timeout), and of the end of each `gather`. `TracedScheduler`: weak fairness of the
engine's own steps together, for the loop runs while a request is unfinished. It
is written out as `<>[]Busy => []<><<Engine>>_vars`, because TLC cannot evaluate
`ENABLED Engine` through the pool's folds in reasonable time; `Busy` is that
condition. Its runs do not check deadlock, since an engine with no request left
may stop. In all other modules the end stutters explicitly, and deadlock is
checked.

Inductive invariants and TLC. Each proof was preceded by a run of TLC that
checks its inductive invariant on the component's instance: `Strengthened` of
`Engine`, and `Inductive` of `ChatReplay`, `LiveRouter`, `SimRouter` and of the two
oracles. The runs do not list them, because they conjoin what is listed with what
only the proofs need, and the theorems say more.

## What is proved

All of this holds for every value of the constants that satisfies the modules'
assumptions: any number of requests, instances and blocks, any trace, any sizes.
There is one lemma for each action, and one for each part of the invariant the
action can disturb. Lists are handled by `SublistProofs`, whose closed form of a
filter avoids recursion.

### Engine

`InductiveInvariant` (`EngineProofs`) and its consequences `TypeInvariant`,
`PoolAccounted`, `CacheConsistent`, `StepsCovered`. That counts match tables
(`PoolAccounting`) is not inductive: when a request is preempted its table is
emptied, and if the request were in the plan the step would write blocks it no
longer has. So `Inductive` adds where requests are (`QueueInv`: in one queue,
once), what tables cover (`TableInv`: only running requests own blocks, and
outside the plan exactly those their computed tokens fill) and what the plan is
(`PlanInv`: while planning, exactly the running requests before the cursor). A
victim comes from the end of `running` and is never before the cursor, so it is
not planned. `PlanCovered` needs the count of evictable hit blocks at admission:
what is left of `free` once the hits are taken out is as long as the check at
line 206 said.

`PrefixRight`, `WritesExclusive`, `PromptThenCached` (`EngineServiceProofs`). A
block changes its key while it is free, when it is taken, or when its request
fills it. A block that is being filled has one holder (`UnfilledInv`), because
blocks are shared only by being hit, so a shared one has a key already
(`SharedInv`). Hence no key is given or taken under a request that reads the
block. `PromptThenCached` is an action property: the step that ends a prompt has
just cached the last of its full blocks, or found the key at another block.

`FirstComeFirstServed`, `NoLostWakeup`, `HitWithinPrompt`, `OldestStays`
(`EngineServiceProofs`). A victim is the youngest running request and goes to the
head of the queue, so `running \o waiting` changes only at its ends and where a
request is done; arrivals get growing ranks (`ArrivalInv`). A step plans nothing
only if nothing runs and the head of the queue does not fit an empty pool
(`WakeInv`), and a request alone with the pool cannot fail to grow: both by
`FitsAssumption`, which only `NoLostWakeup` and `OldestStays` use. The hit is fixed at the first admission, when nothing has been generated, so
a recomputed request keeps its first one (`HitInv`). `StrengthenedInvariant`
puts the three parts together.

`PromiseKept`: `Engine` implements the safety part of `EnginePromise`. Initial
states map to initial states; `Submit` is the abstract submission;
`FinishToken` and `FinishRequest` are the abstract token (`Emit`); and every
other action is a stutter.

### SimRouter

`SimInvariant` and its consequences `SimBooksAlwaysBalance`,
`PendingAlwaysCounts`, `LruAlwaysRecent`, `WindowAlwaysCounts`,
`FilteringAlwaysMeans`; and the action property `HoldersAlwaysAvoided`.

- The books: `queued` and `qcost` are sums over a set that requests enter and
  leave. They are stated as the cardinality of a set of units (`Units`: pairs of
  a request and a number up to its charge), which avoids a recursive sum. A
  request brings its units when it is routed and takes the same ones away when
  it leaves prefill, whatever the index says by then; that they never go below
  zero is part of it.
- The in-flight counts are those of the requests in prefill that share the key.
  A request counts each key once because its keys are distinct.
- The lists: what is dispatched becomes the newest part of the list, and is
  touched later than all before (`LruInv`: no touch is later than the number of
  arrivals, and no key is in a list twice). Dropping from the old end keeps the
  order, and a list cut to `Cap` is as long as `Cap` or holds all keys used.
- The window: the deque is the end of the trace (`WindowInv`), because arrivals
  come in order, so what has left the window is a beginning of it. Its length
  and the running counts follow.
- The filter: a class's streak is the run of counting verdicts it ends with
  (`StreakInv`, while it is not filtered). A verdict without alarm ends both; one
  with alarm keeps a filter that stands; and the verdict that makes the streak
  2|M| is the first at which the description in `FilteringMeans` becomes true.
- A filtered request: an alarm has 0 < |M| < N, so there are instances that do
  not hold the prefix, and every policy's choice is one of its candidates.

### LiveRouter

`RouterInvariant` and its consequences `BooksAlwaysBalance`, `GapsAlwaysTell`,
`IndexAlwaysCovers`; and the action property `IdleGoesFirst`.

The books are again counted unit by unit (`Owed`: pairs of a request without a
first token and a number of a token it owes). The messages on the way to a view
are exactly those published after the last it received and not lost, in order
(`WireInv`), so a jump of the sequence number means a loss, and a loss that was
passed has been seen as a jump. A view that lost none counts, with what is on
its way, at least the copies its engine has less those it had before the run;
the reset message can only be the first and then finds nothing to clear
(`IndexInv`). What the servers held before the run is arbitrary. `IdleGoesFirst` is about one
choice: with equal hits the idle instance has the smaller product, unless the
prompt is wholly cached and both are zero.

### ChatReplay

`SessionsAsExecuted` and its consequences `EachTurnOnce`, `FailureBlocks`,
`TokensKept`. Sessions share nothing but the cancellation of the run, so the
invariant is one formula about each session (`SessionInv`): the turns before the
current one were answered, those after it have no rows or, once the session has
ended early, one each; and the rows, prompt and tokens of the current turn are
what its place in the code says. A step disturbs its own session only.

### EvictionOracle

`InductiveInvariant` and its consequences `StateIsValid`, `SomebodyIsServed`.

That counts match tables (`PoolOK`) is not inductive alone. `Inductive` adds
where a request is (`QueuesOK`: running, waiting, answered or not there yet; only
a running one has blocks), how far an iteration is (`VisitsOK`: the batch is the
first of the running requests, those still to be visited are the rest), how many
blocks a running request has (`TablesOK`: as many as its computed tokens and its
share of the batch fill) and what they hold (`ContentOK`). A block filled with a
prompt has that prefix's identity; any other has none and one holder, so it
cannot be found, is not shared, and no choice of victims takes it from a
request: victims are free.

`SomebodyIsServed`: blocks are taken from the last running request, and the
batch is a beginning of the list, so the first of the running requests is not a
victim while it has company; alone it fits the pool (`ValidAssumption`, which
`validate` checks), and so does the first in line when nothing runs. An
iteration without service therefore has nobody to serve, and none of the three
exits of `replay` for a stuck iteration is taken.

### ToyOracle

`InductiveInvariant` and its consequences `StateIsChecked`, `IterationsServe`.

- A block that is not computed belongs to one request (`RefsOK`). A request joins
  a block only by hitting it, and only computed ones are hit. Hence a batch, which
  computes several blocks at once and names some of them anew, changes nothing
  that another request's table relies on (`TableOK`).
- No two blocks were touched at the same time (`PoolOK`), so the least recently
  touched ones are well defined; and a request that `fit_snapshot` lets in leaves
  room: blocks in use, hits and victims are disjoint, and count up to the pool at
  most.
- Work is counted in pairs of a request and a number of tokens done (`Done`,
  within the fixed set `Work`), arrivals in the requests that have arrived. Each
  iteration serves somebody, which adds to `Done`, or waits, which adds to
  `Arrived`; a request that is not finished lacks a pair. So `replay` stays below
  its bound, whatever orders are taken.
- What is planned is one service for each of different requests, within the
  budget (`PlanOK`); in an empty engine any request fits, so an iteration without
  service has nobody to serve.

### Deadlines

In `EvictionOracleProofs`, beside the invariant they use.

- `RoundingDown`: `eviction_oracle.py` rounds the slack down to whole ticks and
  `toy_oracle.py` compares fractions; for whole ticks both give every verdict
  alike. Bounds on an integer quotient turn both into the same linear inequality.
- `BrokenStaysBroken`: a request that breaks its limits at one moment breaks them
  at every later one, answered or not. So what the searches prune has no
  completion that keeps the deadlines. The proof has a case for each limit; the
  one for gaps needs that what follows the last answer, an answer or now, is no
  earlier than the moment the gap was broken.
- `OwnScheduleKept`: a schedule keeps the deadlines derived from it at each of its
  moments, for any slack, while requests are still under way: what has happened
  by then is a beginning of what will, and now is no later than what comes next.
- `BaselineIsWithin`: the outputs from which `solve` of `eviction_oracle.py` takes
  its limits are of the form these theorems ask for, and keep them.

### Only model-checked

- `BaselineKept` of both oracles. `OwnScheduleKept` is the arithmetic of it. What
  is left is that the search, as long as it takes the first come, first served
  choices, repeats the baseline state by state. That compares two runs, of which
  the state keeps one: a proof needs the whole baseline as a function of the
  iteration, defined by recursion over the steps, and an induction over it.
- `PoolBalance`, `CachedIsComputed`, `LogTellsPool`, `ReuseInOrder` and the other
  properties of `TracedScheduler`. Its pool and its log are folds over sequences,
  as the code loops over blocks within one call; what a fold computes for every
  input needs an induction over data that the provers cannot take.
- Liveness (`KeepsPromise`, `Terminates`, `Returns` and the like) and what depends
  on `ENABLED`.

## Findings

`live_exact`. `README.md:18` calls the events index exact. vLLM reports one store per physical
copy and one removal per evicted copy; `InstanceView.apply` counts copies in
`resident` but keeps one `engine_hash` entry per hash and pops it at the first
removal (`routing.py:156`). A block that two requests computed at the same time
therefore stays in the index after both copies are gone, until the engine is
reset. After a reset the index still never misses a block (`IndexCovers`). With
`--no-reset` it may: of a block that an engine held before the run and stored once
more during it, the first removal is taken for that of the copy it knows.

`chat_unstarted`. The docstring at `chat_replay.py:238` says all planned turns
receive a final status. asyncio throws the error of a task cancelled before its
first step ahead of the first line of `run_session`, so the handler that records
the rest of the session is not there: the session has no rows at all. For
sessions that began the promise holds (`RecordedOnce`).

`traced_priority`. `kv_cache_manager.py:242` says that `get_computed_blocks` returns
computed blocks. `allocate_slots` enters full blocks under their hashes before
the step computes them. The priority policy may then preempt a request the same
step has already scheduled (`scheduler.py:660`-667): its blocks are freed with
their hashes, nobody computes them, and the next step finds them. First come,
first served preempts only requests the step has not scheduled yet;
`CachedIsComputed` shows it safe, and the project's servers use it.

## Not modelled

- **Open-loop replay and paired pilot**: a sequential driver. Its requests share
  no state, and its hazards are in processes and ports outside the code.
- **Telemetry's files**: the writer, `validate_event` and `resolve_events`, a
  pure function of a finished log; the patcher, which edits text.
- **`chat_replay.py`**: `load_scripts` and the prompt builder (validation and
  rendering), the metrics of the summary.
- **The oracles' search bounds, certificates and reports**, the calibrated cost
  table, an initial cache, the import of instances.
- **`trace.py`, the generators, `pattern_screen.py`**: functions of a file or
  random draws in floating point, without state that outlives a row.
- **Analysis and scripts**: batch statistics, sweeps, plots, downloads.
- **The rest of vLLM under `results/`** (entry points, the engine client, most of
  `kv_cache_utils.py`, features that are off): third-party code the project
  records and does not use beyond its HTTP interface. It is by far the larger
  part of the repository's Python, which is why the lines the models stand for
  are a small share of all of it. The hazard list in `PROJECT.json` names what
  is left without a property, among it the preemption hook during a cache reset,
  which names whatever request failed last in an earlier step.
