# A TLA+ verification project for vkllm

vkllm is a small LLM inference engine: a hand-written transformer, a
continuous-batching scheduler with a budget of K/V-cache blocks and preemption,
a paged K/V cache, an HTTP worker, metrics, and simulated tensor parallelism.
These modules model its control: which request is where, what its cache holds,
which blocks are charged to whom, and in which order things happen. Tensors are
abstracted to the positions they hold. Paths below are relative to the
repository's `src/vkllm/`.

## 1. Inventory

| Component | State | Operations | Modelled |
|---|---|---|---|
| `Request`, `Scheduler` (`scheduler.py`) | per request: tokens, cache, `prefilled`, `preempted`, `failed`, `next_token`, `blocks_held`; engine: `waiting`, `active`, `finished`, `free_blocks` | `add_request`, `step` (= `_admit`, prefill loop, decode batch, record loop, retire loop), `_reserve_if_grown`, `_pick_victim`, `_preempt`, `_fail`, `run_until_done` | `Scheduler.tla` |
| Attention and K/V caches of `Model` (`model.py`) | per request and layer a growing tensor | `new_cache`, `forward`, `attention`, `decode_batch`, `_attn_batched`, `generate` | `Attention.tla`; in `Scheduler.tla` as lengths |
| Paged cache (`paged_cache.py`, `generate_paged`) | free list, block tables, slabs | `allocate`, `free`, `append_token`, `append`, `gather` | `PagedCache.tla` |
| HTTP worker (`server.py`) | `_done_events`, `_results`, `_state`, `scheduler.finished` | `engine_loop`, `generate`, `ready`, `stats`, startup, drain | `Worker.tla` |
| `Metrics` (`metrics.py`) | counters, latency window | `record_*`, `_percentile`, `snapshot` | `Metrics.tla`; counters in `Scheduler.tla` |
| `TensorParallel` (`tensor_parallel.py`) | none between calls; partial sums within one | sharded `mlp`, `attention`, `all_reduce` | `Sharding.tla` |
| `ModelConfig`, logger | none that changes | reading JSON, configuring logging | no: pure input/output |

**How they interact.** `generate` (a coroutine) builds a `Request` and calls
`add_request`; `engine_loop`, on the same thread, calls `step` while there is
work and hands each finished request to its coroutine through `_results` and an
event. `step` calls `forward` per request and `decode_batch` for the batch;
these grow the caches of the requests. `_reserve_if_grown`, called from inside
the prefill and the record loop, may preempt *other* requests, and so changes
`active` and `waiting` under the loops that are running. The synchronous
endpoints `/ready`, `/stats` and `/metrics` run on threads of a pool and read
the scheduler in the middle of a step. The paged path shares nothing with the
scheduler: its budget is a counter, not the `BlockPool`.

**What is hard here.**

* `_reserve_if_grown` mutates lists that its callers iterate over, and the
  record loop works on a batch that was collected before.
* A request can be evicted at any point of its life, several times, and must
  resume with exactly the state of one that never was.
* Two sets of books about memory, `free_blocks` and `blocks_held`, are updated
  in five places; the counter may go below zero on purpose.
* Exceptions fail one request, or a whole batch.
* FIFO admission without skipping: whether anyone starves depends on the books.
* In the paged cache an exception in the middle of a reservation, blocks reused
  without clearing, and `free` that checks nothing.
* In the worker: reads torn by the engine, a bounded drain, hand-over of results
  between coroutines.
* In the kernels: offsets, masks and padding are computed apart from the caches
  they must fit; divisions of head counts are not checked.

`PROJECT.json` lists each hazard with its line and the properties aimed at it.

**What makes each component correct.** Scheduler: no request lost or answered
twice; outputs unaffected by preemption and batching; blocks accounted for;
failures contained; everyone answered. Paged cache: a block has one owner; the
sequence gathered is the one a contiguous cache would hold. Worker: every
caller gets its own answer once; probes tell the truth of one state; drain
abandons nobody it could serve. Metrics: counters agree with the queues; the
percentile is the one named. Tensor parallelism: every head and row in exactly
one shard.

## 2. Modules

* **`RequestService`** — what a client is promised about one request: it emits
  tokens one at a time, up to its limit (at least one, because prefill emits
  before the limit is looked at), is answered once, and never changes
  afterwards.
* **`Scheduler`** — the engine. One call of `step` is a run of small actions
  from `pc = "idle"` back to it; each pass of a Python loop is an action.
* **`ContiguousCache`** — the append-only cache that attention expects.
* **`PagedCache`** — pool, tables and slabs driven by the loop of
  `generate_paged`, several tables on one pool.
* **`Worker`** — extends `Scheduler` with the event loop around it: the tasks
  `engine_loop`, `generate` and `stop_engine`, and one probe thread. Every action
  of the engine is taken over unchanged.
* **`Attention`** — what the passes over the contiguous caches store and read;
  shown, row by row, to implement `ContiguousCache`, as the paged path is.
* **`Sharding`** — the loops over the shards and their all-reduce.
* **`Metrics`** — the latency window and the percentiles.
* **`MCScheduler`, `MCPagedCache`, `MCWorker`, `MCKernels`, `MCMetrics`** — instances for TLC.
  `MCKernels` puts `Attention`, `Sharding` and `Metrics` side by side: they share
  nothing, so each moves only while the others are in their initial state.
* **`QueueLemmas`, `SchedulerProofs`, `SchedulerSafetyProofs`,
  `SchedulerServiceProofs`, `SchedulerBudgetProofs`, `WorkerProofs`,
  `PagedCacheProofs`, `KernelProofs`** — the proofs. The four scheduler modules
  extend each other in this order, `WorkerProofs` extends `Worker` and the third.

Definitions marked `(bug variant)` are wrong on purpose: each is what the
definition after it would be with a plausible bug, and serves to confirm that a
property notices. No specification uses them.

### Scheduler: correspondence to the code

| Code | Model |
|---|---|
| `all_ids`, `generated` | their lengths, `AllIds(r)`, `generated[r]` |
| `cache` | `cached[r]`, how many positions it holds |
| `next_token` | the position in `all_ids` of the token to be fed |
| the token is right or wrong | `corrupt`: requests with a token computed from a cache that is not exactly the positions before it, or from another token than the last |
| `prefilled`, `preempted`, `failed` | sets of requests |
| `while ...` of `_admit` | `Admit`, `AdmitEnd` |
| prefill loop | `PrefillSkip`, `PrefillRaise`, `PrefillResume`, `PrefillFresh`, `PrefillEnd`; the loop index `i` runs over the live list, as Python's iterator does |
| comprehension, `decode_batch`, record loop | `Collect`/`CollectEnd`, `DecodeRaise`/`DecodeBatch`, `Record`/`RecordRaise`/`RecordEnd` |
| `_reserve_if_grown(cur)` | `StillFits`, `Preempt` (one per victim), `Charge`, then back in the caller |
| retire loop | `RetireFailed`, `RetireDone`, `RetireKeep`, `RetireEnd` |
| `add_request` | `AddRequest`, only between steps: same thread |

A model call raises for a *poisoned* request (an empty prompt, or a token id
outside the vocabulary among the tokens run, decided by `embed` before any
cache is touched), and, where `Faults` allows it, for reasons of its own: in a prefill
(`"prefill"`), in `decode_batch` (`"decode"`), or in the record loop
(`"record"`), where converting the next token to a Python number waits for the
device and an error of the batch may surface with every cache grown, some tokens
recorded and some of the batch preempted. An error of a call may leave a cache
partly grown in the code; the model leaves it as it
was, which no property can tell apart, since every failed request is excluded
from the batch and a preempted one starts from a fresh cache. The rest of the
record loop is arithmetic on integers and lists and a `torch.cat` of known
tokens: that it raises by itself (out of memory, say) is not modelled.

`finished` is never popped in the model: `engine_loop` does that between
steps, and the sequence is the history of answers. `arrived_at` and latency,
`error` texts and log lines are left out, and so is `_step_request`, which
nothing calls.

`advanced`, `corrupt` and `leaked` are history variables that no guard reads.

### PagedCache: correspondence to the code

`free_blocks` is the stack of the pool, `block_ids` and `length` the table,
`store[l][block][slot]` the slabs (`k_store` and `v_store` are always written
together). An entry is the position its key was rotated for and the request
(and the use of its table) it was computed in. A forward pass is one
`AppendLayer` per layer, which writes at the reserved places and gathers.
`generate_paged` never frees its table; the tests' caller does, so `Free` is
the caller's, after an answer or after "KV cache full". The repository calls
`generate_paged` serially; the model interleaves the tables, which includes the
serial runs, and meets the states the pool is made for, where free blocks are
scattered and carry what their last owner wrote. `Contents` reads a table as a
contiguous cache, cut at the length each layer has been written up to. `Gather`
lays the slots of the owned blocks end to end, as the `reshape` does (`Where`:
the k-th entry is in the block and the slot that division by the block size
gives), and cuts the list at `length`.

### Worker: correspondence to the code

| Code | Model |
|---|---|
| `_state`, end of `stop_engine` | `phase`: startup, serving, draining, then stopped or gave_up |
| `for _ in range(1000)` | `rounds`, bounded by `DrainRounds` |
| `engine_loop` | `loop`; `EngineWakes`, `EngineSteps` (the actions of `Scheduler`), `EngineDelivers` (one `finished.pop()`), `EngineSleeps` (either `await`) |
| `scheduler.finished` | `Undelivered`: the history `finished` without `delivered` |
| `_results`, `_done_events`, `event.is_set()` | `answers`, `events`, `woken` |
| `generate` up to `await event.wait()` | `Refuse` or `Accept`, which contains `AddRequest` |
| `generate` after it | `Reply` |
| `ready`, `stats` | `Dispatch`, then `ReadReady` or `ReadStats`, one per read of shared state, then `Respond` |

A task of the event loop keeps the thread until it awaits, so `Refuse`,
`Accept`, `Reply`, `Shutdown` and the rounds of the drain happen only while
`engine_loop` sleeps (`LoopIsFree`). FastAPI runs the plain functions `ready`
and `stats` on threads of a pool; the event loop dispatches the call and sends
the answer, and in between each read falls anywhere, in the middle of `step` as
well. One action of `Scheduler` is atomic to them: `Admit` and `Preempt` change
a list and the block counter together, which costs the reader a few states in
which only one of the two has changed. `_state["ready"]` is set before the first
connection is accepted, so the tests of `ready` leave it out. Shutdown may come at any moment; once
`stop_engine` has returned, the process ends and nothing moves any more. A call
that was answered by the engine may then not have been resumed: whether uvicorn
waits for it is not this program's doing. `once` and `unpaid` are history
variables of the probe's call: there was a slot and a block together at some
moment of it, and an empty prompt was admitted, which takes a slot and no block.
Time is left out: `DrainRounds` stands for the 1000 rounds of 20 ms, and how far
the engine comes in a round is open.

### Attention: correspondence to the code

An entry of a cache is the request and the use of the cache that it was computed
in, and the position its key was rotated for. A pass (`Prefill`, `Resume`, `Decode`, `DecodeBatch`)
starts with its offsets, and `RunLayer` runs one layer: the caches grow by
`Grown`, and `read` records, for the properties only, what each query attends
to, column by column, so that a key read twice shows. In a batch it is computed as the code does
it, from the padded tensor filled by the length of the *cache* (`Column`) and
the mask computed from the *offset* (`PadStart`): nothing in the code ties the
two but the discipline of its callers. `known` is the length of the token list,
given by the prompt from the start; positions come from it. `Drop` is the
`reset_for_resume` of the scheduler and happens between any two passes, before
the first prefill too: `Resume` then feeds all tokens but the last, which for a
prompt of one token is a pass over none, and the request enters its first batch
with an empty cache at offset 0. Requests are batched in any composition, which includes
the scheduler's; the rows of a batch do not interact, so a batch is a set.
Every caller that feeds more than one token does so at offset 0, so the offset
in the causal mask is never used for anything else, and no run can say more.
Prompts have a token at least (an empty one raises before any cache is touched)
and leave room for one more below the bound `MaxLen`.

### Sharding and Metrics: correspondence to the code

A term of a sum is a hidden unit, or a query head together with the kv head it
meets and the columns of `o_proj` that project it. `MlpCall` and `AttentionCall`
pick the sizes, one action per pass of the loop appends a partial, `AllReduce`
counts each term. The shapes of a shard that do not match raise in the matrix
product, or, where one of the head counts is 1 or 0 and would broadcast, in the
`reshape` after it (`Mismatch`; the heads of a model divide, `kv | q`).

`latencies` is the `deque`, `recorded` the history. A snapshot is taken under
the lock and changes nothing, so it is an operator. Arithmetic is exact here;
the floating-point product of the code is exact or rounds to the tie for the
percentiles it asks for (50 and 99) and 1000 samples. `Sorted` says what a
sorted list is and not how it is made: its k-th element is the sample with fewer
than k samples below it and k or more up to it.

## 3. Runs

| Run | Checks | Bounds |
|---|---|---|
| `sched_pressure` | type, `ExactlyOnce`, `Lossless`, `EngineInv`, `BlocksAccounted`, `OvercommitIsAlone`, `ActiveIsCharged`, `ResumedFirst`, `MetricsAgree`, `OneTokenPerTick`, `ImplementsService` | 4 requests, 3 slots, 4 blocks of 2 tokens, prompts 1-2, limits 1 or 3, prefills and record loops may fail; 1.3 million states |
| `sched_poison` | `PoisonedYieldsNothing`, `BlocksAccounted`, `FailureHasCause`, `ImplementsService` | 3 requests, 4 blocks of 1, prompts 0-2 with any position bad, limits 0, 1, 3 |
| `sched_liveness` | `CompletesIfUncharged` | 3 requests, 2 blocks of 2, prompts 1-2, limits 1 or 4, decodes and record loops may fail; 560 thousand states |
| `paged` | type, `BlocksOnce`, `TightFit`, `GatherIsContiguous`, `ImplementsContiguous` | 2 tables, 3 blocks of 2, 2 layers, prompts 1 or 3, `MaxUses` = 2 uses of each table |
| `worker` | type, `NothingRetained`, `DrainedIsQuiet`, `ReadyIsLinearizable`, `ImplementsServiceAtClient`, `Answered`, `DrainTerminates` | 2 calls, 2 slots, 2 blocks of 2, prompts of 0 or 1, limit 3, one round of drain; 175 thousand states |
| `kernels` | type, `ReadsOwnPast`, `ImplementsContiguous`; `MlpIsWhole`, `AttentionIsWhole`; `PercentileCuts`, `SnapshotIsRecent` | 3 requests of up to 5 tokens, 2 layers, prompts 1 or 3, up to two drops each; 1-6 shards of 1-9 heads and up to 12 units; a window of 6 with 8 records of 2 values, percentiles 1-100 |
| `budget_leak`, `starvation`, `isolation`, `head_of_line`, `torn_stats`, `nearest_rank` | one promise each, refuted | 1 to 3 requests; a window of 6 |

**Why these bounds are enough to be interesting.** Three slots and a fourth
request make deferral, preemption of the newest, resumption ahead of a waiting
request and over-commitment all occur; blocks of two tokens put boundaries
between and inside prompts; four blocks hold two or three requests but not
their growth, so that two victims in one tick and a victim of the current batch
are reached. In the paged run two tables cannot both hold a prompt of three and
grow, so exhaustion happens in the middle of a prompt and in the middle of
decoding, and the second use of a table meets dirty blocks. Requests (and
tables) are symmetric, so symmetry is used except where liveness is checked.
Nothing in the scheduler needs a bound in a guard: finitely many requests with
finite limits come to an end.

In the liveness run the budget is two blocks of two tokens and a request may
grow to six: it outgrows the whole budget while it is active, evicts the others,
and drives the counter below zero while they wait, which the run reaches with
nobody charged astray and everybody that waits small enough to be admitted.

In the worker run two requests that grow past one block each do not fit, so
that preemption, resumption and the stray charge of `starvation` happen under
the readers and the drain. Empty prompts make requests that fail, and that are
admitted while another one holds every block; the
bound of one round is reached with work left, also with an engine that is stuck,
and without. One probe at a time is enough,
since probes do not change anything. In the kernel run prompts of one and three
make rows of a batch differ by up to four columns of padding, and a request
dropped twice, also before its first prefill, meets single passes, batches,
passes over no token and resumed prefills in every order.
Head counts up to nine with six shards include every combination of remainders
of the real model (nine and three heads). Six samples are enough for the rounding
to go up, down and to the even side of a tie.

`CHECK_DEADLOCK FALSE` everywhere: an engine that has answered all requests, or
tables used up to `MaxUses`, do stop.

**Fairness.** `FairSpec` is weakly fair to `Step` alone: `engine_loop` and
`run_until_done` call `step` while there is work and nothing in `step` waits.
Clients owe nothing.

`WorkerFairSpec` is strongly fair to the tasks of the event loop: `engine_loop`,
a coroutine whose event is set, and `stop_engine`. The event loop runs its ready
tasks in turn; a task is not enabled while another has the thread, so weak
fairness would promise nothing, but `engine_loop` gives way after every step
(`asyncio.sleep(0)`), and whatever can go on again and again goes on. Nothing is
assumed of clients, of probes, or of a shutdown.

### What the refuted promises show

1. **`budget_leak`, `starvation`** (`scheduler.py:231-233`). The record loop
   calls `_reserve_if_grown(r)` for a request that an earlier iteration has
   preempted. It now waits with blocks charged. `_admit` then *overwrites*
   `blocks_held`, and the stray charge is never returned
   (`tests/test_scheduler.py:57` asserts a balanced budget); or two requests
   evict each other in the same loop, both wait charged, the head never fits,
   and the engine runs forever (`tests/test_scheduler.py:73`, "must complete").
   `BlocksAccounted` says that this is the *only* leak: whatever is missing was
   lost at an admission that overwrote a charge. `CompletesIfUncharged` says
   that, within the bounds checked, this and a request that waits with more
   tokens than the whole budget (3) are the only causes of starvation.
2. **`isolation`** (`scheduler.py:203`). A request evicted between its
   admission and its first prefill resumes with `all_ids[:-1]`. If its last
   prompt token is the bad one, the guarded prefill succeeds and the token
   reaches `decode_batch`, whose exception fails every request of the batch
   (`tests/test_worker.py:49`, "other requests still complete").
   `FailureHasCause` says that with a model that has no faults of its own this
   is the only way a request fails by another's fault.
3. **`head_of_line`** (`scheduler.py:148-153`). Admission looks only at the
   head of the queue. A prompt larger than the whole budget is neither refused
   nor skipped, and a small request behind it is never answered, with an empty
   engine and no stray charge ("No request waits for another to finish",
   `scheduler.py:84`).
4. **`torn_stats`** (`scheduler.py:119,125`). `stats()` computes `used` from one
   read of `free_blocks` and reports another one as `blocks_free`; a step in
   between makes the fields of one "capacity snapshot" (`scheduler.py:118`)
   contradict each other.
5. **`nearest_rank`** (`metrics.py:58`). The rank is rounded on the number of
   samples less one, where the nearest rank that the comment names
   (`metrics.py:57`) is rounded up
   on their number: the two differ for four samples, say. `PercentileCuts` says
   what the value does satisfy: it cuts the window where it should, give or take
   half a place.

Some more disagreements are not runs of their own, because what the code does is
plain to see and a checked property says how far it goes. A request alone in
memory that outgrows the budget is charged anyway (`scheduler.py:283-284`), so
that `kv_utilization` exceeds 1, where `tests/test_worker.py:45` asserts the
contrary of a small case; `OvercommitIsAlone` bounds the damage. A prefill
records its token before anyone looks at the limit, so a limit of 0 ("how many
tokens to generate", `scheduler.py:32`) yields one; `RequestService` allows a
first token whatever the limit, and `ImplementsService` says that this is the
only one too many. The drain, a "bounded wait" (`server.py:68`), may end with
requests in flight and logs "drain complete" then too; `DrainedIsQuiet` says that
one that ends before its bound has handed over everything, and `DrainTerminates`
that it ends.

Two things that no document contradicts, and so no run refutes. `ready`
answers 503 with the reason "starting" when the overload that it saw ends before
it words the reason: the state is reached, but a caller acts on the status code.
And it may answer "ready" although the worker began to drain
during the call: `ReadyIsLinearizable` is about room only. That property also
has to allow for empty prompts, which the server accepts: one takes a slot
without a block, so the slot and the block that a call saw one after the other
may then never have been there together.

## 4. Proofs

Every safety invariant, action property and refinement of the passing runs is
proved for all values of the constants.

| Theorem | Statement |
|---|---|
| **Scheduler** | |
| `TypeCorrect` | `Spec => []TypeOK` |
| `EngineCorrect` | `Spec => []EngineInv` |
| `PreemptionIsLossless` | `Spec => []Lossless` |
| `RequestsExactlyOnce` | `Spec => []ExactlyOnce` |
| `EngineImplementsService` | `Spec => ImplementsService` (by `ServiceCorrect`) |
| `TicksAreFair` | `Spec => OneTokenPerTick` |
| `EvictedResumeFirst` | `Spec => []ResumedFirst` |
| `PoisonIsContained` | `Spec => []PoisonedYieldsNothing` (by `PoisonCorrect`) |
| `FailuresHaveCauses` | `Faults = {}` implies `Spec => FailureHasCause` |
| `NoBlockIsLost` | `Spec => []BlocksAccounted` (by `BudgetCorrect`) |
| `OvercommitForOne` | `Spec => []OvercommitIsAlone` |
| `ChargesAreExact` | `Spec => []ActiveIsCharged` |
| `MetricsAreTrue` | `Spec => []MetricsAgree` |
| **Worker** | |
| `WorkerRunsEngine` | `WorkerSpec => Spec` |
| `WorkerTypeCorrect` | `WorkerSpec => []WorkerTypeOK` |
| `NothingIsRetained` | `WorkerSpec => []NothingRetained` (by `HandoverCorrect`) |
| `DrainLeavesNobody` | `WorkerSpec => []DrainedIsQuiet` |
| `ReadinessIsTrue` | `WorkerSpec => []ReadyIsLinearizable` |
| `WorkerImplementsService` | `WorkerSpec => ImplementsServiceAtClient` |
| **PagedCache** | |
| `PagedTypeCorrect`, `TablesFitTightly`, `BlocksAreExclusive` | `Spec => []TypeOK`, `[]TightFit`, `[]BlocksOnce` |
| `PagedCorrect` | `Spec => []PagedInv` |
| `GatherIsRight` | `Spec => []GatherIsContiguous` |
| `PagedImplementsContiguous` | `Spec => ImplementsContiguous` |
| **Attention** | |
| `AttentionTypeCorrect`, `QueriesReadTheirPast` | `Spec => []TypeOK`, `[]ReadsOwnPast` (by `AttentionCorrect`) |
| `AttentionImplementsContiguous` | `Spec => ImplementsContiguous` |
| **Sharding** | |
| `MlpShardsAreWhole`, `AttentionShardsAreWhole` | `ShardSpec => []MlpIsWhole`, `[]AttentionIsWhole` (by `ShardingCorrect`) |
| **Metrics** | |
| `PercentilesCut`, `SnapshotsAreRecent` | `MetricsSpec => []PercentileCuts`, `[]SnapshotIsRecent` (by `WindowCorrect`) |

**Assumptions.** `ConfigAssumption`: positive slots, block size and budget;
natural prompt lengths; integer limits; positions of bad tokens; faults among
the two calls and the record loop. `DrainAssumption`: a natural number of rounds. `PagedAssumption`:
positive blocks, block size and layers, prompts that are not empty.
`AttentionAssumption`: a positive number of layers, and prompts that are neither
empty nor as long as the bound. `ShardingAssumption`: at least one shard and one
head. `MetricsAssumption`: a positive window, percentiles from 1 to 100, natural
latencies. The sets of requests, tables and blocks may have any size; nothing is
assumed to divide anything. One theorem assumes more: `FailuresHaveCauses` needs a model without failures of its own, as its property
does: with them any request may fail, and nothing is claimed of it.

### The engine

`TypeOK` is not inductive by action but by part: each named part (`InputsOK`,
..., `HistoryOK`) is preserved by every action, and most need only that
positions in the lists are in range. That a resumed prefill feeds a natural
number of tokens, in spite of the `- 1`, needs that the span of an admitted
request is checked by `ForwardRaises` first (an empty prompt raises).

`Lossless` and `ExactlyOnce` are not inductive. `EngineInv` strengthens them:

* `QueueInv` — the lists are duplicate-free, `waiting` is disjoint from the
  others, and in the retire loop an element of `active` is in `still_active` or
  `finished` exactly if the loop has passed it. That last equivalence is what
  makes rebuilding the list while appending to `finished` safe.
* `BatchInv` — the batch has no duplicates and consists of prefilled requests
  until recording starts, when some may have been preempted; while it is being
  collected, the elements not reached are not in it.
* `CacheInv` — a prefilled request that has not failed is fed its last token on top of a cache of
  all the tokens before it, except that a request whose token is still to be
  recorded (`Pending`) has one position more in the cache than that; requests
  that are not prefilled have an empty cache, and no tokens of their own unless
  they were preempted.

`DecodeBatch` makes the whole batch pending, `Record` takes one request out,
`Preempt` empties a cache (also of a pending request), and `CacheInv` gives
`DecodeIsExact` for each member of the next batch. `EngineInv` is checked by
TLC as an invariant of `sched_pressure` as well. `QueueLemmas` states what
appending, popping, removing at an index and inserting in front do to elements
and to injectivity.

**What a client sees.** `ServiceInv` adds what the refinement of
`RequestService` needs: what is in `finished` is failed or done; nobody in the
batch is finished; and a request of the batch whose token is still to come
(`Undecoded`) wants one and had none in this tick. The last part gives
`OneTokenPerTick` too, and rests on the fact that until recording begins only
requests prefilled in this tick have advanced, which the comprehension of the
batch leaves out. Each action is then `Submit`, `Emit`, `Complete`, `Fail`, or a
stutter. A failure is a stutter when it is marked and `Fail` when it is retired,
so it must be shown that a marked request is not yet answered.

**Poisoned requests.** `PoisonInv`: a poisoned request has no token; it may be
prefilled only if its bad token is the last of its prompt, which a resumed
prefill leaves out; and it never is pending, because the decode of a batch with
such a request raises. `FailureHasCause` then follows for each single step.

**Memory.** `BlocksAccounted` is a sum over all requests, and a proof by
induction over the requests is out of the prover's reach. The sum is therefore
stated as a cardinality: `Units(f, S)` has one pair `<<r, k>>` for each unit of
`f[r]`, and the lemma `UnitsChange` says, by the library's theorems about finite
sets, that giving one request another value changes the size by the difference.
Every action that touches the books changes one charge (`BudgetChange`).
`MetricsAgree` uses the same sets for the tokens. `ChargeInv` states exact
charges at every point of `step` and not between ticks only: the request that
has just grown is the exception, and only inside `_reserve_if_grown`; an
answered request that the retire loop has not dropped from `active` is left out.
`OvercommitIsAlone` needs that a victim that is taken returns what it held, and
that a charge without victims is of a request that is alone.

### The worker

Every action of `WorkerNext` is a step of the engine or leaves its variables
alone (`EngineStep`), so the theorems about the engine hold in the worker, and
its invariants are at hand in the ones of the worker:

* `HandoverInv` — a call has an event exactly while it waits; results, set events
  and `delivered` agree; the engine is in a step only while `engine_loop` has the
  thread, and whenever it has not, everything finished has been handed over. That
  last part is why the drain may ignore `scheduler.finished`: `stop_engine` looks
  only while `engine_loop` sleeps, and then an empty queue and an empty batch
  mean, with `QueueInv`, that all that ever arrived was delivered.
* `ProbeInv` — once the probe has seen a free slot, either there was room at some
  moment since it was dispatched, or an empty prompt was admitted since
  (`unpaid`), or the slot is still free. The last case ends
  only by an admission, and one that takes a slot finds a slot and, unless its
  prompt is empty, at least one block, which is room at that moment. If the probe
  then reads a free block, there was room. Beside it goes `KeptBound`: the list that the retire loop builds is
  not longer than what it has passed, so the batch does not grow there.
* `PlacesInv` and `SeenInv` — the types, of which only the probe's notes need an
  argument: how many it has taken depends on the endpoint it is in.

`WorkerImplementsService` composes the two: what a caller knows of its request
(`CallStatus`) steps from pending to its outcome at `Reply`, where `HandoverInv`
says that the result is there and the request is finished, and `ServiceInv` that
a success has all its tokens.

### The caches

`PagedInv` consists of the types with `TightFit`, `BlocksOnce`, and `StoreInv`:
how far a call on a table has come (`CallShape`: the tokens reserved are those
before the ones fed, and the places of the pass), that the reserved places are
those `gather` will read (`PlacesShape`), and that the slots written so far hold
the table's own entries of this use (`StoreShape`). Preserving it is a matter of
two facts about slots: two places of one table differ (division by the block
size), and two tables share no block (`BlocksOnce`), so a write to freshly
reserved places changes no entry that is already written. Nothing is said of
slots that are not written, which is why blocks need no clearing. `GatherValue`
turns the list that `gather` cuts into the entries in the order of tokens, and
`ContentsInv` gives the contiguous cache of the refinement mapping.

`AttentionInv` says what each layer of each cache holds at every point of a
pass: up to the pass's end in the layers that ran, up to its offset in the
others, and up to the last token but one for a prefilled request outside the pass
(`Filled`), each entry with its owner and its use; before a request is prefilled
there is nothing (a resume over no token leaves it so: `RunLayerOverNothing`).
What a query reads is followed column by column (`ColumnsOfPast`): the columns it
sees and its own past are in one-to-one correspondence. Offset, cache length and token count thereby agree, which is what
the padded batch needs: the columns before `PadStart`, computed from the offset,
are exactly the padding that `Column` places by the cache length
(`MaxOfBounded` bounds the padded length). Trying to prove it brought out two
places where the model said less than it meant: a `CASE` with overlapping arms
(TLA+ leaves open which one counts), now an `IF`, and prompts as long as the
bound.

### Shards and percentiles

`PartialsInv` fixes each partial sum to be the one of its shard. If the number
of shards divides the heads, `Quotient` and `InOneBlock` say that each head lies
in one shard, so the all-reduce counts it once; `SameKvHead` says that the head
with index `j` of a shard meets, by the shard's own division, the kv head that it
meets on one device. If the kv heads do not divide, the product of the shapes
does not match and the call raises.

`WindowInv` says that the window is the end of the history. That a percentile is
a sample uses that the k-th element of `Sorted` exists for every k
(`KthSmallest`): the least sample with k or more up to it will do, and a least
one there is, since the samples are natural numbers.
The order of the two percentiles follows from the order of `Sorted`
(`SortedIsRight`) and from `RankIsHalfway`: each rank is within half a place of
its share of the samples, which puts that of 50 never after that of 99.
`PercentilesCut` puts the same two facts together: an element has fewer samples
below it than its rank and no more above it than are left, and the rank is half
a place from where it should be (`HalfAPlace`).

**Only model-checked:** the liveness properties `CompletesIfUncharged`,
`Answered` and `DrainTerminates`, since liveness under fairness is out of the
prover's reach; and the promises that the violation runs refute, of which there
is nothing to prove.

## 5. Not modelled

Tensor arithmetic; argmax and the tokens' values; times, rates and latencies as
numbers of seconds; wording of logs, errors and responses; loading of weights
and configuration (`config.py`), configuring logging (`logger.py`, once, at
import); `generate_slow`, which keeps no state between calls; `_step_request`,
which nothing calls; `/health`, which is constant; a process that is killed,
since nothing is persisted.

## 6. Plan

1. **Proofs.** Every invariant, action property and refinement that a passing run
   checks is a theorem. The three liveness properties stay with TLC. What could
   be added on the side of safety is a converse: that `leaked` grows only at an
   admission, as a theorem about steps, and a bound of the leak per admission.
2. **Modelling.** Every component with state is modelled. What could be refined
   is the atomicity of `Admit` and `Preempt` as seen by a probe.
