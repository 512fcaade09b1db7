# Formal model of the gjxl encoder

gjxl is a GPU-accelerated JPEG XL encoder. This directory holds a TLA+
development of its control: *who may use memory, CPU slots and device buffers,
and when*; *what happens to an image between its request and its code stream*;
and of the one algorithm of the data path whose integer reasoning a test can
only sample, the ANS entropy coder. The program states its contracts in comments
and in `docs/resident-*.md`; the modules are translated from the code and the
contracts are checked, and in part proved, of them. Paths below are relative to
the repository, whose code is under `src/`.

## 1. Inventory of the system

### Control

| Component | State it keeps | Operations | What is hard | What makes it correct |
|---|---|---|---|---|
| **Memory domain** `core/resource_budget.h` | usage totals and per-class usage, unbacked reserved bytes, open reservations, two peaks, FIFO list of waiters; `ReservationState` per envelope; phase, size and class per `ResourceAllocation` | `TryReserve`, `Reserve` (with eviction and cancellation), `ReduceCapacity`, reservation `Reset`, `PrepareAllocation`, `Commit`, `MakeIdle`, `MakeLive`, `TransferTo`, ticket `Reset`, `Reclassify` | unsigned counters changed by eleven operations, tickets that outlive their envelope, eviction outside the lock, condition-variable wake-ups | committed ≤ limit; counters = sum over tickets; no byte lost or counted twice; FIFO; no lost wake-up |
| **CPU domain** `core/cpu_budget.h` | active, reserved, suspended counters, two peaks, FIFO list; `CpuPermit`; `CpuWorkerReservation` with an atomic `taken_` | `Acquire`, `TryReserveWorkers`, `SplitOff`, `KeepAtMost`, `Take` (atomic claim, then lock), `Reset` of permit and reservation, `SuspendWorker`, `ResumeWorker` | slots move between three counters in two steps, the claim is outside the lock, reservations die while claims are under way | active + reserved + suspended ≤ limit; counters = holders; FIFO; workers never bypass a caller; every waiter is served |
| **Batch driver** `codestream/batch_workflow.cpp` | `closing_`, `stopping_`, `encode_mutex_`, `generation_`, `remaining_workers_`, `in_flight_`, `next_index_`, `terminal_index_`, the borrowed spans | `Encode`, `Shutdown`, `Stop`, `WorkerLoop` | two flags, two mutexes, two condition variables and two atomics; caller-owned arrays lent to threads; a caller that may hold the only CPU slot | each image encoded once; no worker touches an array whose owner has left; all or nothing publication; shutdown drains; nobody blocks with a slot |
| **CPU execution scopes** `core/cpu_execution.h`, `core/thread_budget.h` | thread-local context: domain, private job budget, permit | `CpuExecutionScope::Start`, `CpuSuspension`, `CpuWorkerGroup`, `CpuWorkerScope`, `JoinCpuWorkers` | two budgets taken in a fixed order, nested joins, `std::terminate` if a pre-granted slot is missing | a launched worker always finds its slots; limits of the job and of the domain both hold |
| **Parallel work** `core/parallel_work_internal.h`, `core/worker_launch_internal.h` | task counter, status array, thread array | `RunParallelWork` | a thread that fails to launch while others already run; retry in series | every task is run, or an error returned; no thread outlives the call |
| **Cache eviction** `codestream/workflow_admission_scope.h`, `core/resource_context.h` | the domain's idle tickets inside the GPU caches | `WorkflowAdmission::Start`, `TrimIdle`, `ActivateCachedResource` | eviction races with caches that take and return storage | a waiter is not stranded behind idle storage |
| **CUDA pool cache** `gpu/cuda/cuda_backend.cpp` | 128 cache slots, byte count, generation, cleanup stream | `Allocate`, buffer destruction, `TrimPool` (full, per domain, on out-of-memory) | two-phase release, generation leases, ticket released after the free | a pointer has one owner; charge ≥ backing of every buffer |
| **Metal idle pools** `gpu/metal/metal_backend.cpp` | five single-slot pools, a backend and a process-wide byte counter, generation | `Acquire*`, `Release*`, `TrimPreparationCache`, per-domain trim | counters in an atomic beside state under a mutex | counters match the slots |
| **Batch plan** `codestream/workflow_storage_plan.cpp` | accumulated request maxima | `AddRequest`, `Finish` | unsigned arithmetic at the limit | 1 ≤ in_flight and plan ≤ limit whenever it succeeds |
| **Target-size search** `codestream/rate_control.cpp` | best candidate, intervals | `SearchTargetSize`, `TargetSizeSearchMayEvaluate` | two loops that must visit the same points; interval storage bound | prediction covers every evaluation; bound is not exceeded |
| **Publication** `core/publication_*.h`, `core/managed_*.h` | candidate vectors with their tickets | `PublishTo`, `MoveToPublication`, `Reclassify` | ownership crosses an allocator boundary | charge is kept until the whole array is out |
| **Submissions** `gpu/metal/metal_submission.cpp`, `CudaSubmission` | `once_flag`, completion status | `Wait` | waiters share one completion | one result for all |
| **Single-image workflow** `codestream/workflow.cpp` | plan and route, the prepared image, the evaluator of the last attempt, the process's backends (a sticky Metal status, a growing list of CUDA lanes) | planning, admission, backend selection, preparation, `EncodePreparedAttempt` with its release points | eleven kinds of owners come and go over several attempts whose backend, scale and path may differ; the plan was made before any of it | what is alive was planned; nothing of an earlier attempt is reused where it differs; an encode ends |
| **Entropy coder** `codestream/ans.cpp` | counts, populations and their indices, tables, the ANS state, the emitted chunks | normalisation, `RebalanceHistogram`, alias and encoder tables, `EncodeToken`, the reversed writer | a greedy loop over logarithmic scores; an encoder that must be the inverse of a decoder which is not in the program | frequencies that fill the table can always be coded; the stream decodes to its tokens |

### How they interact

A public encode (`EncodeLinearRgbVarDctCodestreamImpl`, `gjxl_encode`, a batch)
first *plans* its storage, then admits the whole envelope with one
`Reserve` — waiting FIFO, holding no CPU slot — and only then acquires its CPU
slot. Every managed allocation inside draws a ticket on the envelope.
`Reserve` of a workflow passes `TrimIdle` as its eviction callback; the callback
locks the GPU caches, whose idle storage is charged to the same domain by idle
tickets; the caches in turn call `MakeIdle`, which refuses while anyone queues.
Stages that go parallel reserve worker slots twice (job budget, domain budget),
launch that many threads, and suspend their own slot while they join them. The
batch driver does one admission for all images of a call and lets its persistent
workers, each with a CPU scope of its own, draw images from an atomic index.

### Data path (inventoried, not part of the model)

Transforms and quantisation (`codec/`), adaptive quantisation and AC strategy
search on the GPU (`gpu/ops`, `gpu/cuda`, `gpu/metal`), Huffman codes, context
clustering, bit writing and sections, modular mode, image readers (`io/`), the C
API and the Rust binding. These are sequential numeric or serialising code: their
risk is in floating point and in formats, where a model checker adds little
beyond the repository's parity tests. `PROJECT.json` lists each component with
its status.

## 2. Modules

| Module | What it is | Code |
|---|---|---|
| `Totals`, `Queues` | sums over owners; waiter lists | helpers shared by both budgets |
| `FifoAdmission` | abstract: a FIFO admission controller | the contract both budgets state |
| `ResourceBudget` | the memory domain | `core/resource_budget.h` |
| `CpuBudget` | the CPU domain | `core/cpu_budget.h` |
| `BatchDriver` | abstract: what the batch driver promises its callers | `codestream/batch_workflow.h` 60-100 |
| `BatchWorkflow` | the batch driver, composed with abstractions of both budgets | `codestream/batch_workflow.cpp` |
| `ParallelWork` | fork and join of the stages of several images over two CPU budgets | `core/parallel_work_internal.h`, `core/cpu_execution.h`, `codestream/entropy_readiness_internal.h` |
| `DevicePool` | CUDA buffers: pool, cache, trims, eviction, the out-of-memory retry, composed with the domains whose tickets they carry | `gpu/cuda/cuda_backend.cpp`, `core/resource_budget.h`, `codestream/workflow_admission_scope.h` |
| `TargetSizeSearch` | the search for a target size, and its planner's predictor | `codestream/rate_control.cpp` |
| `EncodeWorkflow` | one image from request to code stream; EXTENDS the search and drives it | `codestream/workflow.cpp`, the storage plans |
| `AnsCoder` | the ANS coder, with a decoder as its reference | `codestream/ans.cpp` |
| `MC*` | model-checking instances: symmetry, batches, limits per image, histograms | |
| `CollectionsProofs` | lemmas on the helpers: waiter lists, sums over finite sets, induction as a set | |
| `ResourceBudgetProofs`, `CpuBudgetProofs`, `BatchWorkflowProofs`, `ParallelWorkProofs`, `DevicePoolProofs` | the theorems on the module of that name | |
| `EncodeWorkflowProofs` | the theorems on the search and on the encode that drives it | |
| `AnsCoderProofs` | the theorems on the coder and its operators | |

Both budgets are shown to implement the *same* `FifoAdmission`, and
`BatchWorkflow` to implement `BatchDriver`, once by TLC and once by proof.
Definitions that only serve as faulty variants of their successor (for instance
`FitsBesideBacking` before `Fits`) are not used by any `Next`: they document
which slip each property would catch, and `PROJECT.json` pairs them.

### ResourceBudget

`usage[All]` and `usage[k]` are `snapshot.total` and `snapshot.classes[k]`;
`queue` is the intrusive list between `first` and `last`; `call[c]` is where a
thread is inside `Reserve` (`asleep` on the condition variable, `awake` about to
evaluate the predicate, `evicting` without the lock); `reservation[r]` is a
`ReservationState`, `ticket[t]` a `ResourceAllocation`. One action is one
critical section together with its `notify_all`. An error return that precedes
every change is a step that does not happen. `Reserve` itself is three actions
and more: `TryReserve` (also a `Reserve` that finds itself first and fitting
while it still holds the lock that enqueued it), `Enqueue`, then `EvictReturns`
or `EvictFails`, `Wake`, `SpuriousWake`, `Cancel`. `waiting_requests` is the
length of `queue`. The byte width of `size_t` is not modelled: the limit bounds
every sum, which is what the proof of `LimitInvariant` establishes, and no
difference is ever negative, which is `TypeOK`.

The handles' owner threads are not modelled one by one: any handle may be used
at any time by its exclusive owner, as the header requires, so a step on a
handle is a step of whoever owns it. Moving a handle changes nothing but the
variable that holds it and is not a step.

### CpuBudget

The counters are the snapshot's. `permit[p]` says what a `CpuPermit` holds:
nothing, a caller's slot, a claimed slot not yet taken (`claiming`, between the
compare-exchange on `taken_` and the locked part of `Take`), a worker's slot, or
a suspended worker's. `group[g]` is a `CpuWorkerReservation`. `SplitOff` is
restricted to grants that are not themselves parts, which is how
`codestream/entropy_readiness_internal.h`, the only caller, uses it; a grant
that may be split for ever would make the state space infinite in the
bookkeeping without adding behaviour.

### BatchWorkflow

`call[c].at` is where a caller is in `Encode` or `Shutdown`, `worker[w].at`
where a worker is in `WorkerLoop`. Each critical section of `work_mutex_` is one
action; the atomics are read and written by separate actions (`Check` reads
`terminal_index_`, `Fetch` adds to `next_index_`, `FinishImage` stores the
result and does the compare-exchange), so all interleavings of the workers are
explored. Two collapses are made: what only one thread can see (building the
candidate arrays, moving results into the public vector) is part of the
neighbouring step, and `FinishImage` contains the encode, the trim and the
terminal compare-exchange of one image, whose intermediate states no one else
reads. An image's result is `ok`, `failed` (its own error) or `terminal` (plan
exceeded, or the trim after it failed). A worker at `start` waits for its slot
(`StartImage`); that the wait itself ends in an error, or the image is refused
before it, is a step of its own (`StartFails`). `Shutdown` has its answer only
when the caller is back in its scope: `Join` unlocks the driver, and a caller that
came with a slot takes it back in `Rejoin` before it returns.

The budgets appear as what the modules above prove of them: a CPU slot is free
or taken (`Slots` of them), the domain's envelope is free or held by one batch
or one outside job. The job follows the order of `codestream/workflow.cpp`
1631-1636, memory before CPU; a caller's planning scope ends before it waits for
memory (`PlanBatch`, lines 67-92), and its slot is yielded before the driver
waits for images (lines 278-290). Callers of the public `Encode` come without a
slot; `Shutdown` may be called by a thread that is inside a scope of its own
(`EnterScope`), the case its comment (lines 180-181) and
`docs/resident-batch-lifecycle.md` are about.

### ParallelWork

An image is one call of the encoder: its caller queues for a slot of the domain
(`Start`, `Acquire`), then runs the two early entropy branches (`AdmitEarly`) or,
when the reservation does not grant all it asked for, a single stage
(`StartStage`). `call[i][k]` is a running `RunParallelWork`: its launch loop, its
shared task counter `next`, its status array and who runs what; `group[i][k]` is
the `CpuWorkerGroup` it launches from, with the slots reserved in the domain's
and in the image's own budget and how many of them its workers took;
`thread[i][t]` is a thread, its slot active, suspended or gone. The DC branch of
an early image enters a second `RunParallelWork` from a worker thread, the nested
case. `LaunchFails` is the launch loop's error path, which stops the counter,
joins what runs and either returns or retries in series; whether it retries
depends on the stage's `LaunchFailureAction`. The whole of `JoinCpuWorkers` is a
suspension: a worker suspends on its slot, an image's caller gives it up and
queues again (`Resume`). A thrown exception becomes an error status in the code
and is one here.

### DevicePool

`buffer[p]` is a `CudaBuffer`, a cache entry or nothing, with its ticket:
`owner` is the envelope that charges it, or `closed` after that envelope
closed; `backed` says whether device memory stands behind it; `busy` whether
work on its lane may still use it; `outdated` whether an invalidation came after
its generation was read; `trimmed` is a history variable: a trim that
invalidates took its domain meanwhile. `trim` is the `TrimPool` that holds
`cache_mutex` between its two phases; every other section that needs the mutex
waits for it. Frees may fail at any point (`QueueFrees` queues any subset,
`TrimFails` loses the completion), after which CUDA's errors are sticky
(`lost`). The two places that ignore a failed free are modelled so: the free of a
buffer that is not cached (`FreeDeviceMemory`, then `ResetTicket`) and that of a
cached buffer which no longer fits its envelope (`AcquireCachedBuffer`). Either
may leave the memory allocated while the ticket goes; the code forgets the
pointer, and the model counts its bytes in `leaked`, which the device never gets
back. The generation is a number in the code; here it is whether it is still
the current one, which is all that is compared. A pointer is a member of a
finite set, its number a bound on buffers alive at once. Bytes are added up with
the library's `SumFunction`. A trim for a retry that fails returns its caller to
`ready` with nothing but its envelope, as every other return of `Allocate` does.

### TargetSizeSearch

`SearchTargetSize` step by step: `step` is the place in the function,
`intervals` its `Storage<SearchInterval>`, `best` its retained candidate, and
`evaluated` a history of what was encoded. `EvaluateCandidate` is the lambda of
the same name; the evaluator's answers are all of `Answers`. A target is a
point of a grid, as a float is: `Midpoint` of two neighbours is one of them,
which is the `mid == lower || mid == upper` test of the code.
`TargetSizeSearchMayEvaluate` is the planner's copy of the loop over targets.

### EncodeWorkflow

One public encode of one image, by phases (`plan`, `admit`, `select`, `prepare`,
then per attempt `attempt`, `frontend`, `strategy`, `quantize`, `serialize`).
`request` fixes what the caller asked for and what the hardware and the image
turn out to be; `prepared` is `PreparedWorkflow` with its optional members as
Booleans and the evaluator with what it was built for; `attempt` is the running
`EncodePreparedAttempt` with the value of `retain_preparation` it was given. For
the target-size mode it EXTENDS `TargetSizeSearch`: an attempt that ends is an
`Evaluate` step of the search with the answer it produced, so the search drives
real attempts and not arbitrary answers. `ComputeWorkflowStoragePlan` gives the
owners a plan has room for, a set of sets because a resident plan is the larger
of two phases. `OtherResolves` is another encode of the process that initialises
a backend at any moment.

### AnsCoder

One action per step of the search for a histogram, including each iteration of the
greedy loop of `RebalanceHistogram` (`Increase`, `Decrease`). The tables are built
by `StartTables` (the checks and the two stacks of `InitializeAliasTable`), one
`Level` per turn of its loop, and `BuildTables` (the cutoffs, and the reverse map
of `BuildAnsEncoderTables`); `level` holds the stacks and the entries in between.
The lists of populations are arrays of the table's size, zeros behind their last
entry, one behind the other in memory, and nothing checks the index: `Entry` reads
what the code reads, past an array the one of the next precision and past the last
one the constant `Behind`. Likewise a balance is only computed up to the step of
the list's second entry (line 508) and is zero for a larger one. Then
`EncodeToken` per token and `Write` for the reversed bits. The table size, the
state's width and the chunk size are constants with the code's relations between
them; the reciprocal division of `AdvanceAnsState` is modelled with its rounding.
Scores are integers, `Log2Of` a table in fixed point as in the code. Which
candidate has the smallest estimated size is left open: any of those found may
win. `Reduce`, the loop of `NormalizeHistogram` that takes an excess back, is a
recursive function of the number of turns; `Pow2` and the decoder's run `Decoded`
are recursive functions too, so that theorems can be stated.

## 3. Runs and what they show

| Run | Instance | Shows |
|---|---|---|
| `resource_budget` | limit 3, 3 callers, 2 envelopes, 2 tickets, 2 classes, requests of 1 or 2 | all safety properties of the memory domain and its refinement of `FifoAdmission` |
| `cpu_budget` | limit 3, 4 permits, 2 worker reservations | the same for the CPU domain |
| `cpu_budget_fair` | limit 2, 3 permits, 2 reservations, no symmetry | every queued caller leaves the queue |
| `batch_workflow` | 2 callers, 1 outside job, 2 workers, 1 CPU slot; batches: empty, one invalid request, good-invalid-good | safety of the driver and its refinement of `BatchDriver` |
| `batch_workflow_fair` | the same with one-image batches | an active call returns and a shutdown returns, on a single slot |
| `batch_images_fair` | 1 caller, 2 workers, 1 job, two images, one slot | an active call returns when its workers contend for the slot with each other and with a job that holds memory |
| `parallel_work` | 2 images, 3 slots, 2 participants in the DC stage, 3 DC groups; one image may use the whole domain, the other 2 slots | a call that returned left no thread behind; no thread runs without its slots and none finds them missing; every image returns |
| `device_pool` | 2 callers, 2 domains, 3 pointers, sizes 1 and 2; limit 3, device 3, cache 2 bytes in 2 slots | a sleeping admission is not behind idle storage; every byte of a buffer is charged, whichever frees fail; every cached buffer may be lent |
| `target_size_search` | 5 targets, sizes below, at and above the target size, 2 scores, 2 tolerances, up to 6 attempts | interval storage, prediction, and the best candidate |
| `encode_workflow` | every valid combination of backend, quantisation mode, rate control, strategy search and eligible targets; 3 targets, up to 4 attempts, 2 CUDA lanes | plan covers owners, preparation and evaluator match the attempt, an encode ends |
| `ans_coder` | table of 64, alphabets of 8 and 32, all histograms of up to 5 symbols with counts 0, 1 and 20 and one of 18 equal counts, streams of up to 3 tokens | what fills the table can be coded and the stream decodes |
| `rebalance_histogram` | table of 64, one histogram of 18 equal counts | expected violation, see section 8 |

### Why these bounds

*Memory domain.* With limit 3 and sizes 1 and 2, requests of different size
queue behind each other (a small one that would fit must wait for a large one),
three callers make a queue from whose middle a waiter can cancel, and two
envelopes with two tickets cover transfer between open and closed owners, two
tickets on one envelope, a ticket that outlives its envelope, and reuse of the
handles. The proofs remove the bounds.

*CPU domain.* Four permits over a limit of 3 give a queue while callers, workers
and a suspended worker hold slots; two groups are needed by `SplitOff`. The
proofs remove these bounds as well.

*Driver.* Two workers and three requests, one of them invalid, make workers race
for the index, skip, and finish at different times; `in_flight` may be 1, so one
worker takes part in a batch only to leave it. `Wrap = 2` makes the generation
counter wrap in every second batch: that is harsher than the code's `size_t`
and shows that only inequality with the last value matters. One slot is the
worst case for deadlock. Spurious wake-ups of both condition variables are
included. Two bounds are properties of the model and not of the code: an image
yields its slot at most once, and a caller calls `Shutdown` once.

*Fork and join.* Three slots are the fewest with which one image runs its early
branches and a nested stage while the other waits; with a ceiling of 3 a DC
stage has its own worker beside the branches'. The narrow image makes its own
budget the tighter of the two. Three tasks over two threads make one thread take
two. Images end after their stage, so the system stops and deadlock is not
checked; `EveryImageReturns` is stronger.

*Device pool.* With three bytes of device, three of limit and sizes 1 and 2 every
shortage happens: envelope, limit, device, cache bytes and cache slots, each
without the others. Two domains are needed for a trim of one domain and for a
foreign cached buffer, two callers for every race; three pointers for a full
cache beside a lease.

*Search.* Five targets take at most five encodes, so six attempts let a search
run out of intervals, and fewer let it run out of attempts with two or three
intervals of different width open.

*Single image.* Four attempts are needed to keep the preparation over more than
one retry and release it before the last; three targets with a threshold between
them make the quantisation scale change up and down between attempts.

*Entropy coder.* The relations the code relies on are kept at the small size: the
state has twice the bits of a chunk, the signature fits a chunk, a table has fewer
bits than a chunk. Three tokens suffice for a renormalisation before, between and
after tokens. Counts of 0, 1 and 20 raise a rare symbol to a frequency of one and
make an exact half of the table. The eighteen equal counts are there for the
rebalancing: nothing is left for the omitted symbol, an index leaves its list and
then its array of 64 and reads the entries of the next precision; of the
candidates some are refused (`EndRebalance`) and some are kept although their
frequencies miss the table, so that `StartTables` fails. With fewer symbols or a
smaller table none of this happens.

## 4. Properties

*Memory domain*: `WithinLimit` (the assertion in `UpdatePeaks`),
`UsageMatchesTickets` (each counter of each class, and of the total, is the sum
over the tickets), `BytesAreConserved` (`reserved_unbacked_bytes` and each
envelope's `charged_bytes` are what envelopes and tickets add up to),
`PeaksCoverUsage`, `QueueHoldsWaiters`, `NoLostWakeup` (the first waiter never
sleeps while its request fits), `ImplementsFifoAdmission`.

*CPU domain*: `WithinLimit`, `CountersMatchHolders`, `PeaksCoverCounters`,
`QueueHoldsWaiters`, `NoLostWakeup`, `ImplementsFifoAdmission`,
`EveryWaiterLeaves`.

*Driver*: `EachImageOnce`, `JobOutlivesWorkers` (spans are never used after
their owner left, and `remaining_workers_` counts exactly those still to come),
`StopsOnlyWhenDrained`, `NobodyBlocksWithSlot`, `ImplementsBatchDriver` (calls
one at a time; a full result array or none; nothing starts after closing;
`Shutdown` returns after the last call), `ActiveCallReturns`, `ShutdownReturns`.

*Fork and join*: `CallIsOver` (an Ok result means that every task ran, an error
that one failed, and nothing runs on after the return), `OnlyAdmittedThreadsRun`
(the `std::terminate` of `CpuWorkerScope` is unreachable; the limits of both
budgets hold across suspensions), `EveryImageReturns` (nested joins and slots do
not deadlock).

*Device pool*: `WaiterNotBehindIdle` (`MakeIdle` refuses exactly when it must),
`ChargeCoversBacking` (of every buffer, across both phases of a trim, a retry and
frees that fail; memory whose free failed has lost both buffer and charge, and of
it only that it fits the device beside the buffers is claimed), and
`CachedIsReusable` (what the cache lends is drained, current and backed).

*Search and single image*: `IntervalsWithinBound`, `PredictionCovers` (the
planner's loop and the search visit the same targets), `FindsBestCandidate` (one
retained candidate and a pairwise comparison find the best of all),
`PlanCoversOwners`, `PreparationOutlivesAttempts`, `FrameMatchesAttempt` (the
frame a serializer is given was made with the scale and the colour correlation of
this attempt), `EncodeReturns`.

*Entropy coder*: `StreamDecodes`, `TablesAlwaysFit` (an image can fail in the search
for a histogram or by the check of its sum, and not once the tables are begun: the
alias slots level, every position stands for a symbol, every counted symbol has a
frequency), `PopulationsRepresentable` (of the rebalancing, false: section 8).

The arithmetic content of a `TypeOK` is that no unsigned counter is taken below
zero.

## 5. Fairness

`CpuBudget!Fairness`: a woken thread eventually runs (`Wake`), a worker that has
claimed a slot takes it, and permits and reservations, which are scoped objects,
are eventually destroyed. Nothing is assumed of spurious wake-ups,
cancellations, suspensions or of newcomers, so the result holds however many of
those there are. Weak fairness is enough because the FIFO test makes the step of
the first waiter stay enabled.

`BatchWorkflow!Fairness`: every thread inside the driver runs (`Advance` of a
caller, `Work` of a worker, `JobRuns`: weak fairness); a thread that returned from
`Encode` or sits in a CPU scope of its own leaves it. The steps that take a slot or
the envelope, and nothing else, get *strong* fairness (`Obtain` of a caller,
`ObtainSlot` of a worker, `JobObtains`): a thread that waits for a slot gets it if
slots come free again and again. This is what the FIFO queues provide —
`EveryWaiterLeaves` and the two refinement theorems — and it would be wrong for an
unfair lock. Nobody is made to fail instead of waiting: `StartFails` (a worker that
gets no slot) and `Abandon` (a caller's errors) are in no fairness condition, and
`FinishImage`, which is, ends an image that has its slot, with any result.
`encode_mutex_` is a `std::mutex`, which promises no order: its acquisition
(`Lock`) gets weak fairness only, and accordingly nothing is claimed for a call
that still queues for the driver. `Encode`, `Shutdown`, `EnterScope`, spurious
wake-ups and new jobs are not assumed to happen either. `ShutdownReturns` asks for
the return itself, after `Rejoin`.

`ParallelWork!Fairness`: every thread, every call and every image has weak
fairness: threads are scheduled and tasks return. `Acquire`, within it, is the
FIFO service of `CpuBudget`; the head of the queue keeps its turn, so weak
fairness is what `EveryWaiterLeaves` justifies.

`EncodeWorkflow!Spec`: `WF_vars(Encode)`, a sequential program runs on; nothing is
assumed of other encodes. `TargetSizeSearch!SearchSpec` states the same of the
search on its own. `DevicePool` and `AnsCoder` state none.

## 6. What is proved

All theorems hold for every value of the constants that satisfies the modules'
assumptions: for the budgets a positive limit, finite sets of tickets, envelopes,
permits and groups, any set of callers, request sizes within the limit (`Reserve`
rejects the others); for the batch driver any finite sets of callers and outside
jobs, any number of workers and slots, any request arrays and a generation that
wraps at any value from 2; for the fork and join any finite set of images, any
limits, ceiling and numbers of participants and tasks; for the search any interval
of targets, any target size, set of sizes, tolerances and integer scores, and any
number of attempts; for the encode, in addition, any threshold of the scale
selectors and any number of CUDA lanes; for the coder any table of 2^n slots with
n no more than the bits of a chunk (12 and 16 in the code), any widths of the
alphabet up to the table's, any memory behind the lists of populations, any
positive signature that fits a chunk, any histograms with no more symbols than
slots, any non-decreasing table of logarithms, any widths of extra bits and any
length of a stream.

*Memory domain* (`ResourceBudgetProofs`). `TypeOK` is not inductive: that
`reserved_unbacked - n` stays natural when a ticket commits depends on the
envelope's books. The inductive invariant is
`IInv == TypeOK /\ UsageMatchesTickets /\ BytesAreConserved`, proved action by
action; the lemmas on sums of `CollectionsProofs` follow the totals (changing one
owner's holding changes the total by the difference; a member's holding is at
most the total). From it follow `TypeInvariant`, `UsageInvariant` and
`ConservationInvariant`. `PeaksInvariant` is a second induction that uses
`IInv`: committed bytes grow only by an admission, and an admission records the
peak; `LimitInvariant` follows from it. `QueueInvariant` and `WakeupInvariant`
are inductions over the queue's elements with the lemmas of `CollectionsProofs`.
`Refinement` maps each action to a step of `FifoAdmission` or a stutter.

*CPU domain* (`CpuBudgetProofs`). Here the joint invariant is
`SInv == IInv /\ QueueHoldsWaiters /\ PeaksCoverCounters` with
`IInv == TypeOK /\ CountersMatchHolders`: a thread in the queue must be known to
have no permit before granting it one is known to change the counts by one.
`TypeInvariant`, `CountersInvariant`, `QueueInvariant`, `PeaksInvariant`,
`LimitInvariant`, `WakeupInvariant` and `Refinement` follow.

*Batch driver* (`BatchWorkflowProofs`). The inductive invariant `IInv` has eight
parts, each proved to be kept by every action from those before it. `Types` are
the types but for the lower bound of `remaining`; `CpuInv` keeps the participants
within `Slots`. `LockInv`: who is between locking and unlocking the driver is its
holder. `CloseInv`: once the driver is closed nobody becomes active, and the
workers are told to stop by the holder of the lock; `StopInvariant` follows.
`BookInv`: a worker *owes* its leave while it is in the batch or has not seen its
generation, a worker that owes has a caller that waits, and `remaining` counts
those that owe. Hence nobody owes when a batch is handed out, all do just after,
and a generation that wraps cannot be mistaken for an older one; `BooksInvariant`
and the bound of `remaining` follow. `SlotInv` lists who may have a slot, for
`SlotInvariant`. `WorkInv` is about the images: one that is being encoded was
handed out, has no result and is nobody else's (`ImagesInvariant`), and one that
was handed out has a result or is being encoded; the first worker, which has a
work slot whenever there is an image to encode, leaves only when every index has
been handed out. `AllResults` concludes that a batch without a terminal image
has all its results when the caller collects them, which is what `Refinement`
needs for `Publish`; the other steps map one to one, and all that the workers
and the outside jobs do maps to stutters. `AnswerInv` (a call has an answer only
when it is over) makes the guards of the mapping's `CASE` exclusive.

*Fork and join* (`ParallelWorkProofs`). `IInv` says of each image what holds of
the *values* of its calls, groups and threads (`Sound`), so that a step is
followed change by change without the images beside it. Its parts: `Entered`
(which calls and groups an image has at each point, and that the thread inside
the nested call is the one that runs the first branch), `AliveAreLaunched`,
`GroupsSuffice` (slots taken plus workers that start never exceed those launched,
nor those the grant: why `CpuWorkerScope` finds its slot in both budgets),
`RunnersInLoop`, `SuspendedJoin` and `Accounted` (tasks are handed out in order,
each is run or done, and a retry in series starts over). `WithinLimits` adds both
budgets: `GrantFits` bounds a group's slots by what is free in each, and
`Preserved` follows the domain's sum through the step of one image. Whether a
launch fails is free at every launch, so the theorems cover every mix of failures.

*Target-size search* (`EncodeWorkflowProofs`, first part). `IntervalsWithinBound`
is not inductive: the invariant `TInv` adds that an interval is added only with an
attempt (`OneIntervalPerAttempt`) and what each place of the function starts from
(`Progress`), of which the delicate one is that a search that skipped the upper
end never bisects. `BoundInvariant` follows. For `BestInvariant` two more
inductions run beside it. `GInv`: the open intervals are proper and pairwise apart
and no target encoded so far lies inside one, whence a midpoint is always new; it
rests on `WidestIsOpen` (a widest interval exists, by well-foundedness of the
naturals), on what `RemoveAt` leaves, and on `SplitGeometry`. `BestInv`: the
retained candidate is one of those made and wins against every other; that needs
the code's comparison to be a strict total order on candidates, which
`WinsIsTotal` and `WinsIsTransitive` prove from the code's nested tests, and
`WinsIsPrecedes` shows to be the lexicographic order the property is stated with.

*Prediction* (the same module). `PredictionInvariant` compares two loops, the
planner's over targets and the search's over encodes. `Reaches`, the planner's
loop, is a recursive function, so the first question is whether a function with
its equation exists. `ReachExists` answers it without an induction: the least set
of walks closed under one round of the loop (`Onward`) solves the equation. The
invariant `PInv` then says of every set of targets: what was encoded was
foreseen; while the search bisects, what the planner's loop still reaches from
the search's own place (`Ahead`) was foreseen, and every foreseen target that was
not encoded yet is still ahead, unless the size is met. `SearchRound` shows that
a step of the search is one round of the planner's loop.

*Single-image workflow* (the same module, second part). `SearchSteps` shows that
every step of an encode is a step of the search or leaves it alone, so the
search's theorems hold inside every encode (`SearchRefined`, `EncodeSearches`).
The three properties of the owners then follow from one more inductive invariant,
`WInv`. `RouteSound`: the CPU's route was chosen only when no attempt of this
encode can select Metal (`CpuForGood`: what was read of the request, of the
hardware and of Metal's sticky status does not change, and a search whose
prediction misses the eligible targets never asks for one: here `PInv` is
needed), and Metal's route only when every attempt will (`MetalForGood`).
`PreselectSound` and `AttemptSound`: the backend selected before the preparation,
and that of every attempt, is one the route has owners for (`Agrees`), and an
attempt runs only while the search wants a candidate. `PreparedSound`: what any
attempt, failed at any point, leaves of the preparation suits the next one
(`Suitable`), and what the running attempt has done to it so far (`Progressed`);
the delicate parts are that only the last attempt releases it, and that storage of
the strategy search that is still there at the quantization was kept for a reason
the plan knows. `FrameSound` carries the scale and the correlation map to the
serializer. `OwnersPlanned`, `PreparationKept` and `FrameIsTheAttempts` follow;
the first is a case for each route and policy.

*Device pool* (`DevicePoolProofs`), for any finite sets of callers and pointers,
any domains, sizes and bounds, the names of the non-callers (`user`, `closed`,
`none`, `all`) being those of no caller or domain (`ActorsAssumption`). `IInv` has
two layers. The first is about who has what: `WaitersQueued` (the queue of a
domain is exactly its waiters, each once), `TrimIsHeld` (what a trim took stays
cached until it returns; one that evicts without error took all of its domain),
`DropsLeased`, `CachedAreClean`, `BackedUntilFreed`, `OwnersAdmitted` (a ticket
belongs to an open envelope of the buffer's domain or has outlived it) and
`WaiterNotBehindIdle` itself, which needs the first two: between an eviction and
the sleep that follows it `MakeIdle` refuses because the caller is queued. The
second layer is arithmetic: `EnvelopesCover`, `LimitsHold`, `DeviceFits` and
`CacheCounted`. Failed frees enter it as `leaked`: `DeviceFits` says that the
buffers and what was leaked fit the device together, while `EnvelopesCover` speaks
of buffers only, since a leak is charged to nobody. `StepEffect` reduces every
step to one of a few effects on the ledger (an envelope opens within the limit, a
buffer appears within what its caller was charged, tickets move or close, buffers
go), and each sum is followed through each effect. That what a buffer has backed
is committed is then a statement of one state: `SumPartition` splits the bytes of
a domain over their owners, and each owner's are within its envelope.

*Sums* (`CollectionsProofs`). `SumFunction` is a fold, a recursive function. That
a function with its equation exists, that the order does not matter, and the laws
of sums (`SumRemove`, `SumAdd`, `SumSplit`, `SumMono`, `SumPartition`) are proved
by induction over the subsets of a finite set. The library's induction theorems
take an operator as parameter, which the installed provers cannot instantiate;
`Induction` and `SubsetInduction` are stated with a *set* in its place and proved
from the least element of a set of naturals (`WFMin`).

*ANS coder* (`AnsCoderProofs`). `StreamDecodes` speaks of the last state only; the
inductive invariant has three parts, and `CoderInvariant` states them together.

`HistogramInv`: a histogram that was kept leaves out no symbol that occurs
(`Keeps`), and while moves are made (`Moving`) no index falls below the first.
Nothing is said of the sum: a rebalancing may leave its arrays, and then reads
other numbers, so that its frequencies need not fill the table (section 8). What
carries on is the code's own check at the start of the tables, after which they
do; hence `FullTablesFit`, without any condition.

For the rest there is a second invariant with a hypothesis. `WithinTheArray` says
of every behaviour in which indices stay within the array of their precision
(`InArray`, which the code does not ensure) that every kept candidate *fits*: a
frequency for every symbol that occurs, and together exactly the table. For two
symbols that is `NormalizeFits`, which needs no hypothesis: the quotients miss the
table by less than the number of symbols that get one more, or the excess can be
taken from the largest without taking anyone's last one (`Reduce`). For a
rebalancing it needs the accounts of its moves: what is left for the omitted
symbol and the populations of the others add up to the table. Within the array
they add up even when a bin runs off its *list*, where the entries are zeros: each
such bin has a *debt*, the slots that its moves behind the list gave away
(`Debts`), and `Searching` equates the two sums. When the loop ends with a symbol
in debt, that symbol has population 0 and the code's check for an omitted symbol
fails the image; hence `SettleFits`: a histogram *returned* from within the array
has no debt and fills the table, also after the exchange with an earlier symbol
that fills half of it. `OnlyRebalancingFails` follows: in such a behaviour a step
that fails the image ends a rebalancing.

`TablesInv`: while slots are levelled (`LevelInv`) the stacks hold every overfull
slot and only underfull ones, the positions given away lie apart from each other
(`GivenOnce`) and within what the giver had (`GivenAway`), and the slots still
weigh what they did; so an overfull slot always meets an underfull one, and the
table never fails as unbalanced. `AliasOfLevelled` concludes that the lookup maps
the positions of the table into the pairs of symbol and offset, none twice;
counting makes it a bijection, and `TablesInvert` that the reverse map is its
inverse.

`StreamInv`: at every moment of the encoding there *exists* a run of the decoder,
started from the current state and the chunks so far in reverse, that finds the
tokens so far and ends in the signature with nothing left (`Finds`). A token
prepends one step to that run (`Encodes`, `FindsOneMore`: the reciprocal is exact,
`ReciprocalExact`; the state stays between one chunk and two, so the decoder
refills exactly where the encoder moved bits out). The run is quantified because
`Decoded` is defined from the front and the encoder works from the back; at the
end `WrittenStream` identifies the two, and `StreamIsRead` follows.

*Only model-checked*: `EveryWaiterLeaves`, `ActiveCallReturns`,
`ShutdownReturns`, `EveryImageReturns`, `EncodeReturns` (liveness under fairness
and `ENABLED` are beyond the prover). Every other property of the passing runs is
a theorem.

## 7. Correspondence notes

- `condition_variable_any::wait(lock, stop, predicate)` is `Enqueue` (predicate
  false at first), then `Wake` for each evaluation, `Cancel` for the stop token.
  A stop request that arrives together with the wake-up takes the cancel path.
- `notify_all` after the unlock is part of the step that unlocked. Between the
  two a waiter may already run: that is a spurious wake-up of the model.
- Wait times, timing fields and test observers
  are left out.
- `CompatibleEvaluator` stands for three copies of one test: the resident path's
  (`quantization_pipeline.cpp` 312-345) and, in `gpu/ops/adaptive_quantization.cpp`,
  the exact path's (566-605) and the one for frames only (1230-1300).
- A limit of 0 (unlimited) is the model with a limit that is never reached.

## 8. A finding

`rebalance_histogram` is expected to fail. The comment at
`src/codestream/ans.cpp:465-466` says that `RebalanceHistogram` greedily chooses
*representable* populations. Once one slot or none is left for the omitted symbol,
every balance is the largest `int64_t` (lines 535-537), the score of every
decrease is hugely negative, and the shift by the step (line 559) makes the
smallest step win each time: the loop takes one bin down to population 0 and then
past the end of the list of allowed populations, though other bins could give.
TLC finds it in a table of 64 with eighteen equal counts; the last state of its
trace is the one after the step that leaves the list. In the run `ans_coder` the
same histogram goes on from there. At the code's 4096, the
same loop compiled from `ans.cpp` with 130 equally frequent symbols at precision
shifts 0 to 4, or 207 at shift 6, leaves an index of 4096 or more (an
out-of-bounds read of the 4096-entry array, lines 557-570, that the undefined
behaviour sanitizer reports) and frequencies that add up to 12083, or leaves a
populated symbol out, on which `EstimateAnsHistogramCost` fails the image with "ANS
candidate omitted a populated symbol" (lines 966-967), an internal error.

## 9. Not modelled

Everything marked `not_modelled` in `PROJECT.json`; start-up failure of the batch
driver and its destruction; null-output and invalid-argument returns; lifecycle
observers and timing; `size_t` overflow of sums the limit does not bound; the
memory model of relaxed atomics (each atomic operation is one step, which is what
the mutexes around dispatch and completion justify); the domains' `shared_ptr`
lifetimes.

*EncodeWorkflow*: only the production entry points (no supplied backend, which the
tests use); the branch that builds a resident input inside an attempt
(`workflow.cpp` 947-976), which they cannot reach; the fallback of a resident
attempt to the generic path when the backend reports it unavailable; profiling
and diagnostic owners. Bytes are not counted: a plan is the set of owners it has
room for, and the sizes per shape are the storage-plan tests'.

*DevicePool*: a charge for memory whose free failed: `docs/resident-resources.md`
182-183 wants the allocation freed before its ticket is released, and the code
(`cuda_backend.cpp` 59-69, 98-102) ignores that the free failed, so that `leaked`
bytes are charged to no domain and later admissions are made beside them; one
pool; one caller per lane; allocations without an envelope;
creation and destruction of the pool; CUDA graphs and submissions.

*ParallelWork*: an image ends after one stage or one pair of branches; the AC
work that follows a plain DC stage is another such stage.

*AnsCoder*: hybrid-integer conversion (a symbol has a fixed number of extra bits),
clusters and the context map, the serialised histogram, the cost estimate; the
search over precisions visits all of them, a superset of what each effort does.
The rounding of doubles in the entropy estimates is not modelled. The decoder is
the property's reference; the program has none.

## 10. Plan

Done: `ResourceBudget`, `CpuBudget`, `FifoAdmission` with proofs; `BatchWorkflow`
and `BatchDriver` with proofs; `ParallelWork` and `DevicePool` with proofs;
`TargetSizeSearch` and `EncodeWorkflow` with proofs; `AnsCoder` with proofs. Left,
in this order:

1. The Metal pools: five single slots and their counters, as a variant of
   `DevicePool`.
2. Publication and the managed allocator: the charge outlives every owner until
   the array is public.
3. The arithmetic of `AddRequest` and `Finish` of the batch plan.
4. Start-up failure of the batch driver; submissions; the PFM reader's row
   workers.
