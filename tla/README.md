# TLA+ models of the feedback-driven KDE selectivity estimator

This directory holds the formal models of the kernel-density selectivity
estimator under `src/src/backend/optimizer/path/gpukde/`. It has TLA+ modules,
TLC configurations, TLAPS proofs and `PROJECT.json`, which maps every definition
to the source lines it models and lists the runs, mutants, findings and hazards.

## The system and how its parts interact

The estimator runs inside one PostgreSQL backend and drives one OpenCL command
queue. `ocl_initialize` creates that queue with
`CL_QUEUE_OUT_OF_ORDER_EXEC_MODE_ENABLE`. Commands are therefore ordered only
by the events in their wait-lists, or by the host blocking on a read, on
`clFinish` or on `clWaitForEvents`.

* **Evaluation engine** (`ocl_estimator.c`: `ocl_estimateSelectivity` and
  `rangeKDE`).
  1. A non-blocking write puts the query bounds into `input_buffer`.
  2. The KDE kernel waits for that write. When one is set, it also waits for
     the pending `optimization_event` of the online optimizer, which it then
     releases.
  3. A sum is chained behind the kernel, and a blocking read returns the
     selectivity.
  4. The estimate is then *open*, and the next online step is prepared.
* **Online optimizer, VSGD-FD** (`ocl_adaptive_bandwidth.c`).
  * *Prepare:* the gradient and the shifted gradient are computed with empty
    wait-lists, each followed by its sums. A finalize task waits for all the
    sums and becomes the new `optimization_event`.
  * *Run* (at feedback time): a blocking read waits on `optimization_event`.
    Then an accumulate kernel is enqueued with an empty wait-list. When the
    mini-batch is full, an initialize kernel (first batch) or an update kernel
    (later batches) waits for the accumulate and becomes `optimization_event`.
* **Feedback path** (`ocl_model_maintenance.c`:
  `ocl_notifyModelMaintenanceOfSelectivity`). It runs only if an estimate is
  open. First comes sample maintenance: under PRR, every period-th estimate
  overwrites one sample slot with a non-blocking write, then `clFinish`. Then
  comes the online step, and finally the estimate is closed.
* **SQL functions.**
  * `ocl_setKDEBandwidth` and `ocl_getBandwidth` are each a single blocking
    transfer of the bandwidth.
  * `ocl_reoptimizeBandwidth` runs `ocl_runModelOptimization`. That first
    enqueues the Scott's-rule kernel chain and waits for it. If optimization
    is on and feedback exists, it then does a blocking read, an `nlopt` search
    and a blocking write.
* **Registry and persistence.** The assign hooks of `kde_enable`,
  `ocl_use_gpu` and `kde_samplesize`, and process exit, call
  `ocl_releaseRegistry`. That writes every estimator back with
  `ocl_updateEstimatorInCatalog` (blocking reads of bandwidth, sample and
  karma), then frees it. The next estimate rebuilds the registry from the
  catalog.

None of the blocking calls waits for an event. Only the KDE kernel and the
online step wait for the one event the host keeps, `optimization_event`.

## Modules

| module | models |
|---|---|
| `KdeEstimator` | one estimator, the backend thread and the out-of-order device queue |
| `MCKdeEstimator` | the operation sets that the `.cfg` files give to `Operations` |
| `KdeEstimatorProofs` | TLAPS proofs about `KdeEstimator` |
| `KeyValueMap` | the abstract map that `container/directory.h` and `container/dictionary.h` promise |
| `Directory` | `container/directory.c`: the sorted key array, its growth, the cached position |
| `MCDirectory` | the symmetry of the payloads for the `directory` run |
| `Registry` | the estimator registry of `ocl_estimator.c` (bitmap plus directory), catalog load and persistence, `kde_enable` |
| `BinomialDraw` | the floating-point steps of `getBinomial`, over IEEE classes |
| `RandomSelection` | `floydSampling`'s loop, step by step, and a uniform reference |
| `SampleMaintenance` | CAR, PRR, TKR and PKR sample maintenance with other backends and VACUUM |
| `MCSampleMaintenance` | binds `FloydSets` to `RandomSelection`'s outcomes, and the uniformity check |
| `SampleMaintenanceProofs` | TLAPS proofs about `SampleMaintenance` |
| `ReductionPartition` | the host arithmetic of the reductions: local sizes, `tuples_per_thread`, the `min_seq` split, the stripes |
| `Reduction` | one call of `predefinedSumOfArray` or `minOfArray` on the out-of-order queue |
| `ReductionProofs` | TLAPS proofs about `ReductionPartition` |
| `Dictionary` | `container/dictionary.c`: the chained hash table and its iterator |
| `DictionaryProofs` | TLAPS proofs about `Dictionary` |
| `KernelCache` | `ocl_getContext`, `ocl_getKernel`, `buildProgram` and `ocl_releaseContext` over the program registry, with the static kernel handles |
| `MCKernelCache` | the colliding hash function the `.cfg` files give to `Hash` |
| `KernelCacheProofs` | TLAPS proofs about `KernelCache` |
| `BandwidthProofs` | TLAPS proofs of `KdeEstimator`'s bandwidth ordering |

### KdeEstimator: state

| variable | code |
|---|---|
| `queue` | live `cl_event`s, each mapped to its command: kernel name, wait-list, running flag |
| `optimization_event` | `bandwidth_optimization->optimization_event` (`NULL`, a live event, or `CompletedEvent` for a retained event whose command finished) |
| `pc`, `waiting` | where the backend thread is, and the event a blocking call waits for |
| `open_estimation` | `estimator->open_estimation` |
| `nr_of_accumulated_gradients` | the VSGD descriptor field |
| `online_learning_initialized` | the VSGD descriptor field |
| `vsgd_buffers` | whether `gradient_accumulator` is allocated |
| `nr_of_estimations` | `stats->nr_of_estimations`, kept modulo `kde_sample_maintenance_period` because only the remainder is read |
| `adaptive` | the GUC `kde_enable_adaptive_bandwidth` |
| `seeded` | a history variable that only the properties read: an initialize kernel has run |

Buffer contents are abstracted away. A command is its kernel, the buffers it
reads and writes (`Reads`, `Writes`, taken from the kernel arguments), and its
wait-list.

### KdeEstimator: actions

**Device**

* `Start(e)`: a command starts once its wait-list is empty.
* `Finish(e)`: it completes, and its event leaves every other wait-list.

**Host**

* Every blocking OpenCL call splits a host operation into the step before the
  block and the step after it. The step after waits until the awaited event
  has left the queue.
* Estimate: `EstimateBegin` is `rangeKDE` up to its blocking read.
  `EstimateEnd` is the rest of `ocl_estimateSelectivity` plus
  `PrepareVsgdOnlineLearningStep`. The first preparation allocates the VSGD
  buffers and ends in `clFinish`, so it requires an empty queue.
* Feedback: `FeedbackBegin` counts the estimate and triggers PRR.
  `SampleMaintained` is the `clFinish` of `ocl_pushEntryToSampleBufer`.
  `FeedbackEnd` is the online step (`RunVsgdOnlineLearningStep`) and the close
  of the estimate.
* Bandwidth SQL functions: `SetBandwidth`, `GetBandwidth` and `Unblock`.
* Batch optimizer: `Reoptimize` and `ScottsBandwidthSet`.
* Registry: `Persist` is `ocl_updateEstimatorInCatalog`. `RegistryReleased`
  is the free and the reload; it starts a fresh estimator.
* GUC: `ToggleAdaptive` is `SET kde_enable_adaptive_bandwidth`. It has no
  assign hook.

**Failure paths**

* A command whose enqueue fails is left out of `queue`. This happens when the
  VSGD buffers were never allocated, because the GUC was off at estimate time.
  The host state still changes exactly as the code changes it.

### Directory, KeyValueMap and Registry

`Directory`'s state is the `directory_tt` record: `entries`, `capacity`, the
key array (slots past `entries` keep what `memmove` left, slots never written
are `Unset`), the payloads and the cached `last_access`. Keys are functions from
byte positions to `Bytes`, compared from the top byte down like `dir_keycmp`.
One action per function: `Insert` (binary search, grow by `GrowBy` when full,
shift up), `Remove` (shift down), `Clear`, `Find` (cache check, then the
search, which may read the slot at `entries`) and `Fetch`. The abstraction
`AbsMap` maps the live keys to their payloads; `RefinesKeyValueMap` checks
that every behaviour is one of `KeyValueMap`'s, through
`INSTANCE KeyValueMap WITH map <- AbsMap, result <- AbsResult`.

`Registry` composes `Directory` (`Dir == INSTANCE Directory`) with the Oid
bitmap, the catalog, the set of allocated estimators and the `kde_enable` GUC.
Its actions are `Construct` (`ocl_constructEstimator`, which frees a replaced
estimator), `GetEstimator` (bitmap test, then directory lookup, or a rebuild
from the catalog in which a row may fail to load), `ReleaseRegistry` (persist
and free everything, from an assign hook) and `SetKdeEnable`.

### SampleMaintenance, BinomialDraw and RandomSelection

A table row is a model value of `Row` (its projected coordinates); `table` is
the set of committed live rows, `has_blocks` whether the heap still has
blocks. `sample` maps each of the `N` slots to a row. `rows_in_table` is the
unsigned counter, kept modulo `Modulus` (standing for 2^32);
`nr_of_estimations` is kept modulo `Period`. `pc` is where the backend is:
`idle`, inside `getBinomial` (`binomial`, with `bx`, `bsum`) or inside the
`sampleTuple` refill loop (`draw`, with `targets`, the slots still to fill),
or stuck in a `sampleTuple` that never returns (`spin`).
`hits`, `replaced` and `victim` are history variables that only properties read.

Actions:

* `Insert(r)` is `ocl_notifySampleMaintenanceOfInsertion`. Under CAR it counts
  the row and either pushes it into `floydSampling`'s slots or enters
  `getBinomial`.
* `BinomialStep` is one iteration of `getBinomial`'s loop.
* `Remove(r)` is `ocl_notifySampleMaintenanceOfDeletion`. Under CAR it flags
  the slots that hold the row, within the bitmap's whole bytes, and starts the
  refill.
* `Feedback` is the sample-maintenance part of
  `ocl_notifySampleMaintenanceOfSelectivity`: PRR replaces one slot every
  `Period`-th estimate, TKR the slots the karma kernel flags, and PKR the
  arg-min slot every `Period`-th estimate.
* `DrawOne` and `DrawSpins` are one call of `ocl_createSample`'s `sampleTuple`.
  `DrawOne` meets a live row and fills the lowest target slot. `DrawSpins` is
  the call on a relation with no block. `ocl_createSample` read `blocks = 0`
  once, so `sampleTuple`'s block number `blocks - 1` is `P_NEW`. Every
  `ReadBuffer` then appends an empty page, and the loop never meets a tuple
  and never returns. The backend stays in `spin`, and the heap has a block
  again.
* `OtherInsert`, `OtherDelete` and `Vacuum` are other backends and VACUUM.

Doubles are abstracted to their IEEE class. `random() / (RAND_MAX - 1)` is one
of zero, a fraction, one, or just above one. The karma kernels and `minOfArray`
are not in the repository, so the slots they flag or pick are free choices.

`getBinomial`'s arithmetic is in `BinomialDraw`. `floydSampling` is the
constant operator `FloydSets(n, m)`, the bitmaps a call can return.
`MCSampleMaintenance` binds it to `RandomSelection`'s `FloydOutcomes`.
`RandomSelection` runs `floydSampling`'s loop step by step, and
`FloydRuns(n, m)` counts, for each result, the draw sequences that produce it.
The reference `UniformSubsets` says each m-subset comes from exactly m!
sequences. This split keeps the recursive loop out of the module the proofs
extend.

### Reduction

A call is a set of device commands, each with the wait-list the code gives it:

* sum: `sum_par`, then `sum_seq` behind it;
* min: `init`; then `min_par` if `tuples_per_thread > 0` and `min_seq` if
  `slow_kernel_elements > 0`, each behind `init`; then `min_seq_last_pass`
  behind the events in `events[]`.

`Ready(c)` lets any command whose wait-list is done run, in any order.

The partition is the code's arithmetic:

* the local size is truncated to local memory, then to a power of two;
* `prepareSumDescriptor` rounds `tuples_per_thread` up;
* `minOfArray` rounds it down and gives the rest to `min_seq`, at
  `slow_kernel_data_offset`, into slot `processors`.

The temporary buffers start uninitialised (`Garbage`). `init` sets only the
value buffer to +INFINITY.

The kernels are not in the repository (spec 4.1), so their semantics are
marked `spec_modelled`. Each work-group reduces its stripe of `local_size *
tuples_per_thread` elements, bounded by `elements`. The last pass keeps the
index stored with a minimal slot.

### Dictionary and KernelCache

`Dictionary` models `container/dictionary.c`. A table is a function from
bucket numbers to sequences of `[key, payload]` entries, head first. The hash
`MurmurHash2(key) % hash_table_size` is the constant function `Hash`. The
operators on a table value are the ones `KernelCache` calls:

* `Match` is the key-comparing walk shared by `dictionary_get` and
  `dictionary_insert`.
* `InsertIn` overwrites a known key's payload and returns the old one. Otherwise
  it pushes a new entry at the head of the bucket.
* `RemoveIn` unlinks the first entry with the key.
* `IteratorInit`, `IteratorNext`, `IteratorKey` and `IteratorValue` are the
  iterator. The iterator is a bucket and a position in that bucket's list
  (0 for `NULL`), and `ScanFrom` is its `for` loop over the buckets.

The module's own variables are one dictionary used through `dictionary.h`, for
the proofs. `AbsMap` maps each stored key to its payload.
`RefinesKeyValueMap` says the dictionary behaves as `KeyValueMap`.

`KernelCache` models the OpenCL programs across the life of the global
context. Its state:

* `context`: `ocl_context` as a number, with 0 for `NULL`;
* `registry`: the context's `program_registry`;
* `statics`: the file-level kernel handles;
* `compiled` and `releases`: history counts of `clBuildProgram` successes and
  `clReleaseProgram` calls per program;
* `fetched` and `used`: what the latest call asked for and what it got.

The registry is `INSTANCE Dictionary` with build-parameter strings as keys and
programs as payloads. A program is named by the context it was built in and its
build parameters, and a kernel by its program. `Dims` is a finite set. `Visits` bounds the release walk by the number of
build-parameter strings, which is all a registry can hold. The actions:

* `GetKernel(d)` is a call site that fetches its kernel on every call, such as
  `allocateEstimator`.
* `UseStatic(s, d)` is a call site with a static handle. It follows
  `if (k == NULL) k = ocl_getKernel(...)`, with the estimator's dimensions for
  `computePartialGradient` and 0 for the other handles.

Both run `ocl_getContext` first. When the context is `NULL`, `ocl_initialize`
makes a new one with a fresh registry. Then `GetKernelIn` performs
`ocl_getKernel`: it looks the program up, and on a miss it builds one. The
build may fail (`clBuildProgram`), in which case the call returns `NULL`.

`ReleaseContext` is an assign hook of `ocl_use_gpu`, `kde_samplesize` or
`kde_enable`, which calls `ocl_releaseContext`. That walks the registry with
the iterator (`Walk` and `Visits`), releases every program the walk visits,
and drops the registry. The statics are left as they are, as in the code.

`MCKernelCache` hashes the two build-parameter strings `-DD=0` and `-DD=1` into
one bucket. The lookup therefore has to walk past a colliding entry.
`Dims = {1, 2}`, and `MaxContexts = 2` gives one release and a second context.

## Runs

Each run is listed in `PROJECT.json`. The bounds are `MaxEvents = 6`,
`MinibatchSize = 2` and `SamplePeriod = 3`.

**Pass runs**

* `session` (`KdeEstimator.cfg`, 111,986 distinct states) checks `TypeOK`,
  `KdeReadsSettledBandwidth`, `PendingBandwidthWriteTracked` and
  `BandwidthInv`. The workload is every entry point: estimates, feedback with
  PRR, the bandwidth SQL functions, registry release and the adaptive
  bandwidth GUC. `BandwidthInv` is the strengthened invariant that the proof
  of bandwidth ordering will rest on.

**Violation runs.** Spec section 5 says every device operation waits for the
handles of its true data dependencies. `DataDependenciesOrdered` states this
for every buffer the kernels share: no command that writes a buffer runs
while another command reads or writes it.

* `device_race` (`DataDependenciesOrdered`, `KdeDeviceRace.cfg`, every entry
  point but the GUC, PRR on every feedback). TLC's shortest counterexample is
  two estimates in a row: the second bounds transfer overwrites
  `input_buffer` under the first estimate's gradient kernels. The same
  property also covers three other races, which the hazards list:
  * the untracked accumulate kernel of a non-full mini-batch, against the
    next gradient kernels on `temp_gradient_buffer`;
  * `ocl_setKDEBandwidth` and the batch optimizer, against an in-flight
    online update;
  * the PRR sample write, against the open estimate's gradient kernels.
* `guc_race` (`SeedBeforeUpdate`, `KdeGucRace.cfg`): the VSGD update kernel
  must only run on running averages that the initialize kernel has seeded.
  TLC's counterexample runs an estimate with adaptive bandwidth off, then
  switches it on before the feedback. The feedback counts the query into the
  mini-batch without scheduling any kernel. After a second such round, the
  full mini-batch sets `online_learning_initialized` although no initialize
  kernel ran. Every later mini-batch then updates averages that were never
  seeded.

**Why these bounds are enough.**

* Estimate plus prepare uses five live events. A full mini-batch adds two
  more. The state counts are the same with `MaxEvents = 9`, so the event bound
  never cuts a behaviour off.
* `MinibatchSize = 2` reaches both the initialize and the update kernel, and a
  non-full batch in between.
* `SamplePeriod = 3` keeps the PRR `clFinish` from lining up with the
  mini-batch. With period 2 they coincide, and the race on the running
  averages is hidden.

**Mutants.** Each property has a mutant in `PROJECT.json`: a plausible bug in
the mapped code that makes TLC report the property violated. The mutants are:

* `TypeOK`: an off-by-one mini-batch test;
* `KdeReadsSettledBandwidth`: a KDE wait-list without `optimization_event`;
* `PendingBandwidthWriteTracked` and `BandwidthInv`: a Scott's-rule chain
  that is not waited for;
* `SampleWritesLiveRows`: a `sampleTuple` that accepts a
  `HEAPTUPLE_RECENTLY_DEAD` tuple;
* for `kernel_cache`: a registry lookup that stops at the head of the bucket
  (`FetchedKernelMatchesRequest`), an insert that does not link the new entry
  (`CompiledOncePerContext`), an iterator that skips the rest of a bucket
  (`ProgramsReleasedOnce`), and a new context that reuses the old number
  (`TypeOK`).

**Runs of the other modules.**

* `directory` (`MCDirectory`) checks `TypeOK`, `SortedKeys` and
  `RefinesKeyValueMap`. The two payloads are model values, and the run
  declares them symmetric: no operation of `directory.c` looks at a payload.
  In `KeyValueMap` each action's cheap conjunct `last' = k` comes first, so
  that TLC rejects most candidate steps of the refinement check early. It uses two-byte keys over a
  two-valued byte, so there are four keys. The capacity is 2, growing by 2, so
  both growth and a full array are reached.
  `FindWithinCapacity` states that `directory_find` never reads the key slot
  at `entries`, past the allocation. It fails on the bare directory when the
  array is full and the key is above every stored key. The registry, the
  directory's only user, fills its array too. But `ocl_getEstimator` tests
  the bitmap first, so only registered tables reach `directory_find`, and
  `LookupWithinCapacity` holds in the `registry` run. That run keeps its
  tables inside the bitmap. For an Oid past the bitmap, the bit read is
  itself past the allocation and may be set for an unregistered table. That
  out-of-bounds access is what `registry_bitmap_overflow` reports.
* `registry` (82,384 distinct states) checks `TypeOK`,
  `BitmapMatchesDirectory`, `LookupReturnsRegistered`,
  `NoFreedEstimatorRegistered` and `LookupWithinCapacity`. It covers three tables and two registry lifetimes.
* `registry_bitmap_overflow` (`BitmapWithinAllocation`, violation): an Oid
  beyond the bitmap's bits writes past it.
* `sample_maintenance` (94,192 distinct states) checks `TypeOK`,
  `HitSlotsRefilled`, `DeletedRowLeavesSample`, `FloydUniform` and the action
  property `SampleWritesLiveRows`. The action property says that every slot a
  step changes gets a row that is in the table after the step. The delicate
  case is getBinomial's delayed push of the inserted row: other backends run
  meanwhile, but they cannot see that row.
  `FloydUniform` checks each call that just replaced k slots. The replaced
  set must be a result of `floydSampling(N, k)`, and that function's result
  counts must equal the uniform reference: every k-subset from exactly k!
  draw sequences. The counts are a cached constant table, `FloydCount`. Its bounds are:
  * `N = 4` slots, with `ByteBits = 2`;
  * two rows and all four options;
  * `Period = 2`;
  * `Modulus = 8`, with `MaxCount = 4` and `MaxWrap = 2`.
* `sample_bitmap_floor` (`DeletedRowLeavesSample`, violation): with `N = 3`,
  the third slot lies past the deletion bitmap's whole bytes. A deleted row
  stays in the sample.
* `sample_hang` (`NotificationsReturn`, violation, all options): every
  notification must return. TLC's counterexample deletes the last live row
  while it is in the sample. The refill then has no tuple to draw, and
  `sampleTuple` retries forever.
  The same property covers two `getBinomial` cases, listed as hazards at
  `ocl_sample_maintenance.c:435` and `:321`. In both, the loop's exit
  condition never becomes true:
  * this backend deletes rows that another backend inserted, which wraps the
    unsigned `rows_in_table` to 0, so p = 1/0;
  * x reaches n, and the loop divides by zero.
* `reduction` checks `TypeOK`, `SumMatchesReference` and `MinMatchesReference`.
  Its instance is arrays of 1 to 5 elements over {0, 1, 2}, `P = 2`, a
  work-group size of 2 and local memory for 3 floats. That gives a local size
  of 2 for sums and 1 for minima. The sum then meets both a whole stripe
  (n = 4) and a rounded-up one (n = 5). The min meets `min_seq` alone
  (n = 1), `min_par` alone (n = 2, 4), and both (n = 3, 5), and the last pass
  runs behind them in either order.
* `kernel_cache` (`MCKernelCache`, 9,449 distinct states) checks `TypeOK`,
  `FetchedKernelMatchesRequest`, `CompiledOncePerContext` and
  `ProgramsReleasedOnce`. It uses `Dims = {1, 2}`, so there are three
  build-parameter strings, and a registry of two buckets. The strings for
  0 and 1 dimensions share a bucket, so both the lookup and the release walk
  follow a list of two, and each entry is sometimes the second one. With
  `MaxContexts = 2`, a context is released and a second one is built, and
  builds may fail.
* `kernel_cache_stale` (`CachedKernelMatchesUse`, violation): a kernel taken
  from a static must belong to the live context and to the dimensions of the
  call. TLC finds two ways to break it. First, after an assign hook releases
  the context, `ocl_adaptive_bandwidth.c`'s statics still hold kernels of the
  released programs. Second, the static `computePartialGradient` kernel keeps
  the dimensionality of the first estimator that fetched it.

**Scalings.**

* `ByteBits = 2` stands for the 8 bits of a bitmap byte. `N = 4` fills whole
  bytes and `N = 3` does not, which is the distinction that matters at
  `ocl_sample_maintenance.c:441`.
* `Modulus = 8` stands for 2^32. Only the wrap at 0 matters, and
  `MaxCount`/`MaxWrap` bound the counter on each side of it. Within these
  bounds, a deletion can take the counter below zero and an insertion can
  bring it back to 0.

**Fairness and liveness.**

* `KdeEstimator` has no fairness condition. Every wait-list names older live
  events only, so the queue's dependency graph is acyclic. The host only ever
  blocks on a command it has enqueued. In the model, progress therefore holds
  by construction as long as the device runs commands, and no liveness
  property would say anything about the code.
* `SampleMaintenance` assumes `WF` on `BinomialStep` and `DrawSpins`: the
  backend runs its own loops. It assumes `SF` on `DrawOne`, because
  `sampleTuple` draws a random block and offset on every retry. A row that is
  live again and again is therefore met with probability 1. With only weak
  fairness, another backend could delete and re-insert rows forever to dodge
  the draw. The hangs that `sample_hang` reaches hold even under this strong assumption:
  they come from states where no draw can ever succeed, or where the loop
  condition can never become true. `spin` is one of those states.

## Proofs

`KdeEstimatorProofs` proves with TLAPS, for every value of the constants
allowed by `ConstantsAssumption`:

* `TypeCorrect`: `Spec => []TypeOK`. The queue stays well formed: every wait-list
  names only other live events, and `optimization_event` is `NULL`, a live
  event or a completed one. This is what makes the event hand-over sound.

How the proof goes:

* One lemma per action shows that it preserves `TypeOK`.
* Those lemmas rest on four others:
  * `EnqueueWellFormed` and `EnqueueCommand`: enqueueing under a fresh event
    keeps the queue well formed.
  * `PickFresh`: a finite set with more than n elements yields a member and
    leaves at least n.
  * `FreeFinite`: the set of free events is finite.
* The guards `Cardinality(Free) >= k` become k distinct fresh events through
  `FiniteSetTheorems`.

`ReductionProofs` proves three theorems about the partition arithmetic of
`ReductionPartition`. They hold for every number of compute units allowed by
`PartitionAssumption`, every local size `L >= 1` and every element count `n`.

* `SumStripesCover`: rounding `tuples_per_thread` up puts every element
  `i < n` in the stripe of the work-group `i \div (L * t)`, which lies below
  `P`. This rests on `RoundUpCovers` (`n <= P * L * t`) and on
  `StripeOfIndex`.
* `SumReadsEachOnce`: with the same rounded-up `tuples_per_thread`, each
  element lies in exactly one of the `P` stripes. `SumStripesCover` gives one
  stripe. The lemma `StripesDisjoint` rules out a second one, because two
  stripes of the same size never overlap.
* `MinSplitCovers`: `minOfArray`'s `slow_kernel_data_offset` lies in
  `0..n`, so the unsigned subtraction never wraps. `min_seq` gets fewer than
  `P * L` elements, and `min_par`'s stripes cover everything below the
  offset.

Together these are the arithmetic reason the two-phase reductions read each
element exactly once. TLC's `reduction` run checks the results themselves on
small instances.

The proofs name every quotient with `PICK` from the lemma `Quotient`. Z3 does
not relate a product that contains `\div` to its operands on its own.

The local size itself comes from `PowerFloor`, a recursive function. The
theorems are stated for any positive `L` rather than for `SumLocal` and
`MinLocal`, because that `L >= 1` would need induction over the recursion.
Reduction's kernel semantics use `FiniteSetsExt`'s folds, which reach a
RECURSIVE operator, so they stay with TLC.

`DictionaryProofs` proves two theorems about `container/dictionary.c`. They
hold for every table size, key set and hash allowed by `HashAssumption`:

* `Invariant`: `Spec => [](TypeOK /\ WellHashed)`. Every bucket list holds
  only keys that hash to it, and no key twice.
* `Refinement`: `Spec => RefinesKeyValueMap`. Whatever the collisions, the
  dictionary behaves as the abstract map of `KeyValueMap`. The mapping is
  `AbsMap`, each stored key to its payload.

How the proofs go:

* `TypeOK /\ WellHashed` is itself inductive. Without `WellHashed` it is not
  enough to know the type: a key stored in a bucket it does not hash to would
  be invisible to `dictionary_get`, and a key stored twice would survive
  `dictionary_remove`.
* `MatchAt` and `MatchNone` characterise the walk `Match`. `GetInEntry` and
  `GetInNone` turn them into the value of `dictionary_get`.
* `InsertFound`, `InsertNew`, `RemoveFound` and `RemoveNone` give each operation's
  effect on the bucket it touches. `Rebucket` lifts that effect to the whole
  table: if one bucket keeps its hash and uniqueness property, the table does.
  `PushProps`, `JoinAround` and `UnlinkProps` supply the sequence facts: the
  pushed head, and the splice of `SubSeq`s around the removed entry.
* `InvStep` is the step case of the invariant. `LookupIs` says `AbsMap` is
  `GetIn` on every key. The refinement step then has one case per action:
  * `Create` and `Release` map to `Clear`;
  * `Get` maps to a stutter;
  * `Insert` maps to `Put`;
  * `Remove` maps to `Delete`.

  The three proof steps are combined with `PTL`.

`KernelCache` uses the same `Dictionary` operators, so these theorems cover the
registry's lookup for any number of build-parameter strings and buckets.

`BandwidthProofs` proves the bandwidth-ordering invariants of `KdeEstimator`.
They hold for every value of the constants allowed by `ConstantsAssumption`:

* `BandwidthInvariant`: `Spec => []BandwidthInv`.
* `SettledBandwidth`: `Spec => []KdeReadsSettledBandwidth`. A KDE kernel never
  runs while a command that writes the bandwidth is still queued.
* `WriteTracked`: `Spec => []PendingBandwidthWriteTracked`. Between host calls,
  the only queued bandwidth writer is `optimization_event`.

How the proof goes:

* `BandwidthInv` is inductive as it stands. Its conjuncts after `TypeOK` are
  named `ReadyToRun`, `KdeOwned` and `WritersTracked`:
  * a running command has an empty wait-list;
  * a KDE kernel exists only while `rangeKDE` blocks on it;
  * every queued bandwidth writer is tied to the host's position `pc`.
* The two properties that the `session` run checks are not inductive on their
  own. `KdeReadsSettledBandwidth` needs to know that the writers sit in the
  KDE kernel's wait-list, and that a command with waits does not run.
  `PendingBandwidthWriteTracked` says nothing about the states inside a SQL
  function, and a step out of one of them could break it.
* There is one lemma per action: `StartInv`, `FinishInv`, `EstimateBeginInv`,
  `EstimateEndInv`, `FeedbackBeginInv`, `SampleMaintainedInv`,
  `FeedbackEndInv`, `BlockingInv`, `ScottsBandwidthSetInv`, `UnblockInv`,
  `RegistryReleasedInv` and `ToggleAdaptiveInv`.
  * A host call enqueues commands through `Enqueue`. `CalmExt` records that the
    new queue keeps every old command and adds only commands that do not run
    and are no KDE kernel (`Calm`). Under `CalmExt`, `ReadyToRun` and
    `KdeOwned` carry over by `CalmExtFacts`.
  * `WriterKernels` lists which kernels write the bandwidth. Each action lemma
    then checks `WritersTracked` for the writers that the call adds.
* `InvImpliesSettled` and `InvImpliesTracked` derive the two run properties.

`KernelCacheProofs` proves two of the kernel cache's invariants. They hold for
every set of dimensionalities, number of contexts, table size and hash allowed
by `KernelCacheAssumption`:

* `FetchedKernelCorrect`: `Spec => []FetchedKernelMatchesRequest`.
* `CompiledOnce`: `Spec => []CompiledOncePerContext`.

How the proof goes:

* The inductive invariant `CacheInv` adds `CoreInv`, a statement about the
  registry. `OwnedBy(registry, context, compiled)` says that the live
  context's registry maps each build-parameter string to the program of that
  context exactly when the program has been built, and to `NULL` otherwise.
* `CoreInv` also says:
  * the registry is empty when there is no live context;
  * no program of a context later than `created` has been built yet;
  * the registry is a well-hashed table.
* Without `OwnedBy`, neither property is inductive. A registry that still held
  a program of a released context would answer a lookup with the wrong program.
  A registry that missed a built program would let `buildProgram` run again.
* The registry lookups come from `DictionaryProofs`, taken through `INSTANCE`
  with the registry's keys and payloads. They use `InsertLemma`,
  `NewTableProps`, and two lemmas proved for this purpose:
  * `InsertGetIn`: a lookup after an insert;
  * `NewTableGetIn`: a lookup in a new table.
* `GetKernelInOwned` gives the effect of one `ocl_getKernel` on an owned
  registry.
* `ContextAfterOwned` gives the registry that `ocl_getContext` leaves.
* `FetchCore` combines those two, and `GetKernelInv`, `UseStaticInv` and
  `ReleaseContextInv` are the action lemmas.

`KernelCacheProofs` also proves `TypeCorrect`: `Spec => []TypeOK`, for the
same constants. It follows from `CacheInv` together with `StaticsType`. That
conjunct types the statics, the release counts and the kernels in use. The
release counts need the walk to visit finitely many positions. `BuildParamsFinite`
gives that, through the finiteness of `Dims`.

`SampleMaintenanceProofs` proves three properties of sample maintenance:

* `LiveRowsWritten`: `Spec => SampleWritesLiveRows`, for every value of the
  constants allowed by `SampleAssumption`. Its invariant `LiveInv` says:
  * `sample` is a function on the slots;
  * while `getBinomial` runs, the row it will push is still in the table.

  Other backends delete only rows they can see, so they never delete that
  row. This backend is inside the insert's notification, so it cannot delete
  it either.
* `RefillComplete`: `Spec => []HitSlotsRefilled`, under the hypothesis
  `WholeBytes`.
* `DeletedRowGone`: `Spec => []DeletedRowLeavesSample`, under the same
  hypothesis.

`WholeBytes` says that `N` is a multiple of `ByteBits`. The hypothesis is
needed, not a convenience. The `sample_bitmap_floor` run shows
`DeletedRowLeavesSample` failing for `N = 3`, and `HitSlotsRefilled` fails in
the same way. `AddressableAll` proves that with whole bytes the host's bitmap
loop reaches every flagged slot.

The two invariants are not inductive on their own, so the proof uses
`RefillInv`. TLC checks `RefillInv` on the `sample_maintenance` instance
before the proof. Besides the types, it has two parts:

* `RefillOwed`:
  * every flagged slot not yet refilled is still a target of the refill loop;
  * there are no targets between handlers or during `getBinomial`;
  * nothing is flagged while `getBinomial` runs.
* `VictimTracked`, about the row a CAR deletion removes:
  * during the refill, the row is out of the table, the heap still has
    blocks, and every slot holding it is a target;
  * after the refill, no slot holds it;
  * a non-empty table means the heap has blocks.

One lemma per action preserves `RefillInv`, and `NextInv` combines them.

Three facts make `VictimTracked` inductive:

* `DrawOne` writes a row from the table, never the removed row.
* `OtherInsert` cannot bring the removed row back during its refill.
* `Vacuum` waits for the deletion, so a CAR refill always finds a relation
  with blocks.

`RefillOwed` allows targets in `spin`. A handler stuck in `sampleTuple` still
owes its slots, but it never returns, so `HitSlotsRefilled` says nothing
about it. That hang is what `sample_hang` reports.

None of this depends on which slot the loop fills first, or on how
`floydSampling` picks.

**Only model-checked:**

* `Directory`'s `SortedKeys` and its refinement of `KeyValueMap`, and
  `Registry`'s invariants. They rest on the binary search `BSearch`, a
  recursive function. Its result cannot be established for every input without
  induction over data.
* `KernelCache`'s `ProgramsReleasedOnce`. It rests on the recursive iterator
  walk `Walk` of `ocl_releaseContext`, for the same reason.
* `CachedKernelMatchesUse`, which TLC finds violated.
* The `Reduction` semantics, which use folds that reach RECURSIVE operators.
* `FloydUniform`, which counts the draw sequences of the recursive `FloydRuns`.
* `SampleMaintenance`'s `TypeOK`. Its conjunct `replaced \subseteq Slot`
  depends on the bitmaps `floydSampling` returns. The proofs leave `FloydSets`
  unconstrained, so that `CarPush` covers every bitmap.
* The race findings, which are violations found by TLC.
* Every liveness property.

**Out of TLAPS's reach:** liveness and `ENABLED`, induction over data, and
modules that reach a RECURSIVE operator.

## Not modelled, and the plan

What is left out, and why, is listed per component in `PROJECT.json`. The next
steps, in order:

1. TLAPS proofs for the other modules:
   * `Directory`'s `SortedKeys`, and its refinement of `KeyValueMap`. This
     needs the binary search rewritten so that its result can be stated as a
     lemma without induction;
   * `Registry`'s `BitmapMatchesDirectory`. `Registry` extends `Folds`, so
     this first needs the fold moved to a module of its own.

   The modules that use `PowerFloor`'s recursive function, or `FloydRuns`,
   stay TLC-only where the proof would need induction over data.
2. The RMSProp online strategy, with its own mini-batch state machine.
   `ocl_prepareRmspropOnlineLearningStep` reuses the per-descriptor sum
   buffers with empty wait-lists, which may race the way VSGD's do. Its
   static kernels would join `KernelCache`'s `StaticKernels`.
3. The range-request merge of `kde_add_rqentry`.
4. In `KernelCache`:
   * a `clCreateKernel` failure after a successful build, which the model
     folds into the build's outcome;
   * a change of `kde_bandwidth_representation` within a context, which
     changes the build-parameter strings. The model fixes the representation.

Left out for good:

* the STHoles histogram, which is out of scope in spec section 1;
* error-metric arithmetic;
* the catalog row formats;
* a backend that dies without running its exit callbacks. Estimators built since
  the registry was loaded are then lost, and nothing in this code recovers them;
* the `nlopt` search itself;
* the contents of the OpenCL kernels, which are not in the repository.
