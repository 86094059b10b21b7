# Verification of EGAD

EGAD is a deterministic transaction engine that runs epochs of transactions on a
GPU. The database lives in CPU memory (the *Primary Store*, a durable mapping);
the GPU memory is a cache of it (the *Execution Cache*). Every record keeps two
versions, each tagged with the epoch that wrote it. While epoch E+1 is staged and
executed, a worker thread writes the results of epoch E back. If the process dies,
a fresh one reads a durable marker E, rolls the store back to the end of epoch E-2
by demoting tags, and replays epochs E-1 and E from the input log.

This directory holds TLA+ modules translated from `src/EGAD`, the configurations
that model-check them with TLC, and proofs checked by TLAPS. `PROJECT.json` is the
index: components, runs, the source lines of every definition, the mutants that
show each property can fail, the hazards each property is about, and the theorems.

## 1. Inventory

CRID is a record id of the Primary Store, GRID a slot of the Execution Cache.

### Dual-version records (`storage.h`, `gpu_storage.cuh`, `scatter_gather.cu`)
- State: two (value, tag) pairs per record; tag 0 is "never written".
- Operations: pick the slot to read before an epoch, pick the slot to overwrite,
  demote the tags of discarded epochs.
- Hard: ties between equal tags; readers, writers, the gather and the rollback pick
  slots in four different pieces of code, which have to agree.

### YCSB epoch pipeline (`benchmarks/ycsb.cpp`, `ycsb_hybrid_stager.cu`, `scatter_gather.cu`)
- State: Primary Store, cache contents and dirty bits, flush handle, worker, the
  `sg_transfer_done_` flag, the durable marker, the epoch loop.
- Operations: `prepareEpoch`, `transfer_versions`, `execute`, `sync_flush`,
  `bumpRecoveryMarker`, `start_flush_epoch_async` / `periodicFlush`, the worker's
  two halves, the final signal and join, crash, rollback and replay.
- Interactions: the main thread and the worker share the Primary Store without a
  lock per record; the worker waits on a condition variable between its halves.
- Hard: the gather of epoch E+1 races the scatter of epoch E; death in the middle of
  a value copy; the position of the marker update; the last worker's wait; a second
  crash during rollback.
- Properties: recoverability at every step, no race, serial reads, no lost write,
  serial final state, termination.

### Cache slot management (`ycsb_hybrid_stager.cu`, `crid_grid_index.cu`, `reclaim_flags.cuh`, `util_device_ring.cuh`)
- State: free ring, flat CRID-to-GRID index, resident list, FIFO cursor, needed and
  reclaim flags, insert bitmap, shared eviction counters.
- Operations: mark deleted slots, look up, collect victims (two kernels), rename,
  pop from the ring, transfer.
- Hard: GPU threads race for victims through one atomic counter; flags that outlive
  their epoch or their record; array positions shared between two code paths.
- Properties: index, resident list and counters agree, victims are distinct and
  enough, transfers go where the index points.

### Transfers (`scatter_gather.cu`)
- State: pinned and device buffers with their capacities, two of each for chunks;
  streams of queued copies and kernels; events.
- Operations: `transfer_versions`, `writeback_versions` (whole and in chunks),
  `wb_async_*` and `wb_chunked_d2h_scatter` (the flush), growth, `reset`.
- Hard: a buffer refilled, scattered or freed while a queued command still uses it;
  chunk arithmetic at the last chunk and for entries larger than a chunk.
- Properties: what a call was asked to move has arrived when it returns, commands
  stay inside their buffers, no buffer is replaced in use, every chunk moves its
  loop on.

### Recovery marker (`recovery_meta.h`)
- State: two cursor banks and a 64-bit publish word (tag, generation, epoch).
- Operations: `prepare` (fill the inactive bank), `publishPrepared`, `read`.
- Hard: death between any two stores; wrap-around of the 16-bit generation.
- Property: a reader sees the old snapshot or the new one.

### YCSB index, timeline, shadow logs (`ycsb_gpu_index.cu`, `epoch_timeline.cuh`, `ycsb_cpu_shadow_index.cpp`)
- State: GPU hash map, log cursors, durable insert-key and delete logs.
- Operations: bulk insert and its undo, fast resolution, resolution through the
  timeline, appending to the logs, rebuilding from the logs.
- Hard: duplicate entries once a map slot has been erased; deletes and inserts of
  one key in one epoch; death half way through an append; replaying deletes over
  reinserted keys; the cursor history after a recovery.
- Properties: every operation resolves as in serial order, the map is the serial
  one between epochs and after recovery, published log entries never change.

### Planner and executors (`ycsb_gpu_submitter.cu`, `gpu_execution_planner.cu`, `ycsb_hybrid_executor.cu`, `ycsb_cpu_executor.cpp`, `gpu_storage.cuh`, `storage.h`)
- State: sorted operations and their locations; records, version scratch array,
  progress of every warp or thread.
- Operations: expand, sort, count, locate; claim pieces, load versions, spin, read,
  choose, store, publish.
- Hard: two version words loaded separately while a writer changes one; spinning on
  a warp that may not be resident; tie-breaking; lanes that wait for several fields.
- Properties: serial reads, committed version untouched, serial final state and
  exact dirty marks, termination.

### Transaction arrays and bridges (`txn.h`, `txn_bridge.*`, `gpu_txn.*`, `runEpoch`)
- State: one array per stage, which arrays are the same memory, copies in flight,
  offset tables of packed arrays.
- Operations: `Initialize`, `Link`, `StartTransfer`, `FinishTransfer`, the stages of
  `runEpoch` in their order.
- Hard: a stage that renames ids in an array another stage shares; a copy that runs
  beside the next stage; the length of a packed epoch.
- Properties: every stage gets its own epoch's ids in the form it expects, packed
  copies are complete, nobody writes under a copy.

### Durable files (`util_memory.cu`)
- State: the files of the durable directory, over several processes.
- Operations: launch, map or allocate each region, write, exit or die.
- Property: a created store starts with zeros (violated, section 4).

### Gacco baseline (`gacco/`)
- State: the lock table (access, offset, lock), records, threads and blocks.
- Operations: plan, claim a block, spin, read, write, hand the lock on.
- Hard: locks passed between blocks that may not be resident; what the previous
  epoch left in the table.
- Properties: locks are held in turn, an epoch is serial, the kernel ends.

### TPC-C pipeline (`tpcc.cpp`, `tpcc_hybrid_stager.cu`, `tpcc_recovery.cpp`)
- State: the YCSB pipeline's once per table (eight stagers, caches and persistent
  workers), one marker for all, the pre-warmed backlog of order lines.
- Operations: pre-warm, eight `prepareEpoch` side by side, `execute`, drain and pack
  per table, `bumpRecoveryMarker`, `submit_flush_worker` table by table,
  `periodicFlush`, final drain, crash, rollback table by table.
- Hard: tables at different places of the same epoch when the marker moves or the
  process dies; a cache filled before epoch 1 by a transfer that is told epoch 0.
- Properties: all tables roll back to the one epoch the marker names, no byte of an
  epoch overtakes the marker, serial reads across tables, serial final state.

The other parts have no model; section 8 and `PROJECT.json` say why.

## 2. Modules

| Module | What it is |
| --- | --- |
| `DualVersion` | slot selection from two tags |
| `SerialLog` | the input log and its serial execution |
| `EpochPipeline` | main thread, worker, crashes, recovery |
| `SerialStore` | what the pipeline promises: a store that applies one epoch at a time |
| `RecoveryMeta`, `AtomicMarker` | the two-bank marker, and a marker that changes at once |
| `StagerCache`, `CacheBinding` | slot management, and the binding it promises |
| `SerialIndex` | the serial oracle (`ycsb_timeline_oracle.cpp`) |
| `EpochTimeline` | resolution of one epoch over sorted events |
| `YcsbIndex` | the index, its durable logs and their recovery |
| `ExecutionPlan` | submitter and planner: the operations of a batch, their order, the scans |
| `EpochExecution` | the piecewise kernels warp by warp, and the CPU executor |
| `ScatterGather` | transfers: host, streams, events, buffers |
| `TxnFlow` | transaction arrays, bridges, the order of an epoch |
| `DurableStore` | durable files over several processes |
| `GaccoLocks` | lock table and executor of the baseline |
| `TpccPipeline` | the TPC-C pipeline: a stager and a worker per table, one marker |
| `EpochPipelineProofs` | proofs about `EpochPipeline` |
| `RecoveryMetaProofs` | proofs about `RecoveryMeta` |
| `TpccPipelineProofs` | proofs about `TpccPipeline` |
| `EpochExecutionProofs` | proofs about `ExecutionPlan` and `EpochExecution` |
| `StagerCacheProofs` | proofs about `StagerCache`, its refinement of `CacheBinding` included |
| `GaccoLocksProofs` | proofs about `GaccoLocks` |
| `ScatterGatherProofs` | proofs about `ScatterGather` |
| `TxnFlowProofs` | proofs about `TxnFlow` |
| `MC*` | small instances |

How they fit together. `EpochPipeline` takes four things as single steps that
other modules refine or explain:

- binding records to slots (`PrepareBind`) is detailed in `StagerCache`, which
  implements `CacheBinding`, and `CacheBinding!Bind` is that step in parts;
- executing an epoch (`Execute`) is detailed in `EpochExecution`: each written
  record ends with the last writer's value in its older slot, tagged and dirty
  (`LeavesSerialState`), having, on the GPU, read serial values (`ReadsSerial`);
- moving the marker (`BumpMarker`) is detailed in `RecoveryMeta`, which implements
  `AtomicMarker`;
- a transfer or a flush of a set of entries is detailed in `ScatterGather`, which
  shows that each entry arrives at its record before the call returns.

`TpccPipeline` takes the same steps once per table. `TxnFlow` is the order in which
`runEpoch` calls index, submitter, stager, planner and executor.

`WellFormed(log)` in `SerialLog`, what the pipeline assumes of record ids (an insert
mints a fresh id, nothing touches a record before its insert), is what `YcsbIndex`
shows of the ids the index hands out (`ResolvesSerially`, minted ids counting up).

### State and actions

**EpochPipeline.** `storeVer`, `storeVal` and `marker` are durable; everything else
is lost in `Crash`. A value is the number of the epoch that wrote it, or `Junk` for
torn, unwritten or wrongly computed bytes: `NewVal` yields `Junk` whenever a
transaction found anything but the serial value, so a wrong read spreads. `pc` is
the main thread's place in `runEpoch` and `runBenchmark`. `part` and `rest` are the
two halves of the flush set; an entry goes from `part` through `copying` and `copied`
into the store, any number of entries at once (OpenMP), value before tag.
`Halves` keeps a quirk of the code: a first half of zero records means *all
records* to `wb_chunked_d2h_scatter`, so a one-record flush is scattered twice.
`RollbackTag` demotes one tag at a time, so a crash can fall inside the sweep.
Whether the writeback overlaps the next epoch is chosen in `Init` (`overlap`).

**StagerCache.** One action per kernel or host step of `prepareEpoch`; the two
collection kernels are split per thread into the check of the counter and the
atomic increment (`CheckCount`, `CollectReclaim`, `CollectFifo`). Epochs draw their
records, inserts and deletes nondeterministically; ids are minted once.

**RecoveryMeta.** `Fill` is one plain store of one cursor; `Crash` may come between
any two stores.

**YcsbIndex.** `index[k]` lists the map's entries of key k in probe order, because a
bulk insert may put a second entry in front of a live one once a slot has been
erased; that behaviour of the cuco map is external and taken from how
`insertFresh` and `eraseTentative` guard against it. `MirrorEpoch` and
`MirrorEpochDeletes` store one log element each. `Crash` is disabled between the
first and the second marker update after a recovery unless `CrashInReplay`
(section 4).

**EpochExecution.** `at[p][r]` is where piece p is with its access to record r. The
value is stored in two steps, so that a reader could see it half written; on the GPU
the two version words are loaded separately (`HYBRID_RECORD_LAYOUT`; the 64-bit load
of the other layout is the case without a step between), on the CPU together. On split
records a piece may work on one field or on all fields of its row, whose lanes wait
side by side and converge. On the CPU the transactions are dealt to the threads in
turn, and a thread runs the pieces of its transactions in order. On the GPU, DELETE and NOOP pieces do no record work; the CPU executor knows
neither.

**ScatterGather.** The host's steps are those of the three calls, one per chunk;
each stream is a queue of copies, kernels, event records and event waits that runs
at its own pace. Entries hold what they were packed from, so a refilled or torn
buffer shows up as a wrong record. Byte sizes are kept as small numbers because
chunk lengths are quotients of them. A wait of the host or of a stream is always for
a record queued before it, so no circle of waits can form; that a call returns then
rests on its chunk loops moving on.

**TxnFlow.** Memory is named by the array that allocated it; `Link` makes two arrays
name the same memory. `RunEpochYcsb` and `RunEpochTpcc` list the calls of the two
`runEpoch` functions in order; a started copy is a step of its own that may run at
any time until `FinishTransfer` has waited for it. The range queries that TPC-C's
auxiliary index writes into the index's array (`tpcc.cpp:459`) are part of `IndexTxns`.

**GaccoLocks.** One action per step of a thread: `releaseLock` draws the
record's next offset in one step and hands the lock on in another.

**DurableStore.** A region's bytes are the set of processes that have written to it;
a process maps its regions one after the other and may die between any two.

**TpccPipeline.** Values and tags are those of `EpochPipeline`, the cache is the set
of resident records of each table (slots are `StagerCache`'s matter). `todo` holds the
tables whose parallel section, or whose turn in a sequence of calls, is still to come;
`pc` is the place in `runEpoch`. `packed` are entries a durable run holds back until
the marker has moved (`defer_submit`), `work` and `landing` those its workers have.
A transaction spans tables: `BasesSerial` spoils every write of an epoch if one base
in any table is wrong. Whether the run is durable and whether it overlaps are chosen
in `Init`. `PreWarm` passes epoch 0 to the transfer as the code does, and `FreshSlot`
is the zeroed pool of `GpuAllocator`. The growing tables of the store start with zero
tags; where they are pageable memory of a run without a durable directory this rests on
`malloc` returning fresh pages, as the code does not clear them.

## 3. Runs

| Run | Instance | Distinct states | Question |
| --- | --- | --- | --- |
| `pipeline` | 3 records (1 insertable), 2 slots, 3 epochs, 2 crashes; writeback overlapped or synchronous | 572,879 | recoverability, races, serial values, refinement of `SerialStore`, termination |
| `recovery_meta` | 2 cursors, 2 counts, 2 epochs, 4 generations | 91,440 | atomicity of the marker |
| `ycsb_index` | 2 keys; 2 epochs of 3 operations, 3 epochs of 2 with 2 crashes | 1,545,244 | both resolution paths against the oracle, rebuilding, replay, stable logs |
| `ycsb_cursor_shift` | 1 operation per epoch, 3 epochs, 1 crash | violation | section 4 |
| `execution` | up to 4 pieces on 2 records or fields; 3 resident blocks, or 2 CPU threads with transactions of 2 pieces | 491,209 | every interleaving of an epoch, no warp spins forever |
| `cpu_values` | the batches on stock rows of `execution` | violation | section 4 |
| `stager_cache` | 5 records, 3 slots, 2 threads, 3 epochs | 1,083,859 | slot management, refinement of `CacheBinding` |
| `transfers` | 3 calls of up to 5 entries, chunks of 1 or 2 entries, or smaller than an entry | 307,862 | delivery, capacities, progress of the chunk loops |
| `txn_flow` | 2 transactions of 2 types, 3 epochs, 6 configurations | 49,728 | what each stage finds in its array |
| `gacco` | 3 transactions of 2 operations, 3 records, 2 of 3 blocks resident, 2 epochs | 102,348 | serial execution under the locks, termination |
| `tpcc_pipeline` | 2 tables of 3 and 1 records, caches of 2 and 1, 3 epochs, 2 crashes | 2,304,764 | one marker for several tables, pre-warm, serial values |
| `durable_create` | 4 regions, 3 processes | violation | section 4 |

Why the bounds are enough for the cases to happen:

- Two slots for three records force evictions, among them of a record whose
  writeback is still in flight. Three epochs cover a marker (3) with a rollback
  target after the initial population, its rollback, and a replay of two epochs
  over it; the second crash may fall into the rollback sweep or the replay. Flush sets
  have zero, one (the double scatter) and two entries.
- Two generation bits wrap the marker's generation several times.
- A loaded and an unloaded key with three operations cover insert-delete-insert and
  delete-insert-delete of one key in one epoch and the interplay of two keys; three
  free rows are fewer than two epochs can ask for, so the last one is reached and
  passed. The instances with crashes put a read second, after what it may depend on.
- Four pieces cover every type of location (record A, record B, version array) with
  readers before, between and after writers; three resident blocks are fewer than the
  pieces. Two records with two pieces each can both have version writes; their elements must
  differ. `Starts` has never-written records and both orders of tags.
- Three slots and two threads let more threads pass the counter check than victims
  are missing, and let the FIFO pass top up the reclaim pass.
- Five entries make three chunks with a short last one, or five chunks in a
  writeback, so buffers are used again within a call; a later call may be longer
  than the ones before it. A writeback entry is larger than `chunk_bytes`, so the
  quotient that gives the chunk length is zero before it is raised to one.
- Sizes that differ between types and arrays make an epoch longer or shorter than
  the one before it in each packed array; three epochs use every stage's array again.
- The baseline's transactions take two records in crossing orders.
- Of the TPC-C tables one grows, evicts and is pre-warmed, the other is fixed; the
  stagers and the workers run in any order, so either table may be ahead when the
  process dies, and submission visits them in the other order than rollback does.

Symmetry: loaded records of the stager. The runs that check liveness use none.

Deadlock is checked where the end of a run is an explicit stuttering action.
`transfers` and `txn_flow` stop after their last call or epoch, and `durable_create`
after its last process, and say so.

Each property has a mutant in the module, marked as such: the definition altered as a
plausible bug would alter it (a join left out, a marker one epoch early, a flag not
cleared). TLC finds the property violated under the mutant.

## 4. What the runs show

All properties hold, with three divergences between comments or docs and the code:

`ycsb_cursor_shift`. `bumpRecoveryMarker` (`ycsb_recovery.cpp:172`) always shifts
`p1` into `p2`, and its comment says this leaves "p2 == f_{crash_epoch-2} (the
rollback target)". After a recovery with marker E the first replayed epoch is E-1;
its update publishes marker E again, with `p2` the cursors of end-of-(E-1). Until the
next update the marker's cursors are one epoch ahead of its version rollback. A
comment in `rebuildCucoFromShadow` asks for two more epochs "before the next rollback
is valid", which is this window, and the crash injector never fires in a recovering
process. `ycsb_index` shows that this window is the only one: with crashes
allowed everywhere else, before the first and after the second update of a
recovering process, the rebuilt index is the serial one. The version tags have no
such window: `CrashSafe` is proved for any number of crashes anywhere.
(`tpcc_recovery.cpp` shifts its cursors in the same way.)

`durable_create`. A durable region is created by opening its file with
`O_RDWR | O_CREAT` and setting its length; a file that is already there keeps its bytes,
and the memset of `MallocDurable` is reached only by regions that are not pinned. The
comment at `util_memory.cu:38` describes the mode as "create + zero", and
`ycsb.cpp:828` says of the marker "zeroed on create". In a directory an earlier run has
used, the marker and the pinned tables start with that run's bytes. The
directions for running the tests ask to "clean the durable dir before and after every
run" (`EGAD_plotting/RUNNING_TESTS.md:114`), which keeps this from happening.

`cpu_values`. On the CPU, `writeToTable` stamps an element of the version array without
storing the value (the copy at `storage.h:179` is commented out), in every layout. A read
that falls between the first and the last write of a record in an epoch is sent to such
an element and returns what an earlier epoch left there. `EGAD/README.md:17` says that
"the `cpu_only` baseline is value-correct only on the stock layout", and
`EGAD_plotting/PLOTS.md:43` calls it value-incorrect on the other one; the run has the
stock layout and two read-modify-writes of one record, the second of which reads the stale
element. What holds for the CPU is in `execution`: a read that goes to a record gets the
serial value (`RecordReadsSerial`), and a record ends with the value of its last writer
(`LeavesSerialState`). On split rows that settles the field; a write of a whole row on the
CPU sets one field and carries the others over from the stale read, which the model,
knowing a value by its writer, does not follow. The GPU stores the value, and its reads
are serial without exception (`ReadsSerial`).

What the passing runs add to the tests. The interleavings behind `AdmitUncontended`,
`CallsDeliver`, `NoWriteUnderCopy` and `VictimsDistinct` depend on timing no test
controls. The crash injectors fire at six places of an epoch; the runs crash at every
step, with tables of TPC-C landed and unlanded in any combination. `ReadsSerial` of
`tpcc_pipeline` holds with the pre-warm although its transfer fills the slot that
readers do not use: it rests on the pool and the initial population both being zero,
as the mutant that leaves the pool unset shows.

## 5. Fairness

`FairSpec` of `EpochPipeline`: weak fairness of the main thread and of the worker.
Both are OS threads whose steps, when enabled, stay enabled until taken; the
condition variable is modelled by its predicate. Crashes are not fair and are
bounded.

`FairSpec` of `EpochExecution`: weak fairness of each resident warp, and of giving a
free place to a waiting block. Warps of resident blocks are scheduled independently
by the hardware and a spinning warp does not keep others from running; nothing
is assumed about blocks that have no place, and a block keeps its place until all
its warps are done. CPU threads are OS threads, each fair.

`FairSpec` of `GaccoLocks`: weak fairness of the host's plan and end of kernel, of
starting a block that fits, and of every thread of a started block. The last is a real
assumption about the hardware: threads of one warp that spin on each other's locks
progress only where threads are scheduled independently, as on the architectures the
build names (80, 86, 89).

## 6. Proofs

A theorem holds for every value of the constants that the module's named assumption
allows; a run shows the same property on one instance. Every inductive invariant below
was checked by TLC on the instance of the component's run before it was proved.

### The YCSB pipeline

For every set of records, slots and batches, every number of epochs and crashes
(`ConstantsAssumption`, `CapacityAssumption`: an epoch's records fit the cache, else
`prepareEpoch` throws), `EpochPipelineProofs` proves:

| Theorem | Property |
| --- | --- |
| `TypeCorrect` | `TypeOK` |
| `CrashSafe` | `RollbackSound` |
| `OneVersionSurvives` | `OneDiscardedSlot` |
| `AdmissionRaceFree` | `AdmitUncontended` |
| `ExecutesSerially` | `ReadsSerial` |
| `CommitsSurvive` | `NothingLost` |
| `FinishesSerially` | `FinalStateSerial` |
| `EvictionsAreClean` | `EvictedNeverDirty` |
| `Refinement` | `ImplementsSerialStore` |

The argument. None of these is inductive: whether a crash is harmless depends on what
is in flight, which depends on what the cache held, which depends on what admission
read. The inductive invariant `Inv` says:

- `MarkerInv`: where the marker stands relative to the epoch loop. Before the
  update it is the epoch, or one ahead during the first epoch of a replay.
- `StoreInv`: rolling back now yields the serial state of the recovery point, and
  one slot of each record is not younger than it.
- `LandedInv`: the store plus the entries in flight is the serial state of the last
  epoch that left the cache (`Done`).
- `FlightInv`: entries in flight are the writes of epoch `Done`, one per record,
  each aimed at the slot that rollback does not use; a record in flight is still
  resident when the next epoch starts.
- `ResidentInv`, `CacheInv`: a cache slot agrees with store plus flight on both tags
  and on its base value (`Coherent`), or was written by this epoch (`Written`).
- `UndoInv`: rollback proceeds tag by tag.

That a record in flight is resident is what makes admission race-free: it is never
fetched. It holds because the packed records were executed in the epoch just ended,
and `PrepareBind` evicts at the start of the next, when the fetch list is fixed.

`TypeOK` of the pipeline and of the marker are proved and not in a run.

There is one lemma for each action. For
`Refinement`, every step but `BumpMarker` leaves the recoverable state alone, and
`BumpMarker` moves it by one epoch, or not at all: the first update publishes marker
2, whose target is the initial population as before, and the first update of a
replay publishes the marker the process started from.

### The marker

`RecoveryMetaProofs` proves `MetaTypeCorrect` (`TypeOK`) and `MetaRefinement`
(`ReadsAtomic`) for any cursors, counts and any even number of generations: the
parity of the next generation differs from the live one, wrap-around included, so
the stores of an update never touch the live bank.

### TPC-C

`TpccPipelineProofs` proves `MarkerFirst`, `Spec => []MarkerBeforeBytes`, for any
tables, capacities, orders and batches that satisfy `TpccAssumption` (an epoch's records
fit their caches; both orders visit the tables; the constants have their types): in a
durable run no byte of epoch E, of any table, is in the store or with a worker before
the marker is E+1. The property speaks of workers only, and what reaches them was packed
from the cache earlier, so the inductive invariant follows a version on its way:

- outside recovery the marker is at most one past the epoch, and exactly that from
  its update until the epoch is submitted or flushed;
- tags in the store and with the workers are below the marker;
- tags in the cache and of packed entries are not above the epoch, and there are
  packed entries only between packing and submission;
- a dirty version is cached, and its table is still to be collected;
- records waiting for their transfer are bound to a slot, and so is what the epoch
  needs of a table whose stager is done.

The same module proves, from `TpccAssumption`, that a run serves and leaves the serial
state however it is cut off:

| Theorem | Property |
| --- | --- |
| `RollbackToSerial` | `RollbackSound` |
| `ExecutorReadsSerial` | `ReadsSerial` |
| `RunLeavesSerialState` | `FinalStateSerial` |

There is one marker and a worker per table, so that at a crash some tables are an epoch
ahead of others. The inductive invariant `SerialInv` therefore speaks of each table by the
epoch it has reached (`Done(t)`): `Landed`, a record without an entry in flight has the
serial value of that epoch in the store; `Aimed`, an entry in flight is a write of that
epoch and goes to the version rollback does not use; `Placed`, where in the epoch something
may be in flight, and that no record waiting for its transfer is; `Bound` and `CacheSerial`,
a resident record agrees with store plus flight or was written by this epoch; `Marks`,
the dirty marks and the packed entries are exactly the epoch's writes of the tables still
to be collected or submitted; `Recoverable`, the durable part, which crash and rollback
(`Undoing`) keep.

### Planner and executors

`EpochExecutionProofs`, from `ExecutionAssumption` (finitely many records, a batch is a
sequence of operations, versions at the start are older than the epoch):

| Theorem | Property |
| --- | --- |
| `EpochReadsSerial` | `ReadsSerial` (GPU) |
| `EpochRecordReadsSerial` | `RecordReadsSerial` (CPU, reads of a record) |
| `EpochKeepsCommitted` | `CommittedKept` |
| `EpochLeavesSerialState` | `LeavesSerialState` |

The first half is about the planner and has no steps: for every batch, the prefix sums over
the sorted operations send the last writer of a record to the record (`LocB`), every other
writer to a version element of its own, and every reader to the element of the last writer
before it, to the record if that is the last writer of all, or to the committed version
(`LocA`) if there is none (`PlanIsRight`). The scans are counts of operations in
`ExecutionPlan`, so this needs facts about cardinalities and no induction. The second half
is the invariant `ExecInv` of the kernels: the older slot of a record follows its last
writer from the old value over a half-written one to the published one (`SlotFollows`), a
version element follows its writer (`ElementFollows`), a reader that has loaded the two
version words one after the other has a pair that names the right slot, whatever was
published in between (`Located`), and what was read is serial, but for the CPU's reads of
version elements (`GotSerial`).

### Execution Cache

`StagerCacheProofs`, from `CacheAssumption` (a capacity and a number of threads above zero,
finitely many records):

| Theorem | Property |
| --- | --- |
| `IndexAgreesWithSlots` | `IndexMatchesSlots` |
| `EvictionListDistinct` | `VictimsDistinct` |
| `CollectionCoversDeficit` | `EnoughVictims` |
| `ReclaimFlagsSound` | `FlaggedAreDeleted` |
| `TransfersGoWhereIndexed` | `TransfersMatchIndex` |
| `StagingBinds` | `ImplementsBinding` |

`CollectionCoversDeficit` is the hard one. The threads scan offsets in strides from the
cursor and stop when the count reaches the deficit; the invariant (`Collected`) records
that every offset a thread has passed was empty, needed or taken, and that the list is
shorter than the deficit only while the count is. When all threads have run out, every
resident record that is not needed has been taken, and by cardinality there are at least as
many of those as the deficit in an epoch that fits. The rest of `CacheInv` relates index,
ring, totals and the slots given out so far.

### Gacco

`GaccoLocksProofs` proves `LocksHeldInTurn` (`HeldInTurn`) and `LocksRunSerially`
(`RunsSerially`) from `GaccoAssumption`, for any number of transactions, records, epochs,
block size and resident blocks. `GaccoInv`: a piece that has passed the lock has seen every
earlier piece of its record done (`Ordered`); the record's offset is the place of the first
piece that has not drawn, and the lock names that piece's transaction unless a hand-over is
under way (`TurnKept`); the value of a record is the serial value up to its last writer
(`ValueSerial`). That places of one record are consecutive in the sorted table, and that a
transaction has each record once, is what makes the hand-over reach the right piece.

### Transfers

`ScatterGatherProofs`, from `ScatterGatherAssumption` (the sizes are natural numbers, those
divided by are not zero), for calls of any sizes in any sequence, any chunk sizes and any
pace of the streams:

| Theorem | Property |
| --- | --- |
| `TransfersStayInBuffers` | `BuffersHold` |
| `ChunkLoopsMoveOn` | `ChunksMoveOn` |
| `BuffersGrowUnused` | `GrowsUnused` |

`TransferInv`: each allocation has the size its capacity member says (`Follows`; the two
chunk buffers that are also used without chunks have a capacity of their own there), the
capacities cover the call that runs (`Covered`), every queued command fits and only the
streams of the call hold any (`QueuesFit`). Most calls drain their streams before a buffer
may grow. The flush does not: its second half may grow the host buffers that the first half
copied into. That this is harmless follows from the order of its stream (`FlushOrdered`):
a queued copy is followed by the record of its buffer's event, a queued record is one the
host has not seen, and a buffer of which a record is queued is still held, so that when
both buffers are scattered nothing is queued (`FlushDrained`).

`BuffersHold` excepts `h_prev_slots`: `ensure_versions_capacity` grows it to the length of
the call while it returns early by the capacity of the packed buffers, so that a transfer
without chunks can find it too small. No stager makes such a transfer, and no other call
uses the buffer.

`ChunkLoopsMoveOn` needs little of this: a chunk has at least one entry, because its length
is a quotient raised to one, or what is left, which is not nothing while the loop goes on.
`MoveOn` adds that a flush starts with no chunk recorded and where its first half ends.

### Transaction arrays and bridges

`TxnFlowProofs`, from `TxnFlowAssumption` (at least one epoch and transaction, the sizes of
every type between 1 and `kBaseTxnSize`, the stager's executor is on the GPU), for any
epochs, types, sizes and placements and any order in which the streams copy:

| Theorem | Property |
| --- | --- |
| `EveryStageGetsItsEpoch` | `ConsumersGetTheirs` |
| `PackedCopiesAreWhole` | `PackedCopyWhole` |
| `CopiesAreUndisturbed` | `NoWriteUnderCopy` |

The proof has three layers.

- Offsets. The prefix sums of positive sizes grow strictly, stay within the capacity and
  put every transaction below the total (`PlacesAre`). What a recursive definition computes
  is out of the prover's reach by induction over numbers; here the least index at which a
  claim fails exists because `<` is well-founded on the natural numbers (`Least`), and that
  gives the contradiction.
- Order. The four lists of steps (each benchmark, with and without the stager) have the
  same order of the steps that matter (`Scheduled`), so that the place in `runEpoch` tells
  what was done before it (`Schedule`).
- The invariant `IInv`, in terms of the steps done (`Past`): every array points at the
  memory it is meant to use and every bridge joins its two arrays (`Wired`); the generator's
  arrays are as generated (`Generator`); a bridge between devices has copied what it no
  longer has queued, and has something queued only between its start and its finish
  (`Copied`); each stage's array and offset table hold what the last stage to write them
  wrote, in this epoch (`Filled`).

## 7. Only model-checked

- Liveness (`RunTerminates`, `Terminates`, `KernelsEnd`): fairness is
  outside the prover.
- `YcsbIndex`, `EpochTimeline`: folds over sequences of operations need induction
  over data.
- `CallsDeliver` of `ScatterGather`: it follows what the buffers hold at every moment of
  a call, which the proved invariant does not.
- The three violations of section 4: TLC's counterexamples are the evidence.

## 8. Not modelled

- TPC-C index, auxiliary index and CPU shadow. `TpccPipeline` assumes of them what
  `WellFormed` states. Their logs and cursors work as those of `YcsbIndex`; the lookups
  by customer and by district have no model.
- TPC-C transaction bodies, submitter and the renaming of record ids: arithmetic on
  fields no property tells apart, over the planner and the record access that
  `ExecutionPlan` and `EpochExecution` model. The TPC-C executor of Gacco likewise.
- The preference for delivered order lines among the TPC-C victims: a victim is any
  record the epoch does not need.
- The micro benchmark (a driver without staging or recovery), the older index
  prototypes (wrappers of library containers), logging, plotting and scripts.
- The 64-bit packing of operations (`execution_planner.h`) with its field widths: the
  limit of 2^20 transactions is far from any instance TLC can hold. The growth of
  `d_needed_` (`ycsb_hybrid_stager.cu:633`) and swallowed worker exceptions are listed as
  hazards without a property.
- A region that falls back to the heap: `DurableStore` models it, and nothing is
  promised about such a run.

## 9. Abstractions to know about

- Durability is that of a mapping that outlives the process: stores survive in program
  order. Power failure and cache flushing are not modelled; the code does not
  claim them.
- Split rows (ten field records per record) are modelled in `ExecutionPlan` and
  `EpochExecution`, with two fields. The stager's step from record to field ids is left
  out.
- `PrepareBind` may choose any slots; `Halves` any split. The code's choices are
  among them.
- `PrepareDone` takes the release of the worker and the zeroing of insert tags as one
  step; nothing the worker does depends on those tags.
- The worker's exception handler (`ycsb_hybrid_stager.cu:1685`) logs and swallows
  CUDA and affinity errors; such failures are not modelled.
- Kernel launches succeed; hash tables do not run out of memory. Thread pinning is left
  out.
