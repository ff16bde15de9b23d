# A verification project for Qwen-Flash-SM80-170HX

The repository runs a large language model on two GPUs. Its own code, as opposed to
the vLLM files it vendors and patches, is mostly about one thing: a 51 GB table of
*per-layer embeddings* (PLE) stays on an SSD, and for every forward pass the rows that the
tokens of the batch need are planned on a CPU thread, read by GPU Direct Storage
into GPU 0, gathered, broadcast to GPU 1 and consumed by a model that is already
running or being replayed as a CUDA graph. Several host threads, six CUDA streams, two
processes and a pool of I/O workers synchronise by events, by flags in device memory, by
queues and by mutexes. That path is what most of these modules model; the others model the
control of the inference engine it is built into: the scheduler and the multiprocess
executor, patched vLLM files, as far as the repository contains them. Paths below are
relative to the repository.

Contents: 1 inventory, 2 modules, 3 runs, 4 proofs, 5 findings, 6 what is left out,
7 what would come next.

## 1. Inventory

| component | state it keeps | operations | interacts with |
|---|---|---|---|
| **Input-driven connector**, `src/vllm_ple_gds_runner.py` `InputDrivenGdsPleConnector` (rank 0) | active sequence, records by sequence, a mailbox queue, first error, pinned copies of the inputs, one output tensor, one `CpuGpuSemaphore` flag | `prepare_forward`, `signal_dummy_outputs`, `consume_output`, `release_outputs`, `wait_for_output_ready`, the request thread, `_fail`, `close` | model thread, reader, transport |
| **TP2 transport**, `src/tp_ple_transport.py` (both ranks) | sequence, active, verify_remaining, a stream, an event, the output and flag of rank 1 | the same interface; broadcast, CPU rendezvous, digest checks | connector of rank 0, NCCL, CPU process group |
| **Persistent reader, wrapper**, `src/ple_gds/persistent_reader.py` | queue of free slots, set of active slots, closed | `read_at`, `iter_read_at`, `release`, `rebind_output_slots`, `close` | native reader |
| **Persistent reader, native**, `csrc/ple_gds/ple_gds_persistent.cpp` | per slot: staging, output, events, released; worker pool: generation, pending, failed, lanes | `read_ids` (planning), `read` (I/O, gather), `release`, `rebind_outputs`, `close`, `worker_loop` | device, files |
| **Ticket-mailbox connector and IPC reader process**, `src/vllm_ple_gds_runner.py` `GdsPleRunnerConnector`, `IpcGdsProducer`, `_ipc_gds_producer_main` | slots with states, tickets or prefetch identities, done values, a queue of tickets, a child process with command and result queues | `submit`, `reserve_prefetch`, `produce_prefetch`, `consume`, `consume_prefetch`, `release`, `discard_prefetches`, `cancel_prefetch`, `close` | token shadow, reader, model runner hooks |
| **CPU token shadow, sample pipeline**, same file `CpuTokenShadow`, `PpPinnedSampleBridge`, `PpSampleControlWorker`; `pp_utils.py` `PPHandler` | token history and generation per request, a ring of pinned cells, queued jobs, receives not yet consumed | `append_sampled`, `plan`, `add_or_replace`, `remove`; hooks in the model runner | ticket connector, last pipeline rank |
| **Scheduler**, `src/vllm/v1/core/sched/scheduler.py` | requests with status and token counts, running, waiting and skipped queues, free and deferred blocks, steps in flight | `schedule`, `update_from_output`, `add_request`, `finish_requests`, `reset_prefix_cache`, `set_pause_state`, load completion and failure | executor, KV cache manager, connector, model runner |
| **Executor**, `src/vllm/v1/executor/multiproc_executor.py` | futures, failure flag and callback, message queues, worker processes, death pipes | `collective_rpc`, `execute_model`, `register_failure_callback`, `shutdown`, monitor thread; the worker's loops | engine core, workers |
| **Artifact generation**, `src/ple_gds/compact.py`, `manifest.py` | generation directories, `CURRENT` | convert, validate, publish | checkpoint files, file system |
| **Enrolment and start-up check**, `scripts/prepare-ple.py`, `src/vllm_ple_gds.py` | the identity file | enroll; check `CURRENT`, load, load again for the reader | artifact, reader |
| **RAM-disk copy**, `scripts/ple-ram-setup.sh`, `ple-ram-artifact.py` | `/dev/ram0`, a mount, a copied generation, an ownership record | create or verify | artifact, identity, other users of `brd` |
| **Model runner order**, `src/vllm/v1/worker/gpu/model_runner.py` | input buffers, graphs | `execute_model`: prepare inputs, connector, model, release | all of the above |
| KV cache sizing, collectives, kernels, scripts | see `PROJECT.json` | | |

What is hard in it:

* **Generations.** One flag per GPU says "rows ready" (1) or "consumed" (0); it does not say
  of *which step*. The host runs ahead of the device, so a flag left from the previous
  step can be mistaken for the current one unless stream and event order excludes it.
* **Reuse of buffers** while the device still works on them: input buffers, pinned
  copies, slot staging, slot outputs, host lanes of the workers.
* **Two ranks** that must reach collectives and flag waits in the same order, also when
  rank 0 fails half way.
* **Error paths** that must give a slot back exactly once, wake a spinning GPU wait and
  still fail the step.
* **Close** against readers, queued copies and waiting workers.
* **Publication of the artifact.** A 51 GB file is copied for hours, published by renames and
  fsyncs and then trusted by its name and metadata alone: crashes between two of these
  steps, a checkpoint replaced meanwhile, a second conversion, killed runs of the RAM-disk
  setup.
* **Prediction.** The rows of a decode step are read before the step is scheduled, from a
  token that arrives on another thread; requests are removed and re-added meanwhile.
* **Steps in flight.** The scheduler plans steps ahead of the outputs of earlier ones, while
  requests are preempted, reset, aborted and resumed, and blocks are freed under steps that
  still use them.
* **Answers without names.** The executor's queues carry answers in the order of the calls and
  nothing else; workers fail, hang and die; two threads shut down.
* **Boundary arithmetic** from row ids to pages, ranges, lanes and gather offsets.

What makes each component correct is stated as the properties of section 3; the
hazards, each at its line and with the properties that cover it, are listed in
`PROJECT.json`.

## 2. Modules

### PleHandoff: one step's rows between two ranks

Composes the connector of rank 0, the transport of both ranks, the request thread and the
order in which the model runner calls them. A CUDA stream is a FIFO of operations; hosts
only append (`queue`), the device executes the heads (`Execute`, `StartMove`,
`FinishMove`). A data movement has a beginning and an end, so two can overlap; `RaceFree`
looks at the set `busy`. A buffer's content is the number of the step whose data it
holds. Events count records and firings, so that a wait means "the last record before
the call", as CUDA's does. The broadcast moves data when both ranks have it at
the head of their transport stream.

| code | model |
|---|---|
| `execute_model` up to `prepare_forward` | `Begin` (the `stage` operation is `prepare_inputs`), `Serial` is `require_serial_input` or more than 112 tokens |
| connector `prepare_forward`, `_wait_metadata_enqueued` | `Launch`, `Handoff`, `HandoffTimeout` |
| `wait_for_output_ready` | `Ready` |
| transport `prepare_forward` | `SyncMain`, `PrepareRemote`, `GatherStatus`, `Transfer`, `Drain`, `GatherDrained`, `Verify`, `GatherVerify` |
| `signal_dummy_outputs`, `consume_output`, `release_outputs` | `SignalDummy`, `Forward`, `Release` + `ReleaseRecord` |
| `_request_loop`, `_produce_in_process`, `_handle_ipc_result` | `Get`, `StageCopies`, `Notify`, `SyncCopies`, `Plan`, `Produce` or `ReadFails`, `Complete` |
| `_fail` | `Fail` then `Wake` (the wake-up is enqueued after the lock is released) |
| shutdown | `Close`, `Join` |

`faults` says which faults a behaviour may meet: none, or failing reads and expired host
waits. The workload (`kind`) is any sequence of dummy, full-graph and dynamic steps, with the
dummies first and no full-graph step directly after them: profiling and graph capture
run before the first request, and a first request begins with a prefill.

### PersistentReader, LeasePool: slots and leases

`PersistentReader` joins the Python wrapper (`Read`, `Get`, `Enter`, `Abort`,
`Release`, `Put`, `Close`) with the native slot (`Lock`, `Wait`, `Launch`, `ReadFails`,
`Rebind`, `NativeClose`) and the device (`Gather`, `Consumed`). A client waits for
a slot on the queue, enters it under the slot lock, takes the binding mutex, waits for
the slot's events, reads, launches the gather, holds the lease, releases. The
two halves of `release` (under the lock, then `put_nowait`) and of `close` are separate
actions, because other threads run between them; so is a failed read's clean-up. `LeasePool` is the abstract
promise: a slot is lent to at most one client, the pool closes only when nothing
is lent, and lends nothing after. The refinement maps "holds" to "is in `_active_slots` on behalf of".

### WorkerPool: the I/O threads

One caller (reads and `close` exclude each other by `output_binding_mutex_`) and the
worker threads of mode `sync_mt` with `Q38_PLE_HOST_READ`: start-up and its failure,
the fence on `host_copy_done`, publication of a generation, the reading of ranges with
the shared failed flag tested outside the mutex, the pending count, collection, the copies of lane prefixes,
their failure, stop and join. The branch for cuFile has the same protocol and no copies.

### ReadPlan, MCReadPlan: from row ids to bytes

`read_ids` as pure operators (`Pages`, `Merge`, `PlanRanges`, `Order`, `Place`,
`GatherOffset`), folded with the community modules; what the I/O leaves in the slot (`Staged`) and what
the gather takes from it (`Gathered`); and the control that falls back from one
read to chunks. `CompactRanges` is the planner of the offline reader
(`compact.plan_page_requests`), used as the reference of the native one. Sizes are in
units of 32 bytes scaled down: a page of 8 and a row of 5 stand for 4096 and 160,
so that rows straddle pages in every alignment. `MCReadPlan` gives the sets of requests.

### GenerationStore, AtomicTable: publishing an artifact

`GenerationStore` has one action per step of `convert_compact`: copy, fsync of the data,
digest and metadata, fsync, validation against the source, rename, `chmod`, fsync of the
directories, temporary pointer, fsync, rename to `CURRENT`, fsync; any step may fail (`Fail`)
and run the `finally` block (`Discard`). `convert` of `manifest.py` is the same without
`Seal` and `SyncGeneration`; `compact` is the set of converters that run the former. Around it:
enrolment (`EnrollLoad`, `EnrollHash`), the start-up check and the second load by
the reader (`CheckCurrent`, `CheckGeneration`, `OpenReader`), a checkpoint that changes and a
machine that crashes.

The assumption about storage is explicit. Directory operations (rename, `chmod`) go through an
ordered journal, as on ext4 and XFS: a crash leaves the directories as they were at one
moment since the last operation that fsync of the directory concerned has made durable.
The bytes of a file are certain to survive only after fsync of that file; otherwise they
are kept or lost file by file. The output directory exists; size and modification time
identify a version of the source, as `check_sources` assumes; the three `chmod`s are one
step.

`AtomicTable` is the abstract promise: a register of whole tables, a history that only an
unacknowledged publication can be taken from by a crash. `history` is refined by the
source versions of the published generations, and would be `None`, a value that is no table,
for a generation that is not a copy of one version.

### RamArtifact: the copy in memory

The setup script with the helper's `layout`, `copy` and `verify` is one sequential process of
which one run at a time exists (`flock`); a run may end anywhere (`Exit` stands for `set -e`, a
refusal for memory or size, and a signal; `CopyRaises` for an exception, which also
removes the destination). Between runs, and where nothing excludes it during them, the source is
republished, the payload on either side is damaged, someone else loads `brd`, the machine
reboots. The identity file does not change during a run, and the mount point is free.

### TicketMailbox: rows for a pipeline stage that knows its tokens late

The connector of the first pipeline rank with everything that feeds it. The token at position `p`
of generation `g` of a request is the pair `<<g, p>>`, so that the rows of a batch are known
by the history they stand for.

| code | model |
|---|---|
| hooks of `update_pp_decode_requests`, `remove_request`, `add_requests`, `prepare_inputs` | `Schedule`; `FreeIndex`, `Discard`, `Forget`; `Prepare` |
| `consume`, `consume_prefetch` | `Acquire`, `Submitted`, `Expire` |
| `release`, and the main stream | `Launch`; `Await`, `CopyRows`, `Forward`, `ConsumerDone` |
| `pp_receive`, `PpPinnedSampleBridge.stage`, `PpSampleControlWorker.submit` with `reserve_prefetch` | `Receive` |
| `PpSampleControlWorker._loop` with `append_sampled`, `produce_prefetch`, `cancel_prefetch` | `WorkerWaits`, `WorkerAppends`, `WorkerPlans`, `WorkerCancels`; `produce_prefetch` is `WorkerProduces`, `WorkerChecks`, `WorkerSends` with the child, `WorkerProduces`, `WorkerReads` or `WorkerReadFails` without, then `WorkerReports` after an error, and `WorkerSignals` |
| `_producer_loop` | `ProducerTakes`, `ProducerReads`, `ProducerReadFails` |
| `_ipc_gds_producer_main`, `_handle_ipc_result` | `ChildTakes`, `ChildReads`, `ChildLands`, `HandleResult` |
| shutdown | `Shutdown`, `JoinWorker`, `CloseConnector` |

Slots, shadow and ring are taken under their locks, and the actions end where the locks do; what a thread does outside them and
another can see is an action of its own, such as `submission_ready.set()` at the end of `produce_prefetch` (`WorkerSignals`), the command to the
child (`WorkerSends`) and the zeroing of an output after an error (`ReadBreaks`). A read is begun
(`writing`) and lands later (`Land`, `ChildLands`), so that a slot given back too early shows. `Late` names three moments at which the code gives a slot
away too early (findings 2 to 4 of section 5): a behaviour may contain those in `Late`, and in the others the thread that would do it waits.
Errors that stop the model thread are values of `raised`, those of the control worker of `werr`.

### Scheduler, MCScheduler: tokens, rows and blocks

One call of `schedule()` or `update_from_output()` is a chain of actions, one per turn of the code's
loops; `plan` and `step` hold the locals. Calls from outside (`AddRequest`, `Abort`, `SetPauseState`,
`Reset`) come between calls. `flight` holds the steps not yet reported. `mode` chooses a configuration:
one step at a time with drafts and mamba cache mode "align"; three pipeline stages; the
asynchronous scheduler with drafts; the same with a KV consumer connector that recomputes failed loads, or
fails the request. What is not in the repository (`AsyncScheduler`, `KVCacheManager`, the engine loop,
the connector) is modelled from how `scheduler.py` calls it. `worker` is the model runner's own
count of tokens (`add_requests`, `update_requests`), compared with the scheduler's.

| code | model |
|---|---|
| `schedule`, running requests | `Begin`, `SkipRunning`, `ScheduleRunning`, `PreemptRunning`, `RunningDone` |
| `schedule`, waiting requests | `SkipWaiting`, `Promote`, `Load`, `PadFits`, `Admit`, `WaitingDone` |
| `_update_after_schedule`, the `SchedulerOutput` | `Finish` |
| `update_from_output` | `Collect`, `SkipRow`, `UpdateRow`, `OutputOver`, `EndUpdate` |
| KV connector output | `LoadDone`, `LoadFails` |
| `reset_prefix_cache` | `Reset`, `ResetRunning`, `ResetDone` |

`MCScheduler` adds the symmetry of the requests, which is sound as nothing orders
them but the queues and no liveness is checked.

### Executor: calls, answers and ends

The engine thread (`Register`, `Store`, `Call`, `TakeResult`, `Drain`, `Read`, `ReadFails`, `Return`, `Stop`), the
monitor thread (`Notice`, `Report`), `shutdown` as run by either (`Enter`, `Mark`, `CloseDeathWriters`,
`Terminate`, `Kill`, `CloseResponses`, `CloseQueues`) and per worker the busy loop, the output thread and the death-pipe thread
(`Take`, `Join`, `Finish`, `Raises`; `Forward`; `DeathPipe`, `WorkerExits`). A step is a collective:
a rank that has entered it waits for the others (`joined`). An answer carries, for the model only, the call
it belongs to and the steps its ranks were in together.

### The proof modules

Each extends the module it is named for: `PersistentReaderProofs`, `WorkerPoolProofs`, `GenerationStoreProofs`, `RamArtifactProofs`,
`TicketMailboxProofs`, `SchedulerProofs`, `ExecutorProofs` (with two invariants, one for the failure report and one for
the answers) and `PleHandoffProofs`, whose invariant is long enough to have a module of its own, `PleHandoffInvariant`. See section 4.

## 3. Runs

| run | bounds | checks |
|---|---|---|
| `PleHandoff` | 3 steps, 1 verified, dispatched after the previous result or ahead of it; faults with the former | type; `HandoffSafe`, `FailClosed`; liveness `EveryStepFinishes` |
| `PersistentReader` | 3 clients, 2 slots, 4 reads | type; `SlotAccounting`, `DataIntact`, `NothingAfterClose`; liveness `Progress`; refinement `PoolSpec` |
| `WorkerPool` | 2 workers, 2 ranges a lane, 3 reads | type; `LanesKept`, `ResultHonest`; liveness `ReadsEnd` |
| `ReadPlan` | all sets of at most 6 of 13 rows (three pages of a block, two blocks), in order and reversed with a duplicate, and stray ids; gaps of no page and of one | type; `RowsExact`, `PlansSound` |
| `GenerationStore` | 2 converters (compact, or one compact and one block-format), 2 pieces of data, 2 source changes, 1 crash | type; `CrashSafe`, `ReturnedIsDurable`, `ServedWhole`, `TornIdentityRefused`; refinement `ImplementsAtomicTable` |
| `RamArtifact` | 2 generations, 3 runs | type; `DestinationWhole`; action property `EarlierRunKept` |
| `TicketMailbox` | 2 requests, 4 steps of which the first has request 1 or both, 3 slots, pipeline of 2, prompts of 2 and at most 5 tokens; producer thread or IPC child; failing reads and expired waits in the first 3 steps; none of the moments in `Late` | type; `RightRows`, `ShadowIsHistory`, `DiscardedSlotAlive`, `NeverStuck` |
| `Scheduler` | 3 requests (2 with a connector) with prompts of 1 or 4 tokens and up to 3 new ones, model length 6; 5 blocks (3 with a connector) of 2 tokens, budget 5; 1 abort, pause or reset | type; `OutputInOrder`, `RowsSound`, `BlocksSafe`, `NoStall` |
| `Executor` | 2 ranks, 2 calls, 2 steps in flight, both scheduling modes; a worker raises, one dies, the engine process is lost | type; `OwnAnswer`, `NoFalseAlarm`; liveness `Progress` |
| `PleHandoff_wake`, `TicketMailbox_discard`, `TicketMailbox_signal` | the last two as `TicketMailbox`, without faults, with one mode and one moment of `Late` each | expected violations, section 5 |

Several properties are conjunctions of named parts, each stated with its own comment in the module:
`HandoffSafe` is `RaceFree` (no operation of a stream overlaps another on a buffer), `RightGeneration` (on both ranks the forward reads
the rows of its own step), `ReceiverAfterProducer` and `CommunicationOver` (order of the serialized path); `FailClosed` is
`ResultsHonest` and `NoSpuriousError`; `SlotAccounting` is `EachSlotOnce` and `OwnershipAgrees`; `Progress` of the reader is
`SlotsReturn` and `CloseCompletes`; `LanesKept` is `WorkInsideCall`, `LaneIntact` and `CopiesComplete`; `PlansSound` is
`PlanFitsSlot`, `PlannersAgree` and `ChunkFitsSlot`; `DestinationWhole` is `OwnedIsWhole` and `ReadyIsEnrolled`; `NeverStuck` is
`NoInternalError` and `NoStandstill`; `RowsSound` is `RunnerAgrees` and `ChunksAligned`; `Progress` of the executor is `Released`,
`WorkersExit` and `FailureReported`. The definitions marked "Mutant:" in the modules are faulty
variants of the one that follows them; put in its place each breaks the property (or the part) it was
written for, which shows that the bounds let the hazard happen.

Why the bounds are enough. Stream hand-off: the flags and events couple a step
to its neighbours only; three steps give a first, a middle and a last one, and every pair of
kinds in a row. Faults are combined with dispatch after the previous result and a dummy first step: a fault ends
the workload, and what counts is the step it meets and the one before. With two slots and three clients a client waits for a slot, two slots
are in use, and a slot is reused, also after a failed read. Two workers and three
reads give a late worker, a failed read followed by a good one and a lane refilled
twice. The planner's requests contain rows that share a page, straddle pages, end at a
block's padding, fill a range to its limit and overflow lanes and slot. Two
converters give every overlap of two publications; two source changes let the source
change before and during a copy; one crash is followed by enrolment and start-up on what
it left (a crash collapses the journal and ends all conversions, so a second one finds
a state the first could have found). Three runs of the RAM-disk setup are a killed one, its repetition
and a verification.

The shipped mailbox has more slots than a pipeline of two can have prefetches and tickets under way; three make
it full with one of each and a discarded one. Three steps are a prefill, a decode whose prefetch is reserved by the prefill, and a
decode after that, or a request removed and added again under the same id, or a second request that joins; the fourth consumes a slot that was given back and
reserved anew meanwhile, which is what it takes to see rows of another prefetch or a stale event. `Opening` leaves out that request 2 is alone in the first step, which
differs from request 1 alone only in the order of generations; a fault in the fourth step (`FaultSteps`) would be followed by the end only. The scheduler's
pools are too small for all requests, so that preemption happens while their output is in flight; model length, output limit, block size and
budget do not divide one another, so that each of them ends a row. Prompts of 1 and 4 give a prefill in one step, one in
chunks, and a resumed request longer than its prompt. For the executor two calls are enough for an answer to be
mistaken, two ranks for a collective that one does not enter. Its calls were also explored to three for `OwnAnswer`.
`Dies` strikes one worker, and the engine process is lost only before that: with both gone nothing is left to observe.

**Fairness.** Weak fairness of every thread that has something to do and of every stream
and kernel: operating system and device schedule them, and no thread spins with a lock
held. Faults, new reads and close are never forced. `SlotsReturn` further uses that a
caller returns its lease, which every caller in the repository does in a `finally`.
In `Executor` nobody is obliged to make calls, to fail, or to stop an engine without a reason; a worker's threads,
the monitor and a thread inside `shutdown` go on when they can. A thread that reads an answer with a timeout goes on in any case
(`ReadFails`), one without a timeout only when there is an answer or a closed queue.
`PleHandoff`, `PleHandoff_wake` and the runs of `TicketMailbox` switch deadlock checking off: after a raised error
the engine really stops, and a workload ends; so does `GenerationStore`, whose conversions come to an end. It and
`RamArtifact` have no fairness: they state safety only, as nothing promises that a
conversion or a setup is ever finished. `TicketMailbox` and `Scheduler` state the absence of a standstill as an
invariant (`NeverStuck`: some thread can move without waiting for a timeout; `NoStall`: a step with something to do schedules
something), which needs no fairness and is checked on many more states than a liveness property would allow.

## 4. Proofs

`PleHandoffProofs` proves, for any number of steps (`MaxStep`) of any kinds, any number of verified steps, both ways of dispatching
steps, and, when a step is dispatched after the result of the one before, whatever reads fail or waits expire (the model
has no faults in steps that are dispatched ahead of results; assumptions: `StepAssumption`, `ModeAssumption`, `FaultAssumption`):

| theorem | property | hand-off |
|---|---|---|
| `TypeCorrect` | `TypeOK` | serialized or not |
| `HandedOver` | `HandoffSafe` | serialized |
| `ResultsAreHonest` | `ResultsHonest`, the first part of `FailClosed` | serialized or not |
| `FailsClosed` | `FailClosed` | serialized |

"Serialized" is the assumption `Serialize` (`Q38_PLE_SERIALIZE_LARGE_INPUTS`, as shipped). It is an assumption of two theorems because
without it rank 1 does not order a dummy step with the transport (section 5), and TLC finds `HandoffSafe` violated there.

The argument. None of these properties says anything about what is still in the queues, and none is inductive. What makes the protocol
work is that the sequence of operations a stream ever executes is fixed by the workload: step `n` contributes `Script(d, s, n)` to stream `s`, where the
first `d` steps are dummies. So the state of a stream is a *cursor*, the step `at[s]` it is in and the number `ph[s]` of operations of
that step it has executed, and its queue is a piece of the scripts from there on (`Queues`). The cursors are not
variables of the model; the invariant `Inv` says that there are some for which `IInv` holds. Flags, events, buffers and the rows read are
then functions of the cursors, and the waits bound how far two cursors can be apart:
`Copying` and `Sending` tie the copies and the transport of rank 0 to its main stream, `Matched` the two transports by their
broadcasts, `Producing` the reader and the flag of rank 0, `Receiving` the flag of rank 1, `Fires` the events. `Device0` and `Device1`
collect them. On the host's side, `Mains` and `Counts` say how many operations each label of the model thread has enqueued, `Ranked` which
rendezvous the ranks have been through together, and `Served`, `Requests` and `Reading` where the request
thread is with the step it serves. An operation that
executes moves one cursor (`OneMoves`) or, for the broadcast, two, and for each stream one arithmetical lemma shows that the ties survive; a thread that
enqueues appends the next piece of a script (`Push`), and the host's part is about labels and counts only. Errors need care: the error stream
zeroes rank 0's output and sets its flag out of order, so what is said of output and flag holds while `Clean`, and afterwards
nothing but that rank 0 will not return this step (`Faulty`, `Owned`). `RaceFree` is then read off the cursors: what each stream accesses is a
function of its cursor (`Access0`, `Access1`), and the pairs that would clash are excluded by the ties (`Apart`).

`PersistentReaderProofs` proves, for every set of clients, every finite set of slots and any
number of reads (assumptions: `SlotAssumption`, `ClientAssumption`, `BoundAssumption`):

| theorem | property |
|---|---|
| `TypeCorrect` | `TypeOK` |
| `SlotsAccounted` (from `SlotsConserved` and `OwnersAgree`) | `SlotAccounting` |
| `DataKept` | `DataIntact` |
| `CloseIsFinal` | `NothingAfterClose` |
| `ImplementsPool` | `PoolSpec` (refinement of `LeasePool`) |

The argument. `EachSlotOnce` and `OwnershipAgrees` are inductive only with the typing
fact that a client has a slot exactly where it carries one. `DataIntact` is not
inductive: that no gather is pending when `Wait` overwrites the staging memory depends
on the events being recorded whenever work is pending (`EventsCover`); that the rows
of a consumer are in the output depends on the lease's rows being there once its gather
has run (`LeaseFilled`); and a read in its I/O phase is alone with its slot (`AloneInIO`). `NothingAfterClose`
needs that a closed reader has no active slot and no pending work (`ClosedIsEmpty`), and
`BindingMutex` that `Rebind` and `NativeClose` meet no client inside the native reader.
`IInv` is their conjunction; `Initially`, `Step` (one step per action, one below it per
conjunct) and `Invariance` establish it. Two lemmas on queues without duplicates
(`PopQueue`, `PushQueue`) carry the slot queue. The refinement uses that `Enter`
acquires, `Release` and `Abort` give back, `Close` shuts, and the rest stutters.

`GenerationStoreProofs` proves, for every set of converters of both formats, any number of pieces,
source changes and crashes (assumptions: `ConverterAssumption`, `BoundAssumption`):

| theorem | property |
|---|---|
| `TypeCorrect` | `TypeOK` |
| `CurrentIsSafe` | `CrashSafe` |
| `ServedIsWhole` | `ServedWhole` |

The argument. `CrashSafe` speaks of the moment after `Swap`, so the invariant must remember what
each earlier step has achieved (`Progress`: the data is durable after its fsync, the digest
is that of the data, the generation is in the directory after its rename, ...). That the
pieces are of one version comes from time alone (`InTime`: no piece is older than the
description of the source, so a source that validates has not moved). That no later step
damages a published generation needs that CURRENT, in every directory a crash may leave,
names only conversions that no longer touch their files, and that generations never leave the
directory (`InOrder`): the clean-up of a failure then spares them. `Serves` is the same for the open
reader. `IInv` is the conjunction; the lemmas `Grows` and `Shrinks` say what appending to the
journal and securing it do, and `Frame` reduces each conversion step to what it does to
its own generation.

Its second half adds, under the same assumptions, what depends on the order of publications:

| theorem | property |
|---|---|
| `Durable` | `ReturnedIsDurable` |
| `TornIsRefused` | `TornIdentityRefused` |
| `Refinement` | `ImplementsAtomicTable` (refinement of `AtomicTable`) |

The argument. `ReturnedIsDurable` compares the places of two generations in the sequence of publications, so the second invariant
`OInv` says how CURRENT moves along it: each generation is published once (`Once`), every directory a crash may
leave names one that has been published, later directories later ones, and the last one the last (`Forward`); what has been published
is whole, durable and no longer touched, and a conversion on its way to return still has its entry (`Settled`). A crash cuts the journal and the publications
at one place. An identity is torn in one way only (`Genuine`): `CURRENT` was read before or after the generation was, and a later
publication is what lies between; ranks grow until a crash, and a crash ends what the machine was doing. For the refinement `Swap` is the one
step that publishes, a crash takes back publications that nobody has returned for, and `Tabled` (the part of `OInv` about
whole versions) says that what is published is a version of the source and stays one; every other step stutters (`SteadyRefines`).

`WorkerPoolProofs` proves, for every finite set of workers and any number of reads and ranges
(assumptions: `WorkerAssumption`, `BoundAssumption`):

| theorem | property |
|---|---|
| `TypeCorrect` | `TypeOK`, with the meaning of `workers_pending` and a bound on `work_ios` |
| `LanesAreKept` | `LanesKept` |
| `ResultsAreHonest` | `ResultHonest` |

The argument. Everything turns on `Late`, the workers that have still to count themselves: there are some only while
the call that posted the generation waits (`Published`), because `Collect` waits until `workers_pending`, their
number (`Count`), is zero. `Generation` puts every worker at or behind the posted generation, so a posted one makes
all of them late and a worker that wakes is one of them, which excludes a second turn. `Covered` says that no copy is queued
from the fence to the end of the I/O, hence lanes are refilled and freed when nobody reads them; `Filled` that a worker that is through without a
failure has filled its lane with this read's ranges. `work_ios` is bounded by what the workers that are through
can have added. For `ResultHonest` the flag and the reads that met a failure are tied together from the fence to
the result (`Failures`), and as long as nothing failed `work_ios` is the number of ranges of the workers that are through (`Counted`),
which is all of them when `workers_pending` is zero. A sum over workers cannot be reasoned about here, so `Total` is the cardinality of the
set of pairs of a worker and one of its ranges (`Due`), which grows by one worker's ranges at a time (`DueGrows`).

`RamArtifactProofs` proves, for every set of generations and any number of runs
(assumption: `RamAssumption`):

| theorem | property |
|---|---|
| `TypeCorrect` | `TypeOK` |
| `DestinationIsWhole` | `DestinationWhole` |
| `EarlierRunIsKept` | `EarlierRunKept` |

The argument. A run that makes the disk has found none, so there is no ownership record and what it formats is its own
(`Alone`); what it has copied by each point of the script is the enrolled payload (`Copied`), which damage to the source
after the copy does not change.

`ExecutorProofs` proves, for any number of ranks (`WorldSize`), any number of calls, every fault and also for a monitor that reports
during the registration (`LateRegister`), under the assumptions of the module:

| theorem | property |
|---|---|
| `AlarmIsTrue` | `NoFalseAlarm` |

The argument. Whatever makes a worker end (a dropped death pipe, a signal, a closed queue) comes after `shutting_down` is set or
with the end of the engine process (`Intended`), so a worker that has ended otherwise died by itself (`Explained`). That the callback is called once
needs that it is not stored before it is registered, and not called while it can still be called by the other side
(`CalledOnce`). A lemma of its own (`QueuesTyped`) says that the queues carry numbers of calls.

Its second half proves, in the same generality:

| theorem | property |
|---|---|
| `Typing` | `TypeOK` |
| `AnswersAreOwn` | `OwnAnswer` |

The argument. No message names its call, so the proof is about what position stands for. The futures are the last calls,
one after the other, and the answers of the call before them are being read (`Engine`). A worker takes the calls in order, enters
their collectives in order and answers in order (`InOrder`, `Answered`). Until a call fails, a worker's queue therefore holds exactly the unread answers to
the calls it has done, no more and no fewer (`Matched`), and the head of the queue is the answer to the call being read (`HeadIsMine`). A
failed call ends this, because its answers stay behind; it is also where `OwnAnswer` ends. That a step was computed by all ranks together
needs a second induction, over ranks: two ranks neither of which has left a step without entering its collective have
entered the same ones (`Aligned`), so the one that completes the collective completes it with ranks in this very step (`FinishTogether`).

`TicketMailboxProofs` proves, for any finite set of requests, any slots, pipeline depth, lengths and number of steps, in both
modes and with every fault, under the assumptions of
the module (`NoneAssumption`, `AbsentAssumption`: the value `None` is none of the values it stands beside):

| theorem | property |
|---|---|
| `ShadowIsWhole` | `ShadowIsHistory` |

It holds for every `Late`, the moments of findings 2 to 4 (section 5) included.

The argument (`IInv`). `append_sampled` appends a token where the shadow ends and never looks at its position, so the order must come from elsewhere:
from the queue of control jobs. A request is *owed* the tokens of the jobs that name its present generation (`Owing`). They are owed in
order and without a gap from the end of the shadow, or from behind the token the worker has at hand (`Line`), and this one is the next (`Current`).
Nothing in the code checks that a new job has the position behind the last one; it follows from what the model thread does before it submits it. A
batch of several requests, or a prompt, is planned from the shadow, which must already have the token of the step before, so
nothing is owed (`NothingOwed`). A lone request goes on while its last token is still in a job, but only with a prefetch for this
very position, and such a job is its own (`Prefetched`, `OwnJobs`). `Room` says between the steps of a request where what it is owed ends, `StepRoom`
during a step. That jobs are the request's own matters when the worker stops half way: `append_sampled` stops
at the first stale row, and rows behind it lose their token. The job then had several requests, hence it was the last one that owed any of
them a token, nothing follows the gap, and the error the worker has recorded ends the next step. A removed request: freeing the
index makes the worker skip its rows (`Indexed`), so what was promised about its line ends there (`Freed`), and a request that
takes the id again has a generation no job and no prefetch knows (`NewRequest`). `SteadyKeeps` is the lemma for a request that a step does not concern;
`QuietKeeps` for the actions, most of them, that concern none.

`SchedulerProofs` proves, for every set of requests, all modes, any sizes the module's assumptions allow and any number of
steps in flight:

| theorem | property |
|---|---|
| `TokensInOrder` | `OutputInOrder` |

The argument. A token reaches the client through a row that was planned steps ago, from the count the request had then or the
count the runner kept since, and between plan and output the request may have been preempted, aborted, or reset and resumed. The invariant
looks at the *line* of steps: the one whose output is being processed, those in flight, the one being planned. Each
request has at most one row in a step. Its account over the line (`Account`) says: `num_in_flight_tokens` is the sum of its rows
before the planned step; the stale tokens are the sum of those before some step `k`, so that staleness is a boundary in the line though the code keeps a
number; a request that is not running has no rows from `k` on; and the rows that will be heard form a chain (`Chain`): the first one starts from the request's own
tokens, because it carries them or because the runner has them and no row to be dropped is left to change that,
and those behind it go on from there. If stale output is dropped, the chain begins at `k`, otherwise at the head of the line; this is the
difference between a preemption whose output still counts and a reset after which it does not. The sums are a function whose existence is
asserted (`Sums`) instead of a fold, as a fold cannot be reasoned about here. Then one lemma says what each kind of step does to an account: a row
is planned or admitted (`RowPlanned`, `RowAdmitted`), the step is sent off (`SentOff`), taken from the line (`Collected`), its row dropped or heard (`RowDropped`,
`RowHeard`), the request preempted (`BecomesStale`). That a row is planned at most once in a step needs the queues (`Queues`: no
request twice, each in a queue its status allows) and that rows are planned in the order of the running queue (`Planned`). `TypeOK` of this module is
not what is proved: it states the tokens in flight as a fold over the rows of all steps. `Types`, `Queues` and the sums of `Account` say in the proof's terms what the argument needs of it.

Model-checked only: everything about `ReadPlan`; of `TicketMailbox` all but `ShadowIsHistory` (what it says of slots, `DiscardedSlotAlive` and `RightRows`,
holds outside the moments in `Late` only), of `Scheduler` all but `OutputInOrder`; all
liveness, which the prover does not reach (`EveryStepFinishes`, both `Progress`, `ReadsEnd`), with `NeverStuck`, which has ENABLED in it; what the folds of `ReadPlan` compute for
requests of any length, which needs induction over data. Of `PleHandoff`, `PersistentReader`, `WorkerPool`, `Executor`, `GenerationStore` and `RamArtifact`
every property that a run checks is a theorem, liveness and the expected violations excepted.

## 5. Findings

Disagreements between the code and what it says of itself, each shown by a run:

1. **An error of a released step wakes nobody** (`PleHandoff_wake`). `_fail` signals only
   if the failed sequence is still active on the host, but outside the serialized
   path `release_outputs` retires it while its read may be running. The main stream then
   spins until a hang detector ends the process; the error itself is reported.
   `FailClosed` still holds: no wrong result is returned.
2. **A discarded slot is given back under the child's copy** (`TicketMailbox_discard`, `Late = {"landing"}`). With the IPC
   reader process, `discard_prefetches` asks an event that nobody in this process records whether
   the producer is done. If the request is removed between the child's messages "submitted" and "completed",
   the slot is free at once, and the next ticket may take it. The child's comment says that the
   slot stays alive until its stream has completed.
3. **A late `submission_ready.set()` announces the next prefetch** (`TicketMailbox_signal`, `Late = {"signal"}`).
   `produce_prefetch` makes the slot READY under the lock and sets the event after it (`vllm_ple_gds_runner.py:2209`). If the request is
   removed in between, the slot is reset, and the step under way may reserve it again, which clears the event before the old
   `set()` comes. The new prefetch then counts as submitted: it is consumed at once with the rows of the
   old one, and the worker finds the slot RELEASING and raises "prefetch producer observed corrupt slot state". No
   fault is needed. `RightRows` and `DiscardedSlotAlive` fail in the same behaviours. The window is a few instructions of
   Python long, but nothing closes it; with the child the event is set under the lock (`:1961`).
4. **A completion frees a slot that is being consumed** (`TicketMailbox_complete.cfg`, `Late = {"completion"}`). With the child, the message
   "completed" resets a discarded slot that is RELEASING (`:2033`), while `discard_prefetches` says that such a slot "is owned
   by release()" (`:2323`) and the reaper waits for `consumer_done`. A ticket that takes the slot lets the child write into it
   before the main stream has copied its rows, and `RightRows` fails.
5. **The copy on the RAM disk does not load** (`RamArtifact_reader.cfg`): the script write-protects the
   data, the metadata and `CURRENT`, `load_current_compact` asks for the generation
   directory too ("compact generation is writable", `compact.py:272`), and the manual tells the user to configure
   the destination. TLC finds `DestinationLoads` violated.

The run `TicketMailbox` leaves the moments of 2, 3 and 4 out (`Late = {}`), so that everything else is checked: outside them the properties hold, and each of the
three alone breaks them. The last two cfg files are kept for the reader; they are not among the runs of `PROJECT.json`.

Restrictions found on the way, which the properties name as exceptions or the models leave out:

* A row that straddles the last page of a full range is gathered from bytes that follow the range in its lane
  (`ple_gds_persistent.cpp:494`), while the offline planner refuses such a plan (`compact.py:337`). At
  the shipped geometry it takes more than 256 contiguous pages in one request, which hashed row
  ids make very unlikely. `RowsExact` is stated for all other rows (`AtLimit`).
* A chunk of `iter_read_at` fits the slot but perhaps not the lanes, when its ranges are a little more than
  half a lane each; the read then raises (`:473`), although `persistent_reader.py:445` says that every chunk fits staging.
  With `max_gap_pages > 0` (allowed up to 16, shipped 0) a chunk may also exceed the slot, because the gap pages are read as well.
* A request whose KV load failed as a whole goes back to waiting but stays in `_inflight_prefills`, so its own
  reservation stands against its second try (`scheduler.py:1079`, `:2766`); the comment speaks of *other* reservations in
  flight. In a pool that its own prompt nearly fills it is never admitted. `NoStall` names this (`SelfReserved`).
* Under the asynchronous scheduler a verification row whose placeholders reach past the model length is put off by
  the full-verification guard; the comment at `scheduler.py:561` says that placeholders "need separate handling".
  `NoStall` names this too (`PastTheEnd`).
* Answers of the executor carry no call number, so after a step that timed out or failed half way the next call reads what
  is left in the queue (`multiproc_executor.py:423`). `OwnAnswer` ends with the first call that failed, after
  which the engine is expected to shut down.
* An exception on a rank that does not reply is only logged (`:1056`): the others wait in a collective it will not enter. A
  step has a timeout; a call to all ranks behind it has none and hangs. `Released` has this one exception.
* `register_failure_callback` tests `is_failed` and then stores the callback (`:331-335`): a failure between the two is never
  reported. The registration takes a moment at start-up; with `LateRegister = TRUE` TLC finds `FailureReported`
  violated, the run keeps the monitor out of that window.
* When the engine process disappears, a worker inside a collective looks neither at its queues nor at the death
  pipe's event, and stays behind (`WorkersExit`).
* A batch of several requests is planned without waiting for the control worker, so that the shadow may lack the
  last token, and prefetches of requests that then decode in company are left behind; both end in an error of the
  ticket connector ("underflow", "diverged") although nothing went wrong. They fail closed: `RightRows`
  holds. A prompt of one token that is scheduled alone is taken for a decode and raises in the same way.
* If `control_worker.close()` raises at shutdown, `connector.close()` is not called (`vllm_ple_gds_runner.py:3359`).
* A child process that dies in silence is never noticed: the parent holds the sending end of the result pipe
  itself (`:922`).
* If `Q38_PLE_SERIALIZE_LARGE_INPUTS` is off, a dummy step of rank 1 followed by a real one
  is not ordered with the transport stream; `PleHandoff` is checked with the shipped setting.
* `iter_read` after "request exceeds a fixed slot; consume it with iter_read()"
  (`persistent_reader.py:329`) is refused in its turn when the request exceeds the output, as
  later chunks are placed behind the first; shipped callers size the output for the largest batch.
* The start-up check compares one load of `CURRENT` with the enrolled identity
  (`vllm_ple_gds.py:108-119`) and the reader opens another (`:461`), so a conversion that publishes
  into the directory of a service that is starting is served without having been enrolled; it is
  whole (`ServedWhole`).
* The RAM-disk setup looks for `brd` long before it loads it, so a device that
  someone else creates in between would be formatted.

## 6. Not modelled, and simplifications

* `PleHandoff`: the IPC child instead of the same-process reader; metrics; the digests
  compare step numbers, not payload bytes. Only rank 0's result reaches the executor, as
  with the multiprocess executor. NCCL, CUDA streams and events are external, modelled
  by their documented order.
* `PersistentReader`: slots have outputs of their own; the connector's use of one output
  for all slots by a single thread is `PleHandoff`'s. Reads and releases of a slot go to
  one stream, as all callers do. A gather that was launched but whose event could not be
  recorded (a broken CUDA context) is left out.
* `WorkerPool`: pinning and the diagnostic modes `batch` and `async`.
* `ReadPlan`: overflow checks of 64-bit offsets (the integers are unbounded), the
  capacity of the planning workspace.
* `GenerationStore`: the layout of the data file and the metadata fields; `RamArtifact`: the
  memory and size checks, and users other than root.
* `TicketMailbox`: what precedes a lock and nobody else sees is part of the action that takes it (the lookup of an in-process read and the record of its event);
  drafts (with speculation the shadow also carries proposed tokens), warm-up and dummy runs, metrics,
  `cancel_pending`, a full command queue, and a child that dies.
* `Scheduler`: first come first served only; no encoder inputs, LoRA, grammars, streaming sessions, data-parallel
  throttling, the spacing of decode steps (`next_decode_eligible_step`), routed experts, prefix-cache hits, input budget, watermark, or sending side of a connector; one load
  completes or fails per output, and the report of invalid blocks comes with `finished_recving`. With `Threshold = 0` and `Lookahead = 1` the rules for long
  prefills and for the drafter's lookahead never cut a chunk in the run. The KV cache manager is a free list with the number of blocks a request needs.
* `Executor`: start-up, multi-node queues, `check_health`, the body of the worker.
* The other components: reasons in `PROJECT.json`. Most of their lines are numerical tensor code, kernels and
  start-up scripts, which have no control worth a state machine. This is why the modules cover the
  concurrent core of the repository and not its bulk.

## 7. What would come next

1. Proofs about the block accounting of `Scheduler` (`BlocksSafe`: the sequences of blocks would have to be stated
   without `FlattenSeq`), and about the slots of `TicketMailbox` (`DiscardedSlotAlive` and `RightRows` for `Late = {}`).
2. An abstract specification of the mailbox (a ticket is consumed at most once and only with the rows it was issued
   for) and the refinement; drafts in the shadow.
3. Disjointness of lanes in `ReadPlan`, a property of one fold step.
4. A composition of `Scheduler` and `Executor`: steps that time out while later ones are planned.
