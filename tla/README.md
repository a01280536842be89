# Verification of the rollout and training control plane

The repository trains mixture-of-experts language models and, for reinforcement
learning, samples episodes with a rollout manager. This project models in TLA+
what its programs admit, reserve, send, sample, train on, publish, checkpoint,
drain and recover, and in which order. Where the order of data is what can go
wrong (sharding, routing, caching, scoring) the models say which value is read
where; the numbers themselves are left out.

## The system

| Component | State it keeps | Operations | What is hard about it |
|---|---|---|---|
| Coordinator, batch (`rollout_manager/coordinator.py`, `run`) | pending and active episodes, results, reservations, quarantine, held groups, draining tasks | start, admit (scan or wave), wait, process, finish a wave, drain, close | one asyncio task against backend tasks; cancellation at every await; unproved cleanup; hooks and a log that raise |
| Coordinator, streams (same file) | the same, with a condition variable and worker and group slots | open, execute a group, pause, resume, close | many tasks on one condition; lost wake-ups; a log that raises between a charge and its task |
| Learner loop (`dsv41_train/rl/runtime.py`) | step, weights, collected groups, drop count, acknowledged policy | collect, train, commit, publish, checkpoint, activate, evaluate, resume | a crash between any two of these steps |
| Manager process (`rl/manager.py`) | retained mailbox, cursors, pause state, the group being sampled | get, commit, pause, activate, evaluate, resume, close | commands interleave with sampling; bounded mailbox; recovery snapshot |
| Policy controllers (`backends/pytorch_controller.py`, `vllm_controller.py`, `native_qwen_loopback.py`) | active policy, requests in flight | generate, pause, activate, resume, close | drain and activation barriers; an actor that answers late |
| LoRA training and serving (`rl/distributed_grpo.py`, `backends/vllm_lora_*`) | adapter per worker, snapshots, prefetched group | stage, load, sample, train, forget, close | sampling ahead while the weights change; partial loads; timeouts of calls that go on |
| Benchmark provider (`benchmark_training.py`, `training.py`) | assembler, retained packets, exclusions | produce, get, commit, pause, close | the manager's protocol with excluded groups and timed-out calls |
| Relay (`terminal_bench/browser_relay/`, `relay_contract.py`) | spool, journal, claims, completions, challenges, chunks | publish, claim, submit, poll, commit, acknowledge, cancel, prove readiness, transfer | two servers and two pages, each of which may restart; nothing may be sent twice |
| Terminal-Bench trials (`backends/terminal_bench.py`, `harbor_*`) | wave, container flags, cleanup receipt | admit, create, command, verify, stop, delete, classify | a container daemon that answers late or not at all |
| Supervision and sealing (`cpu_supervisor.py`, `sealed*.py`, `preupdate_recovery.py`) | control files, leases, sealed groups, consumer claim | wait, claim, launch, publish, import, recover | process deaths between two files |
| Native runner (`runner.py`, `adapters/process.py`, `host_memory.py`) | slots, host bytes, processes, cleanup state | generate, review, build, evaluate, verify | processes that outlive their kill |
| Input cache (`input_cache.py`, `adapters/input_reuse.py`) | entries, leases, consumers | acquire, publish, release, retire, evict | a lock given up while waiting; killed children |
| Native requests (`transports.py`, `network.py`) | claim files, ledger, connections | claim, dispatch, record, answer | crashes between claim and answer |
| Fine-tuning (`train_sft.py`, `sft_*.py`) | parameters, touched rows, checkpoint directories | step, save, resume, export, rebuild | a death with ranks at different points |
| Engram tables (`engram_offload.py`, `rl/engram_state.py`) | row cache, buffers, events; views of the policy roles | read, write, invalidate; publish, install, undo | asynchronous streams; policies installed in any order |
| Parallelism (`cp.py`, `dispatch.py`, `models/dsv4/`) | shards, counts, halos, index state | exchange, gather, compress, select, and back | index arithmetic at its edges |
| Scoring (`rl/rollout.py`, `rl/algorithm.py`, `rl/runtime.py`, `learner_batch_planner.py`) | recorded turns, plan of backward passes | sample, stop, record, chunk, pack, score | off-by-one errors that still train |

The learner calls the manager over a pipe, one command at a time. The manager
owns a coordinator stream and a backend; it hands complete groups to the learner
and keeps them until the learner commits them. The learner pauses the actor
around every optimizer step, publishes the new policy, writes a checkpoint that
holds its own state and the manager's snapshot, and only then activates the
policy. Benchmark suites use the coordinator's batch runs. Terminal-Bench
episodes run on a CPU machine without a network path to the GPU machine: their
requests, leases and sealed groups travel over two browser pages.

What makes each part correct: capacities are never exceeded and nothing that may
still be in use is released (coordinator, runner, cache); every group is trained
on or dropped exactly once, also across crashes, and every checkpoint restores
what was saved (training, fine-tuning, sealing); no request is answered by
another policy than the one it was admitted under (controllers, LoRA); no
request reaches the model twice, and a failure is reported as final only when it
is (relay, ledger); a distributed or cached computation reads what the plain one
would read (parallelism, Engram, scoring). `PROJECT.json` lists the hazards of
the code at their lines.

## Modules

| Module | Models |
|---|---|
| `Coordinator` | `Coordinator.run` |
| `CoordinatorStream` | `open_stream` to `close_stream` |
| `TrainingRun` | `run_training`, `_serve`, `RolloutManager`, checkpoints |
| `PolicyServing` | policy controllers, actor process, HTTP shim, delivery barrier |
| `BenchmarkProvider` | `BenchmarkTrainingProvider`, `GroupAssembler` and the learner that drives them |
| `LoraTraining` | the distributed GRPO learner, RPC, LoRA controller, actor and workers |
| `Relay`, `RequestContract` | a request from agent to model and back; what is promised to the agent |
| `RelayReadiness` | challenges, capacity proofs, receipts, guards and admission over a clock |
| `ArtifactTransfer` | chunked files between the relays |
| `TerminalTrial` | waves of trials, the agent, the container environment and its cleanup |
| `SealedRun` | supervisor, workflows, learners and the recovery of one of them |
| `NativeRunner` | episode threads on build slots, GPUs and host memory |
| `InputCache` | the cache, its children and their parent |
| `NativeRequests` | request ledger, RPC client and relay server |
| `SupervisedRun` | `train_sft.py` with checkpoints, export and reconstruction |
| `EngramCache` | the GPU row cache with its streams |
| `PolicyRoles` | rows and weights of learner, reference and actor |
| `ExpertDispatch` | the three all-to-all exchanges |
| `SparseContext` | context-parallel attention, compression and index selection, forward and backward |
| `ResponseScoring` | from sampled tokens to gradient terms |
| `...Proofs` | inductive invariant, lemmas and theorems of `Coordinator`, `CoordinatorStream`, `TrainingRun`, `PolicyServing`, `BenchmarkProvider`, `Relay`, (in `TrainingRunProofs` too) of `SupervisedRun`, (in `TrainingSideProofs`) of `LoraTraining`, `PolicyRoles` and `EngramCache`, and (in `BenchmarkSideProofs`) of `ArtifactTransfer`, `SealedRun`, `NativeRequests`, `RelayReadiness`, `TerminalTrial`, `NativeRunner` and `InputCache` |

The modules named `MC...` give the model checker its instances.

### Coordinator

The coordinator is a single asyncio task: nothing else runs between two awaits.
`pc` names the point of `run` it is at, and backend tasks end only while `pc` is
one of the `AwaitPoints`. The token (set from any thread) and the clock change
at any time. `worker[p]` is what the backend task of a plan does or has
returned; the other variables are those of the code. The result of an episode is
abstracted to what `run` distinguishes: *safe* (cleanup proved, no uncertain
request), *halting* (safe, but it stops admission), *unsafe* (everything else,
exceptions inside `execute` included). Resources are natural numbers per executor and
quantity; plans accounted `backend-stage` take nothing. `Scan*` is the admission
of `native-groups`, `AdmitWave*` and `FinishWave` that of `terminal-waves`. With
`EventsMayFail` every append to the event log may raise; the actions named
`...EventFails` are the half-done states this leaves to the `finally` block.
`Accepted` is the validation of `__init__` and `run`, an assumption on the
constants.

### CoordinatorStream

Every episode and every group is a task; `asleep` are those inside
`_stream_condition.wait()`, and only a notification wakes them. `setting` is
fixed when a stream opens: which groups are admitted in waves and whether the
log may raise. One quantity on one executor; the accounting per executor is in
`Coordinator`. Native and wave groups are not mixed in one stream: a native
episode waits for capacity with a worker slot in its hand, so a wave that holds
the capacity and needs the slot would block it for ever. No caller in the
repository submits both.

### TrainingRun

The weights are the set of groups they were trained on, so a policy digest
identifies a training history. `pc` is the position in `run_training`; a call of
the manager puts a command into `request` and waits for `reply`. `pause` and
`close` are answered when the group being sampled has ended, as in `_serve`. A
command the manager does not accept makes it raise (`mstate = "failed"`).
`Abort` is any end of the processes before the run is complete: a kill, an
exception, an acknowledgement that timed out. Only the checkpoints survive it.
`Resume` may take any checkpoint and continue in the present directory or in a
new one; `StartOver` ignores them all. Saving is atomic (`atomic_save`).

### PolicyServing

`thread[r]` is where the handler thread of a generation is, `lease[r]` the
policy version `generate` captured under the condition. `weights` is what the
sampler would draw from: a version, or `Mixed` while tensors are copied. `Remote`
is `VLLMPolicyController` with its actor process; with `Shim` requests come
through `NativeControllerHTTPShim` and control goes through
`BrowserRelayPolicyController`, which waits in turn for the shim, the sampler
and the relay. A request counts before it has the sampler lock, and a failed one
may no longer count while the actor still computes it (`Orphans`). Control
operations come one at a time, since the provider serialises them. Cancellation
of a control waiter is not modelled: none of the callers cancels.

### BenchmarkProvider

The learner's thread (`pc`), the producer task (`pump`), the operation that holds
the control lock (`op`) and `close` interleave. `op.at` names the awaits of an
operation and the two places where the learner's thread can set `_timed_out`
between a check and an assignment of the event loop. `clean` in a mailbox entry
is a history for the properties. `LateRequest` is a request made after a timeout
and before `close`, as the repository's tests make them.

### LoraTraining

A policy is its version. The learner ranks run in lock step and are one process;
its prefetch thread samples the next group while the optimizer works. One call is
outstanding at a time (`rpc`); a call that times out at the client goes on at the
server. `loaded[w]` is what each tensor-parallel worker holds, and a batch
records the set of versions it was really drawn from. `TrainRaises` is `train_group`
raising on every rank, before or after the optimizer's step and perhaps with the
prefetch under way; one rank alone that raises is `LearnerDies`.

### Relay and RequestContract

A request passes the spool of the CPU relay, the CPU page, a message channel
(FIFO), the GPU page, the GPU relay and its worker thread, which calls the model.
Calls of a page may be served and their reply lost, arrive late or overtake each
other. Files survive a restart; threads, claims in memory and page state do not.
`RequestContract` is the abstract specification of one request: the model is
asked at most once, the first answer is final, "ok" is a completion the model
made, after "terminal" the model does nothing more, and a request withdrawn
before it was submitted is never asked. The refinement mapping takes the outbox
as the answers and the cancelled entries of the journal as the withdrawn ones:
`ImplementsContract` is the contract's `Spec` under that mapping.

### RelayReadiness, ArtifactTransfer

Readiness has explicit time: a challenge, the round trip through both pages, the
receipt and its validity, the operator's guard, the remaining life of both
servers. In `ArtifactTransfer` a file written by `write_new` exists before its
bytes do, so a death of the receiver leaves a torn file.

### TerminalTrial, SealedRun

`TerminalTrial` separates what the client believes (`created`, `uncertain`,
`cleanupReceipt`) from what the daemon does (`flying`, `container`, `command`): a
request whose answer was lost may still be carried out. `SealedRun` writes each
control file as a step of its own, torn or whole, and any process may die between
two of them; a detached workflow outlives its supervisor.

### NativeRunner, InputCache, NativeRequests

`alive[s]` are the processes that really run on a slot, apart from what the
runner believes; `turnLimit` is `args.turns`, fixed when the run begins. `mapped[c]`
is the storage a child can still read, apart from its leases; the finalizer of a
mapping that is left to interpreter exit releases the lease just before the kernel
unmaps the storage, when nothing reads it any more (`input_reuse.py` 124). The cache's `OrderedDict` is
`entries` (key to entry) with `order`, its keys from the least recently used on;
`Space` evicts along `order` until the reservation fits. Bytes are counted as
sets of units, so that sums are cardinalities.
`runs` counts how often the model was given a request, whatever the ledger says.

### SupervisedRun, EngramCache, PolicyRoles

The value of a row is the sequence of updates applied to it, an update being the
data positions of its batch. A launch moves from collective to collective; between
two of them ranks act on their own, and a crash ends the launch wherever its ranks
are. `Applies` says that a value consists of given updates, each once and in order:
after `n` updates the dense rows of all of them, an Engram row of those `Hitting` it.
In `EngramCache` a stream (`queue[s]`) holds
the commands not yet executed, each at the place at which it was issued, and an
event is a place in a stream: it has happened when the stream has got that far.
`wait_event` makes the command issued next come `after` an event; the host waits
by a guard (`Drained`, `PinnedFree`). So copies happen later than the host issued
them and in an order that only the events restrict. `out[k]` relates what read
`k` was asked for to what its output tensor holds. `PolicyRoles` installs published
policies in any order over whatever a view holds.

### ExpertDispatch, SparseContext, ResponseScoring

Values are abstracted to where they come from: an expert's output is the triple
of token, expert and weight, a key is its token, a log-probability the pair of
context and token, a gradient the sequence of the edges summed into it. The
properties compare the distributed, chunked or cached computation with the
definition of the plain one. Ties between index scores are not modelled.
The embedding has a number of rows of its own, so that some ranks own one row more
than others. `SparseContextAssumption` is what the configuration classes validate;
`LayersIndexed` is what the repository's configurations also satisfy and
`ContextExact` needs: a compressed layer has a source that indexes and has its ratio.

## Runs

Each property has a mutant of the code (an operator marked `Mutant`, or named for
what it drops, next to the definition it replaces) under which the run reports it
violated.

| Run | Instance | Shows |
|---|---|---|
| `coordinator_batch` | 4 plans, 2 groups, 2 backends, a limited and an unlimited executor; both policies; failing log | capacities, reservations of unproved work, exact quarantine, evidence per plan, no plan left out for want of room, no close under a task, no start after a stop, the end of a cancelled run whose episodes hang |
| `stream` | groups of 3 and 2 episodes, capacity 2, 2 workers; native, waves, waves with failing log | reservations exactly those of their holders, a pause that returned proves stillness, every group returns |
| `stream_events` | native with failing log | **violated**, see Findings |
| `training` | 2 groups per step, queue 3, lag 1, 3 steps, evaluation, 1 crash | exactly-once, restorable checkpoints that are cuts of both processes, freshness, stillness and acceptance of every command, no waiting for ever |
| `serving` | 3 requests, 2 policy changes, three deployments | tokens come from the weights their record names; unknown outcomes block; activation after delivery; control operations return |
| `provider` | 2 groups per step, 2 steps, lag 1, any control call may time out | a group keeps the policy of its lease, timed-out calls authorize nothing, snapshots restore, inputs accounted once, close ends |
| `provider_commit_order` | 2 groups per step | **violated**, see Findings |
| `relay` | 2 requests, 1 slot, 1 fault | slots and acknowledgements; refinement of `RequestContract` |
| `lora` | 5 groups, 4 updates, 2 workers, 2 faults | updates anchored in the policy their group was drawn from; close drains |
| `benchmark_side` | artifacts: 2 of 2 chunks, 2 crashes; readiness: 3 ticks, servers of 4, episodes of 2, 1 restart, 1 policy change; trial: 2 turns; sealed: 3 attempts, 3 supervisor starts; runner: 3 episodes of 1 turn on one GPU or 2 of 2 on two, 3 units of host memory; cache: 2 consumers, 2 keys, no empty input; requests: 2 threads, 2 jobs of 2 turns, 1 crash, 1 fault | the eight properties of these seven components |
| `training_side` | fine-tuning: 2 ranks, 5 examples, 2 steps, 3 launches in 2 directories, the third only if one directory is used; Engram: 3 rows, a cache of 2, buffers of 1, 2 streams, 2 reads, 1 optimizer step, 1 failure; roles: 3 rows, 3 updates; dispatch: 2 ranks, 4 experts, 5 embedding rows, up to 3 tokens; context: 6 tokens, 3 ranks, 4 windows, 6 layers; scoring: replies of up to 3 tokens, 2 turns, eleven learner configurations | the six properties of these six components |
| `trial_latch` | 3 trials in waves of 2 | **violated**, see Findings |

The last two passing runs check components that share no state side by side:
`part` names the component a behaviour is about, the variables of the others
stay idle. They are one question each (does any of these components break its
promise under crashes, or differ from the plain computation), and no property
relates two of them. In `coordinator_batch`, `serving` and `stream` a rigid
variable (`admission`, `stack`, `setting`) selects the configuration, so one run
covers them all.

Bounds. Two groups on two executors are enough for a plan to be blocked by
another group, for an executor to be blocked while another is free, and for two
waves to follow each other; four plans let a group be complete, partly finished
and pending at once. A queue larger than a step lets groups outlive two versions,
so that stale ones are really dropped; the crash may come before or after any
checkpoint, and the resumed run writes its own. Three requests let one sample,
one wait for the lock and one arrive during a pause. Two provider steps give a
mailbox that outlives a policy change; six groups give exclusions and stale ones.
Two relay requests for one slot compete for it, and one fault is a restart of
either server or a reload of both pages, at any point; states that differ only in
what no later step reads (`Relevant` in `MCRelay`) are identified. Five groups and four
updates make the LoRA snapshots old enough to be forgotten. Three
supervisor starts allow a death on both sides of a claim; three attempts let two
recoveries race. A relay server lives for four ticks and an episode
needs two of them, so within three ticks both remaining lifetimes become too short. Three episodes of one turn
share one GPU, and not all of them fit into the host memory; two of two turns have a
GPU each (`StepRunner` leaves out the other steps). A window of 5 exceeds a
shard of 2 (no halo), one of 3 equals shard plus one, one of 1 needs nothing.
`Max...` constants that bound faults, crashes, launches, leases, time and history
have no counterpart in the code.

Fairness. Coordinator: its ready steps run, hooks of a backend return or raise,
the clock advances; episodes may hang. A run that stopped without a cancelled
token has no drain deadline, so with a hanging episode it waits:
`CancelledRunEnds` is about cancelled runs. Stream: ready tasks run, hooks and
episodes end; nobody has to submit, pause or cancel. Training: learner and
manager take their steps, a group being sampled ends; nobody has to restart a
dead run. Serving: threads run, a call of the actor ends or times out (600 s),
the delivery probe has its deadline; nobody has to send or acknowledge requests,
and the actor may hang. Provider: the event loop runs what is ready, episodes and
controller calls end or raise; no timeout has to happen. LoRA: every thread
runs, an actor operation ends (it has a finite timeout), and an error that was
answered is received. All other modules are checked for safety only and assume
no fairness. Deadlock is checked except for the relay, LoRA training and the
parts of the two side-by-side runs in which the system may simply be done
(`Stopped`); artifact transfer and the native runner are checked for it.

## Findings

`provider_commit_order`: with `groups_per_step` above one, the learner drops an
excluded group as soon as it gets it (`runtime.py` 488-491), also while it holds
an older eligible one of the same step. The provider accepts only the oldest
delivered prefix ("commit requires a unique delivered oldest group prefix",
`benchmark_training.py` 448), so the commit raises and ends the run. The
repository's test of exclusions uses one group per step, where the rules agree.

`stream_events`: `execute_group` charges an episode and then appends
`episode_admitted` outside its `try` (`coordinator.py` 236). When the append
raises, the charge is neither released nor quarantined and no waiter is notified,
so `pause_stream` ("await actual admitted episode completion", line 175) waits
for ever.

`trial_latch`: a trial without result assigns the shared latch
(`self._stopped = started`, `terminal_bench.py` 346). A sibling that failed before
its job started resets the latch that a trial with unverified cleanup had set,
against "Owned container cleanup is unverified; stop further admission"
(`verification.py` 266).

Observed while modelling, without a run of their own:

* `ArtifactTransfer` reaches a state from which a delivery can never complete: a
  receiver that dies inside `write_new` (`artifacts.py` 58) leaves a torn chunk
  which `start` counts as received and `commit` rejects for ever, and `next`
  keeps serving this artifact before all others. What is delivered is still
  exact (`DeliveredIsExact`).
* In `NativeRunner` with two turns, a compiler that outlives its kill in the
  first turn goes unnoticed when `process.wait` raises out of the `finally` block
  of `run_process` (`process.py` 56): the last turn's verification reports the
  episode as verified (`runner.py` 587). With two turns `VerifiedMeansReaped`
  therefore speaks of the processes on GPUs only.
* When `episode_admitted` cannot be appended in a batch run it leaves a reserved
  plan without result, and `run` raises `KeyError`.

## Proofs

Each proof module extends the modules it is about; its theorems hold for every
value of the constants that the module's assumption allows. They all have the
same form: an inductive invariant (`IndInv`, `TransferInv`, `SealedInv`,
`RequestsInv`, `ReadinessInv`, `TrialInv`, `RunnerInv`, `CacheInv`, `RolesInv`, `EngramInv`), a
conjunction of named parts, of which lemmas per part or per action show that no action breaks it. TLC checked each of
them on the instance of the component's run before it was proved, except
`ReadinessInv`, whose parts quantify over all times. None of the properties is inductive by itself; below is what had to be added.

| Theorem | States, for every instance |
|---|---|
| `CoordinatorProofs`: `TypeCorrect`, `CapacitySafe`, `UnprovenStaysReserved`, `CloseAfterDrain`, `EvidenceIsFaithful`, `NothingLeftOut`, `QuarantineIsExact`, `StopsStarting` | `TypeOK`, `CapacityRespected`, `NothingUnprovenReleased`, `NoCloseUnderWorkers`, `EvidenceFaithful`, `LeftOutOnlyWhenStopped`, `QuarantineExact` and the action property `NoStartAfterStop` |
| `CoordinatorStreamProofs`: `StreamIsSound` | `StreamSound` |
| `TrainingRunProofs`: `ConsumedExactlyOnce`, `CheckpointsAreSound`, `ProtocolKept` | `ExactlyOnce`, `CheckpointsSound`, `TrainingProtocol` |
| `PolicyServingProofs`: `SamplesUnderPolicy`, `UncertainBlocks`, `ActivatesAfterDelivery` | `SampledUnderItsPolicy`, `UncertainOutcomeBlocks`, `ActivationAfterDelivery` |
| `BenchmarkProviderProofs`: `AuthorityKept`, `MailboxSound` | `AuthorityHeld`, `MailboxAccounted` |
| `RelayProofs`: `RelayIsSafe`, `RelayImplementsContract` | `RelaySafe`, and that `Relay` implements `RequestContract` |
| `TrainingSideProofs`: `UpdatesAreAnchored` | `UpdatesAnchored` of `LoraTraining` |
| `TrainingSideProofs`: `CopiesAgree` | `RolesAgree` of `PolicyRoles` |
| `TrainingSideProofs`: `LookupsAreExact` | `LookupsExact` of `EngramCache` |
| `TrainingRunProofs`: `SnapshotsAreExact` | `SnapshotsExact` of `SupervisedRun` |
| `BenchmarkSideProofs`: `DeliveryExact`, `ReceiptMeansEveryChunk` | `DeliveredIsExact` of `ArtifactTransfer`, and what a receipt stands for |
| `BenchmarkSideProofs`: `RunConsumedOnce` | `ConsumedOnce` of `SealedRun` |
| `BenchmarkSideProofs`: `NeverReplayed` | `NoReplay` of `NativeRequests` |
| `BenchmarkSideProofs`: `AdmissionsAreFresh` | `AdmissionsFresh` of `RelayReadiness` |
| `BenchmarkSideProofs`: `TrialEvidenceIsSound` | `TrialEvidenceSound` of `TerminalTrial` |
| `BenchmarkSideProofs`: `ReleasesAreClean`, `VerifiedIsReaped` | `ReleasedClean` and `VerifiedMeansReaped` of `NativeRunner` |
| `BenchmarkSideProofs`: `StorageIsSafe` | `StorageSafe` of `InputCache` |

**Coordinator** (assumptions `ConstantTypes`, `BatchAccepted`). The core is
`Accounting`: the reservations are always those of *some* set `C` of plans that
contains every plan that may be in use. `CapacityRespected` alone is not
inductive, because a release must be known to give back only what was charged;
`NothingUnprovenReleased` is not either, because it does not say whose units a
release takes. `Control` says what each control point knows (a wave is admitted
only when none is held), `Evidence` ties running tasks to `active` and `draining`
and results to tasks; sums are cardinalities of sets of units, so that additivity
is a fact about finite sets. `Faithful` relates a recorded result to the way its
task really ended. `Served` is why nothing is left out: a scan that admitted
nothing found every pending plan blocked by a reservation that some plan still
running, held or unproved accounts for, so an executor that nobody holds fits any
accepted plan. `Balanced` is the double entry behind `QuarantineExact`, which
`LoggedSpec` states with a history variable for a log that failed: of the reserved
plans `C` a part `Q` is quarantined and the rest is exactly what the control point
has still to settle, the active plans or, under waves, the members of held groups.
It needs that a held wave always waits for a member or for its closure: without it
a loop that ends would leave a wave reserved that nobody settles.

**CoordinatorStream** (`StreamAccepted`). `AccountsOK` states both accounts at once:
`reserved` is what the holders take, `quarantined` what the plans take that are
unproven and in no wave still to be settled; a settled wave moves between the two
as a whole. `TasksOK` (an episode that has not ended is in the wave its group
collects, and a wave to be charged has no results) keeps a charge from being made
twice, `WavesOK` (an unproven wave stops the stream, so it is never replaced by
another) from being forgotten, and `SleepersOK` and `PausedOK` give what a pause
proves. All of it is conditional on an event log that works: with a failing one
the accounts are not exact (`Admit`).

**TrainingRun.** `PipeOK` says which command and reply can be in the pipe at each
point of the learner and that the manager accepts it; `MailOK` and `HandsOK` that
the mailbox is the interval between the two cursors without the group being
sampled, and the delivered groups the oldest of it, in the learner's hands;
`CountsOK` that weights and discarded groups are the ids below `committed` and
those in flight. A checkpoint is then a *cut* (`DiskOK`): the manager's snapshot
and the learner's counters satisfy the same equation. This is what makes
`ExactlyOnce` survive a crash: a restart begins from a cut, and the sets of groups
it has and has not consumed partition the ids again. `PolicyOK` and `StillOK` are
needed for freshness and for the acceptance of `activate`.

**PolicyServing.** `ServesPolicy` (weights are the policy's while requests may be
admitted), `LoadsAlone` (nobody samples while weights are replaced), `CallsKnown`
(what the actor can still be doing) and `ShimQuiet`, `PauseProved` for the
delivery barrier.

**BenchmarkProvider** (`ProviderConstants`). `Owned`: an operation has the
waiter whose call it is, or a call timed out, and then the learner only closes.
`Still`: past its drain an operation is alone with a paused, idle producer. These
two give `Serving`: where a group is sampled or may be admitted, the controller
runs the provider's policy, also in the window between an acknowledged resumption
and the opening of admission. `Mailbox` names two cursors no variable holds: the
end `hi` of what has arrived, one behind `next` while a group is executed and for
ever when the producer failed with it, and the end `m` of what the learner holds.

**Relay.** `Journal` (a dispatch is journalled before it is made and never
forgotten), `Slots`, `Evidence` and `Durable` (every message in either direction
is borne out by the state of the model or of the disk, whenever it is delivered
or repeated). The refinement maps each step of the relay to a step of
`RequestContract` or to stuttering; it needs `Evidence` for the answers and
`Durable` for acknowledgements.

**LoraTraining** (`LoraAssumption`; the actor has at least one worker). The server's
half is `ActorOK`: the workers of a healthy actor hold the adapter it acknowledged
except while an activation runs, and the one operation behind `_busy` is why none
can run under a batch. `CallOK` ties the outstanding call to the learner's program
counter or to the prefetch, so that an answer is never taken for that of another
operation. On the learner's side `PolicyOK` says at which points the acknowledged
policy is the learner's own and at which one behind, and which snapshots are then
retained, and `PrefetchOK` that a prefetched group is the next one and at most one
policy behind when it is taken.

**ArtifactTransfer** (`ArtifactAssumption`). A receipt, torn or not, is written
only over a complete set of chunks, and the page has seen each chunk it counts.

**SealedRun** (`SealedAssumption`). `ClaimOK`: the claim file precedes the one
launch of a phase; `SealOK`: what is sealed does not change; `LearnerOK`: learners
exclude each other, the recovery has the first one's proof that it ended before
the import, and at most one step was made, on a clean seal.

**NativeRequests** (`NativeRequestsAssumption`). `Once`: a claimed id is in exactly
one place (a thread that has not sent it, one handler, the model); `Wire`: the
handler that can still answer a connection is the one of the request its thread
waits for, which fails without the connection's epoch; `Told`: whatever may still
reach the model is uncertain in the ledger.

**RelayReadiness** (`ReadinessAssumption`). Each message of the round trip carries
a bound that the next one needs: a challenge names the server that made it and the
time (`ChallengeOK`); an observation is made after its challenge and fixes when
the observed server expires (`ProbeOK`); what is posted promises no more than that
server had left when it was challenged (`PostOK`); a receipt is of the running CPU
server, ends in time for the age of the observation and promises at most one
challenge lifetime too much (`ReceiptOK`). All are relative to the observed boot,
so that a restart makes them vacuous for the old server and not false.

**TerminalTrial** (`TrialAssumption`). `ContainerOK`: the one create request is in
flight only before there is a container, and a container is known to have existed
once its creation was answered or a stop was sent; so a container that is absent
then is gone, and not merely late. `CommandsOK`: no command is in flight or
running before its phase; the agent's is still whenever the trial goes on
unbroken without waiting for it, and a command of the verifier is asked for only
then.

**NativeRunner** (`RunnerAssumption`: finitely many episodes, disjoint pools, one or
two turns as the argument parser demands). `HoldersApart`: no GPU is held twice.
`HostHeld`: bytes are held exactly from the admission to the end of an evaluation,
or for good when they are quarantined, and then the cleanup is reported unknown.
`GpusOwned`: a process on a GPU is of the episode that holds the GPU or of one
whose memory is quarantined; this is what carries the properties over from one
episode to the next on the same slot. `ProofSound` says what the local variable
`proof` stands for between two processes of one evaluation, and `BuildsOwned` that
with one turn a compiler outlives its build only under a cleanup reported unknown.
The budget is a cardinality of units, which the lemmas about `Blocks` bound.

**InputCache** (`CacheAssumption`: finitely many keys). `LeasesStand`: every lease of
a registered consumer stands on a ready entry that lists it, and lease numbers are
unique, so that a release takes no other lease with it. `MapsLeased`: a process
maps only what it leases, nothing once it is gone, and not the storage whose
release is still on its way; it is why a retirement after the process group was
seen to stop frees nothing in use. An eviction takes ready entries without leases
only (`SpaceEvicts`, `RoomEvicts`), hence no entry a lease stands on. The limits
follow from `StorageGrows`, `StorageShrinks` and `BlocksOneMore`: a new entry is
charged its whole reservation and a publication can only shrink it.

**PolicyRoles** (`PolicyRolesAssumption`). `CopiesBased`: a view differs from the
baseline only in rows it lists as touched, so that undoing them gives the baseline
back; `FilesFaithful`: loading a published policy over the baseline gives what the
learner held when it published it. Together they make an installation independent
of what the view held before. `ResumedOnward`: a resumed learner has at least the
updates of the artifact it came from, so that equal counts mean equal copies.

**EngramCache** (`EngramCacheAssumption`). What the host knows of a lookup is ahead
of what the streams have done, so the invariant orders the commands that are still
pending. An event *covers* a pending lookup command when it is behind it in its
stream or behind a wait of a later read (`CoveredBy`); `ReadsOrdered` says that the
events the cache keeps, those that pending waits come after and those of returned
reads cover everything issued by the reads before. `HitsFirst`: a read issues to one
stream, its hits before its installs. `InstallsFed`: the rows of a pending install
are in the staging buffer, which no pending transfer may overwrite before the install
has executed, or in the pinned buffer with their transfer on the way;
`TransferKnown` is the same of the chunk the host is about to install, and holds
because at most one transfer is pending. `TagsRight` gives tags their meaning for a
read that has not begun and for hits not yet copied: the place holds the row now, or
will when the last install before that read has executed (`HeldFor`). `OutputsRight`:
every row a read asked for is in its output, on its way or still to be issued, and
no row is written while a read can still see it. `PlanHits` and `ConsumeTransfer`
then return an event that covers all that is on its way.

**SupervisedRun** (`SupervisedAssumption`: context-parallel groups of one size tile
the ranks). The first lemmas are about the layout, for every number of ranks and
rows: the shards of FSDP and the owners' ranges of the Engram table are disjoint and
together everything (`DenseLayout`, `RowLayout`), and the microbatches of all ranks
at the cursor of `n` updates are exactly the `n + 1`st stretch of the data
(`BatchIsUpdate`). `LoopOK`: the cursor is that of the step, and a launch is at the
step it resumed from or below its target. In the middle of a phase ranks are at
different points, so `MemoryOK` counts per rank how many updates have reached its
dense shard and its rows (`DenseCount`, `RowsCount`; with the optimizer in backward
the dense shard is one ahead), and adds that a row not listed as touched is the
base's: this is why a file with only the touched rows is enough. `CheckpointsOK`: the
files of a published checkpoint hold the shards of its step, as do those already
written without an error in the directory that is being saved, and ranks restore
only from a published checkpoint; `BundlesOK` says the same of bundles on their way.

Only model-checked:

* every liveness property: `CancelledRunEnds`, `GroupsReturn`, `CloseEnds`,
  `CloseDrains` and the others (fairness and `ENABLED` are outside the prover's
  reach);
* what a recursive or numeric definition computes for every input
  (`DispatchRestores`, `ContextExact`, `ScoredAsSampled`): induction over data is
  outside the prover's reach.

## Plan

Done: the modules above and the proofs about seventeen of them. Open:
gradient reduction over shards (`distributed_grpo.py`, FSDP), that is, which
partial sums reach which parameter.

## Not modelled

Floating point numerics, kernels, hyper-connections and quantisation; the
rounding of fractional cpu quantities (`coordinator.py` 54); tokenizers, prompts
and reward functions; tensor layouts of weights and conversions between
checkpoint formats; container bootstrap, dataset and analysis scripts, preflight
and telemetry (they read the host once and keep no state); HTTP parsing and
authentication; FSDP wrapping and device meshes; how equal index scores are
ordered in forward and recomputation; the byte layout of checkpoints and logs;
the vendored copy of an earlier runtime.
