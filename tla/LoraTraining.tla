---------------------------- MODULE LoraTraining ----------------------------
(***************************************************************************)
(* Distributed query-LoRA training against a persistent rollout service:   *)
(* the learner of dsv41_train/rl/distributed_grpo.py with its prefetch     *)
(* thread, the RPC client and server of backends/vllm_lora_remote.py, the  *)
(* controller of backends/vllm_lora_controller.py, the actor engine of     *)
(* backends/vllm_actor.py and its tensor-parallel workers.                 *)
(*                                                                         *)
(* A policy is named by its version; adapter tensors, manifests and their  *)
(* digests are abstracted to it.  The learner ranks run in lock step       *)
(* (rank_zero_call broadcasts every outcome), so they are one process.     *)
(***************************************************************************)
EXTENDS Integers, FiniteSets

CONSTANTS
    Workers,     \* tensor-parallel workers of the actor
    Groups,      \* number of training groups (args.max_groups)
    Updates,     \* optimizer updates requested (args.updates)
    MaxFaults    \* bound: failures, timeouts and deaths in a behaviour

ASSUME LoraAssumption ==
    /\ IsFiniteSet(Workers) /\ Workers # {}
    /\ Groups \in Nat /\ Updates \in 1 .. Groups
    /\ MaxFaults \in Nat

None == -1                          \* no version, no adapter, no acknowledgement
NoCall == [op |-> "none"]
NoJob == [op |-> "none"]
NoGroup == [st |-> "none"]

VARIABLES
    pc,          \* the learner's next operation
    lineage,     \* which learner process this is
    update,      \* summary["optimizer_updates"]
    group,       \* group_index
    result,      \* the rollout group obtained for this iteration
    pending,     \* the prefetch future
    snapshots,   \* policy_snapshots: versions whose parameters are retained
    ack,         \* client.ack: version of the last acknowledged activation
    trained,     \* groups the optimizer has consumed
    clientFailed,\* RemoteLoRAClient.failed
    rpc,         \* the client's outstanding call (one at a time: _lock)
    serverFailed,\* RemoteLoRAServer.failed
    job,         \* the operation behind _busy
    closing,     \* a close operation: "no", "asked", "draining", "closed"
    cstate,      \* VLLMLoRAController._state
    cack,        \* [version, lineage] of the controller's acknowledged policy
    active,      \* VLLMLoRAController._active
    seen,        \* VLLMLoRAController._seen
    actor,       \* LoRAActorEngine: [failed, ack]
    loaded,      \* worker -> version of the adapter in its GPU slot
    faults

learnerVars == <<pc, lineage, update, group, result, pending, snapshots, ack, trained>>
serverVars == <<serverFailed, job, closing, cstate, cack, active, seen, actor, loaded>>
vars == <<learnerVars, clientFailed, rpc, serverVars, faults>>

Init ==
    /\ pc = "initialize" /\ lineage = 1 /\ update = 0 /\ group = 1
    /\ result = NoGroup /\ pending = NoGroup /\ snapshots = {} /\ ack = None
    /\ trained = {} /\ clientFailed = FALSE /\ rpc = NoCall
    /\ serverFailed = FALSE /\ job = NoJob /\ closing = "no"
    /\ cstate = "new" /\ cack = [version |-> None, lineage |-> 0]
    /\ active = 0 /\ seen = {} /\ actor = [failed |-> FALSE, ack |-> None]
    /\ loaded = [w \in Workers |-> None] /\ faults = 0

----------------------------------------------------------------------------
(* The client.                                                             *)

Sampling == {"validate", "baseline", "obtain", "check", "final"}

\* The operation the learner's program counter stands before.
OpAt(p) == IF p \in Sampling THEN "sample" ELSE p

\* The version activate(version) exports, and the request identity of a
\* sampling phase: both are functions of the learner's counters.
ArgAt(p) == CASE p = "activate" -> update
              [] p \in {"obtain", "prefetch"} -> <<lineage, "train", group>>
              [] p = "check" -> <<lineage, p, update>>
              [] OTHER -> <<lineage, p, 0>>

Outstanding == rpc # NoCall
Prefetching == pending.st \in {"queued", "calling"}

\* The program counter after the learner raises: its finally block.
Raised == "close"

\* _call takes the client lock and opens a connection; a failed client lets
\* only close through, everything else raises at once.
MainCalls ==
    /\ pc \in Sampling \cup {"initialize", "activate", "resume", "pause", "close"}
    /\ pc = "obtain" => pending = NoGroup
    /\ pc = "close" => ~Prefetching          \* executor.shutdown(wait=True)
    /\ ~Outstanding
    /\ IF clientFailed /\ pc # "close"
       THEN pc' = Raised /\ UNCHANGED rpc
       ELSE /\ rpc' = [op |-> OpAt(pc), arg |-> ArgAt(pc), by |-> "main", st |-> "sent"]
            /\ UNCHANGED pc
    /\ UNCHANGED <<lineage, update, group, result, pending, snapshots, ack, trained,
                   clientFailed, serverVars, faults>>

\* The executor thread runs sample_record for the next group, or its future
\* is cancelled by the shutdown of a failed run.
PrefetchCalls ==
    /\ pending.st = "queued" /\ ~Outstanding
    /\ \/ /\ pc # "close"
          /\ IF clientFailed
             THEN pending' = [pending EXCEPT !.st = "failed"] /\ UNCHANGED rpc
             ELSE /\ rpc' = [op |-> "sample", arg |-> <<lineage, "train", pending.group>>,
                             by |-> "prefetch", st |-> "sent"]
                  /\ pending' = [pending EXCEPT !.st = "calling"]
       \/ pc = "close" /\ pending' = NoGroup /\ UNCHANGED rpc
    /\ UNCHANGED <<pc, lineage, update, group, result, snapshots, ack, trained,
                   clientFailed, serverVars, faults>>

\* The reply is an error, or none came within the socket timeout: the client
\* latches failed and the caller raises.
CallFails ==
    /\ Outstanding
    /\ \/ rpc.st = "error" /\ UNCHANGED faults
       \/ rpc.st \in {"sent", "served"} /\ faults < MaxFaults /\ faults' = faults + 1
    /\ clientFailed' = TRUE
    /\ rpc' = NoCall
    /\ IF rpc.by = "prefetch"
       THEN pending' = [pending EXCEPT !.st = "failed"] /\ UNCHANGED pc
       ELSE pc' = (IF pc = "close" THEN "end" ELSE Raised) /\ UNCHANGED pending
    /\ UNCHANGED <<lineage, update, group, result, snapshots, ack, trained, serverVars>>

\* validate_results: the group is accepted when it names the policy the
\* client holds an acknowledgement for.
Accepted(value) == value.version = ack

\* A prefetched group is complete.
PrefetchReturns ==
    /\ Outstanding /\ rpc.st = "ok" /\ rpc.by = "prefetch"
    /\ pending' = [pending EXCEPT !.st = IF Accepted(rpc.value) THEN "done" ELSE "failed",
                                  !.value = rpc.value]
    /\ rpc' = NoCall
    /\ UNCHANGED <<pc, lineage, update, group, result, snapshots, ack, trained,
                   clientFailed, serverVars, faults>>

\* snapshots kept after an update: the versions the next group may lag to.
Retained(kept) == {v \in kept : v >= update - 1}

\* A call of the learner's own thread returns.
MainReturns ==
    /\ Outstanding /\ rpc.st = "ok" /\ rpc.by = "main"
    /\ rpc' = NoCall
    /\ CASE pc = "initialize" ->
              pc' = "activate" /\ UNCHANGED <<ack, snapshots, result>>
         [] pc = "activate" ->
              pc' = "resume" /\ ack' = rpc.arg /\ UNCHANGED <<snapshots, result>>
         [] pc = "resume" ->
              /\ snapshots' = Retained(snapshots \cup {update})
              /\ pc' = IF update = 0 THEN "validate" ELSE "check"
              /\ UNCHANGED <<ack, result>>
         [] pc \in Sampling ->
              /\ result' = [st |-> "done", group |-> group, value |-> rpc.value]
              /\ pc' = IF ~Accepted(rpc.value) THEN Raised
                       ELSE CASE pc = "validate" -> "baseline" [] pc = "baseline" -> "obtain"
                              [] pc = "obtain" -> "score" [] pc = "check" -> "next"
                              [] pc = "final" -> "close"
              /\ UNCHANGED <<ack, snapshots>>
         [] pc = "pause" -> pc' = "activate" /\ UNCHANGED <<ack, snapshots, result>>
         [] pc = "close" -> pc' = "end" /\ UNCHANGED <<ack, snapshots, result>>
    /\ UNCHANGED <<lineage, update, group, pending, trained, clientFailed, serverVars, faults>>

----------------------------------------------------------------------------
(* The training loop between its calls.                                    *)

\* obtain_group returns the prefetched group instead of sampling one.
TakePrefetched ==
    /\ pc = "obtain" /\ pending.st \in {"done", "failed"}
    /\ IF pending.st = "done"
       THEN pc' = "score" /\ result' = pending
       ELSE pc' = Raised /\ UNCHANGED result
    /\ UNCHANGED <<lineage, update, group, pending, snapshots, ack, trained,
                   clientFailed, rpc, serverVars, faults>>

Advance == IF group = Groups THEN (IF update < Updates THEN Raised ELSE "final") ELSE "obtain"

\* All advantages are zero: the group is recorded and skipped, and whatever
\* future supplied it is forgotten.
ForgottenNever == pending
Forgotten == NoGroup

SkipGroup ==
    /\ pc = "score"
    /\ pending' = Forgotten
    /\ pc' = Advance
    /\ group' = IF group < Groups THEN group + 1 ELSE group
    /\ result' = NoGroup
    /\ UNCHANGED <<lineage, update, snapshots, ack, trained, clientFailed, rpc, serverVars, faults>>

\* The group is usable: the next one is requested before this one is trained
\* on, unless this is the first or the last update.
UseGroup ==
    /\ pc = "score"
    /\ pending' = IF update + 1 > 1 /\ group < Groups /\ update + 1 < Updates
                  THEN [st |-> "queued", group |-> group + 1, value |-> [version |-> None]]
                  ELSE NoGroup
    /\ pc' = "train"
    /\ UNCHANGED <<lineage, update, group, result, snapshots, ack, trained,
                   clientFailed, rpc, serverVars, faults>>

\* The checks train_group makes before it touches the adapter: the generating
\* policy is the learner's or the one before, and its parameters are retained.
Admissible ==
    /\ ack = update
    /\ ack - result.value.version \in {0, 1}
    /\ result.value.version \in snapshots

WithGroup == trained \cup {[update |-> update + 1, group |-> result.group, value |-> result.value]}

TrainGroup ==
    /\ pc = "train"
    /\ IF Admissible
       THEN /\ trained' = WithGroup
            /\ update' = update + 1
            /\ pc' = "join"
       ELSE pc' = Raised /\ UNCHANGED <<trained, update>>
    /\ UNCHANGED <<lineage, group, result, pending, snapshots, ack, clientFailed, rpc,
                   serverVars, faults>>

\* train_group raises on every rank: no finite nonzero gradient, before the
\* optimizer's step, or an adapter that did not change as it should, after it.
\* The prefetch may be under way; the finally block waits for it.
TrainRaises ==
    /\ pc = "train" /\ Admissible
    /\ faults < MaxFaults /\ faults' = faults + 1
    /\ pc' = Raised
    /\ trained' \in {trained, WithGroup}
    /\ UNCHANGED <<lineage, update, group, result, pending, snapshots, ack,
                   clientFailed, rpc, serverVars>>

\* join_prefetch: the controls wait for the background call.
JoinPrefetch ==
    /\ pc = "join" /\ ~Prefetching
    /\ pc' = IF pending.st = "failed" THEN Raised ELSE "pause"
    /\ UNCHANGED <<lineage, update, group, result, pending, snapshots, ack, trained,
                   clientFailed, rpc, serverVars, faults>>

\* The activation check passed: the update counts, the loop goes on.
NextGroup ==
    /\ pc = "next"
    /\ pc' = IF update >= Updates THEN "final" ELSE Advance
    /\ group' = IF update < Updates /\ group < Groups THEN group + 1 ELSE group
    /\ result' = NoGroup
    /\ UNCHANGED <<lineage, update, pending, snapshots, ack, trained, clientFailed, rpc,
                   serverVars, faults>>

\* A rank dies, or one rank raises where the others wait in a collective and
\* the watchdog aborts them: no finally block runs.  A learner started over
\* meets the server where the dead one left it.
LearnerDies ==
    /\ pc \notin {"end", "dead"} /\ lineage = 1 /\ faults < MaxFaults
    /\ faults' = faults + 1
    /\ pc' = "dead" /\ rpc' = NoCall /\ pending' = NoGroup
    /\ UNCHANGED <<lineage, update, group, result, snapshots, ack, trained,
                   clientFailed, serverVars>>

LearnerRestarts ==
    /\ pc = "dead"
    /\ pc' = "initialize" /\ lineage' = lineage + 1 /\ update' = 0 /\ group' = 1
    /\ result' = NoGroup /\ pending' = NoGroup /\ snapshots' = {} /\ ack' = None
    /\ trained' = {} /\ clientFailed' = FALSE
    /\ UNCHANGED <<rpc, serverVars, faults>>
----------------------------------------------------------------------------
(* The server: dispatch, and the end of an operation.                      *)

\* The handler still has a client for the operation behind _busy.
Awaited == Outstanding /\ rpc.st = "served" /\ rpc.op = job.op

\* dispatch: close is always accepted, everything else is refused while an
\* operation runs or after any failure; a refusal latches failed too.
Refuses == job # NoJob \/ serverFailed

Dispatch ==
    /\ Outstanding /\ rpc.st = "sent"
    /\ IF rpc.op = "close"
       THEN /\ serverFailed' = TRUE
            /\ closing' = IF closing = "no" THEN "asked" ELSE closing
            /\ rpc' = [rpc EXCEPT !.st = "served"]
            /\ UNCHANGED job
       ELSE IF Refuses
       THEN /\ serverFailed' = TRUE
            /\ rpc' = [rpc EXCEPT !.st = "error"]
            /\ UNCHANGED <<job, closing>>
       ELSE /\ job' = [op |-> rpc.op, arg |-> rpc.arg, phase |-> "start", lineage |-> lineage]
            /\ rpc' = [rpc EXCEPT !.st = "served"]
            /\ UNCHANGED <<serverFailed, closing>>
    /\ UNCHANGED <<learnerVars, clientFailed, cstate, cack, active, seen, actor, loaded, faults>>

\* The operation returns a value.  With its client gone the reply may or may
\* not raise in the handler.
Succeeds(value) ==
    /\ job' = NoJob
    /\ IF Awaited
       THEN rpc' = [op |-> rpc.op, arg |-> rpc.arg, by |-> rpc.by, st |-> "ok", value |-> value]
            /\ UNCHANGED serverFailed
       ELSE UNCHANGED rpc /\ serverFailed' \in {serverFailed, TRUE}

\* The operation raises: the server latches failed.
Raises ==
    /\ job' = NoJob
    /\ serverFailed' = TRUE
    /\ rpc' = IF Awaited THEN [rpc EXCEPT !.st = "error"] ELSE rpc

\* future.result(timeout=io_timeout) gives up; the coroutine runs on.
HandlerTimesOut ==
    /\ job # NoJob /\ Awaited /\ faults < MaxFaults
    /\ faults' = faults + 1
    /\ serverFailed' = TRUE
    /\ rpc' = [rpc EXCEPT !.st = "error"]
    /\ UNCHANGED <<learnerVars, clientFailed, job, closing, cstate, cack, active, seen,
                   actor, loaded>>

----------------------------------------------------------------------------
(* The controller, the actor engine and the workers.                       *)

\* _control_lock: a control operation past its first step, or a close past
\* its own, holds it.
LockFree ==
    /\ job # NoJob => job.op = "sample" \/ job.phase = "start"
    /\ closing # "draining"

Fails == faults < MaxFaults /\ faults' = faults + 1

ControlVars == <<cack, active, seen, actor, loaded>>

\* start(): single use; the actor comes up paused or not at all.
StartActor ==
    /\ job.op = "initialize"
    /\ \/ /\ job.phase = "start" /\ LockFree
          /\ IF cstate # "new"
             THEN Raises /\ UNCHANGED cstate
             ELSE /\ cstate' = "loading" /\ job' = [job EXCEPT !.phase = "run"]
                  /\ UNCHANGED <<rpc, serverFailed>>
          /\ UNCHANGED faults
       \/ job.phase = "run" /\ cstate' = "paused" /\ Succeeds(None) /\ UNCHANGED faults
       \/ job.phase = "run" /\ cstate' = "failed" /\ Raises /\ Fails
    /\ UNCHANGED <<learnerVars, clientFailed, closing, ControlVars>>

\* The next version of the same lineage, on a paused and drained actor.
MayActivate ==
    /\ cstate = "paused" /\ active = 0
    /\ job.arg = cack.version + 1
    /\ cack.version # None => job.lineage = cack.lineage

\* activate(): the checks under the control lock.
ActivateStarts ==
    /\ job.op = "activate" /\ job.phase = "start" /\ LockFree
    /\ IF MayActivate
       THEN job' = [job EXCEPT !.phase = "run"] /\ UNCHANGED <<rpc, serverFailed>>
       ELSE Raises
    /\ UNCHANGED <<learnerVars, clientFailed, closing, cstate, ControlVars, faults>>

\* One worker replaces its adapter and reads the buffers back; a failure
\* leaves the other workers as they are and fails actor and controller.
WorkerLoads(w) ==
    /\ job.op = "activate" /\ job.phase = "run" /\ ~actor.failed
    /\ loaded[w] # job.arg
    /\ \/ loaded' = [loaded EXCEPT ![w] = job.arg]
          /\ UNCHANGED <<cstate, cack, actor, rpc, job, serverFailed, faults>>
       \/ /\ loaded' = [loaded EXCEPT ![w] = None]
          /\ actor' = [failed |-> TRUE, ack |-> None]
          /\ cstate' = "failed" /\ cack' = [cack EXCEPT !.version = None]
          /\ Raises /\ Fails
    /\ UNCHANGED <<learnerVars, clientFailed, closing, active, seen>>

\* Every worker acknowledged the version.
ActivateEnds ==
    /\ job.op = "activate" /\ job.phase = "run"
    /\ \A w \in Workers : loaded[w] = job.arg
    /\ actor' = [actor EXCEPT !.ack = job.arg]
    /\ cack' = [version |-> job.arg, lineage |-> job.lineage]
    /\ Succeeds(None)
    /\ UNCHANGED <<learnerVars, clientFailed, closing, cstate, active, seen, loaded, faults>>

\* resume(): an activated policy on a paused actor.
Resume ==
    /\ job.op = "resume" /\ job.phase = "start" /\ LockFree
    /\ IF cstate = "paused" /\ cack.version # None
       THEN cstate' = "running" /\ Succeeds(None)
       ELSE Raises /\ UNCHANGED cstate
    /\ UNCHANGED <<learnerVars, clientFailed, closing, ControlVars, faults>>

\* pause(): stop admission, await the drain, and report it unless an
\* inference failed meanwhile.
Pause ==
    /\ job.op = "pause"
    /\ \/ /\ job.phase = "start" /\ LockFree
          /\ IF cstate = "running"
             THEN /\ cstate' = "pausing" /\ job' = [job EXCEPT !.phase = "run"]
                  /\ UNCHANGED <<rpc, serverFailed>>
             ELSE Raises /\ UNCHANGED cstate
       \/ /\ job.phase = "run" /\ active = 0
          /\ IF cstate = "failed"
             THEN Raises /\ UNCHANGED cstate
             ELSE cstate' = "paused" /\ Succeeds(None)
    /\ UNCHANGED <<learnerVars, clientFailed, closing, ControlVars, faults>>

\* sample_batch admits the group under the policy active now.
SampleAdmits ==
    /\ job.op = "sample" /\ job.phase = "start"
    /\ IF cstate = "running" /\ job.arg \notin seen
       THEN /\ seen' = seen \cup {job.arg} /\ active' = active + 1
            /\ job' = [op |-> "sample", arg |-> job.arg, phase |-> "run",
                       lineage |-> job.lineage, version |-> cack.version, drawn |-> {}]
            /\ UNCHANGED <<rpc, serverFailed>>
       ELSE Raises /\ UNCHANGED <<active, seen>>
    /\ UNCHANGED <<learnerVars, clientFailed, closing, cstate, cack, actor, loaded, faults>>

\* The finally clause of sample_batch, on every way out of it.
ReleasedIfHealthy == IF cstate' = "failed" THEN active ELSE active - 1
Released == active - 1

\* generate_batch: a healthy actor that holds the policy the request names.
ActorAccepts == ~actor.failed /\ actor.ack = job.version

\* The queued group is dispatched unless an earlier one failed; what the
\* workers hold is what the tokens are drawn from.
Generates ==
    /\ job.op = "sample" /\ job.phase = "run"
    /\ IF cstate # "failed" /\ ActorAccepts
       THEN /\ job' = [job EXCEPT !.phase = "generating", !.drawn = {loaded[w] : w \in Workers}]
            /\ UNCHANGED <<cstate, rpc, serverFailed, active>>
       ELSE cstate' = "failed" /\ active' = Released /\ Raises
    /\ UNCHANGED <<learnerVars, clientFailed, closing, cack, seen, actor, loaded, faults>>

\* The batch ends: complete under an unchanged receipt, or in an error that
\* fails actor and controller before the drain is reported.
GenerationEnds ==
    /\ job.op = "sample" /\ job.phase = "generating"
    /\ \/ /\ Succeeds([version |-> job.version,
                       drawn |-> job.drawn \cup {loaded[w] : w \in Workers}])
          /\ UNCHANGED <<cstate, actor, faults>>
       \/ /\ Raises /\ Fails
          /\ cstate' = "failed" /\ actor' = [actor EXCEPT !.failed = TRUE]
    /\ active' = Released
    /\ UNCHANGED <<learnerVars, clientFailed, closing, cack, seen, loaded>>

\* close(): under the control lock stop admission, await the drain and close
\* the actor.  A second close of a closed controller returns at once.
CloseStarts ==
    /\ closing = "asked" /\ LockFree
    /\ closing' = "draining" /\ cstate' = "closing"
    /\ UNCHANGED <<learnerVars, clientFailed, rpc, serverFailed, job, ControlVars, faults>>

CloseEnds ==
    /\ closing = "draining" /\ active = 0
    /\ closing' = "closed" /\ cstate' = "closed"
    /\ UNCHANGED <<learnerVars, clientFailed, rpc, serverFailed, job, ControlVars, faults>>

\* actor.close() raises: the controller is failed, a later close may retry.
CloseFails ==
    /\ closing = "draining" /\ active = 0 /\ Fails
    /\ closing' = "no" /\ cstate' = "failed"
    /\ rpc' = IF Outstanding /\ rpc.op = "close" THEN [rpc EXCEPT !.st = "error"] ELSE rpc
    /\ UNCHANGED <<learnerVars, clientFailed, serverFailed, job, ControlVars>>

CloseReplies ==
    /\ Outstanding /\ rpc.op = "close" /\ rpc.st = "served" /\ closing = "closed"
    /\ rpc' = [op |-> "close", arg |-> rpc.arg, by |-> "main", st |-> "ok", value |-> None]
    /\ UNCHANGED <<learnerVars, clientFailed, serverVars, faults>>

----------------------------------------------------------------------------
Learner ==
    \/ MainCalls \/ PrefetchCalls \/ PrefetchReturns \/ MainReturns
    \/ TakePrefetched \/ SkipGroup \/ UseGroup \/ TrainGroup \/ JoinPrefetch \/ NextGroup

Server ==
    \/ Dispatch \/ StartActor \/ ActivateStarts \/ (\E w \in Workers : WorkerLoads(w))
    \/ ActivateEnds \/ Resume \/ Pause \/ SampleAdmits \/ Generates \/ GenerationEnds
    \/ CloseStarts \/ CloseEnds \/ CloseFails \/ CloseReplies

Next ==
    \/ Learner \/ TrainRaises \/ CallFails \/ LearnerDies \/ LearnerRestarts
    \/ Server \/ HandlerTimesOut

\* Every thread runs; an operation of the actor ends (it has its own finite
\* timeout); errors that have been answered are received.
Spec ==
    /\ Init /\ [][Next]_vars
    /\ WF_vars(Learner) /\ WF_vars(Server)
    /\ WF_vars(Outstanding /\ rpc.st = "error" /\ CallFails)

----------------------------------------------------------------------------
\* Every optimizer update consumes the group its loop iteration is about,
\* once; the group was drawn from one policy that all workers held for the
\* whole batch and that the group's record names; that policy is the
\* learner's own or the one before it, and its parameters are still retained
\* when train_group needs them as its anchor.  Prefetch, skipped groups,
\* partial worker loads, timeouts and a restarted learner notwithstanding.
UpdatesAnchored ==
    /\ pc = "train" => result.group = group /\ Admissible
    /\ \A t \in trained :
          /\ t.value.drawn = {t.value.version}
          /\ t.update - 1 - t.value.version \in {0, 1}
    /\ \A s, t \in trained : s.group = t.group => s = t

\* A close request that reached the server ends: the controller drains and
\* closes its actor or reports failure, although the operation before it may
\* have failed or lost its client half way.
CloseDrains ==
    (Outstanding /\ rpc.op = "close" /\ rpc.st = "served")
        ~> (cstate \in {"closed", "failed"} /\ active = 0)
=============================================================================
