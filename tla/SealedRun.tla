------------------------------ MODULE SealedRun ------------------------------
(***************************************************************************)
(* A Terminal-Bench training run across two machines.  On the GPU machine   *)
(* a learner leases its policy, imports the sealed group that was sampled  *)
(* under it, takes one optimizer step, activates the new policy and has    *)
(* one episode evaluated under it.  On the CPU machine a supervisor waits  *)
(* for each lease, launches one detached workflow for it and publishes     *)
(* what the workflow sealed.  Leases and sealed groups travel as immutable *)
(* artifacts (ArtifactTransfer).  Any process may die at any point; a      *)
(* learner that failed before it imported the group may be recovered by a  *)
(* new one.                                                                *)
(***************************************************************************)
EXTENDS Naturals, FiniteSets

CONSTANTS
    Attempts,      \* learner processes: 1 is the original, later ones recover it
    MaxRestarts    \* bound: times the supervisor is started

ASSUME SealedAssumption == Attempts \in Nat \ {0} /\ MaxRestarts \in Nat \ {0}

\* Phase 0 samples the training group, phase 1 the evaluation.  The policy a
\* phase declares is the policy version of the same number.
Phases == {0, 1}
Files == {"lease", "guard", "config", "claim", "finished"}

VARIABLES
    leases,     \* policy leases delivered to the CPU side
    seals,      \* sealed groups delivered to the GPU side: [phase, clean]
    sup,        \* the supervisor: [at, phase]
    starts,
    control,    \* the supervisor's control files: "none", "torn" or "whole"
    worker,     \* the detached workflow of a phase
    output,     \* its output directory: "none", "open" or "sealed"
    clean,      \* whether what it has sealed or will seal is eligible
    sampled,    \* policies its episodes were sampled under
    launches,   \* workflows launched for a phase
    learner,    \* where each learner process is
    actor,      \* the served policy: [owner, policy, running]
    consumer,   \* .pre-update-consumer.json: the attempt that claimed the group, or 0
    steps       \* optimizer steps taken on the group of phase 0

cpuSide == <<sup, starts, control, worker, output, clean, sampled, launches>>
gpuSide == <<learner, actor, consumer, steps>>
sealedVars == <<leases, seals, cpuSide, gpuSide>>

NoActor == [owner |-> 0, policy |-> 0, running |-> FALSE]

SealedInit ==
    /\ leases = {} /\ seals = {}
    /\ sup = [at |-> "down", phase |-> 0] /\ starts = 0
    /\ control = [p \in Phases |-> [f \in Files |-> "none"]]
    /\ worker = [p \in Phases |-> "none"] /\ output = [p \in Phases |-> "none"]
    /\ clean = [p \in Phases |-> TRUE] /\ sampled = [p \in Phases |-> {}]
    /\ launches = [p \in Phases |-> 0]
    /\ learner = [a \in 1..Attempts |-> "off"] /\ actor = NoActor
    /\ consumer = 0 /\ steps = 0

----------------------------------------------------------------------------
(***************************************************************************)
(* run_supervisor.  An exception ends the process; the lock goes with it.  *)
(***************************************************************************)
Goto(at) == sup' = [sup EXCEPT !.at = at]
NextPhase == sup' = IF sup.phase = 0 THEN [at |-> "wait", phase |-> 1] ELSE [at |-> "down", phase |-> 0]

SupervisorStarts ==
    /\ sup.at = "down" /\ starts < MaxRestarts
    /\ starts' = starts + 1 /\ sup' = [at |-> "wait", phase |-> 0]
    /\ UNCHANGED <<leases, seals, control, worker, output, clean, sampled, launches, gpuSide>>

\* Also a wait that timed out, or a readiness that never qualified.
SupervisorDies ==
    /\ sup.at # "down" /\ Goto("down")
    /\ UNCHANGED <<leases, seals, starts, control, worker, output, clean, sampled, launches, gpuSide>>

\* write_new: refused when the file exists; a death may leave it without bytes.
Write(f, next) ==
    /\ UNCHANGED <<leases, seals, starts, worker, output, clean, sampled, launches, gpuSide>>
    /\ IF control[sup.phase][f] # "none"
       THEN Goto("down") /\ UNCHANGED control
       ELSE \/ control' = [control EXCEPT ![sup.phase][f] = "whole"] /\ next
            \/ control' = [control EXCEPT ![sup.phase][f] = "torn"] /\ Goto("down")

\* The delivered lease is kept; on a restart the copy must equal it.
LeaseArrives ==
    /\ sup.at = "wait" /\ sup.phase \in leases
    /\ IF control[sup.phase]["lease"] = "whole"
       THEN /\ Goto("decide")
            /\ UNCHANGED <<leases, seals, starts, control, worker, output, clean, sampled,
                           launches, gpuSide>>
       ELSE Write("lease", Goto("decide"))

Unclaimed(p) == control[p]["claim"] = "none" /\ output[p] = "none"

CleanClosed(p) == output[p] = "sealed"

Decide ==
    /\ sup.at = "decide"
    /\ LET p == sup.phase IN
       CASE control[p]["finished"] = "whole" ->
              IF CleanClosed(p) THEN NextPhase ELSE Goto("down")
         [] control[p]["finished"] = "torn" -> Goto("down")
         [] OTHER -> Goto(IF Unclaimed(p) THEN "guard" ELSE "down")
    /\ UNCHANGED <<leases, seals, starts, control, worker, output, clean, sampled, launches, gpuSide>>

\* qualified_guard: the relay is ready and serves the policy of the lease.
Guard ==
    /\ sup.at = "guard" /\ actor.running /\ actor.policy = sup.phase
    /\ Write("guard", Goto("config"))

WriteConfig == sup.at = "config" /\ Write("config", Goto("claim"))

Claim == sup.at = "claim" /\ Write("claim", Goto("launch"))

Launch ==
    /\ sup.at = "launch" /\ Goto("running")
    /\ launches' = [launches EXCEPT ![sup.phase] = @ + 1]
    /\ worker' = [worker EXCEPT ![sup.phase] = "prepared"]
    /\ UNCHANGED <<leases, seals, starts, control, output, clean, sampled, gpuSide>>

WorkerExits ==
    /\ sup.at = "running" /\ worker[sup.phase] \in {"exited", "dead"}
    /\ Goto(IF output[sup.phase] = "sealed" THEN "publish" ELSE "down")
    /\ UNCHANGED <<leases, seals, starts, control, worker, output, clean, sampled, launches, gpuSide>>

\* The same key and bytes as the workflow published.  A failed or excluded
\* phase is published and ends the supervisor.
Publish ==
    /\ sup.at = "publish"
    /\ seals' = seals \cup {[phase |-> sup.phase, clean |-> clean[sup.phase]]}
    /\ Goto(IF worker[sup.phase] = "exited" /\ clean[sup.phase] THEN "finish" ELSE "down")
    /\ UNCHANGED <<leases, starts, control, worker, output, clean, sampled, launches, gpuSide>>

Finish == sup.at = "finish" /\ Write("finished", NextPhase)

----------------------------------------------------------------------------
(***************************************************************************)
(* cpu_workflow.run, in a session of its own: it outlives its supervisor.  *)
(***************************************************************************)
WorkflowStarts(p) ==
    /\ worker[p] = "prepared"
    /\ IF output[p] = "none"
       THEN worker' = [worker EXCEPT ![p] = "sampling"] /\ output' = [output EXCEPT ![p] = "open"]
       ELSE worker' = [worker EXCEPT ![p] = "dead"] /\ UNCHANGED output
    /\ UNCHANGED <<leases, seals, sup, starts, control, clean, sampled, launches, gpuSide>>

\* A generation.  The contract accepts a turn only under the leased policy.
Sample(p) ==
    /\ worker[p] = "sampling" /\ actor.running
    /\ sampled' = [sampled EXCEPT ![p] = @ \cup {actor.policy}]
    /\ clean' = [clean EXCEPT ![p] = @ /\ actor.policy = p]
    /\ UNCHANGED <<leases, seals, sup, starts, control, worker, output, launches, gpuSide>>

\* An episode that is not eligible, or a stop signal.
Excluded(p) ==
    /\ worker[p] = "sampling" /\ clean[p]
    /\ clean' = [clean EXCEPT ![p] = FALSE]
    /\ UNCHANGED <<leases, seals, sup, starts, control, worker, output, sampled, launches, gpuSide>>

\* The stream is closed, the spool empty, the inventory hashed.
Seal(p) ==
    /\ worker[p] = "sampling" /\ (sampled[p] # {} \/ ~clean[p])
    /\ worker' = [worker EXCEPT ![p] = "sealed"] /\ output' = [output EXCEPT ![p] = "sealed"]
    /\ UNCHANGED <<leases, seals, sup, starts, control, clean, sampled, launches, gpuSide>>

WorkflowPublishes(p) ==
    /\ worker[p] = "sealed"
    /\ worker' = [worker EXCEPT ![p] = "exited"]
    /\ seals' = seals \cup {[phase |-> p, clean |-> clean[p]]}
    /\ UNCHANGED <<leases, sup, starts, control, output, clean, sampled, launches, gpuSide>>

WorkflowDies(p) ==
    /\ worker[p] \in {"prepared", "sampling", "sealed"}
    /\ worker' = [worker EXCEPT ![p] = "dead"]
    /\ UNCHANGED <<leases, seals, sup, starts, control, output, clean, sampled, launches, gpuSide>>

----------------------------------------------------------------------------
(***************************************************************************)
(* native_workflow.main and SealedCPUGroupProvider, driven by run_training. *)
(***************************************************************************)
Step(a, at) == learner' = [learner EXCEPT ![a] = at]
Ended == {"off", "done", "failed", "closed_before_import", "dead"}

\* original_initial_policy: the original is gone, failed at the import without
\* having imported, and nobody has claimed its group.
RecoverableAnyClaim == learner[1] = "closed_before_import"
Recoverable == learner[1] = "closed_before_import" /\ consumer = 0

LearnerStarts(a) ==
    /\ learner[a] = "off" /\ \A b \in 1..Attempts : learner[b] \in Ended
    /\ IF a = 1 THEN UNCHANGED consumer ELSE Recoverable /\ consumer' = a
    /\ Step(a, "importing") /\ actor' = [owner |-> a, policy |-> 0, running |-> TRUE]
    /\ UNCHANGED <<leases, seals, cpuSide, steps>>

PublishLease(a) ==
    /\ learner[a] = "importing" /\ leases' = leases \cup {0}
    /\ UNCHANGED <<seals, cpuSide, gpuSide>>

\* get: receive_sealed, validate_sealed_group and the import record.  A group
\* that is not eligible is refused.
Import(a) ==
    /\ learner[a] = "importing"
    /\ \E s \in seals :
          /\ s.phase = 0
          /\ IF s.clean THEN Step(a, "imported") /\ UNCHANGED actor
             ELSE Step(a, "failed") /\ actor' = NoActor
    /\ UNCHANGED <<leases, seals, cpuSide, consumer, steps>>

\* get raises before it imported; the provider is then closed completely.
ImportFails(a) ==
    /\ learner[a] = "importing" /\ actor' = NoActor
    /\ Step(a, "closed_before_import")
    /\ UNCHANGED <<leases, seals, cpuSide, consumer, steps>>

Pause(a) ==
    /\ learner[a] = "imported" /\ Step(a, "paused")
    /\ actor' = [actor EXCEPT !.running = FALSE]
    /\ UNCHANGED <<leases, seals, cpuSide, consumer, steps>>

Train(a) ==
    /\ learner[a] = "paused" /\ Step(a, "trained") /\ steps' = steps + 1
    /\ UNCHANGED <<leases, seals, cpuSide, actor, consumer>>

\* The checkpoint and the commit record are written, then the policy is activated.
Activate(a) ==
    /\ learner[a] = "trained" /\ Step(a, "activated")
    /\ actor' = [actor EXCEPT !.policy = 1]
    /\ UNCHANGED <<leases, seals, cpuSide, consumer, steps>>

Resume(a) ==
    /\ learner[a] = "activated" /\ Step(a, "evaluating")
    /\ actor' = [actor EXCEPT !.running = TRUE] /\ leases' = leases \cup {1}
    /\ UNCHANGED <<seals, cpuSide, consumer, steps>>

VerifyPostUpdate(a) ==
    /\ learner[a] = "evaluating"
    /\ \E s \in seals : s.phase = 1 /\ Step(a, IF s.clean THEN "done" ELSE "failed")
    /\ actor' = NoActor
    /\ UNCHANGED <<leases, seals, cpuSide, consumer, steps>>

LearnerDies(a) ==
    /\ learner[a] \notin Ended /\ actor' = NoActor
    /\ Step(a, "dead")
    /\ UNCHANGED <<leases, seals, cpuSide, consumer, steps>>

----------------------------------------------------------------------------
Supervisor ==
    \/ SupervisorStarts \/ SupervisorDies \/ LeaseArrives \/ Decide \/ Guard \/ WriteConfig
    \/ Claim \/ Launch \/ WorkerExits \/ Publish \/ Finish

Workflow(p) ==
    \/ WorkflowStarts(p) \/ Sample(p) \/ Excluded(p) \/ Seal(p) \/ WorkflowPublishes(p)
    \/ WorkflowDies(p)

Learner(a) ==
    \/ LearnerStarts(a) \/ PublishLease(a) \/ Import(a) \/ ImportFails(a) \/ Pause(a)
    \/ Train(a) \/ Activate(a) \/ Resume(a) \/ VerifyPostUpdate(a) \/ LearnerDies(a)

SealedNext == Supervisor \/ (\E p \in Phases : Workflow(p)) \/ (\E a \in 1..Attempts : Learner(a))

SealedSpec == SealedInit /\ [][SealedNext]_sealedVars

----------------------------------------------------------------------------
\* Every episode is run once and the group is consumed once.  However the
\* supervisor dies between the files it writes, and although its workflow
\* lives on without it, a phase has one workflow; over the original learner
\* and every recovery at most one optimizer step is taken on the group; and
\* what is trained on or reported was sampled under the leased policy alone.
ConsumedOnce ==
    /\ \A p \in Phases : launches[p] <= 1
    /\ steps <= 1
    /\ steps = 1 => sampled[0] = {0}
    /\ (\E a \in 1..Attempts : learner[a] = "done") => sampled[1] = {1}

=============================================================================
