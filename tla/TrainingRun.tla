---------------------------- MODULE TrainingRun ----------------------------
(***************************************************************************)
(* One GRPO training run: the learner loop of dsv41_train/rl/runtime.py    *)
(* (run_training), the rollout manager process it talks to                 *)
(* (dsv41_train/rl/manager.py: _serve and RolloutManager), and the         *)
(* checkpoints that carry both across a crash (dsv41_train/rl/             *)
(* checkpoint.py).                                                         *)
(*                                                                         *)
(* The weights of the model are represented by the set of groups they were *)
(* trained on, so that a policy digest identifies that history.            *)
(***************************************************************************)
EXTENDS Integers, FiniteSets

CONSTANTS
    GroupsPerStep,  \* groups the learner needs for one optimizer step
    QueueCapacity,  \* undelivered groups the manager may hold
    MaxPolicyLag,   \* oldest policy version a group may be trained with
    MaxSteps,       \* optimizer steps of the run
    EvalSteps,      \* steps after which the paused actor is evaluated
    MaxCrashes      \* bound: aborted processes in a behaviour

ASSUME ConstantTypes ==
    /\ GroupsPerStep \in Nat \ {0} /\ QueueCapacity \in Nat \ {0} /\ MaxSteps \in Nat \ {0}
    /\ MaxPolicyLag \in Nat /\ MaxCrashes \in Nat
    /\ EvalSteps \subseteq Nat /\ (EvalSteps # {} => MaxSteps \in EvalSteps)

VARIABLES
    \* the learner process
    pc,         \* where run_training is
    step,       \* optimizer steps taken, and the version it publishes next
    weights,    \* groups the model in memory was trained on
    discarded,  \* groups dropped as stale in this history
    groups,     \* groups collected for the next step
    dropped,    \* the learner's own count of dropped groups
    ack,        \* last acknowledged policy
    artifact,   \* last published policy
    recovery,   \* manager snapshot the next checkpoint will hold
    \* the pipe: at most one command is outstanding
    request, reply,
    \* the manager process
    mstate,     \* "off", "running", "pausing" or "closing" (not answered yet), "failed"
    paused,
    retained,   \* [group id -> version and whether it was delivered]
    next,       \* next_group
    committed,  \* committed_highwater
    mdropped,   \* dropped_groups
    active,     \* the group being sampled: a set of at most one [id, version]
    policy,     \* the backend's acknowledged policy
    \* the disk
    checkpoints,  \* every complete checkpoint that still exists
    dirSteps,     \* steps of the checkpoints in the current output_dir
    crashes

learner == <<pc, step, weights, discarded, groups, dropped, ack, artifact, recovery>>
pipe == <<request, reply>>
mailbox == <<retained, next, committed, mdropped>>
manager == <<mstate, paused, mailbox, active, policy>>
disk == <<checkpoints, dirSteps, crashes>>
vars == <<learner, pipe, manager, disk>>

Empty == [g \in {} |-> 0]
None == [kind |-> "none"]
Bound == QueueCapacity + GroupsPerStep

\* publish_policy_artifact: version and content.
Artifact(version, content) == [version |-> version, digest |-> content]

Command(kind) == [kind |-> kind]
Commit(consumed, rejected) == [kind |-> "commit", consumed |-> consumed, dropped |-> rejected]

\* A fresh run: no checkpoint in output_dir, base weights, version 0.
Init ==
    /\ pc = "launch" /\ step = 0 /\ weights = {} /\ discarded = {} /\ groups = {} /\ dropped = 0
    /\ ack = Artifact(0, {}) /\ artifact = Artifact(0, {}) /\ recovery = None
    /\ request = None /\ reply = None
    /\ mstate = "off" /\ paused = FALSE /\ retained = Empty /\ next = 0 /\ committed = 0
    /\ mdropped = 0 /\ active = {} /\ policy = Artifact(0, {})
    /\ checkpoints = {} /\ dirSteps = {} /\ crashes = 0

-----------------------------------------------------------------------------
(* Starting and resuming *)

\* load_training_checkpoint: cursors, published version and acknowledgements agree.
Loadable(c) ==
    /\ c.manager.next = c.next
    /\ c.publication.version = c.step
    /\ c.previousAck = c.manager.policy

\* _serve accepts a recovery state: contiguous undelivered groups within the bound.
Restorable(m) ==
    /\ DOMAIN m.packets = m.committed..(m.next - 1)
    /\ Cardinality(DOMAIN m.packets) <= Bound

\* The initial policy is published and the manager process acknowledges it; with
\* actor evaluation due the manager starts paused.
Launch ==
    /\ pc = "launch"
    /\ artifact' = Artifact(step, weights)
    /\ ack' = artifact' /\ policy' = artifact'
    /\ IF recovery = None
       THEN retained' = Empty /\ committed' = next /\ mdropped' = 0 /\ UNCHANGED next
       ELSE /\ Restorable(recovery)
            /\ retained' = [g \in DOMAIN recovery.packets |->
                              [version |-> recovery.packets[g], delivered |-> FALSE]]
            /\ next' = recovery.next /\ committed' = recovery.committed
            /\ mdropped' = recovery.dropped
    /\ active' = {} /\ mstate' = "running"
    /\ paused' = (EvalSteps # {})
    /\ pc' = IF EvalSteps # {} THEN "evaluate" ELSE "collect"
    /\ groups' = {}
    /\ UNCHANGED <<step, weights, discarded, dropped, recovery, pipe, disk>>

\* The process dies or gives up (an RPC timed out, the manager failed, SIGKILL):
\* everything but the checkpoints is gone.
Abort ==
    /\ pc \notin {"down", "finished"} /\ crashes < MaxCrashes
    /\ crashes' = crashes + 1
    /\ pc' = "down" /\ mstate' = "off"
    /\ request' = None /\ reply' = None /\ active' = {}
    /\ UNCHANGED <<step, weights, discarded, groups, dropped, ack, artifact, recovery,
                   paused, mailbox, policy, checkpoints, dirSteps>>

\* The output_dir of a resumed run must not hold later checkpoints.
UsableOutputDir(c) == \A s \in dirSteps : s <= c.step

\* Resume from a checkpoint, in the present output_dir or in a new one.
Resume(c, sameDir) ==
    /\ pc = "down"
    /\ c.step < MaxSteps
    /\ Loadable(c)
    /\ sameDir => UsableOutputDir(c)
    /\ step' = c.step /\ weights' = c.weights /\ discarded' = c.discarded
    /\ dropped' = c.dropped /\ next' = c.next /\ recovery' = c.manager
    /\ groups' = {}
    /\ dirSteps' = IF sameDir THEN dirSteps ELSE {}
    /\ pc' = "launch"
    /\ UNCHANGED <<ack, artifact, pipe, mstate, paused, retained, committed, mdropped,
                   active, policy, checkpoints, crashes>>

\* Without --resume the run starts over from the base weights; an output_dir that has
\* checkpoints is refused.
StartOver ==
    /\ pc = "down"
    /\ step' = 0 /\ weights' = {} /\ discarded' = {} /\ dropped' = 0
    /\ next' = 0 /\ recovery' = None /\ groups' = {} /\ dirSteps' = {}
    /\ pc' = "launch"
    /\ UNCHANGED <<ack, artifact, pipe, mstate, paused, retained, committed, mdropped,
                   active, policy, checkpoints, crashes>>

-----------------------------------------------------------------------------
(* The learner loop.  Every call of the manager sends one command and blocks. *)

Call(command, there) ==
    /\ request' = command /\ reply' = None /\ pc' = there
    /\ UNCHANGED <<manager, disk>>

\* The reply of the outstanding command has arrived.
Answered(here) == pc = here /\ reply # None

AskGroup ==
    /\ pc = "collect" /\ Cardinality(groups) < GroupsPerStep
    /\ Call(Command("get"), "getting")
    /\ UNCHANGED <<step, weights, discarded, groups, dropped, ack, artifact, recovery>>

NoGroupYet ==
    /\ Answered("getting") /\ reply.kind = "empty"
    /\ pc' = "collect" /\ reply' = None
    /\ UNCHANGED <<step, weights, discarded, groups, dropped, ack, artifact, recovery,
                   request, manager, disk>>

\* Mutant: one version too many is tolerated.
FreshOffByOne(version) == step - version \in 0..(MaxPolicyLag + 1)
\* policy_lag: a group of an older version than the lag allows is stale.
Fresh(version) == step - version \in 0..MaxPolicyLag

TakeGroup ==
    /\ Answered("getting") /\ reply.kind = "packet" /\ Fresh(reply.version)
    /\ groups' = groups \cup {reply.id}
    /\ pc' = "collect" /\ reply' = None
    /\ UNCHANGED <<step, weights, discarded, dropped, ack, artifact, recovery, request,
                   manager, disk>>

\* A stale group is dropped as a whole and its cursor committed at once.
DropGroup ==
    /\ Answered("getting") /\ reply.kind = "packet" /\ ~Fresh(reply.version)
    /\ step >= reply.version            \* policy_lag raises otherwise
    /\ dropped' = dropped + 1
    /\ discarded' = discarded \cup {reply.id}
    /\ Call(Commit({}, {reply.id}), "dropping")
    /\ UNCHANGED <<step, weights, groups, ack, artifact, recovery>>

Dropped ==
    /\ Answered("dropping")
    /\ pc' = "collect" /\ reply' = None
    /\ UNCHANGED <<step, weights, discarded, groups, dropped, ack, artifact, recovery,
                   request, manager, disk>>

PauseBeforeTraining ==
    /\ pc = "collect" /\ Cardinality(groups) = GroupsPerStep
    /\ Call(Command("pause"), "pausing")
    /\ UNCHANGED <<step, weights, discarded, groups, dropped, ack, artifact, recovery>>

\* train_groups, then the consumed groups are committed.
Train ==
    /\ Answered("pausing")
    /\ weights' = weights \cup groups
    /\ step' = step + 1
    /\ Call(Commit(groups, {}), "committing")
    /\ UNCHANGED <<discarded, groups, dropped, ack, artifact, recovery>>

PauseAfterCommit ==
    /\ Answered("committing")
    /\ Call(Command("pause"), "snapshot")
    /\ UNCHANGED <<step, weights, discarded, groups, dropped, ack, artifact, recovery>>

\* The manager's snapshot is kept for the checkpoint and the new policy published.
Publish ==
    /\ Answered("snapshot")
    /\ recovery' = reply.state
    /\ artifact' = Artifact(step, weights)
    /\ pc' = "save" /\ reply' = None
    /\ UNCHANGED <<step, weights, discarded, groups, dropped, ack, request, manager, disk>>

\* save_training_checkpoint: refuses an existing file, replaces atomically.
Save ==
    /\ pc = "save" /\ step \notin dirSteps
    /\ checkpoints' = checkpoints \cup
         {[step |-> step, weights |-> weights, discarded |-> discarded, dropped |-> dropped,
           next |-> recovery.next, manager |-> recovery, publication |-> artifact,
           previousAck |-> ack]}
    /\ dirSteps' = dirSteps \cup {step}
    /\ pc' = "activate"
    /\ UNCHANGED <<step, weights, discarded, groups, dropped, ack, artifact, recovery, pipe,
                   manager, crashes>>

Activate ==
    /\ pc = "activate"
    /\ Call([kind |-> "activate", policy |-> artifact], "activating")
    /\ UNCHANGED <<step, weights, discarded, groups, dropped, ack, artifact, recovery>>

\* The acknowledgement must be the published policy; then evaluation or resume.
Activated ==
    /\ Answered("activating") /\ reply.policy = artifact
    /\ ack' = reply.policy
    /\ pc' = IF step \in EvalSteps THEN "evaluate" ELSE "resume"
    /\ reply' = None
    /\ UNCHANGED <<step, weights, discarded, groups, dropped, artifact, recovery, request,
                   manager, disk>>

Evaluate ==
    /\ pc = "evaluate"
    /\ Call(Command("evaluate"), "evaluating")
    /\ UNCHANGED <<step, weights, discarded, groups, dropped, ack, artifact, recovery>>

Evaluated ==
    /\ Answered("evaluating")
    /\ pc' = "resume" /\ reply' = None
    /\ UNCHANGED <<step, weights, discarded, groups, dropped, ack, artifact, recovery,
                   request, manager, disk>>

ResumeActor ==
    /\ pc = "resume"
    /\ Call(Command("resume"), "resuming")
    /\ UNCHANGED <<step, weights, discarded, groups, dropped, ack, artifact, recovery>>

\* The next turn collects new groups, or the run is over and closes the manager.
Resumed ==
    /\ Answered("resuming")
    /\ groups' = {}
    /\ IF step < MaxSteps
       THEN pc' = "collect" /\ reply' = None /\ UNCHANGED <<request, manager, disk>>
       ELSE Call(Command("close"), "closing")
    /\ UNCHANGED <<step, weights, discarded, dropped, ack, artifact, recovery>>

Closed ==
    /\ Answered("closing")
    /\ pc' = "finished" /\ reply' = None
    /\ UNCHANGED <<step, weights, discarded, groups, dropped, ack, artifact, recovery,
                   request, manager, disk>>

-----------------------------------------------------------------------------
(* The manager process *)

Undelivered == {g \in DOMAIN retained : ~retained[g].delivered}
\* The oldest group of a set.
Oldest(S) == {g \in S : \A h \in S : g <= h}

\* A command is taken from the pipe and answered.
Answer(command, value) ==
    /\ mstate = "running" /\ request.kind = command
    /\ request' = None /\ reply' = value
    /\ UNCHANGED <<learner, disk>>

HandleGetEmpty ==
    /\ Undelivered = {}
    /\ Answer("get", [kind |-> "empty"])
    /\ UNCHANGED manager

HandleGet ==
    \E g \in Oldest(Undelivered) :
        /\ Answer("get", [kind |-> "packet", id |-> g, version |-> retained[g].version])
        /\ retained' = [retained EXCEPT ![g].delivered = TRUE]
        /\ UNCHANGED <<mstate, paused, next, committed, mdropped, active, policy>>

\* A command the manager does not accept raises in _serve and ends the process.
Refuse ==
    /\ mstate' = "failed"
    /\ UNCHANGED <<learner, pipe, paused, mailbox, active, policy, disk>>

Taken(command) == mstate = "running" /\ request.kind = command

\* The ids of a commit must be the oldest groups, all of them delivered.
OldestPrefix(ids) ==
    /\ ids \subseteq DOMAIN retained
    /\ \A g \in ids : retained[g].delivered
    /\ \A g \in DOMAIN retained \ ids : \A h \in ids : h < g

\* Mutant: the highwater is the last committed id itself.
HighwaterLast(ids) == CHOOSE g \in ids : \A h \in ids : h <= g
\* committed_highwater after a commit: the id after the last one.
Highwater(ids) == 1 + (CHOOSE g \in ids : \A h \in ids : h <= g)

HandleCommit ==
    /\ Taken("commit")
    /\ LET ids == request.consumed \cup request.dropped
       IN  IF OldestPrefix(ids)
           THEN /\ Answer("commit", [kind |-> "ok"])
                /\ retained' = [g \in DOMAIN retained \ ids |-> retained[g]]
                /\ committed' = IF ids = {} THEN committed ELSE Highwater(ids)
                /\ mdropped' = mdropped + Cardinality(request.dropped)
                /\ UNCHANGED <<mstate, paused, next, active, policy>>
           ELSE Refuse

\* pause and close stop admission; they are answered once the group being sampled ended.
HandlePause ==
    /\ Taken("pause")
    /\ mstate' = "pausing" /\ paused' = TRUE /\ request' = None
    /\ UNCHANGED <<learner, reply, mailbox, active, policy, disk>>

HandleClose ==
    /\ Taken("close")
    /\ mstate' = "closing" /\ paused' = TRUE /\ request' = None
    /\ UNCHANGED <<learner, reply, mailbox, active, policy, disk>>

\* Mutant: the recovery state forgets the groups dropped so far.
SnapshotWithoutDrops ==
    [next |-> next, committed |-> committed, dropped |-> 0, policy |-> policy,
     packets |-> [g \in DOMAIN retained |-> retained[g].version]]
\* The recovery state answered to a pause.
Snapshot ==
    [next |-> next, committed |-> committed, dropped |-> mdropped, policy |-> policy,
     packets |-> [g \in DOMAIN retained |-> retained[g].version]]

\* No group is being sampled.
Quiescent == active = {}

AnswerPause ==
    /\ mstate = "pausing" /\ Quiescent
    /\ reply' = [kind |-> "snapshot", state |-> Snapshot]
    /\ mstate' = "running"
    /\ UNCHANGED <<learner, request, paused, mailbox, active, policy, disk>>

\* The stream is closed, the close acknowledged, and the process ends.
AnswerClose ==
    /\ mstate = "closing" /\ Quiescent
    /\ reply' = [kind |-> "ok"]
    /\ mstate' = "off"
    /\ UNCHANGED <<learner, request, paused, mailbox, active, policy, disk>>

Drained == paused /\ active = {}

\* The backend loads the artifact unless it rolls a version back or replaces it.
HandleActivate ==
    /\ Taken("activate")
    /\ IF /\ Drained
          /\ request.policy.version >= policy.version
          /\ request.policy.version = policy.version => request.policy = policy
       THEN /\ Answer("activate", [kind |-> "ok", policy |-> request.policy])
            /\ policy' = request.policy
            /\ UNCHANGED <<mstate, paused, mailbox, active>>
       ELSE Refuse

HandleEvaluate ==
    /\ Taken("evaluate")
    /\ IF Drained
       THEN Answer("evaluate", [kind |-> "ok"]) /\ UNCHANGED manager
       ELSE Refuse

\* Mutant: the answer is sent but admission stays paused.
HandleResumeForgetful ==
    /\ Answer("resume", [kind |-> "ok"])
    /\ UNCHANGED manager
HandleResume ==
    /\ Answer("resume", [kind |-> "ok"])
    /\ paused' = FALSE
    /\ UNCHANGED <<mstate, mailbox, active, policy>>

\* There is mailbox credit for one more group.
Room ==
    /\ Cardinality(DOMAIN retained) < Bound
    /\ Cardinality(Undelivered) < QueueCapacity

\* A group is dispatched with the acknowledged policy; its cursor is reserved first.
Produce ==
    /\ mstate = "running" /\ ~paused /\ active = {} /\ Room
    /\ active' = {[id |-> next, version |-> policy.version]}
    /\ next' = next + 1
    /\ UNCHANGED <<learner, pipe, mstate, paused, retained, committed, mdropped, policy,
                   disk>>

\* The group was sampled: its packet is retained until committed.
Sampled ==
    /\ mstate \in {"running", "pausing", "closing"}
    /\ \E a \in active :
          retained' = [g \in DOMAIN retained \cup {a.id} |->
                         IF g = a.id THEN [version |-> a.version, delivered |-> FALSE]
                         ELSE retained[g]]
    /\ active' = {}
    /\ UNCHANGED <<learner, pipe, mstate, paused, next, committed, mdropped, policy, disk>>

Finished == pc = "finished" /\ UNCHANGED vars

-----------------------------------------------------------------------------
LearnerStep ==
    \/ Launch \/ AskGroup \/ NoGroupYet \/ TakeGroup \/ DropGroup \/ Dropped
    \/ PauseBeforeTraining \/ Train \/ PauseAfterCommit \/ Publish \/ Save
    \/ Activate \/ Activated \/ Evaluate \/ Evaluated \/ ResumeActor \/ Resumed \/ Closed

ManagerStep ==
    \/ HandleGetEmpty \/ HandleGet \/ HandleCommit \/ HandlePause \/ AnswerPause
    \/ HandleActivate \/ HandleEvaluate \/ HandleResume \/ HandleClose \/ AnswerClose

Restart == StartOver \/ \E c \in checkpoints : \E sameDir \in BOOLEAN : Resume(c, sameDir)

Next == LearnerStep \/ ManagerStep \/ Produce \/ Sampled \/ Abort \/ Restart \/ Finished

\* Both processes run, and a group that is being sampled ends (a sampler that hangs is
\* cut off by the learner's timeout: Abort).  Nobody has to restart a dead run.
Fairness == WF_vars(LearnerStep) /\ WF_vars(ManagerStep) /\ WF_vars(Produce) /\ WF_vars(Sampled)

Spec == Init /\ [][Next]_vars /\ Fairness

-----------------------------------------------------------------------------
(* Properties *)

Live == mstate \in {"running", "pausing", "closing"} /\ pc # "launch"
\* The groups a pending commit is about to settle.
InFlight == IF request.kind = "commit" THEN request.consumed \cup request.dropped ELSE {}

\* Every group is trained on or dropped exactly once: the learner's model and its drop
\* count always stand for the groups below the manager's committed_highwater, plus those
\* of the commit in the pipe, and no group counts twice (runtime.py 488-511 against
\* manager.py 121-133).
ExactlyOnce ==
    Live => /\ weights \cap discarded = {}
            /\ weights \cup discarded = 0..(committed - 1) \cup InFlight
            /\ InFlight \cap 0..(committed - 1) = {}
            /\ dropped = Cardinality(discarded)
            /\ Cardinality(weights) = GroupsPerStep * step

\* A checkpoint is a consistent cut of the learner and the manager: the restored model
\* and the restored mailbox together hold every group below next_group exactly once, so a
\* crash at any moment neither loses a sampled group nor trains on one twice.
CheckpointsAreCuts ==
    \A c \in checkpoints :
        /\ c.weights \cap c.discarded = {}
        /\ c.weights \cup c.discarded = 0..(c.manager.committed - 1)
        /\ c.manager.dropped = c.dropped /\ c.dropped = Cardinality(c.discarded)
        /\ Cardinality(c.weights) = GroupsPerStep * c.step

\* No checkpoint the run leaves behind is refused by load_training_checkpoint or by the
\* manager process that restores its mailbox.
CheckpointsRestore == \A c \in checkpoints : Loadable(c) /\ Restorable(c.manager)

\* The manager never meets a command it refuses: commits are the oldest delivered prefix,
\* activation and evaluation find the sampler drained, versions only grow.
NoCommandRefused == mstate # "failed"

\* The actor samples only with the base policy or with one whose checkpoint is durable:
\* a crash never leaves groups of a policy that no restart can reproduce.
ActivePolicyDurable ==
    mstate # "off" /\ policy.version > 0 => \E c \in checkpoints : c.publication = policy

\* A collected group is never from the future nor staler than the configured lag at the
\* moment it is trained on, and the manager still retains it for recovery.
TrainedGroupsFresh ==
    pc \in {"collect", "getting", "dropping", "pausing"} /\ mstate # "off" =>
        \A g \in groups : /\ g \in DOMAIN retained /\ retained[g].delivered
                          /\ step - retained[g].version \in 0..MaxPolicyLag

\* No group is sampled while the policy changes under it, and none while the learner
\* trains, snapshots the manager or evaluates the actor.
SamplerStill ==
    /\ \A a \in active : a.version = policy.version
    /\ pc \in {"committing", "snapshot", "save", "activate", "activating", "evaluate", "evaluating"}
         => active = {}

\* The checkpoint of a step never meets an existing file (FileExistsError after the
\* optimizer step would lose it).
SaveNeverCollides == pc = "save" => step \notin dirSteps

\* What a crash leaves behind is a run that can go on: all of the above about checkpoints.
CheckpointsSound == CheckpointsAreCuts /\ CheckpointsRestore /\ ActivePolicyDurable /\ SaveNeverCollides

\* Learner and manager stay in step: no command is refused, nothing is sampled while the
\* policy is in other hands, and no group is trained on beyond the configured lag.
TrainingProtocol == NoCommandRefused /\ SamplerStill /\ TrainedGroupsFresh

\* A run that is started ends, or its process dies; it never waits for ever for a group,
\* a drain or an acknowledgement.
RunEnds == pc = "launch" ~> pc \in {"finished", "down"}
=============================================================================
