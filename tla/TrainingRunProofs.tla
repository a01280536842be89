------------------------- MODULE TrainingRunProofs -------------------------
(***************************************************************************)
(* Proofs about the two training programs and their checkpoints.           *)
(* TrainingRun, for every queue capacity, group count, policy lag,         *)
(* evaluation schedule, length of the run and number of crashes: every     *)
(* group is consumed exactly once, every checkpoint is a consistent cut    *)
(* that restores, and learner and manager keep to their protocol.          *)
(* SupervisedRun, for any ranks, layouts, data and launches: what memory,  *)
(* checkpoints and bundles hold is what the updates up to their step make  *)
(* of the base weights.                                                    *)
(***************************************************************************)
EXTENDS TrainingRun, SupervisedRun, SequenceTheorems, FiniteSetTheorems, TLAPS

-----------------------------------------------------------------------------
(* The invariant *)

\* The learner has a manager process, which may have been closed.
On == pc \notin {"launch", "down"}

\* The command is in the pipe; the manager drains before it answers; it has answered.
Asked(command) == mstate = "running" /\ request = command /\ reply = None
Drains(what) == mstate = what /\ request = None /\ reply = None
Replied(kind) == mstate = "running" /\ request = None /\ reply.kind = kind

\* One command at a time, and the manager refuses none.
PipeOK ==
    /\ pc \in {"launch", "down", "finished"} => mstate = "off" /\ request = None /\ reply = None
    /\ pc \in {"collect", "save", "activate", "evaluate", "resume"} =>
           mstate = "running" /\ request = None /\ reply = None
    /\ pc = "getting" => Asked(Command("get")) \/ Replied("empty") \/ Replied("packet")
    /\ pc = "dropping" => Asked(Commit({}, {committed})) \/ Replied("ok")
    /\ pc = "committing" => Asked(Commit(groups, {})) \/ Replied("ok")
    /\ pc \in {"pausing", "snapshot"} => Asked(Command("pause")) \/ Drains("pausing") \/ Replied("snapshot")
    /\ pc = "activating" => \/ Asked([kind |-> "activate", policy |-> artifact])
                            \/ Replied("ok") /\ reply.policy = artifact
    /\ pc = "evaluating" => Asked(Command("evaluate")) \/ Replied("ok")
    /\ pc = "resuming" => Asked(Command("resume")) \/ Replied("ok")
    /\ pc = "closing" => \/ Asked(Command("close")) \/ Drains("closing")
                         \/ mstate = "off" /\ request = None /\ reply.kind = "ok"
    /\ pc \in {"launch", "down", "finished", "collect", "save", "activate", "evaluate", "resume",
               "getting", "dropping", "committing", "pausing", "snapshot", "activating",
               "evaluating", "resuming", "closing"}

\* From the answer of a pause to the resumption nothing is sampled.
StillOK ==
    /\ pc \in {"committing", "snapshot", "save", "activate", "activating", "evaluate", "evaluating", "resume"}
         => paused /\ active = {}
    /\ pc = "pausing" /\ reply # None => paused /\ active = {}
    /\ pc = "resuming" /\ reply = None => paused /\ active = {}
    /\ mstate \in {"pausing", "closing"} => paused
    /\ mstate = "off" => active = {}

\* The mailbox holds what lies between the two cursors, but for the group being sampled,
\* and later groups have later policies.
MailOK ==
    On => /\ next \in Nat /\ committed \in Nat /\ committed <= next /\ next - committed <= Bound
          /\ active = {} \/ (committed < next /\ active = {[id |-> next - 1, version |-> policy.version]})
          /\ DOMAIN retained = committed..(IF active = {} THEN next - 1 ELSE next - 2)
          /\ retained \in [DOMAIN retained -> [version : Nat, delivered : BOOLEAN]]
          /\ policy.version \in Nat
          /\ \A g \in DOMAIN retained : retained[g].version <= policy.version
          /\ \A g, h \in DOMAIN retained : g < h => retained[g].version <= retained[h].version

\* Groups the learner has in its hands.
Held ==
    IF pc \in {"collect", "getting", "pausing"}
    THEN groups \cup (IF reply.kind = "packet" THEN {reply.id} ELSE {})
    ELSE InFlight

\* The delivered groups are those in the learner's hands, the oldest ones without a gap;
\* a group is dropped only while no other is held.
HandsOK ==
    On => /\ \A g \in DOMAIN retained : retained[g].delivered <=> g \in Held
          /\ Held \subseteq DOMAIN retained
          /\ pc \in {"collect", "getting", "pausing"} \/ (pc = "committing" /\ reply = None) =>
               /\ Cardinality(groups) \in 0..GroupsPerStep
               /\ groups = committed..(committed + Cardinality(groups) - 1)
          /\ pc \in {"collect", "getting", "pausing"} =>
                 \A g \in groups : step - retained[g].version \in 0..MaxPolicyLag
          /\ pc = "getting" => Cardinality(groups) < GroupsPerStep
          /\ pc = "pausing" \/ (pc = "committing" /\ reply = None) => Cardinality(groups) = GroupsPerStep
          /\ pc = "getting" /\ reply.kind = "packet" =>
                 reply.id = committed + Cardinality(groups) /\ reply.version = retained[reply.id].version
          /\ pc = "dropping" => groups = {}

\* What the learner's model and counts stand for.
Settled(w, d, n, s, below) ==
    /\ w \cap d = {} /\ w \cup d = below
    /\ n = Cardinality(d) /\ Cardinality(w) = GroupsPerStep * s

CountsOK ==
    /\ step \in Nat /\ dropped \in Nat
    /\ On => /\ Settled(weights, discarded, dropped, step, 0..(committed - 1) \cup InFlight)
             /\ mdropped = dropped - (IF request.kind = "commit" THEN Cardinality(request.dropped) ELSE 0)

\* The policy of the backend, of the last acknowledgement and of the last publication.
PolicyOK ==
    /\ pc \in {"collect", "getting", "dropping", "pausing", "evaluate", "evaluating", "resume", "resuming",
               "closing", "finished"} => policy = Artifact(step, weights) /\ ack = policy
    /\ pc \in {"committing", "snapshot", "save", "activate"} \/ (pc = "activating" /\ reply = None) =>
           policy.version = step - 1 /\ ack = policy
    /\ pc = "activating" /\ reply # None => policy = artifact
    /\ pc \in {"save", "activate", "activating"} => artifact = Artifact(step, weights)

\* A snapshot of the manager that goes with a state of the learner.
Cut(m, w, d, n, s) ==
    /\ m.next \in Nat /\ m.committed \in Nat /\ m.committed <= m.next /\ m.next - m.committed <= Bound
    /\ DOMAIN m.packets = m.committed..(m.next - 1)
    /\ \A g \in DOMAIN m.packets : m.packets[g] \in 0..s
    /\ \A g, h \in DOMAIN m.packets : g < h => m.packets[g] <= m.packets[h]
    /\ m.dropped = n /\ n \in Nat /\ "next" \in DOMAIN m
    /\ Settled(w, d, n, s, 0..(m.committed - 1))

\* Policies whose checkpoint is durable, and the base policy.
Durable(p) == p.version > 0 => \E c \in checkpoints : c.publication = p

\* Every checkpoint is a cut, and so is what the next one will hold or a restart begins with.
DiskOK ==
    /\ \A c \in checkpoints :
           /\ c.step \in Nat /\ Cut(c.manager, c.weights, c.discarded, c.dropped, c.step)
           /\ c.next = c.manager.next /\ c.publication = Artifact(c.step, c.weights)
           /\ c.previousAck = c.manager.policy
    /\ pc = "launch" => \/ /\ recovery = None /\ step = 0 /\ weights = {} /\ discarded = {}
                           /\ dropped = 0 /\ next = 0
                        \/ Cut(recovery, weights, discarded, dropped, step)
    /\ pc = "launch" => Durable(Artifact(step, weights))
    /\ pc = "snapshot" /\ reply # None =>
           Cut(reply.state, weights, discarded, dropped, step) /\ reply.state.policy = ack
    /\ pc = "save" => Cut(recovery, weights, discarded, dropped, step) /\ recovery.policy = ack
    /\ On => Durable(policy)
    /\ pc \in {"activate", "activating"} => Durable(artifact)
    /\ dirSteps \subseteq Nat
    /\ pc # "down" => \A s \in dirSteps : s <= (IF pc \in {"committing", "snapshot", "save"} THEN step - 1 ELSE step)

IndInv == PipeOK /\ StillOK /\ MailOK /\ HandsOK /\ CountsOK /\ PolicyOK /\ DiskOK


-----------------------------------------------------------------------------
(* Facts about intervals, commits and snapshots *)

\* As many groups as an interval is long.
LEMMA IntervalCard ==
    ASSUME NEW a \in Nat, NEW n \in Nat
    PROVE  IsFiniteSet(a..(a + n - 1)) /\ Cardinality(a..(a + n - 1)) = n
BY FS_Interval

\* A snapshot is not the absence of one.
LEMMA CutIsThere ==
    ASSUME NEW m, NEW w, NEW d, NEW n, NEW s, Cut(m, w, d, n, s)
    PROVE  m # None
<1>1. DOMAIN None = {"kind"}
    BY DEF None
<1> QED BY <1>1 DEF Cut

\* The manager accepts a snapshot that is a cut.
LEMMA CutRestores ==
    ASSUME NEW m, NEW w, NEW d, NEW n, NEW s, Cut(m, w, d, n, s)
    PROVE  Restorable(m)
<1>1. m.committed \in Nat /\ m.next - m.committed \in Nat /\ m.next - m.committed <= Bound /\ m.next \in Nat
    BY DEF Cut
<1>2. m.committed + (m.next - m.committed) - 1 = m.next - 1
    BY <1>1
<1>3. Cardinality(m.committed..(m.next - 1)) = m.next - m.committed
    BY <1>1, <1>2, IntervalCard
<1> QED BY <1>1, <1>3 DEF Cut, Restorable

\* A commit in the pipe names the oldest groups, all delivered: it is never refused and
\* moves the highwater behind them.
LEMMA CommitIds ==
    ASSUME IndInv, Taken("commit")
    PROVE  /\ On /\ reply = None /\ pc \in {"dropping", "committing"}
           /\ OldestPrefix(InFlight)
           /\ \E k \in Nat \ {0} : /\ InFlight = committed..(committed + k - 1)
                                   /\ committed + k \in Nat /\ committed + k <= next
                                   /\ Highwater(InFlight) = committed + k
<1>1. /\ pc \in {"dropping", "committing"} /\ reply = None /\ On
      /\ pc = "dropping" => request = Commit({}, {committed})
      /\ pc = "committing" => request = Commit(groups, {})
    BY DEF Taken, IndInv, PipeOK, Asked, Drains, Replied, Command, Commit, None, On
<1>2. InFlight = IF pc = "dropping" THEN {committed} ELSE groups
    BY <1>1 DEF InFlight, Commit
<1>3. committed \in Nat /\ next \in Nat
    BY <1>1 DEF IndInv, MailOK
<1>4. InFlight \subseteq DOMAIN retained /\ \A g \in InFlight : retained[g].delivered
    BY <1>1 DEF IndInv, HandsOK, Held
<1>5. PICK k \in Nat \ {0} : InFlight = committed..(committed + k - 1)
    <2>1. CASE pc = "dropping"
        <3>1. InFlight = committed..(committed + 1 - 1)
            BY <1>2, <1>3, <2>1
        <3> QED BY <3>1
    <2>2. CASE pc = "committing"
        <3>1. groups = committed..(committed + GroupsPerStep - 1)
            BY <1>1, <2>2 DEF IndInv, HandsOK
        <3> QED BY <1>2, <2>2, <3>1, ConstantTypes
    <2> QED BY <1>1, <2>1, <2>2
<1>6. committed + k - 1 \in InFlight /\ \A h \in InFlight : h <= committed + k - 1
    BY <1>3, <1>5
<1>7. committed + k <= next
    BY <1>1, <1>3, <1>4, <1>6 DEF IndInv, MailOK
<1>8. \A g \in DOMAIN retained \ InFlight : \A h \in InFlight : h < g
    <2>1. \A g \in DOMAIN retained : g \in Int /\ g >= committed
        BY <1>1, <1>3 DEF IndInv, MailOK
    <2> QED BY <1>3, <1>5, <2>1
<1>9. Highwater(InFlight) = committed + k
    <2> DEFINE last == CHOOSE g \in InFlight : \A h \in InFlight : h <= g
    <2>1. last \in InFlight /\ \A h \in InFlight : h <= last
        BY <1>6
    <2>2. last = committed + k - 1
        <3> HIDE DEF last
        <3> QED BY <1>3, <1>5, <1>6, <2>1
    <2>3. Highwater(InFlight) = 1 + last
        BY DEF Highwater
    <2> HIDE DEF last
    <2> QED BY <1>3, <2>2, <2>3
<1> QED BY <1>1, <1>3, <1>4, <1>5, <1>7, <1>8, <1>9 DEF OldestPrefix

-----------------------------------------------------------------------------
(* The protocol *)

\* A stale group is dropped only while no other is held: an older one would be staler.
LEMMA DropIsAlone ==
    ASSUME IndInv, DropGroup
    PROVE  groups = {} /\ reply.id = committed /\ committed \in Nat /\ committed \in DOMAIN retained
<1>1. /\ pc = "getting" /\ On /\ reply.kind = "packet" /\ step >= reply.version
      /\ ~(step - reply.version \in 0..MaxPolicyLag)
    BY DEF DropGroup, Answered, Fresh, On
<1>2. /\ committed \in Nat /\ DOMAIN retained \subseteq Nat /\ step \in Nat
      /\ retained \in [DOMAIN retained -> [version : Nat, delivered : BOOLEAN]]
      /\ \A g, h \in DOMAIN retained : g < h => retained[g].version <= retained[h].version
    BY <1>1 DEF IndInv, MailOK, CountsOK
<1>3. /\ Cardinality(groups) \in 0..GroupsPerStep /\ groups = committed..(committed + Cardinality(groups) - 1)
      /\ \A g \in groups : step - retained[g].version \in 0..MaxPolicyLag
      /\ reply.id = committed + Cardinality(groups) /\ reply.version = retained[reply.id].version
    BY <1>1 DEF IndInv, HandsOK
<1>4. groups \subseteq DOMAIN retained /\ reply.id \in DOMAIN retained
    BY <1>1 DEF IndInv, HandsOK, Held
<1>5. reply.version \in Nat
    BY <1>2, <1>3, <1>4
<1>6. ASSUME NEW g \in groups PROVE FALSE
    <2>1. g < reply.id
        BY <1>2, <1>3, <1>6, ConstantTypes
    <2>2. retained[g].version <= reply.version /\ retained[g].version \in Nat
        BY <1>2, <1>3, <1>4, <2>1
    <2>3. step - retained[g].version \in 0..MaxPolicyLag
        BY <1>3
    <2> QED BY <1>1, <1>2, <1>5, <2>2, <2>3, ConstantTypes
<1>7. groups = {}
    BY <1>6
<1>8. Cardinality(groups) = 0
    BY <1>7, FS_EmptySet
<1> QED BY <1>2, <1>3, <1>4, <1>7, <1>8

\* A command in the pipe is the one the learner waits for.
LEMMA PendingCommand ==
    ASSUME IndInv, mstate = "running", request # None
    PROVE  /\ request.kind = "get" => pc = "getting"
           /\ request.kind = "commit" => pc \in {"dropping", "committing"}
           /\ request.kind = "pause" => pc \in {"pausing", "snapshot"}
           /\ request.kind = "activate" => pc = "activating" /\ request.policy = artifact
           /\ request.kind = "evaluate" => pc = "evaluating"
           /\ request.kind = "resume" => pc = "resuming"
           /\ request.kind = "close" => pc = "closing"
           /\ reply = None
BY DEF IndInv, PipeOK, Asked, Drains, Replied, Command, Commit, None

\* Activation and evaluation find the sampler drained, and the new policy is newer.
LEMMA NeverRefused ==
    ASSUME IndInv
    PROVE  /\ Taken("activate") => /\ Drained /\ request.policy = artifact
                                   /\ request.policy.version > policy.version
                                   /\ request.policy.version \in Nat /\ policy.version \in Int
           /\ Taken("evaluate") => Drained
<1>1. ASSUME Taken("activate")
      PROVE  /\ Drained /\ request.policy = artifact /\ request.policy.version > policy.version
             /\ request.policy.version \in Nat /\ policy.version \in Int
    <2>1. request # None /\ mstate = "running" /\ request.kind = "activate"
        BY <1>1 DEF Taken, None
    <2>2. pc = "activating" /\ request.policy = artifact /\ reply = None
        BY <2>1, PendingCommand
    <2>3. policy.version = step - 1 /\ artifact = Artifact(step, weights) /\ step \in Nat
        BY <2>2 DEF IndInv, PolicyOK, CountsOK
    <2>4. artifact.version = step
        BY <2>3 DEF Artifact
    <2> QED BY <2>2, <2>3, <2>4 DEF IndInv, StillOK, Drained
<1>2. ASSUME Taken("evaluate") PROVE Drained
    <2>1. request # None /\ mstate = "running" /\ request.kind = "evaluate"
        BY <1>2 DEF Taken, None
    <2>2. pc = "evaluating"
        BY <2>1, PendingCommand
    <2> QED BY <2>2 DEF IndInv, StillOK, Drained
<1> QED BY <1>1, <1>2

\* Learner and manager stay in step: one command at a time and none refused, no sampling
\* between a pause and the resumption, one policy on both sides.
Protocol == PipeOK /\ StillOK /\ PolicyOK

\* The learner's steps.
LEMMA LearnerProtocol ==
    ASSUME IndInv, LearnerStep
    PROVE  Protocol'
<1> USE ConstantTypes DEF IndInv, Protocol, PipeOK, StillOK, PolicyOK, On, Asked, Drains, Replied, None, Command, Commit,
           Artifact, learner, pipe, mailbox, manager, disk
<1>1. CASE Launch
    BY <1>1 DEF Launch
<1>2. CASE AskGroup
    BY <1>2 DEF AskGroup, Call
<1>3. CASE NoGroupYet
    BY <1>3 DEF NoGroupYet, Answered
<1>4. CASE TakeGroup
    BY <1>4 DEF TakeGroup, Answered
<1>5. CASE DropGroup
    <2>1. reply.id = committed
        BY <1>5, DropIsAlone
    <2> QED BY <1>5, <2>1 DEF DropGroup, Call, Answered
<1>6. CASE Dropped
    BY <1>6 DEF Dropped, Answered
<1>7. CASE PauseBeforeTraining
    BY <1>7 DEF PauseBeforeTraining, Call
<1>8. CASE Train
    <2>1. policy = Artifact(step, weights) /\ ack = policy /\ step \in Nat
        BY <1>8 DEF Train, Answered, CountsOK
    <2>2. policy.version = step' - 1
        BY <1>8, <2>1 DEF Train, CountsOK
    <2>3. PolicyOK'
        BY <1>8, <2>1, <2>2 DEF Train, Call, Answered
    <2>4. PipeOK' /\ StillOK'
        BY <1>8 DEF Train, Call, Answered
    <2> QED BY <2>3, <2>4
<1>9. CASE PauseAfterCommit
    BY <1>9 DEF PauseAfterCommit, Call, Answered
<1>10. CASE Publish
    BY <1>10 DEF Publish, Answered
<1>11. CASE Save
    BY <1>11 DEF Save
<1>12. CASE Activate
    BY <1>12 DEF Activate, Call
<1>13. CASE Activated
    BY <1>13 DEF Activated, Answered
<1>14. CASE Evaluate
    BY <1>14 DEF Evaluate, Call
<1>15. CASE Evaluated
    BY <1>15 DEF Evaluated, Answered
<1>16. CASE ResumeActor
    BY <1>16 DEF ResumeActor, Call
<1>17. CASE Resumed
    BY <1>17 DEF Resumed, Call, Answered
<1>18. CASE Closed
    BY <1>18 DEF Closed, Answered
<1> QED BY <1>1, <1>2, <1>3, <1>4, <1>5, <1>6, <1>7, <1>8, <1>9, <1>10, <1>11, <1>12, <1>13, <1>14, <1>15, <1>16, <1>17, <1>18 DEF LearnerStep

\* The manager's answers.
LEMMA ManagerProtocol ==
    ASSUME IndInv, ManagerStep
    PROVE  Protocol'
<1> USE ConstantTypes DEF IndInv, Protocol, PipeOK, StillOK, PolicyOK, On, Asked, Drains, Replied, None, Command, Commit,
           Artifact, learner, pipe, mailbox, manager, disk
<1>1. CASE HandleGetEmpty
    BY <1>1 DEF HandleGetEmpty, Answer
<1>2. CASE HandleGet
    BY <1>2 DEF HandleGet, Answer
<1>3. CASE HandleCommit
    <2>1. OldestPrefix(InFlight) /\ request.kind = "commit"
        BY <1>3, CommitIds DEF HandleCommit, Taken
    <2>2. Answer("commit", [kind |-> "ok"]) /\ UNCHANGED <<mstate, paused, active, policy>>
        BY <1>3, <2>1 DEF HandleCommit, InFlight
    <2> HIDE DEF IndInv
    <2>3. pc \in {"dropping", "committing"}
        BY <1>3, CommitIds DEF HandleCommit
    <2> USE DEF IndInv
    <2> QED BY <2>2, <2>3 DEF Answer
<1>4. CASE HandlePause
    BY <1>4 DEF HandlePause, Taken
<1>5. CASE AnswerPause
    BY <1>5 DEF AnswerPause, Quiescent
<1>6. CASE HandleActivate
    <2>1. /\ Drained /\ request.policy = artifact /\ request.policy.version > policy.version
          /\ request.policy.version \in Nat /\ policy.version \in Int
        BY <1>6, NeverRefused DEF HandleActivate
    <2>2. Answer("activate", [kind |-> "ok", policy |-> artifact]) /\ policy' = artifact /\ UNCHANGED <<mstate, paused, active>>
        BY <1>6, <2>1 DEF HandleActivate
    <2>3. pc = "activating"
        BY <2>2 DEF Answer
    <2> QED BY <2>2, <2>3 DEF Answer
<1>7. CASE HandleEvaluate
    <2>1. Drained
        BY <1>7, NeverRefused DEF HandleEvaluate
    <2> QED BY <1>7, <2>1 DEF HandleEvaluate, Answer, Taken
<1>8. CASE HandleResume
    BY <1>8 DEF HandleResume, Answer
<1>9. CASE HandleClose
    BY <1>9 DEF HandleClose, Taken
<1>10. CASE AnswerClose
    BY <1>10 DEF AnswerClose, Quiescent
<1> QED BY <1>1, <1>2, <1>3, <1>4, <1>5, <1>6, <1>7, <1>8, <1>9, <1>10 DEF ManagerStep

\* Sampling, crashes and restarts.
LEMMA OtherProtocol ==
    ASSUME IndInv, Produce \/ Sampled \/ Abort \/ Restart
    PROVE  Protocol'
<1> USE ConstantTypes DEF IndInv, Protocol, PipeOK, StillOK, PolicyOK, On, Asked, Drains, Replied, None, Command, Commit,
           Artifact, learner, pipe, mailbox, manager, disk
<1>1. CASE Produce
    BY <1>1 DEF Produce
<1>2. CASE Sampled
    BY <1>2 DEF Sampled
<1>3. CASE Abort
    BY <1>3 DEF Abort
<1>4. CASE Restart
    BY <1>4 DEF Restart, StartOver, Resume
<1> QED BY <1>1, <1>2, <1>3, <1>4 DEF Restart

-----------------------------------------------------------------------------
(* The mailbox *)

\* The mailbox, its cursors and the policy change in few steps; the others are taken with a
\* manager process before and after, or with none.
LEMMA MailSteps ==
    ASSUME IndInv, Next
    PROVE  \/ Launch \/ HandleGet \/ HandleCommit \/ HandleActivate \/ Produce \/ Sampled \/ Abort \/ Restart
           \/ On /\ UNCHANGED <<mailbox, active, policy>>
<1> USE DEF On, mailbox, manager, vars
<1>1. CASE AskGroup \/ NoGroupYet \/ TakeGroup \/ DropGroup \/ Dropped \/ PauseBeforeTraining
    BY <1>1 DEF AskGroup, NoGroupYet, TakeGroup, DropGroup, Dropped, PauseBeforeTraining, Call, Answered
<1>2. CASE Train \/ PauseAfterCommit \/ Publish \/ Save \/ Activate \/ Activated
    BY <1>2 DEF Train, PauseAfterCommit, Publish, Save, Activate, Activated, Call, Answered
<1>3. CASE Evaluate \/ Evaluated \/ ResumeActor \/ Resumed \/ Closed
    BY <1>3 DEF Evaluate, Evaluated, ResumeActor, Resumed, Closed, Call, Answered
<1>4. CASE HandleGetEmpty \/ HandlePause \/ HandleResume \/ HandleClose
    BY <1>4 DEF HandleGetEmpty, HandlePause, HandleResume, HandleClose, Answer, Taken, IndInv, PipeOK
<1>5. CASE AnswerPause \/ AnswerClose
    BY <1>5 DEF AnswerPause, AnswerClose, IndInv, PipeOK
<1>6. CASE HandleEvaluate
    BY <1>6, NeverRefused DEF HandleEvaluate, Answer, Taken, IndInv, PipeOK
<1>7. CASE Finished
    BY <1>7 DEF Finished
<1> QED BY <1>1, <1>2, <1>3, <1>4, <1>5, <1>6, <1>7 DEF Next, LearnerStep, ManagerStep

\* The mailbox stays the interval between the cursors.
LEMMA MailStep ==
    ASSUME IndInv, Next
    PROVE  MailOK'
<1>1. CASE Launch
    <2>1. policy' = Artifact(step, weights) /\ step \in Nat /\ active' = {} /\ pc = "launch"
        BY <1>1 DEF Launch, IndInv, CountsOK
    <2>2. policy'.version = step
        BY <2>1 DEF Artifact
    <2>3. CASE recovery = None
        <3>1. next = 0
            BY <2>1, <2>3, CutIsThere DEF IndInv, DiskOK
        <3>2. retained' = Empty /\ next' = 0 /\ committed' = 0
            BY <1>1, <2>3, <3>1 DEF Launch
        <3>3. DOMAIN retained' = {} /\ DOMAIN retained' = 0..(0 - 1) /\ retained' \in [{} -> [version : Nat, delivered : BOOLEAN]]
            BY <3>2 DEF Empty
        <3>4. Bound >= 0
            BY ConstantTypes DEF Bound
        <3> QED BY <2>1, <2>2, <3>2, <3>3, <3>4 DEF MailOK
    <2>4. CASE recovery # None
        <3>1. Cut(recovery, weights, discarded, dropped, step)
            BY <2>1, <2>4 DEF IndInv, DiskOK
        <3>2. /\ retained' = [g \in DOMAIN recovery.packets |-> [version |-> recovery.packets[g], delivered |-> FALSE]]
              /\ next' = recovery.next /\ committed' = recovery.committed
            BY <1>1, <2>4 DEF Launch
        <3>3. /\ DOMAIN retained' = committed'..(next' - 1)
              /\ \A g \in DOMAIN retained' : /\ retained'[g] = [version |-> recovery.packets[g], delivered |-> FALSE]
                                             /\ recovery.packets[g] \in Nat /\ recovery.packets[g] <= step
            BY <2>1, <3>1, <3>2 DEF Cut
        <3>4. retained' \in [DOMAIN retained' -> [version : Nat, delivered : BOOLEAN]]
            BY <3>2, <3>3
        <3>5. \A g, h \in DOMAIN retained' : g < h => retained'[g].version <= retained'[h].version
            BY <3>1, <3>2, <3>3 DEF Cut
        <3> QED BY <2>1, <2>2, <3>1, <3>2, <3>3, <3>4, <3>5 DEF MailOK, Cut
    <2> QED BY <2>3, <2>4
<1>2. CASE HandleGet
    <2>1. PICK g \in DOMAIN retained : /\ retained' = [retained EXCEPT ![g].delivered = TRUE]
                                       /\ UNCHANGED <<next, committed, active, policy>>
        BY <1>2 DEF HandleGet, Oldest, Undelivered
    <2>2. On
        BY <1>2 DEF HandleGet, Answer, On, IndInv, PipeOK
    <2>3. /\ retained \in [DOMAIN retained -> [version : Nat, delivered : BOOLEAN]]
          /\ DOMAIN retained' = DOMAIN retained
        BY <2>1, <2>2 DEF IndInv, MailOK
    <2>4. /\ retained' \in [DOMAIN retained -> [version : Nat, delivered : BOOLEAN]]
          /\ \A h \in DOMAIN retained : retained'[h].version = retained[h].version
        BY <2>1, <2>3
    <2> QED BY <2>1, <2>2, <2>3, <2>4 DEF IndInv, MailOK
<1>3. CASE HandleCommit
    <2>1. On /\ OldestPrefix(InFlight) /\ request.kind = "commit"
        BY <1>3, CommitIds DEF HandleCommit, Taken
    <2>2. PICK k \in Nat \ {0} : /\ InFlight = committed..(committed + k - 1)
                                 /\ committed + k \in Nat /\ committed + k <= next
                                 /\ Highwater(InFlight) = committed + k
        BY <1>3, CommitIds DEF HandleCommit
    <2>3. InFlight # {}
        BY <2>1, <2>2 DEF IndInv, MailOK
    <2>4. /\ retained' = [g \in DOMAIN retained \ InFlight |-> retained[g]]
          /\ committed' = committed + k /\ UNCHANGED <<next, active, policy>>
        BY <1>3, <2>1, <2>2, <2>3 DEF HandleCommit, InFlight
    <2>5. DOMAIN retained' = DOMAIN retained \ InFlight
        BY <2>4
    <2>6. DOMAIN retained' = committed'..(IF active' = {} THEN next' - 1 ELSE next' - 2)
        BY <2>1, <2>2, <2>4, <2>5 DEF IndInv, MailOK
    <2>7. retained' \in [DOMAIN retained' -> [version : Nat, delivered : BOOLEAN]]
        BY <2>1, <2>4, <2>5 DEF IndInv, MailOK
    <2>8. active' = {} \/ committed' < next'
        <3>1. ASSUME active # {} PROVE committed + k < next
            <4>1. committed + k - 1 \in DOMAIN retained
                BY SMTT(40), <2>1, <2>2 DEF OldestPrefix, IndInv, MailOK
            <4> QED BY <2>1, <2>2, <3>1, <4>1 DEF IndInv, MailOK
        <3> QED BY <2>4, <3>1
    <2>9. committed' \in Nat /\ committed' <= next' /\ next' - committed' <= Bound
        BY <2>1, <2>2, <2>4, ConstantTypes DEF IndInv, MailOK, Bound
    <2>10. /\ \A g \in DOMAIN retained' : retained'[g].version <= policy'.version
           /\ \A g, h \in DOMAIN retained' : g < h => retained'[g].version <= retained'[h].version
        BY <2>1, <2>4, <2>5 DEF IndInv, MailOK
    <2> QED BY <2>1, <2>4, <2>6, <2>7, <2>8, <2>9, <2>10 DEF IndInv, MailOK
<1>4. CASE HandleActivate
    <2>1. /\ Drained /\ request.policy = artifact /\ request.policy.version > policy.version
          /\ request.policy.version \in Nat /\ policy.version \in Int
        BY <1>4, NeverRefused DEF HandleActivate
    <2>2. policy' = request.policy /\ UNCHANGED <<mailbox, active>>
        BY <1>4, <2>1 DEF HandleActivate
    <2>5. UNCHANGED <<retained, next, committed, active>> /\ active = {}
        BY <2>1, <2>2 DEF mailbox, Drained
    <2>3. On
        BY <1>4 DEF HandleActivate, Taken, On, IndInv, PipeOK
    <2>4. \A g \in DOMAIN retained : retained[g].version \in Nat
        BY <2>3 DEF IndInv, MailOK
    <2> QED BY <2>1, <2>2, <2>3, <2>4, <2>5 DEF IndInv, MailOK
<1>5. CASE Produce
    <2>1. On /\ active = {}
        BY <1>5 DEF Produce, On, IndInv, PipeOK
    <2>2. /\ active' = {[id |-> next, version |-> policy.version]} /\ next' = next + 1
          /\ UNCHANGED <<retained, committed, policy>>
        BY <1>5 DEF Produce
    <2>3. committed \in Nat /\ next \in Nat /\ next - committed \in Nat /\ DOMAIN retained = committed..(next - 1)
        BY <2>1 DEF IndInv, MailOK
    <2>4. Cardinality(DOMAIN retained) = next - committed
        <3>1. committed + (next - committed) - 1 = next - 1
            BY <2>3
        <3> QED BY <2>3, <3>1, IntervalCard
    <2>5. next - committed < Bound
        BY <1>5, <2>4 DEF Produce, Room
    <2>6. active' # {} /\ active' = {[id |-> next' - 1, version |-> policy.version]}
        BY <2>2, <2>3
    <2>7. next' - committed <= Bound /\ next' - 2 = next - 1
        BY <2>2, <2>3, <2>5, ConstantTypes DEF Bound
    <2>8. next' \in Nat /\ committed' \in Nat /\ committed' < next' /\ next' - committed' <= Bound
        BY <2>2, <2>3, <2>7
    <2>9. DOMAIN retained' = committed'..(IF active' = {} THEN next' - 1 ELSE next' - 2)
        BY <2>2, <2>3, <2>6, <2>7
    <2>10. active' = {[id |-> next' - 1, version |-> policy'.version]}
        BY <2>2, <2>6
    <2>11. /\ retained \in [DOMAIN retained -> [version : Nat, delivered : BOOLEAN]] /\ policy.version \in Nat
           /\ \A g \in DOMAIN retained : retained[g].version <= policy.version
           /\ \A g, h \in DOMAIN retained : g < h => retained[g].version <= retained[h].version
        BY <2>1 DEF IndInv, MailOK
    <2>12. retained' = retained /\ policy' = policy
        BY <2>2
    <2> QED BY <2>8, <2>9, <2>10, <2>11, <2>12 DEF MailOK
<1>6. CASE Sampled
    <2>1. On
        BY <1>6 DEF Sampled, On, IndInv, PipeOK
    <2>2. PICK a \in active :
              retained' = [g \in DOMAIN retained \cup {a.id} |->
                             IF g = a.id THEN [version |-> a.version, delivered |-> FALSE] ELSE retained[g]]
        BY <1>6 DEF Sampled
    <2>3. /\ a = [id |-> next - 1, version |-> policy.version] /\ committed < next
          /\ next \in Nat /\ committed \in Nat /\ policy.version \in Nat /\ active # {}
        BY <2>1, <2>2 DEF IndInv, MailOK
    <2>4. a.id = next - 1 /\ a.version = policy.version
        BY <2>3
    <2>5. active' = {} /\ UNCHANGED <<next, committed, policy>>
        BY <1>6 DEF Sampled
    <2>6. DOMAIN retained = committed..(next - 2) /\ DOMAIN retained' = committed..(next - 1)
        BY <2>1, <2>2, <2>3, <2>4 DEF IndInv, MailOK
    <2>7. \A g \in DOMAIN retained' :
              retained'[g] = IF g = next - 1 THEN [version |-> policy.version, delivered |-> FALSE] ELSE retained[g]
        BY <2>2, <2>4
    <2>8. \A g \in DOMAIN retained' : g # next - 1 => g \in DOMAIN retained /\ g < next - 1
        BY <2>3, <2>6
    <2>9. retained' \in [DOMAIN retained' -> [version : Nat, delivered : BOOLEAN]]
        BY <2>1, <2>2, <2>3, <2>4, <2>8 DEF IndInv, MailOK
    <2>10. \A g \in DOMAIN retained' : retained'[g].version <= policy.version
        BY <2>1, <2>3, <2>7, <2>8 DEF IndInv, MailOK
    <2>11. \A g, h \in DOMAIN retained' : g < h => retained'[g].version <= retained'[h].version
        BY <2>1, <2>3, <2>6, <2>7, <2>8, <2>10 DEF IndInv, MailOK
    <2> QED BY <2>1, <2>3, <2>5, <2>6, <2>9, <2>10, <2>11 DEF IndInv, MailOK
<1>7. CASE Abort \/ Restart
    BY <1>7 DEF Abort, Restart, StartOver, Resume, MailOK, On
<1>8. CASE On /\ UNCHANGED <<mailbox, active, policy>>
    BY <1>8 DEF mailbox, IndInv, MailOK
<1> QED BY <1>1, <1>2, <1>3, <1>4, <1>5, <1>6, <1>7, <1>8, MailSteps

-----------------------------------------------------------------------------
(* The groups in the learner's hands *)

\* What the hands are while groups are collected, and otherwise.
LEMMA HandsCollecting ==
    ASSUME IndInv, pc \in {"collect", "getting", "pausing"}
    PROVE  /\ On /\ committed \in Nat /\ Cardinality(groups) \in 0..GroupsPerStep
           /\ groups = committed..(committed + Cardinality(groups) - 1)
           /\ Held = groups \cup (IF reply.kind = "packet" THEN {reply.id} ELSE {})
           /\ groups \subseteq DOMAIN retained
BY DEF IndInv, MailOK, HandsOK, Held, On

\* No group is held, none collected.
LEMMA HandsEmpty ==
    ASSUME MailOK', On', groups' = {}, Held' = {}, pc' \in {"collect", "evaluate", "closing"}, reply' = None,
           \A g \in DOMAIN retained' : ~retained'[g].delivered
    PROVE  HandsOK'
<1>1. Cardinality(groups') = 0
    BY FS_EmptySet
<1>2. committed' \in Nat
    BY DEF MailOK
<1>3. groups' = committed'..(committed' + Cardinality(groups') - 1)
    BY <1>1, <1>2
<1>4. Cardinality(groups') \in 0..GroupsPerStep
    BY <1>1, ConstantTypes
<1> QED BY <1>3, <1>4 DEF HandsOK, None

\* The learner's steps.
LEMMA LearnerHands ==
    ASSUME IndInv, LearnerStep, MailOK'
    PROVE  HandsOK'
<1>1. CASE Launch
    <2>1. /\ groups' = {} /\ pc' \in {"collect", "evaluate"} /\ UNCHANGED <<request, reply>> /\ pc = "launch"
          /\ \A g \in DOMAIN retained' : ~retained'[g].delivered
        BY <1>1 DEF Launch, pipe, Empty
    <2>2. request' = None /\ reply' = None /\ On'
        BY <2>1 DEF IndInv, PipeOK, On
    <2>3. Held' = {}
        BY <2>1, <2>2 DEF Held, InFlight, None
    <2> QED BY <2>1, <2>2, <2>3, HandsEmpty
<1>2. CASE TakeGroup
    <2> DEFINE n == Cardinality(groups)
    <2>1. /\ pc = "getting" /\ reply.kind = "packet" /\ Fresh(reply.version) /\ groups' = groups \cup {reply.id}
          /\ pc' = "collect" /\ reply' = None /\ UNCHANGED <<step, retained, committed>>
        BY <1>2 DEF TakeGroup, Answered, manager, mailbox
    <2>2. /\ On /\ committed \in Nat /\ n \in Nat /\ groups = committed..(committed + n - 1)
          /\ Held = groups'
        BY <2>1, HandsCollecting, ConstantTypes
    <2>3. n < GroupsPerStep /\ reply.id = committed + n /\ reply.version = retained[reply.id].version
        BY <2>1, <2>2 DEF IndInv, HandsOK
    <2>4. groups' = committed..(committed + (n + 1) - 1)
        BY <2>1, <2>2, <2>3
    <2>5. Cardinality(groups') = n + 1 /\ n + 1 \in 0..GroupsPerStep
        <3> HIDE DEF n
        <3>1. n + 1 \in Nat
            BY <2>2
        <3>2. Cardinality(groups') = n + 1
            BY <2>2, <2>4, <3>1, IntervalCard
        <3> QED BY <2>2, <2>3, <3>2, ConstantTypes
    <2>6. \A g \in groups' : step - retained[g].version \in 0..MaxPolicyLag
        BY <2>1, <2>2, <2>3 DEF Fresh, IndInv, HandsOK
    <2>7. Held' = Held
        BY <2>1, <2>2 DEF Held, None
    <2>8. Held \subseteq DOMAIN retained /\ \A g \in DOMAIN retained : retained[g].delivered <=> g \in Held
        BY <2>2 DEF IndInv, HandsOK
    <2> HIDE DEF n
    <2> QED BY <2>1, <2>4, <2>5, <2>6, <2>7, <2>8 DEF HandsOK, None
<1>3. CASE DropGroup
    <2>1. groups = {} /\ reply.id = committed /\ committed \in DOMAIN retained
        BY <1>3, DropIsAlone
    <2>2. /\ pc = "getting" /\ reply.kind = "packet" /\ request' = Commit({}, {reply.id}) /\ pc' = "dropping"
          /\ UNCHANGED <<retained, groups>>
        BY <1>3 DEF DropGroup, Answered, Call, manager, mailbox
    <2>3. Held = {committed} /\ On
        BY <2>1, <2>2, HandsCollecting
    <2>4. Held' = {committed}
        BY <2>1, <2>2 DEF Held, InFlight, Commit
    <2>5. Held \subseteq DOMAIN retained /\ \A g \in DOMAIN retained : retained[g].delivered <=> g \in Held
        BY <2>3 DEF IndInv, HandsOK
    <2> QED BY <2>1, <2>2, <2>3, <2>4, <2>5 DEF HandsOK
<1>4. CASE Dropped
    <2>1. pc = "dropping" /\ reply # None /\ pc' = "collect" /\ reply' = None /\ UNCHANGED <<groups, retained, request>>
        BY <1>4 DEF Dropped, Answered, manager, mailbox
    <2>2. request = None /\ On /\ On'
        BY <2>1 DEF IndInv, PipeOK, Asked, Replied, On
    <2>3. Held = {} /\ groups = {}
        BY <2>1, <2>2 DEF Held, InFlight, None, IndInv, HandsOK
    <2>4. Held' = {}
        BY <2>1, <2>3 DEF Held, None
    <2>5. \A g \in DOMAIN retained' : ~retained'[g].delivered
        BY <2>1, <2>2, <2>3 DEF IndInv, HandsOK
    <2> QED BY <2>1, <2>2, <2>3, <2>4, <2>5, HandsEmpty
<1>5. CASE Resumed
    <2>1. /\ pc = "resuming" /\ reply # None /\ groups' = {} /\ reply' = None /\ UNCHANGED retained
          /\ pc' \in {"collect", "closing"} /\ (request' = request \/ request' = Command("close"))
        BY <1>5 DEF Resumed, Answered, Call, manager, mailbox
    <2>2. request = None /\ On /\ On'
        BY <2>1 DEF IndInv, PipeOK, Asked, Replied, On
    <2>3. Held = {} /\ Held' = {}
        BY <2>1, <2>2 DEF Held, InFlight, None, Command
    <2>4. \A g \in DOMAIN retained' : ~retained'[g].delivered
        BY <2>1, <2>2, <2>3 DEF IndInv, HandsOK
    <2> QED BY <2>1, <2>2, <2>3, <2>4, HandsEmpty
<1> USE ConstantTypes DEF IndInv, PipeOK, HandsOK, MailOK, Held, InFlight, Call, Answered, Commit, Command, None,
           learner, pipe, mailbox, manager, disk, On, Asked, Drains, Replied
<1>6. CASE AskGroup
    BY <1>6 DEF AskGroup
<1>7. CASE NoGroupYet
    BY <1>7 DEF NoGroupYet
<1>8. CASE PauseBeforeTraining
    BY <1>8 DEF PauseBeforeTraining
<1>9. CASE Train
    BY <1>9 DEF Train
<1>10. CASE PauseAfterCommit
    BY <1>10 DEF PauseAfterCommit
<1>11. CASE Publish
    BY <1>11 DEF Publish
<1>12. CASE Save
    BY <1>12 DEF Save
<1>13. CASE Activate
    BY <1>13 DEF Activate
<1>14. CASE Activated
    BY <1>14 DEF Activated
<1>15. CASE Evaluate
    BY <1>15 DEF Evaluate
<1>16. CASE Evaluated
    BY <1>16 DEF Evaluated
<1>17. CASE ResumeActor
    BY <1>17 DEF ResumeActor
<1>18. CASE Closed
    BY <1>18 DEF Closed
<1> QED BY <1>1, <1>2, <1>3, <1>4, <1>5, <1>6, <1>7, <1>8, <1>9, <1>10, <1>11, <1>12, <1>13, <1>14, <1>15, <1>16, <1>17,
           <1>18 DEF LearnerStep

\* The manager's answers.
LEMMA ManagerHands ==
    ASSUME IndInv, ManagerStep
    PROVE  HandsOK'
<1>1. CASE HandleGetEmpty
    <2>1. /\ mstate = "running" /\ request.kind = "get" /\ reply' = [kind |-> "empty"] /\ request' = None
          /\ UNCHANGED <<pc, groups, step, retained, committed>>
        BY <1>1 DEF HandleGetEmpty, Answer, learner, manager, mailbox
    <2>2. pc = "getting" /\ reply = None
        BY <2>1, PendingCommand DEF None
    <2>3. Held = groups /\ Held' = groups /\ On
        BY <2>1, <2>2 DEF Held, None, On
    <2>4. reply'.kind # "packet"
        BY <2>1
    <2> QED BY <2>1, <2>2, <2>3, <2>4 DEF IndInv, HandsOK, On
<1>2. CASE HandleGet
    <2> DEFINE n == Cardinality(groups)
    <2>1. PICK g \in Oldest(Undelivered) :
              /\ Answer("get", [kind |-> "packet", id |-> g, version |-> retained[g].version])
              /\ retained' = [retained EXCEPT ![g].delivered = TRUE] /\ UNCHANGED committed
        BY <1>2 DEF HandleGet
    <2>2. /\ mstate = "running" /\ request.kind = "get" /\ request' = None
          /\ reply' = [kind |-> "packet", id |-> g, version |-> retained[g].version]
          /\ UNCHANGED <<pc, groups, step>>
        BY <2>1 DEF Answer, learner
    <2>3. pc = "getting" /\ reply = None
        BY <2>2, PendingCommand DEF None
    <2>4. /\ On /\ committed \in Nat /\ n \in Nat /\ groups = committed..(committed + n - 1) /\ groups \subseteq DOMAIN retained
          /\ Held = groups
        <3>1. reply.kind # "packet"
            BY <2>3 DEF None
        <3>2. /\ On /\ committed \in Nat /\ n \in 0..GroupsPerStep /\ groups = committed..(committed + n - 1)
              /\ Held = groups \cup (IF reply.kind = "packet" THEN {reply.id} ELSE {}) /\ groups \subseteq DOMAIN retained
            BY <2>3, HandsCollecting
        <3>3. Held = groups
            BY <3>1, <3>2
        <3> HIDE DEF n
        <3> QED BY <3>2, <3>3, ConstantTypes
    <2>5. /\ \A h \in DOMAIN retained : retained[h].delivered <=> h \in groups
          /\ n < GroupsPerStep /\ \A h \in groups : step - retained[h].version \in 0..MaxPolicyLag
        BY <2>3, <2>4 DEF IndInv, HandsOK
    <2>6. g \in DOMAIN retained /\ g \notin groups /\ \A h \in DOMAIN retained \ groups : g <= h
        BY <2>5 DEF Oldest, Undelivered
    <2>7. /\ next \in Nat /\ retained \in [DOMAIN retained -> [version : Nat, delivered : BOOLEAN]]
          /\ \E m \in Int : DOMAIN retained = committed..m
        BY <2>4 DEF IndInv, MailOK
    <2>8. g = committed + n
        <3> HIDE DEF n
        <3>1. PICK m \in Int : DOMAIN retained = committed..m
            BY <2>7
        <3>2. g \in Int /\ committed <= g /\ g <= m /\ ~(g <= committed + n - 1)
            BY <2>4, <2>6, <3>1
        <3>3. committed + n \in DOMAIN retained \ groups
            BY <2>4, <3>1, <3>2
        <3> QED BY <2>4, <2>6, <3>2, <3>3
    <2>9. /\ DOMAIN retained' = DOMAIN retained
          /\ \A h \in DOMAIN retained : /\ retained'[h].version = retained[h].version
                                        /\ retained'[h].delivered <=> (h = g \/ retained[h].delivered)
        BY <2>1, <2>6, <2>7
    <2>10. reply'.kind = "packet" /\ reply'.id = g /\ reply'.version = retained[g].version
        BY <2>2
    <2>11. Held' = groups \cup {g}
        BY <2>2, <2>3, <2>10 DEF Held
    <2>12. /\ \A h \in DOMAIN retained' : retained'[h].delivered <=> h \in Held'
           /\ Held' \subseteq DOMAIN retained'
        BY <2>4, <2>5, <2>6, <2>9, <2>11
    <2>13. \A h \in groups' : step' - retained'[h].version \in 0..MaxPolicyLag
        BY <2>2, <2>4, <2>5, <2>9
    <2>14. reply'.id = committed' + Cardinality(groups') /\ reply'.version = retained'[reply'.id].version
        BY <2>1, <2>2, <2>6, <2>8, <2>9, <2>10
    <2>15. n \in 0..GroupsPerStep /\ Cardinality(groups') = n /\ groups' = committed'..(committed' + n - 1) /\ pc' = "getting"
        BY <2>1, <2>2, <2>3, <2>4, HandsCollecting
    <2> HIDE DEF n
    <2> QED BY <2>5, <2>12, <2>13, <2>14, <2>15 DEF HandsOK
<1> USE ConstantTypes DEF IndInv, PipeOK, HandsOK, MailOK, Held, InFlight, Answer, Taken, Refuse, Commit, Command, None,
           learner, pipe, mailbox, manager, disk, On, Asked, Drains, Replied
<1>3. CASE HandleCommit
    BY <1>3 DEF HandleCommit
<1>4. CASE HandlePause
    BY <1>4 DEF HandlePause
<1>5. CASE AnswerPause
    BY SMTT(40), <1>5 DEF AnswerPause
<1>6. CASE HandleActivate
    BY SMTT(40), <1>6 DEF HandleActivate
<1>7. CASE HandleEvaluate
    BY <1>7 DEF HandleEvaluate
<1>8. CASE HandleResume
    BY SMTT(40), <1>8 DEF HandleResume
<1>9. CASE HandleClose
    BY <1>9 DEF HandleClose
<1>10. CASE AnswerClose
    BY <1>10 DEF AnswerClose
<1> QED BY <1>1, <1>2, <1>3, <1>4, <1>5, <1>6, <1>7, <1>8, <1>9, <1>10 DEF ManagerStep

\* Sampling, crashes and restarts.
LEMMA OtherHands ==
    ASSUME IndInv, Produce \/ Sampled \/ Abort \/ Restart
    PROVE  HandsOK'
<1>1. CASE Produce
    BY <1>1 DEF Produce, IndInv, HandsOK, Held, InFlight, learner, pipe, On
<1>2. CASE Sampled
    <2>1. On
        BY <1>2 DEF Sampled, On, IndInv, PipeOK
    <2>2. PICK a \in active :
              retained' = [g \in DOMAIN retained \cup {a.id} |->
                             IF g = a.id THEN [version |-> a.version, delivered |-> FALSE] ELSE retained[g]]
        BY <1>2 DEF Sampled
    <2>3. a = [id |-> next - 1, version |-> policy.version] /\ next \in Nat /\ active # {}
        BY <2>1, <2>2 DEF IndInv, MailOK
    <2>4. a.id = next - 1
        BY <2>3
    <2>5. a.id \notin DOMAIN retained
        BY <2>1, <2>3, <2>4 DEF IndInv, MailOK
    <2>6. UNCHANGED <<pc, groups, request, reply, committed, step>>
        BY <1>2 DEF Sampled, learner, pipe
    <2>7. Held' = Held /\ Held \subseteq DOMAIN retained
        BY <2>1, <2>6 DEF Held, InFlight, IndInv, HandsOK
    <2>8. /\ DOMAIN retained' = DOMAIN retained \cup {a.id} /\ ~retained'[a.id].delivered
          /\ \A g \in DOMAIN retained : retained'[g] = retained[g]
        BY <2>2, <2>5
    <2>9. pc \in {"collect", "getting", "pausing"} =>
              groups \subseteq DOMAIN retained /\ (reply.kind = "packet" => reply.id \in DOMAIN retained)
        BY <2>7 DEF Held
    <2>10. /\ \A g \in DOMAIN retained' : retained'[g].delivered <=> g \in Held'
           /\ Held' \subseteq DOMAIN retained'
        BY <2>1, <2>5, <2>7, <2>8 DEF IndInv, HandsOK
    <2> QED BY <2>1, <2>6, <2>8, <2>9, <2>10 DEF IndInv, HandsOK
<1>3. CASE Abort \/ Restart
    BY <1>3 DEF Abort, Restart, StartOver, Resume, HandsOK, On
<1> QED BY <1>1, <1>2, <1>3

-----------------------------------------------------------------------------
(* The counts *)

\* The model, the counts and the highwater change in few steps; the others do not touch a commit.
LEMMA CountsSteps ==
    ASSUME IndInv, Next
    PROVE  \/ Launch \/ DropGroup \/ Train \/ HandleCommit \/ Abort \/ Restart
           \/ /\ On /\ UNCHANGED <<step, weights, discarded, dropped, committed, mdropped>>
              /\ UNCHANGED request \/ (request.kind # "commit" /\ request'.kind # "commit")
<1> USE DEF On, learner, pipe, mailbox, manager, vars, IndInv, PipeOK, None, Command
<1>1. CASE AskGroup \/ NoGroupYet \/ TakeGroup \/ Dropped \/ PauseBeforeTraining
    BY <1>1 DEF AskGroup, NoGroupYet, TakeGroup, Dropped, PauseBeforeTraining, Call, Answered, Asked, Replied, Drains
<1>2. CASE PauseAfterCommit \/ Publish \/ Save \/ Activate \/ Activated
    BY <1>2 DEF PauseAfterCommit, Publish, Save, Activate, Activated, Call, Answered, Asked, Replied, Drains
<1>3. CASE Evaluate \/ Evaluated \/ ResumeActor \/ Resumed \/ Closed
    BY <1>3 DEF Evaluate, Evaluated, ResumeActor, Resumed, Closed, Call, Answered, Asked, Replied, Drains
<1>4. CASE HandleGetEmpty \/ HandleGet \/ HandlePause \/ HandleResume \/ HandleClose
    BY <1>4 DEF HandleGetEmpty, HandleGet, HandlePause, HandleResume, HandleClose, Answer, Taken
<1>5. CASE AnswerPause \/ AnswerClose \/ Produce \/ Sampled
    BY <1>5 DEF AnswerPause, AnswerClose, Produce, Sampled
<1>6. CASE HandleEvaluate \/ HandleActivate
    BY <1>6 DEF HandleEvaluate, HandleActivate, Answer, Taken, Refuse
<1>7. CASE Finished
    BY <1>7 DEF Finished
<1> QED BY <1>1, <1>2, <1>3, <1>4, <1>5, <1>6, <1>7 DEF Next, LearnerStep, ManagerStep

\* Without a commit in the pipe, the learner's model and drops are the groups below the highwater.
LEMMA CountsIdle ==
    ASSUME IndInv, On, request.kind # "commit"
    PROVE  /\ Settled(weights, discarded, dropped, step, 0..(committed - 1)) /\ mdropped = dropped
           /\ committed \in Nat /\ IsFiniteSet(weights) /\ IsFiniteSet(discarded)
           /\ \A g \in weights \cup discarded : g \in Nat /\ g < committed
<1>1. InFlight = {}
    BY DEF InFlight
<1>2. committed \in Nat /\ dropped \in Nat /\ step \in Nat
    BY DEF IndInv, MailOK, CountsOK
<1>3. 0..(committed - 1) \cup InFlight = 0..(committed - 1)
    BY <1>1
<1>4. Settled(weights, discarded, dropped, step, 0..(committed - 1)) /\ mdropped = dropped
    <2>1. Settled(weights, discarded, dropped, step, 0..(committed - 1) \cup InFlight)
        BY DEF IndInv, CountsOK
    <2>2. mdropped = dropped - 0
        BY DEF IndInv, CountsOK
    <2>3. mdropped = dropped
        BY <1>2, <2>2
    <2>4. Settled(weights, discarded, dropped, step, 0..(committed - 1))
        BY <1>3, <2>1 DEF Settled
    <2> QED BY <2>3, <2>4
<1>5. weights \cup discarded = 0..(committed - 1)
    BY <1>4 DEF Settled
<1>6. IsFiniteSet(0..(committed - 1))
    BY <1>2, FS_Interval
<1>7. IsFiniteSet(weights) /\ IsFiniteSet(discarded)
    BY <1>5, <1>6, FS_Subset
<1> QED BY <1>2, <1>4, <1>5, <1>7

\* Every group is trained on or dropped once: no step loses one or counts it twice.
LEMMA CountsStep ==
    ASSUME IndInv, Next
    PROVE  CountsOK'
<1> USE DEF IndInv
<1>1. CASE Launch
    <2>1. /\ pc = "launch" /\ request' = None /\ UNCHANGED <<step, weights, discarded, dropped>>
          /\ step \in Nat /\ dropped \in Nat
        BY <1>1 DEF Launch, PipeOK, CountsOK, pipe
    <2>2. InFlight' = {} /\ request'.kind # "commit"
        BY <2>1 DEF InFlight, None
    <2>3. Settled(weights, discarded, dropped, step, 0..(committed' - 1)) /\ mdropped' = dropped
        <3>1. CASE recovery = None
            <4>1. weights = {} /\ discarded = {} /\ dropped = 0 /\ step = 0 /\ next = 0
                BY <2>1, <3>1, CutIsThere DEF DiskOK
            <4>2. committed' = 0 /\ mdropped' = 0
                BY <1>1, <3>1, <4>1 DEF Launch
            <4>3. Cardinality(weights) = GroupsPerStep * step /\ Cardinality(discarded) = dropped
                BY <4>1, FS_EmptySet, ConstantTypes
            <4> QED BY <4>1, <4>2, <4>3 DEF Settled
        <3>2. CASE recovery # None
            <4>1. Cut(recovery, weights, discarded, dropped, step)
                BY <2>1, <3>2 DEF DiskOK
            <4> QED BY <1>1, <3>2, <4>1 DEF Launch, Cut
        <3> QED BY <3>1, <3>2
    <2>4. 0..(committed' - 1) \cup InFlight' = 0..(committed' - 1)
        BY <2>2
    <2>5. mdropped' = dropped' - (IF request'.kind = "commit" THEN Cardinality(request'.dropped) ELSE 0)
        BY <2>1, <2>2, <2>3
    <2> QED BY <2>1, <2>3, <2>4, <2>5 DEF CountsOK
<1>2. CASE DropGroup
    <2>1. reply.id = committed /\ committed \in Nat
        BY <1>2, DropIsAlone
    <2>2. /\ pc = "getting" /\ reply # None /\ request' = Commit({}, {committed}) /\ dropped' = dropped + 1
          /\ discarded' = discarded \cup {committed} /\ UNCHANGED <<step, weights, committed, mdropped>>
        BY <1>2, <2>1 DEF DropGroup, Answered, Call, manager, mailbox
    <2>3. On /\ request.kind # "commit"
        BY <2>2 DEF On, PipeOK, Asked, Replied, None
    <2>4. /\ Settled(weights, discarded, dropped, step, 0..(committed - 1)) /\ mdropped = dropped
          /\ IsFiniteSet(discarded) /\ \A g \in weights \cup discarded : g \in Nat /\ g < committed
        BY <2>3, CountsIdle
    <2>5. committed \notin weights /\ committed \notin discarded
        BY <2>1, <2>4
    <2>6. Cardinality(discarded') = Cardinality(discarded) + 1
        BY <2>2, <2>4, <2>5, FS_AddElement
    <2>7. InFlight' = {committed} /\ request'.kind = "commit" /\ Cardinality(request'.dropped) = 1
        BY <2>2, FS_Singleton DEF InFlight, Commit
    <2>8. weights' \cap discarded' = {} /\ weights' \cup discarded' = 0..(committed' - 1) \cup InFlight'
        BY <2>2, <2>4, <2>5, <2>7 DEF Settled
    <2>9. step \in Nat /\ dropped \in Nat
        BY DEF CountsOK
    <2>10. dropped' = Cardinality(discarded') /\ Cardinality(weights') = GroupsPerStep * step'
        BY <2>2, <2>4, <2>6 DEF Settled
    <2>11. mdropped' = dropped' - (IF request'.kind = "commit" THEN Cardinality(request'.dropped) ELSE 0)
        BY <2>2, <2>4, <2>7, <2>9
    <2>12. step' \in Nat /\ dropped' \in Nat
        BY <2>2, <2>9
    <2> QED BY <2>8, <2>10, <2>11, <2>12 DEF CountsOK, Settled
<1>3. CASE Train
    <2>1. /\ pc = "pausing" /\ reply # None /\ request' = Commit(groups, {}) /\ step' = step + 1
          /\ weights' = weights \cup groups /\ UNCHANGED <<discarded, dropped, committed, mdropped>>
        BY <1>3 DEF Train, Answered, Call, manager, mailbox
    <2>2. On /\ request.kind # "commit"
        BY <2>1 DEF On, PipeOK, Asked, Replied, Drains, Command, None
    <2>3. /\ Settled(weights, discarded, dropped, step, 0..(committed - 1)) /\ mdropped = dropped /\ committed \in Nat
          /\ IsFiniteSet(weights) /\ \A g \in weights \cup discarded : g \in Nat /\ g < committed
        BY <2>2, CountsIdle
    <2>4. groups = committed..(committed + GroupsPerStep - 1)
        BY <2>1, <2>2 DEF HandsOK
    <2>5. IsFiniteSet(groups) /\ Cardinality(groups) = GroupsPerStep
        BY <2>3, <2>4, IntervalCard, ConstantTypes
    <2>6. groups \cap (weights \cup discarded) = {}
        BY <2>3, <2>4
    <2>7. Cardinality(weights') = Cardinality(weights) + GroupsPerStep
        <3>1. weights \cap groups = {}
            BY <2>6
        <3>2. Cardinality(weights \cup groups) = Cardinality(weights) + Cardinality(groups) - Cardinality(weights \cap groups)
            BY <2>3, <2>5, FS_Union
        <3>3. Cardinality(weights \cap groups) = 0
            BY <3>1, FS_EmptySet
        <3>4. Cardinality(weights) \in Nat
            BY <2>3, FS_CardinalityType
        <3> QED BY <2>1, <2>5, <3>2, <3>3, <3>4, ConstantTypes
    <2>8. step \in Nat /\ dropped \in Nat
        BY DEF CountsOK
    <2>9. GroupsPerStep * (step + 1) = GroupsPerStep * step + GroupsPerStep
        BY <2>8, ConstantTypes
    <2>10. Cardinality(weights') = GroupsPerStep * step'
        BY <2>1, <2>3, <2>7, <2>9 DEF Settled
    <2>11. InFlight' = groups /\ request'.kind = "commit" /\ Cardinality(request'.dropped) = 0
        BY <2>1, FS_EmptySet DEF InFlight, Commit
    <2>12. weights' \cap discarded' = {} /\ weights' \cup discarded' = 0..(committed' - 1) \cup InFlight'
        BY <2>1, <2>3, <2>6, <2>11 DEF Settled
    <2>13. mdropped' = dropped' - (IF request'.kind = "commit" THEN Cardinality(request'.dropped) ELSE 0)
        BY <2>1, <2>3, <2>8, <2>11
    <2>14. step' \in Nat /\ dropped' \in Nat /\ dropped' = Cardinality(discarded')
        BY <2>1, <2>3, <2>8 DEF Settled
    <2> QED BY <2>10, <2>12, <2>13, <2>14 DEF CountsOK, Settled
<1>4. CASE HandleCommit
    <2>1. Taken("commit")
        BY <1>4 DEF HandleCommit
    <2> HIDE DEF IndInv
    <2>2. /\ On /\ OldestPrefix(InFlight) /\ request.kind = "commit" /\ pc \in {"dropping", "committing"} /\ reply = None
        BY <2>1, CommitIds DEF Taken
    <2>3. PICK k \in Nat \ {0} : InFlight = committed..(committed + k - 1) /\ Highwater(InFlight) = committed + k
        BY <2>1, CommitIds
    <2> USE DEF IndInv
    <2>4. committed \in Nat /\ step \in Nat /\ dropped \in Nat
        BY <2>2 DEF MailOK, CountsOK
    <2>5. committed \in InFlight
        BY <2>3, <2>4
    <2>6. /\ committed' = committed + k /\ mdropped' = mdropped + Cardinality(request.dropped) /\ request' = None
          /\ UNCHANGED learner
        BY <1>4, <2>2, <2>3, <2>5 DEF HandleCommit, InFlight, Answer
    <2>7. UNCHANGED <<step, weights, discarded, dropped>> /\ InFlight' = {} /\ request'.kind # "commit"
        BY <2>6 DEF learner, InFlight, None
    <2>8. 0..(committed' - 1) \cup InFlight' = 0..(committed - 1) \cup InFlight
        BY <2>3, <2>4, <2>6, <2>7
    <2>9. Cardinality(request.dropped) \in Nat
        <3>1. request.dropped = {} \/ request.dropped = {committed}
            BY <2>2 DEF PipeOK, Asked, Replied, Commit, None
        <3>2. Cardinality({}) = 0 /\ Cardinality({committed}) = 1
            BY FS_EmptySet, FS_Singleton
        <3> QED BY <3>1, <3>2
    <2>10. mdropped = dropped - Cardinality(request.dropped)
        BY <2>2 DEF CountsOK
    <2>11. mdropped' = dropped'
        BY <2>4, <2>6, <2>7, <2>9, <2>10
    <2>12. Settled(weights, discarded, dropped, step, 0..(committed' - 1) \cup InFlight')
        BY <2>2, <2>8 DEF CountsOK
    <2>14. mdropped' = dropped' - (IF request'.kind = "commit" THEN Cardinality(request'.dropped) ELSE 0)
        BY <2>4, <2>7, <2>11
    <2> QED BY <2>4, <2>7, <2>12, <2>14 DEF CountsOK
<1>5. CASE Abort
    BY <1>5 DEF Abort, CountsOK, On
<1>6. CASE Restart
    BY <1>6 DEF Restart, StartOver, Resume, DiskOK, Cut, CountsOK, On
<1>7. CASE /\ On /\ UNCHANGED <<step, weights, discarded, dropped, committed, mdropped>>
           /\ UNCHANGED request \/ (request.kind # "commit" /\ request'.kind # "commit")
    <2>1. InFlight' = InFlight
        BY <1>7 DEF InFlight
    <2>2. 0..(committed' - 1) \cup InFlight' = 0..(committed - 1) \cup InFlight
        BY <1>7, <2>1
    <2> QED BY <1>7, <2>2 DEF CountsOK
<1> QED BY <1>1, <1>2, <1>3, <1>4, <1>5, <1>6, <1>7, CountsSteps

-----------------------------------------------------------------------------
(* The checkpoints *)

\* What the manager answers to the pause after a commit is a cut with the learner's state.
LEMMA SnapshotIsCut ==
    ASSUME IndInv, pc = "snapshot", request.kind # "commit", active = {}
    PROVE  Cut(Snapshot, weights, discarded, dropped, step) /\ Snapshot.policy = ack
<1>1. On
    BY DEF On
<1>2. /\ Settled(weights, discarded, dropped, step, 0..(committed - 1)) /\ mdropped = dropped
    BY <1>1, CountsIdle
<1>3. /\ next \in Nat /\ committed \in Nat /\ committed <= next /\ next - committed <= Bound
      /\ DOMAIN retained = committed..(next - 1)
      /\ \A g \in DOMAIN retained : retained[g].version \in Nat /\ retained[g].version <= policy.version
      /\ \A g, h \in DOMAIN retained : g < h => retained[g].version <= retained[h].version
    BY <1>1 DEF IndInv, MailOK
<1>4. policy.version = step - 1 /\ ack = policy /\ step \in Nat /\ dropped \in Nat
    BY DEF IndInv, PolicyOK, CountsOK
<1>5. /\ Snapshot.next = next /\ Snapshot.committed = committed /\ Snapshot.dropped = mdropped /\ Snapshot.policy = policy
      /\ Snapshot.packets = [g \in DOMAIN retained |-> retained[g].version] /\ "next" \in DOMAIN Snapshot
    BY DEF Snapshot
<1>6. /\ DOMAIN Snapshot.packets = DOMAIN retained
      /\ \A g \in DOMAIN retained : Snapshot.packets[g] = retained[g].version
    BY <1>5
<1>7. \A g \in DOMAIN Snapshot.packets : Snapshot.packets[g] \in 0..step
    BY <1>3, <1>4, <1>6
<1>8. \A g, h \in DOMAIN Snapshot.packets : g < h => Snapshot.packets[g] <= Snapshot.packets[h]
    BY <1>3, <1>6
<1> QED BY <1>2, <1>3, <1>4, <1>5, <1>6, <1>7, <1>8 DEF Cut

\* The learner's steps.
LEMMA LearnerDisk ==
    ASSUME IndInv, LearnerStep
    PROVE  DiskOK'
<1>1. CASE Save
    <2> DEFINE new == [step |-> step, weights |-> weights, discarded |-> discarded, dropped |-> dropped,
                       next |-> recovery.next, manager |-> recovery, publication |-> artifact, previousAck |-> ack]
    <2>1. /\ pc = "save" /\ checkpoints' = checkpoints \cup {new} /\ dirSteps' = dirSteps \cup {step} /\ pc' = "activate"
          /\ UNCHANGED <<step, weights, discarded, dropped, ack, artifact, recovery, policy, reply>>
        BY <1>1 DEF Save, pipe, manager
    <2>2. /\ Cut(recovery, weights, discarded, dropped, step) /\ recovery.policy = ack /\ step \in Nat
          /\ artifact = Artifact(step, weights) /\ Durable(policy) /\ dirSteps \subseteq Nat
          /\ \A s \in dirSteps : s <= step - 1
        BY <2>1 DEF IndInv, DiskOK, PolicyOK, CountsOK, On
    <2>3. /\ new.step = step /\ new.weights = weights /\ new.discarded = discarded /\ new.dropped = dropped
          /\ new.next = recovery.next /\ new.manager = recovery /\ new.publication = artifact /\ new.previousAck = ack
        OBVIOUS
    <2> HIDE DEF new
    <2>4. \A c \in checkpoints' :
              /\ c.step \in Nat /\ Cut(c.manager, c.weights, c.discarded, c.dropped, c.step)
              /\ c.next = c.manager.next /\ c.publication = Artifact(c.step, c.weights)
              /\ c.previousAck = c.manager.policy
        BY <2>1, <2>2, <2>3 DEF IndInv, DiskOK
    <2>5. Durable(policy)' /\ Durable(artifact)'
        BY <2>1, <2>2, <2>3 DEF Durable
    <2>6. dirSteps' \subseteq Nat /\ \A s \in dirSteps' : s <= step'
        BY <2>1, <2>2
    <2> QED BY <2>1, <2>4, <2>5, <2>6 DEF DiskOK
<1> USE ConstantTypes DEF IndInv, PipeOK, DiskOK, PolicyOK, CountsOK, MailOK, Durable, Call, Answered, Commit, Command, None,
           learner, pipe, mailbox, manager, disk, On, Asked, Drains, Replied
<1>2. CASE AskGroup
    BY <1>2 DEF AskGroup
<1>3. CASE NoGroupYet
    BY <1>3 DEF NoGroupYet
<1>4. CASE TakeGroup
    BY <1>4 DEF TakeGroup
<1>5. CASE DropGroup
    BY <1>5 DEF DropGroup
<1>6. CASE Dropped
    BY <1>6 DEF Dropped
<1>7. CASE PauseBeforeTraining
    BY <1>7 DEF PauseBeforeTraining
<1>8. CASE Train
    BY SMTT(40), <1>8 DEF Train
<1>9. CASE PauseAfterCommit
    BY <1>9 DEF PauseAfterCommit
<1>10. CASE Publish
    BY <1>10 DEF Publish
<1>11. CASE Activate
    BY <1>11 DEF Activate
<1>12. CASE Activated
    BY <1>12 DEF Activated
<1>13. CASE Evaluate
    BY <1>13 DEF Evaluate
<1>14. CASE Evaluated
    BY <1>14 DEF Evaluated
<1>15. CASE ResumeActor
    BY <1>15 DEF ResumeActor
<1>16. CASE Resumed
    BY <1>16 DEF Resumed
<1>17. CASE Closed
    BY <1>17 DEF Closed
<1>18. CASE Launch
    BY <1>18 DEF Launch
<1> QED BY <1>1, <1>2, <1>3, <1>4, <1>5, <1>6, <1>7, <1>8, <1>9, <1>10, <1>11, <1>12, <1>13, <1>14, <1>15, <1>16, <1>17, <1>18 DEF LearnerStep

\* The manager's answers.
LEMMA ManagerDisk ==
    ASSUME IndInv, ManagerStep
    PROVE  DiskOK'
<1>1. CASE AnswerPause
    <2>1. /\ mstate = "pausing" /\ active = {} /\ reply' = [kind |-> "snapshot", state |-> Snapshot]
          /\ UNCHANGED <<learner, policy, disk>>
        BY <1>1 DEF AnswerPause, Quiescent
    <2>2. pc \in {"pausing", "snapshot"} /\ request.kind # "commit"
        BY <2>1 DEF IndInv, PipeOK, Asked, Drains, Replied, None
    <2>3. pc = "snapshot" => Cut(Snapshot, weights, discarded, dropped, step) /\ Snapshot.policy = ack
        BY <2>1, <2>2, SnapshotIsCut
    <2>4. reply'.state = Snapshot
        BY <2>1
    <2> QED BY <2>1, <2>2, <2>3, <2>4 DEF IndInv, DiskOK, Durable, On, learner, disk
<1>2. CASE HandleActivate
    <2>1. /\ Drained /\ request.policy = artifact /\ request.policy.version > policy.version
          /\ request.policy.version \in Nat /\ policy.version \in Int
        BY <1>2, NeverRefused DEF HandleActivate
    <2>2. policy' = request.policy /\ Answer("activate", [kind |-> "ok", policy |-> request.policy])
        BY <1>2, <2>1 DEF HandleActivate
    <2>3. UNCHANGED <<learner, disk>> /\ mstate = "running" /\ request.kind = "activate"
        BY <2>2 DEF Answer
    <2>4. pc = "activating"
        BY <2>3, PendingCommand DEF None
    <2>5. Durable(artifact)
        BY <2>4 DEF IndInv, DiskOK
    <2> QED BY <2>1, <2>2, <2>3, <2>4, <2>5 DEF IndInv, DiskOK, Durable, On, learner, disk
<1> USE ConstantTypes DEF IndInv, PipeOK, DiskOK, PolicyOK, CountsOK, MailOK, Durable, Answer, Taken, Refuse, Commit, Command, None,
           learner, pipe, mailbox, manager, disk, On, Asked, Drains, Replied
<1>3. CASE HandleGetEmpty
    BY <1>3 DEF HandleGetEmpty
<1>4. CASE HandleGet
    BY <1>4 DEF HandleGet
<1>5. CASE HandleCommit
    BY SMTT(40), <1>5 DEF HandleCommit
<1>6. CASE HandlePause
    BY <1>6 DEF HandlePause
<1>7. CASE HandleEvaluate
    BY SMTT(40), <1>7 DEF HandleEvaluate
<1>8. CASE HandleResume
    BY <1>8 DEF HandleResume
<1>9. CASE HandleClose
    BY <1>9 DEF HandleClose
<1>10. CASE AnswerClose
    BY <1>10 DEF AnswerClose
<1> QED BY <1>1, <1>2, <1>3, <1>4, <1>5, <1>6, <1>7, <1>8, <1>9, <1>10 DEF ManagerStep

\* Sampling, crashes and restarts.
LEMMA OtherDisk ==
    ASSUME IndInv, Produce \/ Sampled \/ Abort \/ Restart
    PROVE  DiskOK'
<1>1. CASE Produce \/ Sampled
    BY <1>1 DEF Produce, Sampled, IndInv, PipeOK, DiskOK, Durable, On, learner, pipe, disk
<1>2. CASE Abort
    BY <1>2 DEF Abort, IndInv, DiskOK, Durable, On
<1>3. CASE StartOver
    <2>1. /\ step' = 0 /\ weights' = {} /\ discarded' = {} /\ dropped' = 0 /\ next' = 0 /\ recovery' = None
          /\ dirSteps' = {} /\ pc' = "launch" /\ UNCHANGED checkpoints
        BY <1>3 DEF StartOver
    <2>2. Durable(Artifact(step, weights))'
        BY <2>1 DEF Durable, Artifact
    <2> QED BY <2>1, <2>2 DEF IndInv, DiskOK, On
<1>4. ASSUME NEW c \in checkpoints, NEW sameDir \in BOOLEAN, Resume(c, sameDir) PROVE DiskOK'
    <2>1. /\ step' = c.step /\ weights' = c.weights /\ discarded' = c.discarded /\ dropped' = c.dropped
          /\ recovery' = c.manager /\ pc' = "launch" /\ UNCHANGED checkpoints
          /\ dirSteps' = (IF sameDir THEN dirSteps ELSE {}) /\ (sameDir => UsableOutputDir(c))
        BY <1>4 DEF Resume
    <2>2. Cut(c.manager, c.weights, c.discarded, c.dropped, c.step) /\ c.publication = Artifact(c.step, c.weights)
        BY DEF IndInv, DiskOK
    <2>3. Durable(Artifact(step, weights))'
        BY <2>1, <2>2 DEF Durable
    <2>4. dirSteps' \subseteq Nat /\ \A s \in dirSteps' : s <= step'
        BY <2>1 DEF UsableOutputDir, IndInv, DiskOK
    <2> QED BY <2>1, <2>2, <2>3, <2>4 DEF IndInv, DiskOK, On
<1> QED BY <1>1, <1>2, <1>3, <1>4 DEF Restart

-----------------------------------------------------------------------------
(* The theorems *)

\* A fresh run satisfies the invariant.
LEMMA InitInv == Init => IndInv
<1> SUFFICES ASSUME Init PROVE IndInv
    OBVIOUS
<1> USE DEF Init
<1>1. PipeOK /\ StillOK
    BY DEF PipeOK, StillOK
<1>2. MailOK /\ HandsOK /\ PolicyOK
    BY DEF MailOK, HandsOK, PolicyOK, On
<1>3. CountsOK
    BY DEF CountsOK, On
<1>4. DiskOK
    BY DEF DiskOK, Durable, Artifact, On
<1> QED BY <1>1, <1>2, <1>3, <1>4 DEF IndInv

\* Every step keeps it.
LEMMA StepInv == IndInv /\ [Next]_vars => IndInv'
<1> SUFFICES ASSUME IndInv, [Next]_vars PROVE IndInv'
    OBVIOUS
<1>1. CASE Next
    <2>1. MailOK' /\ CountsOK'
        BY <1>1, MailStep, CountsStep
    <2>2. CASE LearnerStep
        BY <2>1, <2>2, LearnerProtocol, LearnerHands, LearnerDisk DEF IndInv, Protocol
    <2>3. CASE ManagerStep
        BY <2>1, <2>3, ManagerProtocol, ManagerHands, ManagerDisk DEF IndInv, Protocol
    <2>4. CASE Produce \/ Sampled \/ Abort \/ Restart
        BY <2>1, <2>4, OtherProtocol, OtherHands, OtherDisk DEF IndInv, Protocol
    <2>5. CASE UNCHANGED vars
        <3> USE <2>5 DEF vars, learner, pipe, mailbox, manager, disk
        <3>1. PipeOK' /\ StillOK' /\ PolicyOK'
            BY DEF IndInv, PipeOK, StillOK, PolicyOK, Asked, Drains, Replied
        <3>2. HandsOK'
            BY DEF IndInv, HandsOK, On, Held, InFlight
        <3>3. DiskOK'
            BY DEF IndInv, DiskOK, Durable, On
        <3> QED BY <2>1, <3>1, <3>2, <3>3 DEF IndInv
    <2> QED BY <1>1, <2>2, <2>3, <2>4, <2>5 DEF Next, Finished
<1>2. CASE UNCHANGED vars
    <2> USE <1>2 DEF vars, learner, pipe, mailbox, manager, disk
    <2>1. PipeOK' /\ StillOK' /\ PolicyOK'
        BY DEF IndInv, PipeOK, StillOK, PolicyOK, Asked, Drains, Replied
    <2>2. MailOK'
        BY DEF IndInv, MailOK, On
    <2>3. HandsOK'
        BY DEF IndInv, HandsOK, On, Held, InFlight
    <2>4. CountsOK'
        BY DEF IndInv, CountsOK, On, InFlight
    <2>5. DiskOK'
        BY DEF IndInv, DiskOK, Durable, On
    <2> QED BY <2>1, <2>2, <2>3, <2>4, <2>5 DEF IndInv
<1> QED BY <1>1, <1>2

\* The invariant holds throughout every run, crashes and restarts included.
THEOREM TrainingInvariant == Spec => []IndInv
BY InitInv, StepInv, PTL DEF Spec

\* Every group is trained on or dropped exactly once: at every moment the learner's model
\* and drop count stand for the groups below the manager's committed_highwater and those of
\* the commit in the pipe (runtime.py against manager.py), across crashes and restarts.
THEOREM ConsumedExactlyOnce == Spec => []ExactlyOnce
<1>1. IndInv => ExactlyOnce
    <2> SUFFICES ASSUME IndInv, Live PROVE ExactlyOnce
        BY DEF ExactlyOnce
    <2>1. On /\ committed \in Nat
        BY DEF Live, On, IndInv, PipeOK, MailOK
    <2>2. Settled(weights, discarded, dropped, step, 0..(committed - 1) \cup InFlight)
        BY <2>1 DEF IndInv, CountsOK
    <2>3. InFlight \cap 0..(committed - 1) = {}
        <3>1. CASE request.kind = "commit"
            <4>1. Taken("commit")
                BY <3>1 DEF Live, Taken, IndInv, PipeOK, Asked, Drains, Replied, None, Commit, Command
            <4>2. PICK k \in Nat \ {0} : InFlight = committed..(committed + k - 1)
                BY <4>1, CommitIds
            <4> QED BY <2>1, <4>2
        <3>2. CASE request.kind # "commit"
            BY <3>2 DEF InFlight
        <3> QED BY <3>1, <3>2
    <2> QED BY <2>2, <2>3 DEF ExactlyOnce, Settled
<1> QED BY <1>1, TrainingInvariant, PTL

\* Every checkpoint is a consistent cut that load_training_checkpoint and the manager
\* accept, the active policy is always durable, and a save never meets an existing file.
THEOREM CheckpointsAreSound == Spec => []CheckpointsSound
<1>1. IndInv => CheckpointsSound
    <2> SUFFICES ASSUME IndInv PROVE CheckpointsSound
        OBVIOUS
    <2>1. CheckpointsAreCuts
        BY DEF IndInv, DiskOK, Cut, Settled, CheckpointsAreCuts
    <2>2. CheckpointsRestore
        <3> SUFFICES ASSUME NEW c \in checkpoints PROVE Loadable(c) /\ Restorable(c.manager)
            BY DEF CheckpointsRestore
        <3>1. /\ Cut(c.manager, c.weights, c.discarded, c.dropped, c.step) /\ c.next = c.manager.next
              /\ c.publication = Artifact(c.step, c.weights) /\ c.previousAck = c.manager.policy
            BY DEF IndInv, DiskOK
        <3>2. Restorable(c.manager)
            BY <3>1, CutRestores
        <3> QED BY <3>1, <3>2 DEF Loadable, Artifact
    <2>3. ActivePolicyDurable
        BY DEF IndInv, PipeOK, DiskOK, Durable, On, ActivePolicyDurable
    <2>4. SaveNeverCollides
        BY DEF IndInv, DiskOK, CountsOK, SaveNeverCollides
    <2> QED BY <2>1, <2>2, <2>3, <2>4 DEF CheckpointsSound
<1> QED BY <1>1, TrainingInvariant, PTL

\* The manager never meets a command it refuses, nothing is sampled while the policy is in
\* other hands, and no group is trained on beyond the configured lag.
THEOREM ProtocolKept == Spec => []TrainingProtocol
<1>1. IndInv => TrainingProtocol
    <2> SUFFICES ASSUME IndInv PROVE TrainingProtocol
        OBVIOUS
    <2>1. NoCommandRefused
        BY DEF IndInv, PipeOK, Asked, Drains, Replied, NoCommandRefused
    <2>2. SamplerStill
        <3>1. \A a \in active : a.version = policy.version
            BY DEF IndInv, PipeOK, StillOK, MailOK, On
        <3> QED BY <3>1 DEF IndInv, StillOK, SamplerStill
    <2>3. TrainedGroupsFresh
        <3> SUFFICES ASSUME pc \in {"collect", "getting", "dropping", "pausing"}, NEW g \in groups
                     PROVE  g \in DOMAIN retained /\ retained[g].delivered /\ step - retained[g].version \in 0..MaxPolicyLag
            BY DEF TrainedGroupsFresh
        <3>1. pc # "dropping"
            BY DEF IndInv, HandsOK, On
        <3> QED BY <3>1 DEF IndInv, HandsOK, Held, On
    <2> QED BY <2>1, <2>2, <2>3 DEF TrainingProtocol
<1> QED BY <1>1, TrainingInvariant, PTL

-----------------------------------------------------------------------------
(* SupervisedRun: the invariant *)

Phases == {"down", "validate", "restore", "ready", "backward", "optimize", "make", "write", "exporting",
           "adapter", "bundle"}
Running == phase # "down"

\* How many updates have reached the shards of rank r.
DenseCount(r) ==
    IF phase = "restore" THEN IF r \in done THEN args.resume[2] ELSE 0
    ELSE IF \/ mode.inBackward /\ (phase = "optimize" \/ (phase = "backward" /\ r \in done))
            \/ phase = "optimize" /\ r \in done
         THEN atStep + 1 ELSE atStep
RowsCount(r) ==
    IF phase = "restore" THEN IF r \in done THEN args.resume[2] ELSE 0
    ELSE IF phase = "optimize" /\ r \in done THEN atStep + 1 ELSE atStep

\* The loop stands where its step says, and this launch's checkpoints have paths.
LoopOK ==
    /\ phase \in Phases /\ done \subseteq Ranks /\ failed \subseteq Ranks
    /\ mode.inBackward \in BOOLEAN /\ mode.accumulate \in BOOLEAN
    /\ Running =>
        /\ args.resume \in Paths \cup {NoResume} /\ args.steps \in 0 .. MaxTarget /\ args.dir \in Dirs
        /\ atStep \in Nat /\ initial \in Nat /\ cursor = atStep * PerUpdate
        /\ initial <= atStep /\ initial <= MaxTarget /\ (atStep = initial \/ atStep <= args.steps)
    /\ phase \in {"validate", "restore"} => args.resume \in Paths /\ atStep = 0 /\ initial = 0
    /\ Running /\ args.resume # NoResume /\ phase \notin {"validate", "restore"} => initial = args.resume[2]
    /\ phase \in {"backward", "optimize"} => atStep < args.steps
    /\ phase \in {"make", "write"} => atStep > initial
    /\ phase \in {"adapter", "bundle"} => atStep > 0

\* What the shards in memory hold; rows that are not listed as touched are the base's.
Holding(r, n, m) ==
    /\ \A d \in DenseOf(r) : Applies(dense[d], 1 .. n, PerUpdate)
    /\ \A g \in RowsOf(r) : /\ Applies(rows[g], Hitting(g, m, PerUpdate), PerUpdate)
                            /\ g - RowStart(r) \notin dirty[r] => rows[g] = <<>>
MemoryOK ==
    /\ DOMAIN dense = 0 .. DenseSize - 1 /\ DOMAIN rows = 0 .. EngramSize - 1 /\ DOMAIN dirty = Ranks
    /\ Running => \A r \in Ranks : Holding(r, DenseCount(r), RowsCount(r))

\* A rank's file holds its shards after n updates.
FileRow(f, i) == IF i \in f.ids THEN f.values[i] ELSE <<>>
FileOK(f, r, n, size) ==
    /\ \A d \in DenseOf(r) : Applies(f.dense[d], 1 .. n, size)
    /\ \A g \in RowsOf(r) : Applies(FileRow(f, g - RowStart(r)), Hitting(g, n, size), size)
FilesOK(p) == \A r \in Ranks : FileOK(ckpt[p].files[r], r, p[2], PerUpdate)
IsDirectory(d) == d = [files |-> d.files, manifest |-> d.manifest] /\ DOMAIN d.files = Ranks

\* What was published is complete, what is being written is right so far, and what is restored
\* was published.
CheckpointsOK ==
    /\ DOMAIN ckpt = Paths
    /\ \A p \in Paths : Manifest(p) => FilesOK(p)
    /\ phase = "write" => /\ IsDirectory(ckpt[Here]) /\ ~ckpt[Here].manifest
                          /\ \A r \in done \ failed : FileOK(ckpt[Here].files[r], r, atStep, PerUpdate)
    /\ phase = "validate" => (done \ failed # {} => Manifest(args.resume))
    /\ phase = "restore" => Manifest(args.resume)

BundlesOK ==
    /\ DOMAIN bundle = Paths
    /\ \A p \in Paths : bundle[p] # NoFile /\ bundle[p].manifest =>
           DenseAfter(bundle[p].adapter, p[2]) /\ RowsAfter(bundle[p].delta, p[2])
    /\ phase \in {"adapter", "bundle"} =>
           /\ bundle[Here] = [delta |-> bundle[Here].delta, adapter |-> bundle[Here].adapter, manifest |-> FALSE]
           /\ RowsAfter(bundle[Here].delta, atStep)
           /\ phase = "bundle" => DenseAfter(bundle[Here].adapter, atStep)

SupervisedInv == LoopOK /\ MemoryOK /\ CheckpointsOK /\ BundlesOK


-----------------------------------------------------------------------------
(* SupervisedRun: arithmetic *)

\* Products grow with their factors.
LEMMA ProductGrows ==
    ASSUME NEW a \in Nat, NEW b \in Nat, NEW c \in Nat, a <= b
    PROVE  a * c <= b * c
<1>1. b * c = a * c + (b - a) * c
    OBVIOUS
<1>2. (b - a) * c >= 0
    OBVIOUS
<1> QED BY <1>1, <1>2

\* Division with remainder.
LEMMA Division ==
    ASSUME NEW a \in Nat, NEW b \in Nat \ {0}
    PROVE  /\ a \div b \in Nat /\ a % b \in 0 .. b - 1
           /\ a = (a \div b) * b + (a % b)
OBVIOUS

\* The quotient of a number below a product is below the first factor.
LEMMA QuotientBound ==
    ASSUME NEW a \in Nat, NEW b \in Nat \ {0}, NEW n \in Nat, a < n * b
    PROVE  a \div b < n
<1>1. a \div b \in Nat /\ (a \div b) * b <= a
    BY Division
<1>2. SUFFICES ASSUME n <= a \div b PROVE FALSE
    BY <1>1
<1>3. n * b <= (a \div b) * b
    BY <1>1, <1>2, ProductGrows
<1>4. n * b \in Nat /\ (a \div b) * b \in Nat
    BY <1>1
<1> QED BY <1>1, <1>3, <1>4

\* Slices of width s do not overlap.
LEMMA SlicesApart ==
    ASSUME NEW a \in Nat, NEW b \in Nat, NEW s \in Nat, a < b
    PROVE  a * s + s <= b * s
<1>1. (a + 1) * s <= b * s
    BY ProductGrows
<1>2. (a + 1) * s = a * s + s
    OBVIOUS
<1> QED BY <1>1, <1>2


\* The dense shards partition the tensor.
LEMMA DenseLayout ==
    /\ \A r \in Ranks : DenseOf(r) \subseteq 0 .. DenseSize - 1
    /\ \A d \in 0 .. DenseSize - 1 : \E r \in Ranks : d \in DenseOf(r)
    /\ \A r, q \in Ranks : r # q => DenseOf(r) \cap DenseOf(q) = {}
<1>1. PICK s : s = (DenseSize + World - 1) \div World
    OBVIOUS
<1>2. World \in Nat \ {0} /\ DenseSize \in Nat
    BY SupervisedAssumption
<1>3. s \in Nat /\ DenseSize <= s * World
    <2>1. PICK n \in Nat : n = DenseSize + World - 1
        BY <1>2
    <2>2. s \in Nat /\ n % World \in 0 .. World - 1 /\ n = s * World + (n % World)
        BY <1>1, <1>2, <2>1, Division
    <2>3. s * World \in Nat
        BY <1>2, <2>2
    <2> QED BY <1>2, <2>1, <2>2, <2>3
<1>4. \A r \in Ranks : r \in Nat /\ r * s \in Nat /\ r < World
    BY <1>2, <1>3 DEF Ranks
<1>5. \A r \in Ranks : \A d \in Int : d \in DenseOf(r) <=> d >= r * s /\ d < r * s + s /\ d < DenseSize
    <2> SUFFICES ASSUME NEW r \in Ranks, NEW d \in Int
                 PROVE  d \in DenseOf(r) <=> d >= r * s /\ d < r * s + s /\ d < DenseSize
        OBVIOUS
    <2>1. PICK a \in Nat : a = r * s
        BY <1>4
    <2>2. DenseStart(r) = Least(DenseSize, a)
        BY <1>1, <2>1 DEF DenseStart
    <2>3. DenseOf(r) = Least(DenseSize, a) .. Least(DenseSize, Least(DenseSize, a) + s) - 1
        BY <1>1, <2>2 DEF DenseOf
    <2> QED BY <1>2, <1>3, <2>1, <2>3 DEF Least
<1>6. \A r \in Ranks : DenseOf(r) \subseteq Int
    BY DEF DenseOf
<1>7. \A r \in Ranks : DenseOf(r) \subseteq 0 .. DenseSize - 1
    <2> SUFFICES ASSUME NEW r \in Ranks, NEW d \in DenseOf(r) PROVE d \in 0 .. DenseSize - 1
        OBVIOUS
    <2>1. PICK a \in Nat : a = r * s
        BY <1>4
    <2>2. d \in Int /\ d >= a /\ d < DenseSize
        BY <1>5, <1>6, <2>1
    <2> QED BY <1>2, <2>2
<1>8. ASSUME NEW d \in 0 .. DenseSize - 1 PROVE \E r \in Ranks : d \in DenseOf(r)
    <2>1. d \in Nat /\ d < DenseSize
        BY <1>2
    <2>2. s # 0
        <3>1. SUFFICES ASSUME s = 0 PROVE FALSE
            OBVIOUS
        <3>2. s * World = 0
            BY <1>2, <3>1
        <3> QED BY <1>2, <1>3, <2>1, <3>2
    <2>3. d < World * s
        <3>1. PICK a \in Nat : a = s * World
            BY <1>2, <1>3
        <3>2. a = World * s
            BY <1>2, <1>3, <3>1
        <3> QED BY <1>2, <1>3, <2>1, <3>1, <3>2
    <2>4. PICK r : r = d \div s
        OBVIOUS
    <2>5. r \in Nat /\ r < World /\ d % s \in 0 .. s - 1 /\ d = r * s + (d % s)
        BY <1>2, <1>3, <2>1, <2>2, <2>3, <2>4, Division, QuotientBound
    <2>6. r \in Ranks
        BY <1>2, <2>5 DEF Ranks
    <2>7. PICK a \in Nat : a = r * s
        BY <1>4, <2>6
    <2>8. d >= a /\ d < a + s
        BY <1>3, <2>1, <2>5, <2>7
    <2> QED BY <1>5, <2>1, <2>6, <2>7, <2>8
<1>9. ASSUME NEW r \in Ranks, NEW q \in Ranks, r < q PROVE DenseOf(r) \cap DenseOf(q) = {}
    <2>1. r * s + s <= q * s
        BY <1>3, <1>4, <1>9, SlicesApart
    <2>2. PICK a \in Nat, b \in Nat : a = r * s /\ b = q * s
        BY <1>4
    <2>3. ASSUME NEW d \in DenseOf(r), d \in DenseOf(q) PROVE FALSE
        <3>1. d \in Int /\ d < a + s /\ d >= b
            BY <1>5, <1>6, <2>2, <2>3
        <3> QED BY <1>3, <2>1, <2>2, <3>1
    <2> QED BY <2>3
<1>10. ASSUME NEW r \in Ranks, NEW q \in Ranks, r # q PROVE DenseOf(r) \cap DenseOf(q) = {}
    <2>1. r < q \/ q < r
        BY <1>4, <1>10
    <2> QED BY <1>9, <2>1
<1> QED BY <1>7, <1>8, <1>10


\* The owners partition the Engram table.
LEMMA RowLayout ==
    /\ \A r \in Ranks : RowStart(r) \in Int /\ RowsOf(r) \subseteq 0 .. EngramSize - 1
    /\ \A g \in 0 .. EngramSize - 1 : \E r \in Ranks : g \in RowsOf(r)
    /\ \A r, q \in Ranks : r # q => RowsOf(r) \cap RowsOf(q) = {}
<1>1. PICK k, m : k = EngramSize \div World /\ m = EngramSize % World
    OBVIOUS
<1>2. World \in Nat \ {0} /\ EngramSize \in Nat
    BY SupervisedAssumption
<1>3. k \in Nat /\ m \in Nat /\ m < World /\ EngramSize = World * k + m /\ k * World = World * k
    <2>1. k \in Nat /\ m \in 0 .. World - 1 /\ EngramSize = k * World + m
        BY <1>1, <1>2, Division
    <2>2. k * World = World * k
        BY <1>2, <2>1
    <2> QED BY <1>2, <2>1, <2>2
<1>4. \A r \in Ranks : r \in Nat /\ r * k \in Nat /\ r < World
    BY <1>2, <1>3 DEF Ranks
<1>5. ASSUME NEW r \in Ranks, NEW a, a = r * k
      PROVE  /\ RowStart(r) = IF r < m THEN a + r ELSE a + m
             /\ \A g \in Int : g \in RowsOf(r) <=> IF r < m THEN g >= a + r /\ g < a + k + r + 1
                                                             ELSE g >= a + m /\ g < a + k + m
    <2>1. RowStart(r) = IF r < m THEN a + r ELSE a + m
        <3>1. RowStart(r) = a + Least(r, m)
            BY <1>1, <1>5 DEF RowStart
        <3>2. Least(r, m) = IF r < m THEN r ELSE m
            BY DEF Least
        <3> QED BY <3>1, <3>2
    <2>2. RowStop(r) = RowStart(r) + k + (IF r < m THEN 1 ELSE 0)
        BY <1>1 DEF RowStop
    <2>3. RowsOf(r) = RowStart(r) .. RowStop(r) - 1
        BY DEF RowsOf
    <2>4. a \in Nat /\ r \in Nat
        BY <1>4, <1>5
    <2>5. CASE r < m
        <3>1. RowsOf(r) = a + r .. (a + r + k + 1) - 1
            BY <2>1, <2>2, <2>3, <2>5
        <3> QED BY <1>3, <2>1, <2>4, <2>5, <3>1
    <2>6. CASE ~(r < m)
        <3>1. RowsOf(r) = a + m .. (a + m + k + 0) - 1
            BY <2>1, <2>2, <2>3, <2>6
        <3> QED BY <1>3, <2>1, <2>4, <2>6, <3>1
    <2> QED BY <2>5, <2>6
<1>6. \A r \in Ranks : RowStart(r) \in Int
    <2> SUFFICES ASSUME NEW r \in Ranks PROVE RowStart(r) \in Int
        OBVIOUS
    <2>1. PICK a \in Nat : a = r * k
        BY <1>4
    <2> QED BY <1>3, <1>4, <1>5, <2>1
<1>7. \A r \in Ranks : RowsOf(r) \subseteq Int
    BY DEF RowsOf
<1>8. ASSUME NEW r \in Ranks PROVE RowsOf(r) \subseteq 0 .. EngramSize - 1
    <2>1. PICK a \in Nat, b \in Nat : a = r * k /\ b = World * k
        BY <1>2, <1>3, <1>4
    <2>2. a + k <= b
        BY <1>2, <1>3, <1>4, <2>1, SlicesApart
    <2>3. ASSUME NEW g \in RowsOf(r) PROVE g \in 0 .. EngramSize - 1
        <3>1. g \in Int
            BY <1>7
        <3>2. IF r < m THEN g >= a + r /\ g < a + k + r + 1 ELSE g >= a + m /\ g < a + k + m
            BY <1>5, <2>1, <2>3, <3>1
        <3>3. EngramSize = b + m /\ r \in Nat
            BY <1>3, <1>4, <2>1
        <3> QED BY <1>3, <2>1, <2>2, <3>1, <3>2, <3>3
    <2> QED BY <2>3
<1>9. ASSUME NEW g \in 0 .. EngramSize - 1 PROVE \E r \in Ranks : g \in RowsOf(r)
    <2>1. g \in Nat /\ g < EngramSize
        BY <1>2
    <2>2. PICK t \in Nat : t = m * (k + 1)
        BY <1>3
    <2>3. PICK u \in Nat : u = m * k
        BY <1>3
    <2>4. t = u + m
        BY <1>3, <2>2, <2>3
    <2>5. CASE g < t
        <3>1. PICK w \in Nat \ {0} : w = k + 1
            BY <1>3
        <3>2. PICK r : r = g \div w
            OBVIOUS
        <3>3. g < m * w
            BY <2>2, <2>5, <3>1
        <3>4. r \in Nat /\ r < m /\ g % w \in 0 .. w - 1 /\ g = r * w + (g % w)
            BY <1>3, <2>1, <3>1, <3>2, <3>3, Division, QuotientBound
        <3>5. r \in Ranks
            BY <1>2, <1>3, <3>4 DEF Ranks
        <3>6. PICK a \in Nat : a = r * k
            BY <1>4, <3>5
        <3>7. r * w = a + r
            BY <1>3, <3>1, <3>4, <3>6
        <3>8. g >= a + r /\ g < a + k + r + 1
            BY <1>3, <2>1, <3>1, <3>4, <3>6, <3>7
        <3> QED BY <1>5, <2>1, <3>4, <3>5, <3>6, <3>8
    <2>6. CASE ~(g < t)
        <3>1. PICK b \in Nat : b = World * k
            BY <1>2, <1>3
        <3>2. EngramSize = b + m
            BY <1>3, <3>1
        <3>3. PICK e \in Nat : e = g - m
            BY <1>3, <2>1, <2>3, <2>4, <2>6
        <3>4. e < b /\ e >= u
            BY <1>3, <2>1, <2>3, <2>4, <2>6, <3>1, <3>2, <3>3
        <3>5. k # 0
            <4>1. SUFFICES ASSUME k = 0 PROVE FALSE
                OBVIOUS
            <4>2. b = 0
                BY <1>2, <3>1, <4>1
            <4> QED BY <3>3, <3>4, <4>2
        <3>6. PICK r : r = e \div k
            OBVIOUS
        <3>7. r \in Nat /\ r < World /\ e % k \in 0 .. k - 1 /\ e = r * k + (e % k)
            BY <1>2, <1>3, <3>1, <3>3, <3>4, <3>5, <3>6, Division, QuotientBound
        <3>8. PICK a \in Nat : a = r * k
            BY <1>3, <3>7
        <3>9. r >= m
            <4>1. SUFFICES ASSUME r < m PROVE FALSE
                BY <1>3, <3>7
            <4>2. a + k <= u
                BY <1>3, <2>3, <3>7, <3>8, <4>1, SlicesApart
            <4> QED BY <1>3, <2>3, <3>3, <3>4, <3>7, <3>8, <4>2
        <3>10. r \in Ranks
            BY <1>2, <3>7 DEF Ranks
        <3>11. g >= a + m /\ g < a + k + m /\ ~(r < m)
            BY <1>3, <2>1, <3>3, <3>7, <3>8, <3>9
        <3> QED BY <1>5, <2>1, <3>8, <3>10, <3>11
    <2> QED BY <2>5, <2>6
<1>10. ASSUME NEW r \in Ranks, NEW q \in Ranks, r < q PROVE RowsOf(r) \cap RowsOf(q) = {}
    <2>1. PICK a \in Nat, b \in Nat : a = r * k /\ b = q * k
        BY <1>4
    <2>2. a + k <= b
        BY <1>3, <1>4, <1>10, <2>1, SlicesApart
    <2>3. ASSUME NEW g \in RowsOf(r), g \in RowsOf(q) PROVE FALSE
        <3>1. g \in Int
            BY <1>7
        <3>2. IF r < m THEN g >= a + r /\ g < a + k + r + 1 ELSE g >= a + m /\ g < a + k + m
            BY <1>5, <2>1, <2>3, <3>1
        <3>3. IF q < m THEN g >= b + q /\ g < b + k + q + 1 ELSE g >= b + m /\ g < b + k + m
            BY <1>5, <2>1, <2>3, <3>1
        <3>4. r \in Nat /\ q \in Nat
            BY <1>4
        <3> QED BY <1>3, <1>10, <2>1, <2>2, <3>1, <3>2, <3>3, <3>4
    <2> QED BY <2>3
<1>11. ASSUME NEW r \in Ranks, NEW q \in Ranks, r # q PROVE RowsOf(r) \cap RowsOf(q) = {}
    <2>1. r < q \/ q < r
        BY <1>4, <1>11
    <2> QED BY <1>10, <2>1
<1> QED BY <1>6, <1>8, <1>9, <1>11


\* One update's size is a product of the batch's dimensions.
LEMMA UpdateSize ==
    ASSUME mode.accumulate \in BOOLEAN
    PROVE  /\ Micros \in Nat \ {0} /\ DataSize \in Nat /\ PerUpdate \in Nat
           /\ World = DataSize * CpSize
<1>1. Micros \in Nat \ {0}
    BY DEF Micros
<1>2. World \in Nat \ {0} /\ CpSize \in Nat \ {0} /\ World % CpSize = 0 /\ BatchSize \in Nat \ {0}
    BY SupervisedAssumption
<1>3. DataSize \in Nat /\ World = DataSize * CpSize + 0
    BY <1>2, Division DEF DataSize
<1>4. DataSize * CpSize \in Nat
    BY <1>2, <1>3
<1>5. Micros * DataSize \in Nat
    BY <1>1, <1>3
<1>6. PerUpdate \in Nat
    BY <1>2, <1>5 DEF PerUpdate
<1> QED BY <1>1, <1>3, <1>4, <1>6

\* The microbatches of all ranks at the cursor of n updates are the next stretch of the data.
LEMMA BatchIsUpdate ==
    ASSUME mode.accumulate \in BOOLEAN, NEW n \in Nat, cursor = n * PerUpdate
    PROVE  MakeBatches(cursor) = Update(n + 1, PerUpdate)
<1>1. PICK M, D, B, C, P : M = Micros /\ D = DataSize /\ B = BatchSize /\ C = CpSize /\ P = PerUpdate
    OBVIOUS
<1>2. /\ M \in Nat \ {0} /\ D \in Nat /\ B \in Nat \ {0} /\ C \in Nat \ {0} /\ P \in Nat /\ World \in Nat \ {0}
      /\ World = D * C
    BY <1>1, UpdateSize, SupervisedAssumption
<1>3. PICK Q \in Nat : Q = M * D
    BY <1>2
<1>4. P = Q * B
    BY <1>1, <1>3 DEF PerUpdate
<1>5. PICK c \in Nat : c = n * P
    BY <1>2
<1>6. cursor = c
    BY <1>1, <1>5
<1>7. Update(n + 1, P) = c .. c + P - 1
    <2>1. PICK k, e, s : k = n + 1 /\ e = k * P /\ s = (k - 1) * P
        OBVIOUS
    <2>2. e = c + P
        BY <1>2, <1>5, <2>1
    <2>3. s = c
        <3>1. k - 1 = n
            BY <2>1
        <3> QED BY <1>5, <2>1, <3>1
    <2>4. Update(k, P) = {p \in 0 .. e - 1 : p >= s}
        BY <2>1 DEF Update
    <2>5. \A x : x \in c .. c + P - 1 <=> x \in 0 .. c + P - 1 /\ x >= c
        BY <1>2
    <2>6. \A x : x \in Update(k, P) <=> x \in c .. c + P - 1
        <3>1. e \in Int /\ s \in Int /\ e - 1 = c + P - 1
            BY <1>2, <2>2, <2>3
        <3>2. \A x : x \in Update(k, P) <=> x \in 0 .. e - 1 /\ x >= s
            BY <2>4
        <3> QED BY <2>3, <2>5, <3>1, <3>2
    <2> QED BY <2>1, <2>6
<1>8. MakeBatches(c) = {c + (m * D + (r \div C)) * B + i : m \in 0 .. M - 1, r \in Ranks, i \in 0 .. B - 1}
    BY <1>1 DEF MakeBatches
<1>9. ASSUME NEW m \in 0 .. M - 1, NEW r \in Ranks, NEW i \in 0 .. B - 1
      PROVE  c + (m * D + (r \div C)) * B + i \in c .. c + P - 1
    <2>1. r \in Nat /\ r < D * C
        BY <1>2 DEF Ranks
    <2>2. PICK e : e = r \div C
        OBVIOUS
    <2>3. e \in Nat /\ e < D
        BY <1>2, <2>1, <2>2, Division, QuotientBound
    <2>4. m \in Nat /\ m < M
        BY <1>2
    <2>5. m * D + D <= Q
        BY <1>2, <1>3, <2>4, SlicesApart
    <2>6. PICK q \in Nat : q = m * D + e
        BY <1>2, <2>3, <2>4
    <2>7. q < Q
        <3>1. PICK a \in Nat : a = m * D
            BY <1>2, <2>4
        <3> QED BY <1>2, <1>3, <2>3, <2>5, <2>6, <3>1
    <2>8. q * B + B <= P
        BY <1>2, <1>4, <2>7, SlicesApart
    <2>9. PICK a \in Nat : a = q * B
        BY <1>2
    <2>10. c + a + i \in c .. c + P - 1
        BY <1>2, <2>8, <2>9
    <2> QED BY <2>2, <2>6, <2>9, <2>10
<1>10. ASSUME NEW x \in c .. c + P - 1
       PROVE  \E m \in 0 .. M - 1, r \in Ranks, i \in 0 .. B - 1 : x = c + (m * D + (r \div C)) * B + i
    <2>1. PICK f \in Nat : f = x - c /\ f < P
        BY <1>2
    <2>2. PICK q : q = f \div B
        OBVIOUS
    <2>3. q \in Nat /\ q < Q /\ f % B \in 0 .. B - 1 /\ f = q * B + (f % B)
        BY <1>2, <1>3, <1>4, <2>1, <2>2, Division, QuotientBound
    <2>4. D # 0
        BY <1>2
    <2>5. PICK m : m = q \div D
        OBVIOUS
    <2>6. m \in Nat /\ m < M /\ q % D \in 0 .. D - 1 /\ q = m * D + (q % D)
        BY <1>2, <1>3, <2>3, <2>4, <2>5, Division, QuotientBound
    <2>7. PICK e \in Nat : e = q % D /\ e < D
        BY <1>2, <2>6
    <2>8. PICK r \in Nat : r = e * C
        BY <1>2, <2>7
    <2>9. r + C <= World
        BY <1>2, <2>7, <2>8, SlicesApart
    <2>10. r \in Ranks /\ r < World
        BY <1>2, <2>8, <2>9 DEF Ranks
    <2>11. r \div C = e
        <3>1. PICK y, z : y = r \div C /\ z = r % C
            OBVIOUS
        <3>2. y \in Nat /\ z \in 0 .. C - 1 /\ r = y * C + z
            BY <1>2, <2>8, <3>1, Division
        <3>3. ~(y < e)
            <4>1. SUFFICES ASSUME y < e PROVE FALSE
                OBVIOUS
            <4>2. y * C + C <= r
                BY <1>2, <2>7, <2>8, <3>2, <4>1, SlicesApart
            <4>3. PICK a \in Nat : a = y * C
                BY <1>2, <3>2
            <4> QED BY <1>2, <2>8, <3>2, <4>2, <4>3
        <3>4. ~(e < y)
            <4>1. SUFFICES ASSUME e < y PROVE FALSE
                OBVIOUS
            <4>2. r + C <= y * C
                BY <1>2, <2>7, <2>8, <3>2, <4>1, SlicesApart
            <4>3. PICK a \in Nat : a = y * C
                BY <1>2, <3>2
            <4> QED BY <1>2, <2>8, <3>2, <4>2, <4>3
        <3> QED BY <2>7, <3>1, <3>2, <3>3, <3>4
    <2>12. q = m * D + (r \div C)
        BY <2>6, <2>7, <2>11
    <2>13. PICK i \in 0 .. B - 1 : i = f % B
        BY <2>3
    <2>14. x = c + (m * D + (r \div C)) * B + i
        <3>1. PICK a \in Nat : a = q * B
            BY <1>2, <2>3
        <3>2. x = c + a + i
            BY <2>1, <2>3, <2>13, <3>1
        <3>3. a = (m * D + (r \div C)) * B
            BY <2>12, <3>1
        <3> QED BY <3>2, <3>3
    <2>15. m \in 0 .. M - 1
        BY <1>2, <2>6
    <2> QED BY <2>10, <2>13, <2>14, <2>15
<1>11. MakeBatches(c) = c .. c + P - 1
    <2>1. \A x : x \in MakeBatches(c) <=> x \in c .. c + P - 1
        BY <1>8, <1>9, <1>10
    <2> QED BY <2>1
<1> QED BY <1>1, <1>6, <1>7, <1>11

\* The cursor after an update, and the one _validate computes of a checkpoint's step.
LEMMA CursorMoves ==
    ASSUME mode.accumulate \in BOOLEAN, NEW n \in Nat
    PROVE  /\ NextCursor(n * PerUpdate) = (n + 1) * PerUpdate
           /\ n * Micros * BatchSize * DataSize = n * PerUpdate
<1>1. PICK M, D, B, P : M = Micros /\ D = DataSize /\ B = BatchSize /\ P = PerUpdate
    OBVIOUS
<1>2. M \in Nat \ {0} /\ D \in Nat /\ B \in Nat \ {0} /\ P \in Nat
    BY <1>1, UpdateSize, SupervisedAssumption
<1>3. P = M * D * B
    BY <1>1 DEF PerUpdate
<1>4. n * P + P = (n + 1) * P
    BY <1>2
<1>5. n * M * B * D = n * (M * D * B)
    BY <1>2
<1>6. NextCursor(n * P) = n * P + P
    BY <1>1, <1>3 DEF NextCursor
<1> QED BY <1>1, <1>3, <1>4, <1>5, <1>6


-----------------------------------------------------------------------------
(* SupervisedRun: the history of a row *)

\* Base rows have no history.
LEMMA NoHistory == \A size : Applies(<<>>, {}, size)
<1> SUFFICES ASSUME NEW size PROVE Applies(<<>>, {}, size)
    OBVIOUS
<1>1. PICK h : h = <<>> /\ h \in Seq(SUBSET Nat)
    <2>1. <<>> \in Seq(SUBSET Nat)
        BY EmptySeq
    <2> QED BY <2>1
<1>2. DOMAIN h = {}
    BY <1>1
<1>3. [i \in DOMAIN h |-> 0] \in [DOMAIN h -> {}]
    BY <1>2
<1>4. Applies(h, {}, size)
    BY <1>1, <1>2, <1>3 DEF Applies
<1> QED BY <1>1, <1>4

\* A history continues with a later update.
LEMMA HistoryGrows ==
    ASSUME NEW h, NEW S \in SUBSET Nat, NEW k \in Nat, \A j \in S : j < k, NEW size \in Nat, Applies(h, S, size)
    PROVE  Applies(Append(h, Update(k, size)), S \cup {k}, size)
<1>1. h \in Seq(SUBSET Nat)
    BY DEF Applies
<1>2. PICK w \in [DOMAIN h -> S] :
          /\ \A j \in S : \E i \in DOMAIN h : w[i] = j
          /\ \A i, j \in DOMAIN h : i < j => w[i] < w[j]
          /\ \A i \in DOMAIN h : h[i] = Update(w[i], size)
    BY DEF Applies
<1>3. PICK n \in Nat : n = Len(h) /\ DOMAIN h = 1 .. n
    BY <1>1
<1>4. Update(k, size) \in SUBSET Nat
    <2>1. k * size \in Nat
        OBVIOUS
    <2>2. 0 .. k * size - 1 \subseteq Nat
        BY <2>1
    <2> QED BY <2>2 DEF Update
<1>5. PICK b \in SUBSET Nat : b = Update(k, size)
    BY <1>4
<1>6. PICK e : e = Append(h, b)
    OBVIOUS
<1>7. /\ e \in Seq(SUBSET Nat) /\ DOMAIN e = 1 .. n + 1
      /\ \A i \in 1 .. n : e[i] = h[i]
      /\ e[n + 1] = b
    BY <1>1, <1>3, <1>6
<1>8. PICK v : v = [i \in 1 .. n + 1 |-> IF i = n + 1 THEN k ELSE w[i]]
    OBVIOUS
<1>9. v \in [DOMAIN e -> S \cup {k}]
    BY <1>2, <1>3, <1>7, <1>8
<1>10. ASSUME NEW j \in S \cup {k} PROVE \E i \in DOMAIN e : v[i] = j
    <2>1. CASE j = k
        BY <1>3, <1>7, <1>8, <2>1
    <2>2. CASE j \in S
        <3>1. PICK i \in 1 .. n : w[i] = j
            BY <1>2, <1>3, <2>2
        <3>2. i \in DOMAIN e /\ v[i] = w[i]
            BY <1>3, <1>7, <1>8, <3>1
        <3> QED BY <3>1, <3>2
    <2> QED BY <2>1, <2>2
<1>11. ASSUME NEW i \in DOMAIN e, NEW j \in DOMAIN e, i < j PROVE v[i] < v[j]
    <2>1. i \in 1 .. n /\ v[i] = w[i]
        BY <1>3, <1>7, <1>8, <1>11
    <2>2. CASE j = n + 1
        <3>1. v[j] = k /\ w[i] \in S
            BY <1>2, <1>3, <1>8, <2>1, <2>2
        <3> QED BY <2>1, <3>1
    <2>3. CASE j # n + 1
        <3>1. j \in 1 .. n /\ v[j] = w[j]
            BY <1>3, <1>7, <1>8, <2>3
        <3> QED BY <1>2, <1>3, <1>11, <2>1, <3>1
    <2> QED BY <2>2, <2>3
<1>12. ASSUME NEW i \in DOMAIN e PROVE e[i] = Update(v[i], size)
    <2>1. CASE i = n + 1
        BY <1>3, <1>5, <1>7, <1>8, <2>1
    <2>2. CASE i # n + 1
        <3>1. i \in 1 .. n
            BY <1>3, <1>7, <2>2
        <3>2. v[i] = w[i] /\ e[i] = h[i] /\ h[i] = Update(w[i], size)
            BY <1>2, <1>3, <1>7, <1>8, <2>2, <3>1
        <3> QED BY <3>2
    <2> QED BY <2>1, <2>2
<1>13. Applies(e, S \cup {k}, size)
    BY <1>7, <1>9, <1>10, <1>11, <1>12 DEF Applies
<1> QED BY <1>5, <1>6, <1>13

\* One more update of the dense tensor, or of a row that it touches; other rows stay.
LEMMA NextUpdate ==
    ASSUME NEW n \in Nat, NEW size \in Nat, NEW h, NEW g
    PROVE  /\ Applies(h, 1 .. n, size) => Applies(Append(h, Update(n + 1, size)), 1 .. n + 1, size)
           /\ Applies(h, Hitting(g, n, size), size) =>
                 IF g \in TouchedBy(Update(n + 1, size))
                 THEN Applies(Append(h, Update(n + 1, size)), Hitting(g, n + 1, size), size)
                 ELSE Applies(h, Hitting(g, n + 1, size), size)
<1>1. PICK k \in Nat : k = n + 1
    OBVIOUS
<1>2. /\ 1 .. n \in SUBSET Nat /\ 1 .. k = 1 .. n \cup {k}
      /\ \A j \in 1 .. n : j < k
    BY <1>1
<1>3. Hitting(g, n, size) \subseteq 1 .. n
    BY DEF Hitting
<1>4. Hitting(g, k, size) =
          IF g \in TouchedBy(Update(k, size)) THEN Hitting(g, n, size) \cup {k} ELSE Hitting(g, n, size)
    BY <1>2 DEF Hitting
<1>5. Applies(h, 1 .. n, size) => Applies(Append(h, Update(k, size)), 1 .. k, size)
    BY <1>2, HistoryGrows
<1>6. Hitting(g, n, size) \in SUBSET Nat /\ \A j \in Hitting(g, n, size) : j < k
    BY <1>2, <1>3
<1>7. Applies(h, Hitting(g, n, size), size) =>
         Applies(Append(h, Update(k, size)), Hitting(g, n, size) \cup {k}, size)
    BY <1>6, HistoryGrows
<1> QED BY <1>1, <1>4, <1>5, <1>7

\* Nothing has been applied before the first update.
LEMMA NothingYet ==
    \A g, size : /\ Applies(<<>>, 1 .. 0, size)
                 /\ Applies(<<>>, Hitting(g, 0, size), size)
<1>1. 1 .. 0 = {}
    OBVIOUS
<1>2. \A g, size : Hitting(g, 0, size) = {}
    BY <1>1 DEF Hitting
<1> QED BY <1>1, <1>2, NoHistory


-----------------------------------------------------------------------------
(* SupervisedRun: the loop *)

\* A configuration and its batch stay the same.
LEMMA ModeStays ==
    ASSUME LoopOK, SupervisedNext \/ UNCHANGED supervisedVars
    PROVE  /\ mode' = mode /\ Micros' = Micros /\ PerUpdate' = PerUpdate
           /\ mode.accumulate \in BOOLEAN /\ mode.inBackward \in BOOLEAN /\ PerUpdate \in Nat
<1>1. mode' = mode
    BY DEF SupervisedNext, supervisedVars, LaunchRun, Crash, ValidateFile, Restore, Optimize, Backward, WriteRank, Validated,
           Restored, BeginStep, CheckGradients, EndStep, MakeDirectory, PublishManifest, WriteFails, FinishLoop,
           ExportStarts, SaveAdapter, PublishBundle
<1>2. Micros' = Micros
    BY <1>1 DEF Micros
<1>3. PerUpdate' = PerUpdate
    BY <1>2 DEF PerUpdate
<1>4. mode.accumulate \in BOOLEAN /\ mode.inBackward \in BOOLEAN
    BY DEF LoopOK
<1> QED BY <1>1, <1>2, <1>3, <1>4, UpdateSize

\* A launch starts the loop anew.
LEMMA LoopLaunch ==
    ASSUME LoopOK, NEW resume \in {p \in Paths : ckpt[p] # NoFile} \cup {NoResume}, NEW steps \in 0 .. MaxTarget,
           NEW dir \in Dirs, NEW save \in BOOLEAN, LaunchRun(resume, steps, dir, save)
    PROVE  LoopOK'
<1>1. PICK P \in Nat : P = PerUpdate /\ P = PerUpdate'
    BY ModeStays DEF SupervisedNext
<1>2. /\ mode' = mode /\ done' = {} /\ failed' = {} /\ atStep' = 0 /\ cursor' = 0 /\ initial' = 0
      /\ args'.resume = resume /\ args'.steps = steps /\ args'.dir = dir
      /\ phase' = (IF resume = NoResume THEN "ready" ELSE "validate")
    BY DEF LaunchRun
<1>3. 0 = 0 * P /\ MaxTarget \in Nat
    BY SupervisedAssumption
<1>4. resume \in Paths \cup {NoResume}
    OBVIOUS
<1>5. resume # NoResume => resume \in Paths
    OBVIOUS
<1>6. cursor' = atStep' * PerUpdate'
    BY <1>1, <1>2, <1>3
<1>7. /\ phase' \in {"ready", "validate"} /\ phase' \in Phases
      /\ phase' = "validate" <=> resume # NoResume
    BY <1>2 DEF Phases
<1>8. args'.resume \in Paths \cup {NoResume} /\ args'.steps \in 0 .. MaxTarget /\ args'.dir \in Dirs
    BY <1>2, <1>4
<1>9. atStep' \in Nat /\ initial' \in Nat /\ initial' <= atStep' /\ initial' <= MaxTarget /\ atStep' = initial'
    BY <1>2, <1>3
<1>10. done' \subseteq Ranks /\ failed' \subseteq Ranks
    BY <1>2
<1>11. (mode.inBackward \in BOOLEAN /\ mode.accumulate \in BOOLEAN)'
    BY <1>2 DEF LoopOK
<1> QED BY <1>2, <1>5, <1>6, <1>7, <1>8, <1>9, <1>10, <1>11 DEF LoopOK

\* A rank that arrives at a collective, or fails on its way there, leaves the loop where it is.
LEMMA LoopArrives ==
    ASSUME LoopOK, NEW r \in Ranks, mode' = mode, phase' = phase, args' = args, atStep' = atStep, cursor' = cursor,
           initial' = initial, PerUpdate' = PerUpdate, Arrives(r), failed' \subseteq failed \cup {r}
    PROVE  LoopOK'
BY DEF LoopOK, Arrives, Running

\* The ranks stop.
LEMMA LoopEnds ==
    ASSUME LoopOK, mode' = mode, Ends
    PROVE  LoopOK'
BY DEF LoopOK, Ends, Running, Phases

\* The loop goes on to the next collective.
LEMMA LoopProceeds ==
    ASSUME LoopOK, NEW p \in Phases, Running, phase # "validate" => p # "restore", p # "validate",
           mode' = mode, args' = args, atStep' = atStep, cursor' = cursor, initial' = initial, PerUpdate' = PerUpdate,
           Proceed(p), p \notin {"restore"} => phase \notin {"validate", "restore"},
           p \in {"backward", "optimize"} => atStep < args.steps, p \in {"make", "write"} => atStep > initial,
           p \in {"adapter", "bundle"} => atStep > 0
    PROVE  LoopOK'
BY DEF LoopOK, Proceed, Running, Phases

\* The loop resumes at the step of the checkpoint.
LEMMA LoopRestored ==
    ASSUME LoopOK, Restored
    PROVE  LoopOK'
<1>1. PICK P \in Nat : P = PerUpdate /\ P = PerUpdate'
    BY ModeStays DEF SupervisedNext
<1>2. PICK s, c : s = args.resume[2] /\ c = ckpt[args.resume].files[0].cursor
    OBVIOUS
<1>3. /\ mode' = mode /\ args' = args /\ phase = "restore" /\ atStep' = s /\ cursor' = c /\ initial' = s
      /\ \/ Ends
         \/ /\ c = s * Micros * BatchSize * DataSize /\ ~(args.steps > 0 /\ s > args.steps)
            /\ Proceed("ready")
    BY <1>2 DEF Restored, Collected
<1>4. args.resume \in Paths /\ s \in 1 .. MaxTarget /\ MaxTarget \in Nat
    BY <1>2, <1>3, SupervisedAssumption DEF LoopOK, Paths
<1>5. s * Micros * BatchSize * DataSize = s * P
    BY <1>1, <1>4, ModeStays, CursorMoves DEF SupervisedNext
<1>6. CASE Ends
    BY <1>3, <1>6, LoopEnds
<1>7. CASE Proceed("ready") /\ c = s * P
    <2>1. phase' = "ready" /\ done' = {} /\ failed' = {}
        BY <1>7 DEF Proceed
    <2>2. /\ args.resume \in Paths \cup {NoResume} /\ args.steps \in 0 .. MaxTarget /\ args.dir \in Dirs
        BY <1>3 DEF LoopOK, Running
    <2> QED BY <1>1, <1>2, <1>3, <1>4, <1>7, <2>1, <2>2 DEF LoopOK, Running, Phases
<1> QED BY <1>3, <1>5, <1>6, <1>7

\* An update has been made.
LEMMA LoopEndStep ==
    ASSUME LoopOK, EndStep
    PROVE  LoopOK'
<1>1. PICK P \in Nat : P = PerUpdate /\ P = PerUpdate'
    BY ModeStays DEF SupervisedNext
<1>2. PICK p \in {"make", "ready"} : Proceed(p)
    BY DEF EndStep
<1>3. /\ phase = "optimize" /\ mode' = mode /\ args' = args /\ initial' = initial /\ atStep' = atStep + 1
      /\ cursor' = NextCursor(cursor)
    BY DEF EndStep, Collected
<1>4. /\ atStep \in Nat /\ cursor = atStep * P /\ initial \in Nat /\ initial <= atStep /\ initial <= MaxTarget /\ atStep < args.steps
      /\ args.resume \in Paths \cup {NoResume} /\ args.steps \in 0 .. MaxTarget /\ args.dir \in Dirs
      /\ MaxTarget \in Nat /\ (args.resume # NoResume => initial = args.resume[2])
    BY <1>1, <1>3, SupervisedAssumption DEF LoopOK, Running
<1>5. mode.accumulate \in BOOLEAN /\ mode.inBackward \in BOOLEAN
    BY DEF LoopOK
<1>6. cursor' = atStep' * P
    <2>1. NextCursor(atStep * PerUpdate) = (atStep + 1) * PerUpdate
        BY <1>4, <1>5, CursorMoves
    <2> QED BY <1>1, <1>3, <1>4, <2>1
<1>7. phase' = p /\ done' = {} /\ failed' = {}
    BY <1>2 DEF Proceed
<1>8. cursor' = atStep' * PerUpdate'
    BY <1>1, <1>6
<1>9. phase' \in {"make", "ready"} /\ phase' \in Phases /\ done' \subseteq Ranks /\ failed' \subseteq Ranks
    BY <1>2, <1>7 DEF Phases
<1>10. (mode.inBackward \in BOOLEAN /\ mode.accumulate \in BOOLEAN)'
    BY <1>3, <1>5
<1>11. atStep' \in Nat /\ initial' \in Nat /\ initial' <= atStep' /\ initial' <= MaxTarget /\ atStep' <= args'.steps
       /\ atStep' > initial'
    BY <1>3, <1>4
<1> QED BY <1>3, <1>4, <1>8, <1>9, <1>10, <1>11 DEF LoopOK

\* Every step keeps the loop and its launch in order.
LEMMA LoopNext ==
    ASSUME LoopOK, SupervisedNext
    PROVE  LoopOK'
<1>1. mode' = mode /\ PerUpdate' = PerUpdate
    BY ModeStays
<1>2. CASE \E resume \in {p \in Paths : ckpt[p] # NoFile} \cup {NoResume},
              steps \in 0 .. MaxTarget, dir \in Dirs, save \in BOOLEAN : LaunchRun(resume, steps, dir, save)
    BY <1>2, LoopLaunch
<1>3. CASE Crash
    BY <1>1, <1>3, LoopEnds DEF Crash, Ends
<1>4. CASE \E r \in Ranks : ValidateFile(r) \/ Restore(r) \/ Optimize(r)
    BY <1>1, <1>4, LoopArrives DEF ValidateFile, Restore, Optimize, loop
<1>5. CASE \E r \in Ranks, ok \in BOOLEAN : Backward(r, ok) \/ WriteRank(r, ok)
    BY <1>1, <1>5, LoopArrives DEF Backward, WriteRank, loop
<1>6. CASE Validated
    <2>1. phase = "validate" /\ args' = args /\ atStep' = atStep /\ cursor' = cursor /\ initial' = initial
          /\ (Ends \/ Proceed("restore"))
        BY <1>6 DEF Validated, Collected, loop
    <2> QED BY <1>1, <2>1, LoopEnds, LoopProceeds DEF Running, Phases
<1>7. CASE Restored
    BY <1>7, LoopRestored
<1>8. CASE BeginStep
    <2>1. phase = "ready" /\ args' = args /\ atStep' = atStep /\ cursor' = cursor /\ initial' = initial
          /\ atStep < args.steps /\ Proceed("backward")
        BY <1>8 DEF BeginStep, loop
    <2> QED BY <1>1, <2>1, LoopProceeds DEF Running, Phases
<1>9. CASE CheckGradients
    <2>1. phase = "backward" /\ args' = args /\ atStep' = atStep /\ cursor' = cursor /\ initial' = initial
          /\ (Ends \/ Proceed("optimize"))
        BY <1>9 DEF CheckGradients, Collected, loop
    <2>2. atStep < args.steps
        BY <2>1 DEF LoopOK
    <2> QED BY <1>1, <2>1, <2>2, LoopEnds, LoopProceeds DEF Running, Phases
<1>10. CASE EndStep
    BY <1>10, LoopEndStep
<1>11. CASE MakeDirectory
    <2>1. phase = "make" /\ args' = args /\ atStep' = atStep /\ cursor' = cursor /\ initial' = initial
          /\ (Ends \/ Proceed("write"))
        BY <1>11 DEF MakeDirectory, loop
    <2>2. atStep > initial
        BY <2>1 DEF LoopOK
    <2> QED BY <1>1, <2>1, <2>2, LoopEnds, LoopProceeds DEF Running, Phases
<1>12. CASE PublishManifest
    <2>1. phase = "write" /\ args' = args /\ atStep' = atStep /\ cursor' = cursor /\ initial' = initial
          /\ (Proceed("exporting") \/ Proceed("ready"))
        BY <1>12 DEF PublishManifest, MayPublish, Collected
    <2> QED BY <1>1, <2>1, LoopProceeds DEF Running, Phases
<1>13. CASE WriteFails
    BY <1>1, <1>13, LoopEnds DEF WriteFails
<1>14. CASE FinishLoop
    <2>1. phase = "ready" /\ args' = args /\ atStep' = atStep /\ cursor' = cursor /\ initial' = initial
          /\ (Proceed("exporting") \/ (atStep > initial /\ Proceed("make")))
        BY <1>14 DEF FinishLoop, loop
    <2> QED BY <1>1, <2>1, LoopProceeds DEF Running, Phases
<1>15. CASE ExportStarts
    <2>1. phase = "exporting" /\ args' = args /\ atStep' = atStep /\ cursor' = cursor /\ initial' = initial
          /\ (Ends \/ (Exports /\ Proceed("adapter")))
        BY <1>15 DEF ExportStarts, loop
    <2>2. Exports => atStep > 0
        BY DEF Exports
    <2> QED BY <1>1, <2>1, <2>2, LoopEnds, LoopProceeds DEF Running, Phases
<1>16. CASE SaveAdapter
    <2>1. phase = "adapter" /\ args' = args /\ atStep' = atStep /\ cursor' = cursor /\ initial' = initial
          /\ Proceed("bundle")
        BY <1>16 DEF SaveAdapter, loop
    <2>2. atStep > 0
        BY <2>1 DEF LoopOK
    <2> QED BY <1>1, <2>1, <2>2, LoopProceeds DEF Running, Phases
<1>17. CASE PublishBundle
    BY <1>1, <1>17, LoopEnds DEF PublishBundle
<1> QED BY <1>2, <1>3, <1>4, <1>5, <1>6, <1>7, <1>8, <1>9, <1>10, <1>11, <1>12, <1>13, <1>14, <1>15, <1>16, <1>17
        DEF SupervisedNext


-----------------------------------------------------------------------------
(* SupervisedRun: the parameters in memory *)

\* Counters of a rank while the ranks neither restore nor update.
LEMMA CountsAtRest ==
    ASSUME phase \notin {"restore", "backward", "optimize"}
    PROVE  \A r \in Ranks : DenseCount(r) = atStep /\ RowsCount(r) = atStep
BY DEF DenseCount, RowsCount

\* A rank whose shards do not change holds what it held.
LEMMA HoldingSame ==
    ASSUME NEW r \in Ranks, NEW n, NEW m, Holding(r, n, m), PerUpdate' = PerUpdate, dirty'[r] = dirty[r],
           \A d \in DenseOf(r) : dense'[d] = dense[d],
           \A g \in RowsOf(r) : rows'[g] = rows[g]
    PROVE  Holding(r, n, m)'
<1>1. PICK P : P = PerUpdate /\ P = PerUpdate'
    OBVIOUS
<1>2. \A d \in DenseOf(r) : Applies(dense'[d], 1 .. n, P)
    BY <1>1 DEF Holding
<1>3. \A g \in RowsOf(r) : /\ Applies(rows'[g], Hitting(g, m, P), P)
                           /\ g - RowStart(r) \notin dirty'[r] => rows'[g] = <<>>
    BY <1>1 DEF Holding
<1> QED BY <1>1, <1>2, <1>3 DEF Holding

\* The ranks go on with the parameters they have.
LEMMA MemoryStays ==
    ASSUME MemoryOK, UNCHANGED memory, PerUpdate' = PerUpdate,
           Running' => /\ Running
                       /\ \A r \in Ranks : DenseCount(r)' = DenseCount(r) /\ RowsCount(r)' = RowsCount(r)
    PROVE  MemoryOK'
<1>1. dense' = dense /\ rows' = rows /\ dirty' = dirty
    BY DEF memory
<1>2. ASSUME Running', NEW r \in Ranks PROVE Holding(r, DenseCount(r), RowsCount(r))'
    <2>1. PICK n, m : n = DenseCount(r) /\ m = RowsCount(r)
        OBVIOUS
    <2>2. Holding(r, n, m) /\ n = DenseCount(r)' /\ m = RowsCount(r)'
        BY <1>2, <2>1 DEF MemoryOK
    <2>3. Holding(r, n, m)'
        BY <1>1, <2>2, HoldingSame
    <2> QED BY <2>2, <2>3
<1>3. (DOMAIN dense = 0 .. DenseSize - 1 /\ DOMAIN rows = 0 .. EngramSize - 1 /\ DOMAIN dirty = Ranks)'
    BY <1>1 DEF MemoryOK
<1> QED BY <1>2, <1>3 DEF MemoryOK

\* A launch loads the base weights.
LEMMA MemoryLaunch ==
    ASSUME NEW resume, NEW steps, NEW dir, NEW save, LaunchRun(resume, steps, dir, save)
    PROVE  MemoryOK'
<1>1. /\ dense' = [d \in 0 .. DenseSize - 1 |-> <<>>] /\ rows' = [g \in 0 .. EngramSize - 1 |-> <<>>]
      /\ dirty' = [r \in Ranks |-> {}] /\ atStep' = 0 /\ phase' \in {"ready", "validate"}
    BY DEF LaunchRun
<1>2. ASSUME NEW r \in Ranks PROVE Holding(r, 0, 0)'
    <2>1. DenseOf(r) \subseteq 0 .. DenseSize - 1 /\ RowsOf(r) \subseteq 0 .. EngramSize - 1
        BY DenseLayout, RowLayout
    <2>2. \A d \in DenseOf(r) : dense'[d] = <<>>
        BY <1>1, <2>1
    <2>3. \A g \in RowsOf(r) : rows'[g] = <<>>
        BY <1>1, <2>1
    <2> QED BY <2>2, <2>3, NothingYet DEF Holding
<1>3. \A r \in Ranks : DenseCount(r)' = 0 /\ RowsCount(r)' = 0
    BY <1>1 DEF DenseCount, RowsCount
<1>4. (DOMAIN dense = 0 .. DenseSize - 1 /\ DOMAIN rows = 0 .. EngramSize - 1 /\ DOMAIN dirty = Ranks)'
    BY <1>1
<1>5. ASSUME NEW r \in Ranks PROVE Holding(r, DenseCount(r), RowsCount(r))'
    <2>1. PICK n, m : n = DenseCount(r)' /\ m = RowsCount(r)'
        OBVIOUS
    <2>2. n = 0 /\ m = 0
        BY <1>3, <2>1
    <2>3. Holding(r, n, m)'
        BY <1>2, <2>2
    <2> QED BY <2>1, <2>3
<1> QED BY <1>4, <1>5 DEF MemoryOK

\* A rank changes its own shards and no other rank's.
LEMMA MemoryOfRank ==
    ASSUME MemoryOK, NEW r \in Ranks, Running, PerUpdate' = PerUpdate,
           NEW D, D = dense', NEW R, R = rows',
           DOMAIN D = DOMAIN dense /\ \A d \in DOMAIN dense : d \notin DenseOf(r) => D[d] = dense[d],
           DOMAIN R = DOMAIN rows /\ \A g \in DOMAIN rows : g \notin RowsOf(r) => R[g] = rows[g],
           DOMAIN dirty' = DOMAIN dirty /\ \A q \in Ranks : q # r => dirty'[q] = dirty[q],
           \A q \in Ranks : q # r => DenseCount(q)' = DenseCount(q) /\ RowsCount(q)' = RowsCount(q),
           Holding(r, DenseCount(r), RowsCount(r))'
    PROVE  MemoryOK'
<1>1. ASSUME NEW q \in Ranks, q # r PROVE Holding(q, DenseCount(q), RowsCount(q))'
    <2>1. PICK n, m : n = DenseCount(q) /\ m = RowsCount(q)
        OBVIOUS
    <2>2. Holding(q, n, m) /\ n = DenseCount(q)' /\ m = RowsCount(q)'
        BY <1>1, <2>1 DEF MemoryOK
    <2>3. \A d \in DenseOf(q) : dense'[d] = dense[d]
        BY <1>1, DenseLayout DEF MemoryOK
    <2>4. \A g \in RowsOf(q) : rows'[g] = rows[g]
        BY <1>1, RowLayout DEF MemoryOK
    <2>5. dirty'[q] = dirty[q]
        BY <1>1
    <2>6. Holding(q, n, m)'
        BY <2>2, <2>3, <2>4, <2>5, HoldingSame
    <2> QED BY <2>2, <2>6
<1>2. \A q \in Ranks : Holding(q, DenseCount(q), RowsCount(q))'
    BY <1>1
<1>3. (DOMAIN dense = 0 .. DenseSize - 1 /\ DOMAIN rows = 0 .. EngramSize - 1 /\ DOMAIN dirty = Ranks)'
    BY DEF MemoryOK
<1> QED BY <1>2, <1>3 DEF MemoryOK



\* A rank takes its shards from its file of the snapshot.
LEMMA MemoryRestore ==
    ASSUME LoopOK, MemoryOK, CheckpointsOK, NEW r \in Ranks, Restore(r)
    PROVE  MemoryOK'
<1>1. PICK P : P = PerUpdate /\ P = PerUpdate'
    BY ModeStays DEF SupervisedNext
<1>2. PICK f, s : f = ckpt[args.resume].files[r] /\ s = args.resume[2]
    OBVIOUS
<1>3. /\ phase = "restore" /\ phase' = "restore" /\ r \notin done /\ done' = done \cup {r} /\ args' = args /\ atStep' = atStep
      /\ mode' = mode
      /\ dense' = [d \in DOMAIN dense |-> IF d \in DenseOf(r) THEN f.dense[d] ELSE dense[d]]
      /\ rows' = [g \in DOMAIN rows |->
                     IF g \notin RowsOf(r) THEN rows[g]
                     ELSE IF g - RowStart(r) \in f.ids THEN f.values[g - RowStart(r)]
                     ELSE IF g - RowStart(r) \in dirty[r] THEN <<>> ELSE rows[g]]
      /\ dirty' = [dirty EXCEPT ![r] = f.ids]
    BY <1>2 DEF Restore, Arrives, loop, RestoredDirty
<1>4. /\ DOMAIN dense = 0 .. DenseSize - 1 /\ DOMAIN rows = 0 .. EngramSize - 1 /\ DOMAIN dirty = Ranks
      /\ Holding(r, DenseCount(r), RowsCount(r))
    BY <1>3 DEF MemoryOK, Running
<1>5. FileOK(f, r, s, P)
    <2>1. args.resume \in Paths /\ Manifest(args.resume)
        BY <1>3 DEF LoopOK, CheckpointsOK
    <2>2. FilesOK(args.resume)
        BY <2>1 DEF CheckpointsOK
    <2> QED BY <1>1, <1>2, <2>2 DEF FilesOK
<1>6. DenseOf(r) \subseteq 0 .. DenseSize - 1 /\ RowsOf(r) \subseteq 0 .. EngramSize - 1
    BY DenseLayout, RowLayout
<1>7. \A d \in DenseOf(r) : dense'[d] = f.dense[d]
    BY <1>3, <1>4, <1>6
<1>8. ASSUME NEW g \in RowsOf(r)
      PROVE  rows'[g] = FileRow(f, g - RowStart(r)) /\ (g - RowStart(r) \notin dirty'[r] => rows'[g] = <<>>)
    <2>1. g - RowStart(r) \notin dirty[r] => rows[g] = <<>>
        BY <1>4 DEF Holding
    <2>2. dirty'[r] = f.ids
        BY <1>3, <1>4
    <2>3. PICK i : i = g - RowStart(r)
        OBVIOUS
    <2>4. rows'[g] = IF i \in f.ids THEN f.values[i] ELSE IF i \in dirty[r] THEN <<>> ELSE rows[g]
        BY <1>3, <1>4, <1>6, <2>3
    <2> QED BY <2>1, <2>2, <2>3, <2>4 DEF FileRow
<1>9. Holding(r, s, s)'
    <2>1. \A d \in DenseOf(r) : Applies(dense'[d], 1 .. s, P)
        BY <1>5, <1>7 DEF FileOK
    <2>2. \A g \in RowsOf(r) : Applies(rows'[g], Hitting(g, s, P), P)
        BY <1>5, <1>8 DEF FileOK
    <2> QED BY <1>1, <1>8, <2>1, <2>2 DEF Holding
<1>10. DenseCount(r)' = s /\ RowsCount(r)' = s
    BY <1>2, <1>3 DEF DenseCount, RowsCount
<1>11. Holding(r, DenseCount(r), RowsCount(r))'
    <2>1. PICK n, m : n = DenseCount(r)' /\ m = RowsCount(r)'
        OBVIOUS
    <2>2. n = s /\ m = s
        BY <1>10, <2>1
    <2>3. Holding(r, n, m)'
        BY <1>9, <2>2
    <2> QED BY <2>1, <2>3
<1>12. \A q \in Ranks : q # r => DenseCount(q)' = DenseCount(q) /\ RowsCount(q)' = RowsCount(q)
    BY <1>3 DEF DenseCount, RowsCount
<1>13. PICK D, R : D = dense' /\ R = rows'
    OBVIOUS
<1>14. DOMAIN D = DOMAIN dense /\ \A d \in DOMAIN dense : d \notin DenseOf(r) => D[d] = dense[d]
    BY <1>3, <1>13
<1>15. DOMAIN R = DOMAIN rows /\ \A g \in DOMAIN rows : g \notin RowsOf(r) => R[g] = rows[g]
    BY <1>3, <1>13
<1>16. DOMAIN dirty' = DOMAIN dirty /\ \A q \in Ranks : q # r => dirty'[q] = dirty[q]
    BY <1>3, <1>4
<1>17. PerUpdate' = PerUpdate /\ Running
    BY <1>1, <1>3 DEF Running
<1> QED BY <1>11, <1>12, <1>13, <1>14, <1>15, <1>16, <1>17, MemoryOfRank

\* Applying a batch to some rows of a tensor.
LEMMA AppliedRows ==
    ASSUME NEW f, NEW at, NEW b
    PROVE  /\ DOMAIN Applied(f, at, b) = DOMAIN f
           /\ \A x \in DOMAIN f : Applied(f, at, b)[x] = IF x \in at THEN Append(f[x], b) ELSE f[x]
BY DEF Applied

\* The hooks of a backward pass update the dense shard of the rank, or nothing does.
LEMMA MemoryBackward ==
    ASSUME LoopOK, MemoryOK, NEW r \in Ranks, NEW finite \in BOOLEAN, Backward(r, finite)
    PROVE  MemoryOK'
<1>1. PICK P : P = PerUpdate /\ P = PerUpdate' /\ P \in Nat
    BY ModeStays DEF SupervisedNext
<1>2. PICK b : b = MakeBatches(cursor)
    OBVIOUS
<1>3. /\ phase = "backward" /\ phase' = "backward" /\ r \notin done /\ done' = done \cup {r} /\ args' = args /\ atStep' = atStep
      /\ mode' = mode /\ rows' = rows /\ dirty' = dirty
      /\ dense' = IF mode.inBackward THEN Applied(dense, DenseOf(r), b) ELSE dense
    BY <1>2 DEF Backward, Arrives, loop
<1>4. /\ DOMAIN dense = 0 .. DenseSize - 1 /\ DOMAIN rows = 0 .. EngramSize - 1 /\ DOMAIN dirty = Ranks
      /\ Holding(r, DenseCount(r), RowsCount(r))
    BY <1>3 DEF MemoryOK, Running
<1>5. atStep \in Nat /\ mode.inBackward \in BOOLEAN /\ mode.accumulate \in BOOLEAN /\ b = Update(atStep + 1, P)
    BY <1>1, <1>2, <1>3, BatchIsUpdate DEF LoopOK, Running
<1>6. DenseOf(r) \subseteq 0 .. DenseSize - 1
    BY DenseLayout
<1>7. DenseCount(r) = atStep /\ RowsCount(r) = atStep /\ RowsCount(r)' = atStep
      /\ DenseCount(r)' = (IF mode.inBackward THEN atStep + 1 ELSE atStep)
    BY <1>3 DEF DenseCount, RowsCount
<1>8. \A d \in DenseOf(r) : Applies(dense[d], 1 .. atStep, P)
    BY <1>1, <1>4, <1>7 DEF Holding
<1>9. \A g \in RowsOf(r) : /\ Applies(rows[g], Hitting(g, atStep, P), P)
                           /\ g - RowStart(r) \notin dirty[r] => rows[g] = <<>>
    BY <1>1, <1>4, <1>7 DEF Holding
<1>10. \A d \in DenseOf(r) : mode.inBackward => Applies(dense'[d], 1 .. atStep + 1, P)
    <2>1. \A d \in DenseOf(r) : mode.inBackward => dense'[d] = Append(dense[d], b)
        <3>1. \A d \in DOMAIN dense : Applied(dense, DenseOf(r), b)[d] = IF d \in DenseOf(r) THEN Append(dense[d], b) ELSE dense[d]
            BY AppliedRows
        <3> QED BY <1>3, <1>4, <1>6, <3>1
    <2>2. \A d \in DenseOf(r) : Applies(Append(dense[d], b), 1 .. atStep + 1, P)
        BY <1>1, <1>5, <1>8, NextUpdate
    <2> QED BY <2>1, <2>2
<1>11. Holding(r, DenseCount(r), RowsCount(r))'
    <2>1. PICK n, m, t : n = DenseCount(r)' /\ m = RowsCount(r)' /\ t = atStep
        OBVIOUS
    <2>2. m = t /\ n = (IF mode.inBackward THEN t + 1 ELSE t)
        BY <1>7, <2>1
    <2>3. \A d \in DenseOf(r) : Applies(dense'[d], 1 .. n, P)
        <3>1. CASE mode.inBackward
            BY <1>10, <2>1, <2>2, <3>1
        <3>2. CASE ~mode.inBackward
            BY <1>3, <1>8, <2>1, <2>2, <3>2
        <3> QED BY <3>1, <3>2
    <2>4. \A g \in RowsOf(r) : /\ Applies(rows'[g], Hitting(g, m, P), P)
                               /\ g - RowStart(r) \notin dirty'[r] => rows'[g] = <<>>
        BY <1>3, <1>9, <2>1, <2>2
    <2>5. Holding(r, n, m)'
        BY <1>1, <2>3, <2>4 DEF Holding
    <2> QED BY <2>1, <2>5
<1>12. \A q \in Ranks : q # r => DenseCount(q)' = DenseCount(q) /\ RowsCount(q)' = RowsCount(q)
    BY <1>3 DEF DenseCount, RowsCount
<1>13. PICK D, R : D = dense' /\ R = rows'
    OBVIOUS
<1>14. DOMAIN D = DOMAIN dense /\ \A d \in DOMAIN dense : d \notin DenseOf(r) => D[d] = dense[d]
    BY <1>3, <1>13, AppliedRows
<1>15. DOMAIN R = DOMAIN rows /\ \A g \in DOMAIN rows : g \notin RowsOf(r) => R[g] = rows[g]
    BY <1>3, <1>13
<1>16. PerUpdate' = PerUpdate /\ Running
    BY <1>1, <1>3 DEF Running
<1> QED BY <1>3, <1>11, <1>12, <1>13, <1>14, <1>15, <1>16, MemoryOfRank

\* The optimizer updates the touched rows of the rank, and its dense shard unless the hooks did.
LEMMA MemoryOptimize ==
    ASSUME LoopOK, MemoryOK, NEW r \in Ranks, Optimize(r)
    PROVE  MemoryOK'
<1>1. PICK P : P = PerUpdate /\ P = PerUpdate' /\ P \in Nat
    BY ModeStays DEF SupervisedNext
<1>2. PICK b, mine : b = MakeBatches(cursor) /\ mine = TouchedBy(MakeBatches(cursor)) \cap RowsOf(r)
    OBVIOUS
<1>3. /\ phase = "optimize" /\ phase' = "optimize" /\ r \notin done /\ done' = done \cup {r} /\ args' = args /\ atStep' = atStep
      /\ mode' = mode
      /\ dense' = IF mode.inBackward THEN dense ELSE Applied(dense, DenseOf(r), b)
      /\ rows' = Applied(rows, mine, b)
      /\ dirty' = [dirty EXCEPT ![r] = dirty[r] \cup {g - RowStart(r) : g \in mine}]
    BY <1>2 DEF Optimize, Arrives, loop, AfterStep
<1>4. /\ DOMAIN dense = 0 .. DenseSize - 1 /\ DOMAIN rows = 0 .. EngramSize - 1 /\ DOMAIN dirty = Ranks
      /\ Holding(r, DenseCount(r), RowsCount(r))
    BY <1>3 DEF MemoryOK, Running
<1>5. atStep \in Nat /\ mode.inBackward \in BOOLEAN /\ mode.accumulate \in BOOLEAN /\ b = Update(atStep + 1, P)
    BY <1>1, <1>2, <1>3, BatchIsUpdate DEF LoopOK, Running
<1>6. DenseOf(r) \subseteq 0 .. DenseSize - 1 /\ RowsOf(r) \subseteq 0 .. EngramSize - 1
    BY DenseLayout, RowLayout
<1>7. /\ RowsCount(r) = atStep /\ RowsCount(r)' = atStep + 1
      /\ DenseCount(r) = (IF mode.inBackward THEN atStep + 1 ELSE atStep) /\ DenseCount(r)' = atStep + 1
    BY <1>3 DEF DenseCount, RowsCount
<1>8. PICK t : t = atStep
    OBVIOUS
<1>9. \A d \in DenseOf(r) : Applies(dense'[d], 1 .. t + 1, P)
    <2>1. CASE mode.inBackward
        BY <1>1, <1>3, <1>4, <1>7, <1>8, <2>1 DEF Holding
    <2>2. CASE ~mode.inBackward
        <3>1. \A d \in DenseOf(r) : Applies(dense[d], 1 .. t, P)
            BY <1>1, <1>4, <1>7, <1>8, <2>2 DEF Holding
        <3>2. \A d \in DenseOf(r) : dense'[d] = Append(dense[d], b)
            <4>1. \A d \in DOMAIN dense : Applied(dense, DenseOf(r), b)[d] = IF d \in DenseOf(r) THEN Append(dense[d], b) ELSE dense[d]
                BY AppliedRows
            <4> QED BY <1>3, <1>4, <1>6, <2>2, <4>1
        <3>3. \A d \in DenseOf(r) : Applies(Append(dense[d], b), 1 .. t + 1, P)
            BY <1>1, <1>5, <1>8, <3>1, NextUpdate
        <3> QED BY <3>2, <3>3
    <2> QED BY <2>1, <2>2
<1>10. ASSUME NEW g \in RowsOf(r)
       PROVE  /\ Applies(rows'[g], Hitting(g, t + 1, P), P)
              /\ g - RowStart(r) \notin dirty'[r] => rows'[g] = <<>>
    <2>1. Applies(rows[g], Hitting(g, t, P), P) /\ (g - RowStart(r) \notin dirty[r] => rows[g] = <<>>)
        BY <1>1, <1>4, <1>7, <1>8 DEF Holding
    <2>2. g \in mine <=> g \in TouchedBy(Update(t + 1, P))
        BY <1>2, <1>5, <1>8
    <2>3. rows'[g] = IF g \in mine THEN Append(rows[g], b) ELSE rows[g]
        <3>1. \A x \in DOMAIN rows : Applied(rows, mine, b)[x] = IF x \in mine THEN Append(rows[x], b) ELSE rows[x]
            BY AppliedRows
        <3> QED BY <1>3, <1>4, <1>6, <3>1
    <2>4. Applies(rows'[g], Hitting(g, t + 1, P), P)
        BY <1>1, <1>5, <1>8, <2>1, <2>2, <2>3, NextUpdate
    <2>5. dirty'[r] = dirty[r] \cup {x - RowStart(r) : x \in mine}
        BY <1>3, <1>4
    <2>6. g \in mine => g - RowStart(r) \in dirty'[r]
        BY <2>5
    <2> QED BY <2>1, <2>3, <2>4, <2>5, <2>6
<1>11. Holding(r, t + 1, t + 1)'
    BY <1>1, <1>9, <1>10 DEF Holding
<1>12. Holding(r, DenseCount(r), RowsCount(r))'
    <2>1. PICK n, m : n = DenseCount(r)' /\ m = RowsCount(r)'
        OBVIOUS
    <2>2. n = t + 1 /\ m = t + 1
        BY <1>7, <1>8, <2>1
    <2>3. Holding(r, n, m)'
        BY <1>11, <2>2
    <2> QED BY <2>1, <2>3
<1>13. \A q \in Ranks : q # r => DenseCount(q)' = DenseCount(q) /\ RowsCount(q)' = RowsCount(q)
    BY <1>3 DEF DenseCount, RowsCount
<1>14. PICK D, R : D = dense' /\ R = rows'
    OBVIOUS
<1>15. DOMAIN D = DOMAIN dense /\ \A d \in DOMAIN dense : d \notin DenseOf(r) => D[d] = dense[d]
    BY <1>3, <1>14, AppliedRows
<1>16. DOMAIN R = DOMAIN rows /\ \A g \in DOMAIN rows : g \notin RowsOf(r) => R[g] = rows[g]
    BY <1>2, <1>3, <1>14, AppliedRows
<1>17. DOMAIN dirty' = DOMAIN dirty /\ \A q \in Ranks : q # r => dirty'[q] = dirty[q]
    BY <1>3, <1>4
<1>18. PerUpdate' = PerUpdate /\ Running
    BY <1>1, <1>3 DEF Running
<1> QED BY <1>12, <1>13, <1>14, <1>15, <1>16, <1>17, <1>18, MemoryOfRank


\* The launch is over.
LEMMA MemoryEnds ==
    ASSUME MemoryOK, UNCHANGED memory, PerUpdate' = PerUpdate, Ends
    PROVE  MemoryOK'
BY MemoryStays DEF Ends, Running

\* The ranks pass from one phase to another, neither restoring nor updating.
LEMMA MemoryRests ==
    ASSUME MemoryOK, UNCHANGED memory, PerUpdate' = PerUpdate, atStep' = atStep, Running,
           phase \notin {"restore", "backward", "optimize"}, phase' \notin {"restore", "backward", "optimize"}
    PROVE  MemoryOK'
<1>1. \A r \in Ranks : DenseCount(r) = atStep /\ RowsCount(r) = atStep
    BY DEF DenseCount, RowsCount
<1>2. \A r \in Ranks : DenseCount(r)' = atStep /\ RowsCount(r)' = atStep
    BY DEF DenseCount, RowsCount
<1> QED BY <1>1, <1>2, MemoryStays

\* Between two phases every rank has the same updates.
LEMMA MemoryProceeds ==
    ASSUME LoopOK, MemoryOK,
           Validated \/ Restored \/ BeginStep \/ CheckGradients \/ EndStep
    PROVE  MemoryOK'
<1>1. mode' = mode /\ PerUpdate' = PerUpdate
    BY ModeStays DEF SupervisedNext
<1>2. CASE Validated
    <2>1. /\ phase = "validate" /\ args' = args /\ atStep' = atStep /\ UNCHANGED memory
          /\ (Ends \/ (phase' = "restore" /\ done' = {}))
        BY <1>2 DEF Validated, Collected, Proceed, loop
    <2>2. atStep = 0
        BY <2>1 DEF LoopOK
    <2>3. CASE phase' = "restore" /\ done' = {}
        <3>1. \A r \in Ranks : DenseCount(r) = 0 /\ RowsCount(r) = 0
            BY <2>1, <2>2 DEF DenseCount, RowsCount
        <3>2. \A r \in Ranks : DenseCount(r)' = 0 /\ RowsCount(r)' = 0
            BY <2>3 DEF DenseCount, RowsCount
        <3> QED BY <1>1, <2>1, <3>1, <3>2, MemoryStays DEF Running
    <2> QED BY <1>1, <2>1, <2>3, MemoryEnds
<1>3. CASE Restored
    <2>1. /\ phase = "restore" /\ done = Ranks /\ atStep' = args.resume[2] /\ UNCHANGED memory
          /\ (Ends \/ phase' = "ready")
        BY <1>3 DEF Restored, Collected, Proceed
    <2>2. CASE phase' = "ready"
        <3>1. \A r \in Ranks : DenseCount(r) = args.resume[2] /\ RowsCount(r) = args.resume[2]
            BY <2>1 DEF DenseCount, RowsCount
        <3>2. \A r \in Ranks : DenseCount(r)' = args.resume[2] /\ RowsCount(r)' = args.resume[2]
            BY <2>1, <2>2 DEF DenseCount, RowsCount
        <3> QED BY <1>1, <2>1, <3>1, <3>2, MemoryStays DEF Running
    <2> QED BY <1>1, <2>1, <2>2, MemoryEnds
<1>4. CASE BeginStep
    <2>1. phase = "ready" /\ atStep' = atStep /\ UNCHANGED memory /\ phase' = "backward" /\ done' = {}
        BY <1>4 DEF BeginStep, Proceed, loop
    <2>2. \A r \in Ranks : DenseCount(r) = atStep /\ RowsCount(r) = atStep
        BY <2>1 DEF DenseCount, RowsCount
    <2>3. \A r \in Ranks : DenseCount(r)' = atStep /\ RowsCount(r)' = atStep
        BY <2>1 DEF DenseCount, RowsCount
    <2> QED BY <1>1, <2>1, <2>2, <2>3, MemoryStays DEF Running
<1>5. CASE CheckGradients
    <2>1. /\ phase = "backward" /\ done = Ranks /\ atStep' = atStep /\ UNCHANGED memory
          /\ (Ends \/ (phase' = "optimize" /\ done' = {}))
        BY <1>5 DEF CheckGradients, Collected, Proceed, loop
    <2>2. CASE phase' = "optimize" /\ done' = {}
        <3>1. \A r \in Ranks : DenseCount(r) = (IF mode.inBackward THEN atStep + 1 ELSE atStep) /\ RowsCount(r) = atStep
            BY <2>1 DEF DenseCount, RowsCount
        <3>2. \A r \in Ranks : DenseCount(r)' = (IF mode.inBackward THEN atStep + 1 ELSE atStep) /\ RowsCount(r)' = atStep
            BY <1>1, <2>1, <2>2 DEF DenseCount, RowsCount
        <3> QED BY <1>1, <2>1, <3>1, <3>2, MemoryStays DEF Running
    <2> QED BY <1>1, <2>1, <2>2, MemoryEnds
<1>6. CASE EndStep
    <2>1. /\ phase = "optimize" /\ done = Ranks /\ atStep' = atStep + 1 /\ UNCHANGED memory
          /\ phase' \in {"make", "ready"}
        BY <1>6 DEF EndStep, Collected, Proceed
    <2>2. \A r \in Ranks : DenseCount(r) = atStep + 1 /\ RowsCount(r) = atStep + 1
        BY <2>1 DEF DenseCount, RowsCount
    <2>3. \A r \in Ranks : DenseCount(r)' = atStep + 1 /\ RowsCount(r)' = atStep + 1
        BY <2>1 DEF DenseCount, RowsCount
    <2> QED BY <1>1, <2>1, <2>2, <2>3, MemoryStays DEF Running
<1> QED BY <1>2, <1>3, <1>4, <1>5, <1>6

\* Every step leaves in memory what the counters say.
LEMMA MemoryNext ==
    ASSUME LoopOK, MemoryOK, CheckpointsOK, SupervisedNext
    PROVE  MemoryOK'
<1>1. PerUpdate' = PerUpdate
    BY ModeStays
<1>2. CASE \E resume \in {p \in Paths : ckpt[p] # NoFile} \cup {NoResume},
              steps \in 0 .. MaxTarget, dir \in Dirs, save \in BOOLEAN : LaunchRun(resume, steps, dir, save)
    BY <1>2, MemoryLaunch
<1>3. CASE Crash
    BY <1>1, <1>3, MemoryEnds DEF Crash, Ends
<1>4. CASE \E r \in Ranks : ValidateFile(r)
    BY <1>1, <1>4, MemoryRests DEF ValidateFile, loop, Running
<1>5. CASE \E r \in Ranks : Restore(r) \/ Optimize(r)
    BY <1>5, MemoryRestore, MemoryOptimize
<1>6. CASE \E r \in Ranks, ok \in BOOLEAN : Backward(r, ok)
    BY <1>6, MemoryBackward
<1>7. CASE \E r \in Ranks, ok \in BOOLEAN : WriteRank(r, ok)
    BY <1>1, <1>7, MemoryRests DEF WriteRank, loop, Running
<1>8. CASE Validated \/ Restored \/ BeginStep \/ CheckGradients \/ EndStep
    BY <1>8, MemoryProceeds
<1>9. CASE MakeDirectory \/ PublishManifest \/ FinishLoop \/ SaveAdapter
    <2>1. /\ UNCHANGED memory /\ atStep' = atStep /\ phase \in {"make", "write", "ready", "adapter"}
          /\ (Ends \/ phase' \in {"make", "write", "ready", "exporting", "bundle"})
        BY <1>9 DEF MakeDirectory, PublishManifest, MayPublish, Collected, FinishLoop, SaveAdapter, Proceed, loop
    <2> QED BY <1>1, <2>1, MemoryEnds, MemoryRests DEF Running
<1>10. CASE ExportStarts
    <2>1. /\ UNCHANGED memory /\ atStep' = atStep /\ phase = "exporting" /\ (Ends \/ phase' = "adapter")
        BY <1>10 DEF ExportStarts, Proceed, loop
    <2> QED BY <1>1, <2>1, MemoryEnds, MemoryRests DEF Running
<1>11. CASE WriteFails \/ PublishBundle
    BY <1>1, <1>11, MemoryEnds DEF WriteFails, PublishBundle
<1> QED BY <1>2, <1>3, <1>4, <1>5, <1>6, <1>7, <1>8, <1>9, <1>10, <1>11 DEF SupervisedNext

-----------------------------------------------------------------------------
(* SupervisedRun: the checkpoints *)

\* A launch that saves a checkpoint has a path for it.
LEMMA HereIsAPath ==
    ASSUME LoopOK, phase \in {"make", "write"}
    PROVE  Here \in Paths /\ atStep \in Nat /\ Here[2] = atStep
<1>1. /\ args.steps \in 0 .. MaxTarget /\ args.dir \in Dirs /\ atStep \in Nat /\ initial \in Nat
      /\ (atStep = initial \/ atStep <= args.steps) /\ atStep > initial /\ MaxTarget \in Nat
    BY SupervisedAssumption DEF LoopOK, Running
<1> QED BY <1>1 DEF Here, Paths

\* The directories stay, and the ranks are elsewhere.
LEMMA CheckpointsStay ==
    ASSUME CheckpointsOK, ckpt' = ckpt, PerUpdate' = PerUpdate, phase' \notin {"write", "validate", "restore"}
    PROVE  CheckpointsOK'
BY DEF CheckpointsOK, Manifest, FilesOK

\* The directories stay, and the ranks that save or restore are where they were.
LEMMA CheckpointsRest ==
    ASSUME CheckpointsOK, ckpt' = ckpt, PerUpdate' = PerUpdate, phase' = phase, args' = args, atStep' = atStep,
           phase \in {"write", "validate"} => done' = done /\ failed' = failed
    PROVE  CheckpointsOK'
BY DEF CheckpointsOK, Manifest, FilesOK, Here, IsDirectory

\* Rank 0 makes an empty directory.
LEMMA CheckpointsMake ==
    ASSUME LoopOK, CheckpointsOK, MakeDirectory
    PROVE  CheckpointsOK'
<1>1. PICK P, h, n : P = PerUpdate /\ P = PerUpdate' /\ h = Here /\ n = atStep
    BY ModeStays DEF SupervisedNext
<1>2. CASE ckpt[Here] # NoFile
    BY <1>1, <1>2, CheckpointsStay DEF MakeDirectory, Ends
<1>3. CASE ckpt[Here] = NoFile
    <2>1. PICK d : d = [files |-> [r \in Ranks |-> NoFile], manifest |-> FALSE]
        OBVIOUS
    <2>2. /\ ckpt' = [ckpt EXCEPT ![h] = d] /\ phase = "make" /\ phase' = "write" /\ done' = {} /\ args' = args /\ atStep' = atStep
        BY <1>1, <1>3, <2>1 DEF MakeDirectory, Proceed, loop
    <2>3. h \in Paths /\ Here' = h
        BY <1>1, <2>2, HereIsAPath DEF Here
    <2>4. DOMAIN ckpt' = Paths /\ ckpt'[h] = d /\ \A p \in Paths : p # h => ckpt'[p] = ckpt[p]
        BY <2>2, <2>3 DEF CheckpointsOK
    <2>5. ~d.manifest /\ IsDirectory(d)
        BY <2>1 DEF IsDirectory
    <2>6. \A p \in Paths : Manifest(p)' => FilesOK(p)'
        <3> TAKE p \in Paths
        <3>1. CASE p = h
            BY <2>4, <2>5, <3>1 DEF Manifest
        <3>2. CASE p # h
            BY <1>1, <2>4, <3>2 DEF Manifest, FilesOK, CheckpointsOK
        <3> QED BY <3>1, <3>2
    <2>7. IsDirectory(ckpt'[Here']) /\ ~ckpt'[Here'].manifest /\ done' \ failed' = {}
        BY <2>2, <2>3, <2>4, <2>5
    <2> QED BY <2>2, <2>4, <2>6, <2>7 DEF CheckpointsOK, IsDirectory
<1> QED BY <1>2, <1>3

\* What a rank writes is what its shards hold.
LEMMA PayloadHolds ==
    ASSUME NEW r \in Ranks, NEW n, Holding(r, n, n)
    PROVE  FileOK(Payload(r), r, n, PerUpdate)
<1>1. PICK P : P = PerUpdate
    OBVIOUS
<1>2. PICK f : f = Payload(r)
    OBVIOUS
<1>3. /\ f.dense = [d \in DenseOf(r) |-> dense[d]] /\ f.ids = dirty[r]
      /\ f.values = [i \in dirty[r] |-> rows[RowStart(r) + i]]
    BY <1>2 DEF Payload
<1>4. \A d \in DenseOf(r) : Applies(f.dense[d], 1 .. n, P)
    BY <1>1, <1>3 DEF Holding
<1>5. ASSUME NEW g \in RowsOf(r) PROVE Applies(FileRow(f, g - RowStart(r)), Hitting(g, n, P), P)
    <2>1. PICK i : i = g - RowStart(r)
        OBVIOUS
    <2>2. RowStart(r) + i = g
        BY <2>1, RowLayout
    <2>3. FileRow(f, i) = rows[g]
        BY <1>3, <2>1, <2>2 DEF Holding, FileRow
    <2> QED BY <1>1, <2>1, <2>3 DEF Holding
<1> QED BY <1>1, <1>2, <1>4, <1>5 DEF FileOK

\* A rank writes its file, or reports that it could not.
LEMMA CheckpointsWrite ==
    ASSUME LoopOK, MemoryOK, CheckpointsOK, NEW r \in Ranks, NEW ok \in BOOLEAN, WriteRank(r, ok)
    PROVE  CheckpointsOK'
<1>1. PICK P, h, n : P = PerUpdate /\ P = PerUpdate' /\ h = Here /\ n = atStep
    BY ModeStays DEF SupervisedNext
<1>2. PICK f, c, fs : f = Payload(r) /\ c = ckpt[h] /\ fs = ckpt[h].files
    OBVIOUS
<1>3. /\ phase = "write" /\ phase' = "write" /\ done' = done \cup {r} /\ args' = args /\ atStep' = atStep
      /\ IF ok THEN ckpt' = [ckpt EXCEPT ![h] = [c EXCEPT !.files = [fs EXCEPT ![r] = f]]] /\ failed' = failed
               ELSE ckpt' = ckpt /\ failed' = failed \cup {r}
    BY <1>1, <1>2 DEF WriteRank, Arrives, loop
<1>4. h \in Paths /\ Here' = h
    BY <1>1, <1>3, HereIsAPath DEF Here
<1>5. /\ DOMAIN ckpt = Paths /\ c = [files |-> fs, manifest |-> c.manifest] /\ DOMAIN fs = Ranks /\ ~c.manifest
      /\ \A q \in done \ failed : FileOK(fs[q], q, n, P)
    BY <1>1, <1>2, <1>3 DEF CheckpointsOK, IsDirectory
<1>6. CASE ~ok
    <2>1. ckpt' = ckpt /\ done' \ failed' \subseteq done \ failed
        BY <1>3, <1>6
    <2>2. \A p \in Paths : Manifest(p)' => FilesOK(p)'
        BY <1>1, <2>1 DEF CheckpointsOK, Manifest, FilesOK
    <2>3. /\ IsDirectory(ckpt'[Here']) /\ ~ckpt'[Here'].manifest
          /\ \A q \in done' \ failed' : FileOK(ckpt'[Here'].files[q], q, n, P)
        BY <1>2, <1>4, <1>5, <2>1 DEF IsDirectory
    <2> QED BY <1>1, <1>3, <1>5, <2>1, <2>2, <2>3 DEF CheckpointsOK, IsDirectory
<1>7. CASE ok
    <2>1. PICK gs : gs = [fs EXCEPT ![r] = f]
        OBVIOUS
    <2>2. PICK d : d = [c EXCEPT !.files = gs]
        OBVIOUS
    <2>3. ckpt' = [ckpt EXCEPT ![h] = d] /\ failed' = failed
        BY <1>3, <1>7, <2>1, <2>2
    <2>4. DOMAIN gs = Ranks /\ gs[r] = f /\ \A q \in Ranks : q # r => gs[q] = fs[q]
        BY <1>5, <2>1
    <2>5. d = [files |-> gs, manifest |-> c.manifest] /\ d.files = gs /\ ~d.manifest
        BY <1>5, <2>2
    <2>6. IsDirectory(d)
        BY <2>4, <2>5 DEF IsDirectory
    <2>7. DOMAIN ckpt' = Paths /\ ckpt'[h] = d /\ \A p \in Paths : p # h => ckpt'[p] = ckpt[p]
        BY <1>4, <1>5, <2>3
    <2>8. FileOK(f, r, n, P)
        <3>1. Running /\ DenseCount(r) = n /\ RowsCount(r) = n
            BY <1>1, <1>3 DEF Running, DenseCount, RowsCount
        <3>2. Holding(r, n, n)
            BY <3>1 DEF MemoryOK
        <3> QED BY <1>1, <1>2, <3>2, PayloadHolds
    <2>9. \A q \in done' \ failed' : FileOK(gs[q], q, n, P)
        <3> TAKE q \in done' \ failed'
        <3>1. CASE q = r
            BY <2>4, <2>8, <3>1
        <3>2. CASE q # r
            <4>1. q \in done \ failed /\ q \in Ranks
                BY <1>3, <2>3, <3>2 DEF LoopOK
            <4> QED BY <1>5, <2>4, <3>2, <4>1
        <3> QED BY <3>1, <3>2
    <2>10. \A p \in Paths : Manifest(p)' => FilesOK(p)'
        <3> TAKE p \in Paths
        <3>1. CASE p = h
            BY <2>5, <2>7, <3>1 DEF Manifest
        <3>2. CASE p # h
            BY <1>1, <2>7, <3>2 DEF Manifest, FilesOK, CheckpointsOK
        <3> QED BY <3>1, <3>2
    <2>11. /\ IsDirectory(ckpt'[Here']) /\ ~ckpt'[Here'].manifest
           /\ \A q \in done' \ failed' : FileOK(ckpt'[Here'].files[q], q, n, P)
        BY <1>4, <2>5, <2>6, <2>7, <2>9
    <2> QED BY <1>1, <1>3, <2>7, <2>10, <2>11 DEF CheckpointsOK, IsDirectory
<1> QED BY <1>6, <1>7

\* Rank 0 publishes what all ranks have written.
LEMMA CheckpointsPublish ==
    ASSUME LoopOK, CheckpointsOK, PublishManifest
    PROVE  CheckpointsOK'
<1>1. PICK P, h, n : P = PerUpdate /\ P = PerUpdate' /\ h = Here /\ n = atStep
    BY ModeStays DEF SupervisedNext
<1>2. PICK c, fs : c = ckpt[h] /\ fs = ckpt[h].files
    OBVIOUS
<1>3. PICK d : d = [c EXCEPT !.manifest = TRUE]
    OBVIOUS
<1>4. /\ phase = "write" /\ phase' \in {"exporting", "ready"} /\ done = Ranks /\ failed = {} /\ args' = args /\ atStep' = atStep
      /\ ckpt' = [ckpt EXCEPT ![h] = d]
    BY <1>1, <1>2, <1>3 DEF PublishManifest, MayPublish, Collected, Proceed
<1>5. h \in Paths /\ h[2] = n
    BY <1>1, <1>4, HereIsAPath
<1>6. /\ DOMAIN ckpt = Paths /\ c = [files |-> fs, manifest |-> c.manifest]
      /\ \A q \in Ranks : FileOK(fs[q], q, n, P)
    BY <1>1, <1>2, <1>4 DEF CheckpointsOK, IsDirectory
<1>7. d.files = fs
    BY <1>3, <1>6
<1>8. DOMAIN ckpt' = Paths /\ ckpt'[h] = d /\ \A p \in Paths : p # h => ckpt'[p] = ckpt[p]
    BY <1>4, <1>5, <1>6
<1>9. \A p \in Paths : Manifest(p)' => FilesOK(p)'
    <2> TAKE p \in Paths
    <2>1. CASE p = h
        <3>1. \A q \in Ranks : FileOK(ckpt'[p].files[q], q, p[2], P)
            BY <1>5, <1>6, <1>7, <1>8, <2>1
        <3> QED BY <1>1, <3>1 DEF FilesOK
    <2>2. CASE p # h
        BY <1>1, <1>8, <2>2 DEF Manifest, FilesOK, CheckpointsOK
    <2> QED BY <2>1, <2>2
<1> QED BY <1>4, <1>8, <1>9 DEF CheckpointsOK

\* The ranks restore only from a checkpoint whose manifest they have seen.
LEMMA CheckpointsValidate ==
    ASSUME CheckpointsOK, PerUpdate' = PerUpdate, (\E r \in Ranks : ValidateFile(r)) \/ Validated
    PROVE  CheckpointsOK'
<1>1. ckpt' = ckpt /\ args' = args /\ phase = "validate"
    BY DEF ValidateFile, Validated, Collected, directories
<1>2. \A p \in Paths : Manifest(p)' => FilesOK(p)'
    BY <1>1 DEF CheckpointsOK, Manifest, FilesOK
<1>3. Manifest(args.resume)' <=> Manifest(args.resume)
    BY <1>1 DEF Manifest
<1>4. ASSUME NEW r \in Ranks, ValidateFile(r) PROVE CheckpointsOK'
    <2>1. phase' = "validate" /\ done' = done \cup {r}
          /\ failed' = IF Manifest(args.resume) /\ ckpt[args.resume].files[r] # NoFile THEN failed ELSE failed \cup {r}
        BY <1>4 DEF ValidateFile, Arrives
    <2>2. done' \ failed' # {} => Manifest(args.resume)
        BY <1>1, <2>1 DEF CheckpointsOK
    <2> QED BY <1>1, <1>2, <1>3, <2>1, <2>2 DEF CheckpointsOK
<1>5. ASSUME Validated PROVE CheckpointsOK'
    <2>1. done = Ranks /\ (Ends \/ (failed = {} /\ phase' = "restore"))
        BY <1>5 DEF Validated, Collected, Proceed
    <2>2. 0 \in Ranks
        BY SupervisedAssumption DEF Ranks
    <2>3. CASE failed = {} /\ phase' = "restore"
        BY <1>1, <1>2, <1>3, <2>1, <2>2, <2>3 DEF CheckpointsOK
    <2>4. CASE Ends
        BY <1>1, <2>4, CheckpointsStay DEF Ends
    <2> QED BY <2>1, <2>3, <2>4
<1> QED BY <1>4, <1>5

\* Every step keeps the checkpoints right.
LEMMA CheckpointsNext ==
    ASSUME LoopOK, MemoryOK, CheckpointsOK, SupervisedNext
    PROVE  CheckpointsOK'
<1>1. PerUpdate' = PerUpdate
    BY ModeStays
<1>2. ASSUME NEW resume \in {p \in Paths : ckpt[p] # NoFile} \cup {NoResume},
             NEW steps \in 0 .. MaxTarget, NEW dir \in Dirs, NEW save \in BOOLEAN, LaunchRun(resume, steps, dir, save)
      PROVE  CheckpointsOK'
    <2>1. ckpt' = ckpt /\ phase' \in {"ready", "validate"} /\ done' = {}
        BY <1>2 DEF LaunchRun, directories
    <2>2. \A p \in Paths : Manifest(p)' => FilesOK(p)'
        BY <1>1, <2>1 DEF CheckpointsOK, Manifest, FilesOK
    <2> QED BY <2>1, <2>2 DEF CheckpointsOK
<1>3. CASE Crash
    BY <1>1, <1>3, CheckpointsStay DEF Crash, directories
<1>4. CASE \/ \E r \in Ranks : ValidateFile(r)
           \/ Validated
    BY <1>1, <1>4, CheckpointsValidate
<1>5. CASE \E r \in Ranks : Restore(r) \/ Optimize(r)
    BY <1>1, <1>5, CheckpointsRest DEF Restore, Optimize, loop, directories
<1>6. CASE \E r \in Ranks, ok \in BOOLEAN : Backward(r, ok)
    BY <1>1, <1>6, CheckpointsRest DEF Backward, loop, directories
<1>7. CASE \E r \in Ranks, ok \in BOOLEAN : WriteRank(r, ok)
    BY <1>7, CheckpointsWrite
<1>8. CASE Restored \/ BeginStep \/ CheckGradients \/ EndStep \/ WriteFails \/ FinishLoop
    <2>1. ckpt' = ckpt /\ phase' \in {"down", "ready", "backward", "optimize", "make", "exporting"}
        BY <1>8 DEF Restored, BeginStep, CheckGradients, EndStep, WriteFails, FinishLoop, Ends, Proceed, directories
    <2> QED BY <1>1, <2>1, CheckpointsStay
<1>9. CASE MakeDirectory
    BY <1>9, CheckpointsMake
<1>10. CASE PublishManifest
    BY <1>10, CheckpointsPublish
<1>11. CASE ExportStarts \/ SaveAdapter \/ PublishBundle
    <2>1. ckpt' = ckpt /\ phase' \in {"down", "adapter", "bundle"}
        BY <1>11 DEF ExportStarts, SaveAdapter, PublishBundle, Ends, Proceed
    <2> QED BY <1>1, <2>1, CheckpointsStay
<1> QED BY <1>2, <1>3, <1>4, <1>5, <1>6, <1>7, <1>8, <1>9, <1>10, <1>11 DEF SupervisedNext

-----------------------------------------------------------------------------
(* SupervisedRun: reading a checkpoint back, and the bundles *)

\* What sft_source reads from complete files is what the ranks held.
LEMMA FilesReadBack ==
    ASSUME NEW p \in Paths, FilesOK(p)
    PROVE  DenseAfter(SourceDense(p), p[2]) /\ RowsAfter(GlobalRows(p), p[2])
<1>1. PICK P, n, fs : P = PerUpdate /\ n = p[2] /\ fs = ckpt[p].files
    OBVIOUS
<1>2. \A r \in Ranks : FileOK(fs[r], r, n, P)
    BY <1>1 DEF FilesOK
<1>3. DenseAfter(SourceDense(p), n)
    <2>1. PICK f : f = SourceDense(p)
        OBVIOUS
    <2>2. f = [d \in 0 .. DenseSize - 1 |-> LET r == CHOOSE o \in Ranks : d \in DenseOf(o) IN fs[r].dense[d]]
        BY <1>1, <2>1 DEF SourceDense
    <2>3. ASSUME NEW d \in 0 .. DenseSize - 1 PROVE Applies(f[d], 1 .. n, P)
        <3>1. PICK r : r = CHOOSE o \in Ranks : d \in DenseOf(o)
            OBVIOUS
        <3>2. \E o \in Ranks : d \in DenseOf(o)
            BY DenseLayout
        <3>3. r \in Ranks /\ d \in DenseOf(r)
            BY <3>1, <3>2
        <3>4. f[d] = fs[r].dense[d]
            BY <2>2, <3>1
        <3> QED BY <1>2, <3>3, <3>4 DEF FileOK
    <2> QED BY <1>1, <2>1, <2>2, <2>3 DEF DenseAfter
<1>4. RowsAfter(GlobalRows(p), n)
    <2>1. PICK f : f = GlobalRows(p)
        OBVIOUS
    <2>2. f = [g \in 0 .. EngramSize - 1 |->
                  FileRow(fs[CHOOSE o \in Ranks : g \in RowsOf(o)], g - RowStart(CHOOSE o \in Ranks : g \in RowsOf(o)))]
        BY <1>1, <2>1 DEF GlobalRows, FileRow
    <2>3. ASSUME NEW g \in 0 .. EngramSize - 1 PROVE Applies(f[g], Hitting(g, n, P), P)
        <3>1. PICK r : r = CHOOSE o \in Ranks : g \in RowsOf(o)
            OBVIOUS
        <3>2. \E o \in Ranks : g \in RowsOf(o)
            BY RowLayout
        <3>3. r \in Ranks /\ g \in RowsOf(r)
            BY <3>1, <3>2
        <3>4. f[g] = FileRow(fs[r], g - RowStart(r))
            BY <2>2, <3>1
        <3> QED BY <1>2, <3>3, <3>4 DEF FileOK
    <2> QED BY <1>1, <2>1, <2>2, <2>3 DEF RowsAfter
<1> QED BY <1>1, <1>3, <1>4

\* Between updates the memory holds the parameters after `step` updates.
LEMMA MemoryAtRest ==
    ASSUME MemoryOK, Running, phase \notin {"restore", "backward", "optimize"}
    PROVE  DenseAfter(dense, atStep) /\ RowsAfter(rows, atStep)
<1>1. PICK P, n : P = PerUpdate /\ n = atStep
    OBVIOUS
<1>2. \A r \in Ranks : Holding(r, n, n)
    BY <1>1, CountsAtRest DEF MemoryOK
<1>3. \A d \in 0 .. DenseSize - 1 : Applies(dense[d], 1 .. n, P)
    BY <1>1, <1>2, DenseLayout DEF Holding
<1>4. \A g \in 0 .. EngramSize - 1 : Applies(rows[g], Hitting(g, n, P), P)
    BY <1>1, <1>2, RowLayout DEF Holding
<1>5. DOMAIN dense = 0 .. DenseSize - 1 /\ DOMAIN rows = 0 .. EngramSize - 1
    BY DEF MemoryOK
<1> QED BY <1>1, <1>3, <1>4, <1>5 DEF DenseAfter, RowsAfter

\* A launch that exports has a path for the bundle.
LEMMA ExportsHere ==
    ASSUME LoopOK, Running, atStep > 0
    PROVE  Here \in Paths /\ Here[2] = atStep
<1>1. /\ args.steps \in 0 .. MaxTarget /\ args.dir \in Dirs /\ atStep \in Nat /\ initial \in Nat
      /\ (atStep = initial \/ atStep <= args.steps) /\ initial <= MaxTarget /\ MaxTarget \in Nat
    BY SupervisedAssumption DEF LoopOK, Running
<1> QED BY <1>1 DEF Here, Paths

\* The bundles stay while no launch exports.
LEMMA BundlesStay ==
    ASSUME BundlesOK, bundle' = bundle, PerUpdate' = PerUpdate, phase' \notin {"adapter", "bundle"}
    PROVE  BundlesOK'
<1>1. PICK P : P = PerUpdate /\ P = PerUpdate'
    OBVIOUS
<1> QED BY <1>1 DEF BundlesOK, DenseAfter, RowsAfter

\* A step that changes one bundle, which is not published.
LEMMA PublishedStay ==
    ASSUME BundlesOK, PerUpdate' = PerUpdate, NEW h \in Paths, NEW d, bundle' = [bundle EXCEPT ![h] = d],
           d.manifest => DenseAfter(d.adapter, h[2]) /\ RowsAfter(d.delta, h[2])
    PROVE  /\ DOMAIN bundle' = Paths /\ bundle'[h] = d
           /\ \A p \in Paths : bundle'[p] # NoFile /\ bundle'[p].manifest =>
                 DenseAfter(bundle[p].adapter, p[2])' /\ RowsAfter(bundle[p].delta, p[2])'
<1>1. PICK P : P = PerUpdate /\ P = PerUpdate'
    OBVIOUS
<1>2. DOMAIN bundle' = Paths /\ bundle'[h] = d /\ \A p \in Paths : p # h => bundle'[p] = bundle[p]
    BY DEF BundlesOK
<1>3. ASSUME NEW p \in Paths, bundle'[p] # NoFile, bundle'[p].manifest
      PROVE  DenseAfter(bundle[p].adapter, p[2])' /\ RowsAfter(bundle[p].delta, p[2])'
    <2>1. CASE p = h
        <3>1. DenseAfter(bundle'[p].adapter, p[2]) /\ RowsAfter(bundle'[p].delta, p[2])
            BY <1>2, <1>3, <2>1
        <3> QED BY <1>1, <3>1 DEF DenseAfter, RowsAfter
    <2>2. CASE p # h
        <3>1. bundle'[p] = bundle[p]
            BY <1>2, <2>2
        <3>2. DenseAfter(bundle'[p].adapter, p[2]) /\ RowsAfter(bundle'[p].delta, p[2])
            BY <1>3, <3>1 DEF BundlesOK
        <3> QED BY <1>1, <3>2 DEF DenseAfter, RowsAfter
    <2> QED BY <2>1, <2>2
<1> QED BY <1>2, <1>3

\* The export copies the rows of the paired checkpoint.
LEMMA BundlesExport ==
    ASSUME LoopOK, CheckpointsOK, BundlesOK, ExportStarts
    PROVE  BundlesOK'
<1>1. PerUpdate' = PerUpdate
    BY ModeStays DEF SupervisedNext
<1>2. PICK h, n, g : h = Here /\ n = atStep /\ g = GlobalRows(Paired)
    OBVIOUS
<1>3. PICK d : d = [delta |-> g, adapter |-> NoFile, manifest |-> FALSE]
    OBVIOUS
<1>4. /\ phase = "exporting" /\ args' = args /\ atStep' = atStep
      /\ \/ Ends /\ bundle' = bundle
         \/ /\ Exports /\ \A r \in Ranks : Matching(r)
            /\ bundle' = [bundle EXCEPT ![h] = d] /\ phase' = "adapter"
    BY <1>2, <1>3 DEF ExportStarts, Proceed, loop
<1>5. CASE Ends /\ bundle' = bundle
    BY <1>1, <1>5, BundlesStay DEF Ends
<1>6. CASE /\ Exports /\ \A r \in Ranks : Matching(r)
           /\ bundle' = [bundle EXCEPT ![h] = d] /\ phase' = "adapter"
    <2>1. 0 \in Ranks
        BY SupervisedAssumption DEF Ranks
    <2>2. Manifest(Paired)
        BY <1>6, <2>1 DEF Matching
    <2>3. h \in Paths /\ h[2] = n
        BY <1>2, <1>4, <1>6, ExportsHere DEF Exports, Running
    <2>4. Paired \in Paths /\ Paired[2] = n
        <3>1. CASE atStep = initial
            <4>1. args.resume # NoResume /\ args.resume \in Paths \cup {NoResume} /\ initial = args.resume[2]
                BY <1>4, <1>6, <3>1 DEF Exports, LoopOK, Running
            <4> QED BY <1>2, <3>1, <4>1 DEF Paired
        <3>2. CASE atStep # initial
            BY <1>2, <2>3, <3>2 DEF Paired
        <3> QED BY <3>1, <3>2
    <2>5. RowsAfter(g, n)
        BY <1>2, <2>2, <2>4, FilesReadBack DEF CheckpointsOK
    <2>6. d.manifest = FALSE /\ d.delta = g
        BY <1>3
    <2>7. /\ DOMAIN bundle' = Paths /\ bundle'[h] = d
          /\ \A p \in Paths : bundle'[p] # NoFile /\ bundle'[p].manifest =>
                DenseAfter(bundle[p].adapter, p[2])' /\ RowsAfter(bundle[p].delta, p[2])'
        BY <1>1, <1>6, <2>3, <2>6, PublishedStay
    <2>8. Here' = h /\ atStep' = n
        BY <1>2, <1>4 DEF Here
    <2>9. RowsAfter(g, n)'
        BY <1>1, <2>5 DEF RowsAfter
    <2>10. bundle'[Here'] = [delta |-> bundle'[Here'].delta, adapter |-> bundle'[Here'].adapter, manifest |-> FALSE]
           /\ bundle'[Here'].delta = g
        <3>1. bundle'[Here'] = d
            BY <2>7, <2>8
        <3>2. d = [delta |-> d.delta, adapter |-> d.adapter, manifest |-> FALSE] /\ d.delta = g
            BY <1>3
        <3> QED BY <3>1, <3>2
    <2>11. RowsAfter(bundle[Here].delta, atStep)'
        BY <2>8, <2>9, <2>10 DEF RowsAfter
    <2> QED BY <1>6, <2>7, <2>10, <2>11 DEF BundlesOK
<1> QED BY <1>4, <1>5, <1>6

\* The adapter is gathered from the live shards.
LEMMA BundlesAdapter ==
    ASSUME LoopOK, MemoryOK, BundlesOK, SaveAdapter
    PROVE  BundlesOK'
<1>1. PerUpdate' = PerUpdate
    BY ModeStays DEF SupervisedNext
<1>2. PICK h, n, b : h = Here /\ n = atStep /\ b = bundle[Here]
    OBVIOUS
<1>3. PICK d : d = [b EXCEPT !.adapter = dense]
    OBVIOUS
<1>4. /\ phase = "adapter" /\ phase' = "bundle" /\ args' = args /\ atStep' = atStep
      /\ bundle' = [bundle EXCEPT ![h] = d]
    BY <1>2, <1>3 DEF SaveAdapter, Proceed, loop
<1>5. h \in Paths /\ h[2] = n
    BY <1>2, <1>4, ExportsHere DEF LoopOK, Running
<1>6. b = [delta |-> b.delta, adapter |-> b.adapter, manifest |-> FALSE] /\ RowsAfter(b.delta, n)
    BY <1>2, <1>4 DEF BundlesOK
<1>7. d = [delta |-> b.delta, adapter |-> dense, manifest |-> FALSE]
    <2>1. PICK x, y : x = b.delta /\ y = b.adapter
        OBVIOUS
    <2>2. b = [delta |-> x, adapter |-> y, manifest |-> FALSE]
        BY <1>6, <2>1
    <2>3. d = [[delta |-> x, adapter |-> y, manifest |-> FALSE] EXCEPT !.adapter = dense]
        BY <1>3, <2>2
    <2>4. d = [delta |-> x, adapter |-> dense, manifest |-> FALSE]
        BY <2>3
    <2> QED BY <2>1, <2>4
<1>8. DenseAfter(dense, n)
    BY <1>2, <1>4, MemoryAtRest DEF Running
<1>9. d.manifest = FALSE /\ d.delta = b.delta /\ d.adapter = dense
    BY <1>7
<1>10. /\ DOMAIN bundle' = Paths /\ bundle'[h] = d
       /\ \A p \in Paths : bundle'[p] # NoFile /\ bundle'[p].manifest =>
             DenseAfter(bundle[p].adapter, p[2])' /\ RowsAfter(bundle[p].delta, p[2])'
    BY <1>1, <1>4, <1>5, <1>9, PublishedStay
<1>11. Here' = h /\ atStep' = n
    BY <1>2, <1>4 DEF Here
<1>12. DenseAfter(bundle[Here].adapter, atStep)' /\ RowsAfter(bundle[Here].delta, atStep)'
    <2>1. PICK P : P = PerUpdate /\ P = PerUpdate'
        BY <1>1
    <2>2. bundle'[Here'].adapter = dense /\ bundle'[Here'].delta = b.delta
        BY <1>9, <1>10, <1>11
    <2> QED BY <1>6, <1>8, <1>11, <2>1, <2>2 DEF DenseAfter, RowsAfter
<1>13. bundle'[Here'] = [delta |-> bundle'[Here'].delta, adapter |-> bundle'[Here'].adapter, manifest |-> FALSE]
    BY <1>7, <1>9, <1>10, <1>11
<1> QED BY <1>4, <1>10, <1>12, <1>13 DEF BundlesOK

\* The manifest publishes a complete bundle.
LEMMA BundlesPublish ==
    ASSUME LoopOK, BundlesOK, PublishBundle
    PROVE  BundlesOK'
<1>1. PerUpdate' = PerUpdate
    BY ModeStays DEF SupervisedNext
<1>2. PICK h, n, b : h = Here /\ n = atStep /\ b = bundle[Here]
    OBVIOUS
<1>3. PICK d : d = [b EXCEPT !.manifest = TRUE]
    OBVIOUS
<1>4. phase = "bundle" /\ phase' = "down" /\ bundle' = [bundle EXCEPT ![h] = d]
    BY <1>2, <1>3 DEF PublishBundle, Ends
<1>5. h \in Paths /\ h[2] = n
    BY <1>2, <1>4, ExportsHere DEF LoopOK, Running
<1>6. /\ b = [delta |-> b.delta, adapter |-> b.adapter, manifest |-> FALSE]
      /\ RowsAfter(b.delta, n) /\ DenseAfter(b.adapter, n)
    BY <1>2, <1>4 DEF BundlesOK
<1>7. d.delta = b.delta /\ d.adapter = b.adapter
    BY <1>3, <1>6
<1>8. DenseAfter(d.adapter, h[2]) /\ RowsAfter(d.delta, h[2])
    BY <1>5, <1>6, <1>7
<1>9. /\ DOMAIN bundle' = Paths
      /\ \A p \in Paths : bundle'[p] # NoFile /\ bundle'[p].manifest =>
             DenseAfter(bundle[p].adapter, p[2])' /\ RowsAfter(bundle[p].delta, p[2])'
    BY <1>1, <1>4, <1>5, <1>8, PublishedStay
<1> QED BY <1>4, <1>9 DEF BundlesOK

\* Every step keeps the bundles right.
LEMMA BundlesNext ==
    ASSUME LoopOK, MemoryOK, CheckpointsOK, BundlesOK, SupervisedNext
    PROVE  BundlesOK'
<1>1. PerUpdate' = PerUpdate
    BY ModeStays
<1>2. CASE \E resume \in {p \in Paths : ckpt[p] # NoFile} \cup {NoResume},
              steps \in 0 .. MaxTarget, dir \in Dirs, save \in BOOLEAN : LaunchRun(resume, steps, dir, save)
    BY <1>1, <1>2, BundlesStay DEF LaunchRun, directories
<1>3. CASE Crash
    BY <1>1, <1>3, BundlesStay DEF Crash, directories
<1>4. CASE \E r \in Ranks : ValidateFile(r) \/ Restore(r) \/ Optimize(r)
    BY <1>1, <1>4, BundlesStay DEF ValidateFile, Restore, Optimize, directories
<1>5. CASE \E r \in Ranks, ok \in BOOLEAN : Backward(r, ok) \/ WriteRank(r, ok)
    BY <1>1, <1>5, BundlesStay DEF Backward, WriteRank, directories
<1>6. CASE \/ Validated \/ Restored \/ BeginStep \/ CheckGradients \/ EndStep \/ MakeDirectory \/ PublishManifest
           \/ WriteFails \/ FinishLoop
    <2>1. bundle' = bundle /\ phase' \notin {"adapter", "bundle"}
        BY <1>6 DEF Validated, Restored, BeginStep, CheckGradients, EndStep, MakeDirectory, PublishManifest,
                    WriteFails, FinishLoop, Ends, Proceed, directories
    <2> QED BY <1>1, <2>1, BundlesStay
<1>7. CASE ExportStarts \/ SaveAdapter \/ PublishBundle
    BY <1>7, BundlesExport, BundlesAdapter, BundlesPublish
<1> QED BY <1>2, <1>3, <1>4, <1>5, <1>6, <1>7 DEF SupervisedNext

-----------------------------------------------------------------------------
(* SupervisedRun: the theorem *)

\* The program as it is installed: nothing runs, nothing is saved.
LEMMA SupervisedBegins == SupervisedInit => SupervisedInv
<1> SUFFICES ASSUME SupervisedInit PROVE SupervisedInv
    OBVIOUS
<1>1. /\ mode.inBackward \in BOOLEAN /\ mode.accumulate \in BOOLEAN
      /\ phase = "down" /\ done = {} /\ failed = {}
      /\ dense = [d \in 0 .. DenseSize - 1 |-> <<>>] /\ rows = [g \in 0 .. EngramSize - 1 |-> <<>>]
      /\ dirty = [r \in Ranks |-> {}]
      /\ ckpt = [p \in Paths |-> NoFile] /\ bundle = [p \in Paths |-> NoFile]
    BY DEF SupervisedInit
<1>2. LoopOK
    BY <1>1 DEF LoopOK, Running, Phases
<1>3. MemoryOK
    BY <1>1 DEF MemoryOK, Running
<1>4. CheckpointsOK
    BY <1>1 DEF CheckpointsOK, Manifest
<1>5. BundlesOK
    BY <1>1 DEF BundlesOK
<1> QED BY <1>2, <1>3, <1>4, <1>5 DEF SupervisedInv

\* Every step of the program keeps the invariant.
LEMMA SupervisedGoesOn == SupervisedInv /\ [SupervisedNext]_supervisedVars => SupervisedInv'
<1> SUFFICES ASSUME SupervisedInv, [SupervisedNext]_supervisedVars PROVE SupervisedInv'
    OBVIOUS
<1>1. LoopOK /\ MemoryOK /\ CheckpointsOK /\ BundlesOK
    BY DEF SupervisedInv
<1>2. CASE SupervisedNext
    BY <1>1, <1>2, LoopNext, MemoryNext, CheckpointsNext, BundlesNext DEF SupervisedInv
<1>3. CASE UNCHANGED supervisedVars
    <2>1. /\ mode' = mode /\ phase' = phase /\ done' = done /\ failed' = failed /\ args' = args
          /\ atStep' = atStep /\ cursor' = cursor /\ initial' = initial /\ UNCHANGED memory /\ ckpt' = ckpt /\ bundle' = bundle
        BY <1>3 DEF supervisedVars, loop, directories
    <2>2. PerUpdate' = PerUpdate
        BY <1>1, <1>3, ModeStays
    <2>3. LoopOK'
        BY <1>1, <2>1, <2>2 DEF LoopOK, Running
    <2>4. MemoryOK'
        BY <1>1, <2>1, <2>2, MemoryStays DEF DenseCount, RowsCount, Running
    <2>5. CheckpointsOK'
        BY <1>1, <2>1, <2>2, CheckpointsRest
    <2>6. BundlesOK'
        <3>1. PICK P : P = PerUpdate /\ P = PerUpdate'
            BY <2>2
        <3> QED BY <1>1, <2>1, <3>1 DEF BundlesOK, DenseAfter, RowsAfter, Here
    <2> QED BY <2>3, <2>4, <2>5, <2>6 DEF SupervisedInv
<1> QED BY <1>2, <1>3

\* The invariant says of every snapshot what a reader expects of it.
LEMMA InvariantMeansExact == SupervisedInv => SnapshotsExact
<1> SUFFICES ASSUME SupervisedInv PROVE SnapshotsExact
    OBVIOUS
<1>1. phase = "ready" => DenseAfter(dense, atStep) /\ RowsAfter(rows, atStep)
    BY MemoryAtRest DEF SupervisedInv, Running
<1>2. \A p \in Paths : Manifest(p) => DenseAfter(SourceDense(p), p[2]) /\ RowsAfter(GlobalRows(p), p[2])
    BY FilesReadBack DEF SupervisedInv, CheckpointsOK
<1>3. \A p \in Paths : bundle[p] # NoFile /\ bundle[p].manifest =>
           DenseAfter(bundle[p].adapter, p[2]) /\ RowsAfter(bundle[p].delta, p[2])
    BY DEF SupervisedInv, BundlesOK
<1> QED BY <1>1, <1>2, <1>3 DEF SnapshotsExact

(* Supervised fine-tuning is exact, for every number of ranks, layout of    *)
(* the tensors, batch, data set, save interval, and order of launches,     *)
(* crashes and resumes: what is in memory between updates, what sft_source *)
(* reads from a published checkpoint, and what a published bundle holds,   *)
(* is what the updates up to its step have made of the base weights        *)
(* (train_sft.train, sft_checkpoint, sft_engram, sft_export, sft_source).  *)
THEOREM SnapshotsAreExact == SupervisedSpec => []SnapshotsExact
<1>1. SupervisedInit => SupervisedInv
    BY SupervisedBegins
<1>2. SupervisedInv /\ [SupervisedNext]_supervisedVars => SupervisedInv'
    BY SupervisedGoesOn
<1>3. SupervisedInv => SnapshotsExact
    BY InvariantMeansExact
<1> QED BY <1>1, <1>2, <1>3, PTL DEF SupervisedSpec
=============================================================================
