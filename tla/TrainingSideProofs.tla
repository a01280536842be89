------------------------- MODULE TrainingSideProofs -------------------------
(***************************************************************************)
(* Proofs about the training side. LoraTraining, for any workers, groups,  *)
(* updates and failures: every optimizer update consumes its own group     *)
(* once, and the policy that group was drawn from is anchored in a         *)
(* retained snapshot. PolicyRoles, for any Engram table, samples and       *)
(* restarts: learner, actor and reference hold the policies they name.     *)
(* EngramCache, for any table, cache, buffer and streams: every lookup     *)
(* delivers the rows the table held when it was called.                    *)
(***************************************************************************)
EXTENDS LoraTraining, PolicyRoles, EngramCache, SequenceTheorems, FiniteSetTheorems, TLAPS

-----------------------------------------------------------------------------
(* LoraTraining: the invariant *)

Callers == Sampling \cup {"initialize", "activate", "resume", "pause", "close"}
Points == Callers \cup {"score", "train", "join", "next", "end", "dead"}

\* A sampled group whose tokens all come from the policy it names.
Pure(value) == value.drawn = {value.version}

\* The learner's counters and what it holds.
TypeOK ==
    /\ pc \in Points /\ update \in Nat /\ ack \in Int
    /\ group \in Nat /\ group <= Groups
    /\ pending = NoGroup \/ pending = [st |-> pending.st, group |-> pending.group, value |-> pending.value]
    /\ pending.st \in {"none", "queued", "calling", "done", "failed"}
    /\ pending.st = "none" => pending = NoGroup

\* The call under way is the one of the learner's own thread, at its program counter, or the
\* prefetch; a group that was returned is pure.
CallOK ==
    Outstanding =>
        /\ \/ rpc = [op |-> rpc.op, arg |-> rpc.arg, by |-> rpc.by, st |-> rpc.st]
           \/ rpc = [op |-> rpc.op, arg |-> rpc.arg, by |-> rpc.by, st |-> rpc.st, value |-> rpc.value]
        /\ rpc.by \in {"main", "prefetch"}
        /\ rpc.by = "prefetch" => rpc.op = "sample" /\ pending.st = "calling"
        /\ rpc.by = "main" => /\ pc \in Callers /\ rpc.op = OpAt(pc)
                              /\ pc = "activate" => rpc.arg = update
                              /\ pc = "obtain" => pending = NoGroup
        /\ rpc.st = "ok" /\ rpc.op = "sample" => Pure(rpc.value)

\* The adapter all workers of a healthy actor hold, but for an activation under way, is the
\* one it acknowledged; a batch being generated is drawn from it.
Activating == job.op = "activate" /\ job.phase = "run"
ActorOK ==
    /\ actor = [failed |-> actor.failed, ack |-> actor.ack]
    /\ actor.failed \/ Activating \/ \A w \in Workers : loaded[w] = actor.ack
    /\ loaded = [w \in Workers |-> loaded[w]]
    /\ \/ job = NoJob
       \/ job = [op |-> job.op, arg |-> job.arg, phase |-> job.phase, lineage |-> job.lineage]
          /\ (job.op = "sample" => job.phase = "start")
       \/ job = [op |-> "sample", arg |-> job.arg, phase |-> job.phase, lineage |-> job.lineage,
                 version |-> job.version, drawn |-> job.drawn]
    /\ job.op = "sample" /\ job.phase = "generating" =>
           job.drawn = {job.version} /\ \A w \in Workers : loaded[w] = job.version

\* From the optimizer step to the activation the acknowledged policy is one behind.
Behind == {"initialize", "activate", "join", "pause"}
Level == {"resume", "validate", "baseline", "obtain", "score", "train", "check", "next", "final"}

PolicyOK ==
    /\ pc \in Behind => ack = update - 1
    /\ pc \in Level => ack = update
    /\ pc \in {"validate", "baseline", "obtain", "score", "train", "check", "next"} => update \in snapshots
    /\ pc \in {"join", "pause", "check", "next"} \/ (pc \in {"activate", "resume"} /\ update > 0)
           => update - 1 \in snapshots
    /\ pc \in {"initialize", "validate", "baseline"} => update = 0
    /\ pc \in {"join", "pause", "check", "next"} => update > 0

\* A prefetched group is the next one, of the policy the learner had when it asked for it,
\* and is neither kept nor forgotten too long.
Carried == {"join", "pause", "activate", "resume", "check", "next"}
PrefetchOK ==
    pending # NoGroup =>
        /\ pc \notin {"initialize", "validate", "baseline", "dead"}
        /\ pc \in Carried \cup {"train"} => pending.group = group + 1 /\ group < Groups
        /\ pc = "train" => update > 0 /\ update + 1 < Updates
        /\ pc \in Carried => update > 0 /\ update < Updates
        /\ pc = "obtain" => pending.group = group /\ update - 1 \in snapshots
        /\ Prefetching => pc \in {"train", "join", "close", "end"}
        /\ pending.st = "done" =>
               /\ Pure(pending.value)
               /\ pc = "train" => pending.value.version = update
               /\ pc \in Carried \cup {"obtain"} => pending.value.version = update - 1

\* The group in the learner's hands can be trained on.
ResultOK ==
    pc \in {"score", "train"} =>
        /\ result.group = group /\ Pure(result.value)
        /\ update - result.value.version \in {0, 1} /\ result.value.version \in snapshots

\* What the optimizer has consumed: one update per group, in the order of the groups.
TrainedOK ==
    /\ \A t \in trained : Pure(t.value) /\ t.update - 1 - t.value.version \in {0, 1}
    /\ \A s, t \in trained : s.group = t.group => s = t
    /\ \A t \in trained : t.group \in Nat /\ t.group <= group
    /\ pc \in {"obtain", "score", "train"} => \A t \in trained : t.group < group
    /\ update = 0 /\ pc \notin {"close", "end", "dead"} => trained = {}

IndInv == TypeOK /\ CallOK /\ ActorOK /\ PolicyOK /\ PrefetchOK /\ ResultOK /\ TrainedOK

-----------------------------------------------------------------------------
(* The server *)

\* What a step of the server may do to the outstanding call: nothing, note how far it is, or
\* answer it, a sampling call with a pure group.
Answers(value) ==
    /\ Outstanding
    /\ rpc' = [op |-> rpc.op, arg |-> rpc.arg, by |-> rpc.by, st |-> "ok", value |-> value]
    /\ rpc.op = "sample" => Pure(value)
Notes(st) == Outstanding /\ rpc' = [rpc EXCEPT !.st = st]

\* Such a step keeps the call bound to its caller.
LEMMA CallKept ==
    ASSUME CallOK, UNCHANGED learnerVars,
           rpc' = rpc \/ (\E st \in {"served", "error"} : Notes(st)) \/ (\E value : Answers(value))
    PROVE  CallOK'
<1>a. UNCHANGED <<pc, update, pending>>
    BY DEF learnerVars
<1>1. CASE rpc' = rpc
    BY <1>a, <1>1 DEF CallOK, Outstanding, Pure
<1>2. ASSUME NEW st \in {"served", "error"}, Notes(st) PROVE CallOK'
    <2>1. Outstanding /\ rpc' = [rpc EXCEPT !.st = st]
        BY <1>2 DEF Notes
    <2>2. /\ rpc'.op = rpc.op /\ rpc'.arg = rpc.arg /\ rpc'.by = rpc.by /\ rpc'.st = st
          /\ \/ rpc' = [op |-> rpc'.op, arg |-> rpc'.arg, by |-> rpc'.by, st |-> rpc'.st]
             \/ rpc' = [op |-> rpc'.op, arg |-> rpc'.arg, by |-> rpc'.by, st |-> rpc'.st, value |-> rpc'.value]
        BY <2>1 DEF CallOK
    <2> QED BY <1>a, <1>2, <2>1, <2>2 DEF CallOK
<1>3. ASSUME NEW value, Answers(value) PROVE CallOK'
    <2>1. /\ Outstanding /\ (rpc.op = "sample" => Pure(value))
          /\ rpc' = [op |-> rpc.op, arg |-> rpc.arg, by |-> rpc.by, st |-> "ok", value |-> value]
        BY <1>3 DEF Answers
    <2> QED BY <1>a, <2>1 DEF CallOK, Pure
<1> QED BY <1>1, <1>2, <1>3

\* An operation that raises or ends answers only the call it belongs to.
LEMMA OperationEnds ==
    /\ Raises => rpc' = rpc \/ \E st \in {"served", "error"} : Notes(st)
    /\ \A value : Succeeds(value) /\ (job.op = "sample" => Pure(value)) => rpc' = rpc \/ Answers(value)
BY DEF Raises, Succeeds, Awaited, Notes, Answers

\* What the server's steps do to the call.
Served == rpc' = rpc \/ (\E st \in {"served", "error"} : Notes(st)) \/ (\E value : Answers(value))

\* The actor and the workers stand still, and the operation ends or goes from its start to
\* its run.
Quiet ==
    /\ UNCHANGED <<actor, loaded>>
    /\ \/ job' = job
       \/ job' = NoJob /\ ~Activating
       \/ job' = [job EXCEPT !.phase = "run"] /\ job.op # "sample" /\ job # NoJob

\* Then the workers go on holding what the actor acknowledged.
LEMMA QuietStep == ASSUME ActorOK, Quiet PROVE ActorOK'
<1>1. CASE job' = job
    BY <1>1 DEF ActorOK, Quiet, Activating
<1>2. CASE job' = NoJob /\ ~Activating
    BY <1>2 DEF ActorOK, Quiet, Activating, NoJob
<1>3. CASE job' = [job EXCEPT !.phase = "run"] /\ job.op # "sample" /\ job # NoJob
    <2>1. job = [op |-> job.op, arg |-> job.arg, phase |-> job.phase, lineage |-> job.lineage]
        BY <1>3 DEF ActorOK
    <2>2. job' = [op |-> job.op, arg |-> job.arg, phase |-> "run", lineage |-> job.lineage]
        BY <1>3, <2>1
    <2>3. /\ job'.op = job.op /\ job'.phase = "run"
          /\ job' = [op |-> job'.op, arg |-> job'.arg, phase |-> job'.phase, lineage |-> job'.lineage]
        BY <2>2
    <2>4. Activating => Activating'
        BY <2>3 DEF Activating
    <2> QED BY <1>3, <2>3, <2>4 DEF ActorOK, Quiet
<1> QED BY <1>1, <1>2, <1>3 DEF Quiet

\* Every step of the server.
LEMMA ServerInv ==
    ASSUME ActorOK, CallOK, Server \/ HandlerTimesOut
    PROVE  ActorOK' /\ Served /\ UNCHANGED learnerVars
<1> USE DEF Served
<1>1. CASE Dispatch
    <2>1. Served
        BY <1>1 DEF Dispatch, Notes
    <2>2. CASE UNCHANGED job
        BY <1>1, <2>1, <2>2, QuietStep DEF Dispatch, Quiet
    <2>3. CASE job = NoJob /\ job' = [op |-> rpc.op, arg |-> rpc.arg, phase |-> "start", lineage |-> lineage]
        <3>1. UNCHANGED <<actor, loaded, learnerVars>> /\ ~Activating /\ ~Activating'
            BY <1>1, <2>3 DEF Dispatch, Activating, NoJob
        <3>2. /\ job' = [op |-> job'.op, arg |-> job'.arg, phase |-> job'.phase, lineage |-> job'.lineage]
              /\ job'.phase = "start"
            BY <2>3
        <3> QED BY <2>1, <3>1, <3>2 DEF ActorOK
    <2> QED BY <1>1, <2>1, <2>2, <2>3 DEF Dispatch, Refuses
<1>2. CASE StartActor
    <2>1. Quiet
        BY <1>2 DEF StartActor, Quiet, ControlVars, Raises, Succeeds, Activating, NoJob
    <2>2. Served
        BY <1>2, OperationEnds DEF StartActor
    <2> QED BY <1>2, <2>1, <2>2, QuietStep DEF StartActor
<1>3. CASE ActivateStarts
    <2>1. Quiet
        BY <1>3 DEF ActivateStarts, Quiet, ControlVars, Raises, Activating, NoJob
    <2>2. Served
        BY <1>3, OperationEnds DEF ActivateStarts
    <2> QED BY <1>3, <2>1, <2>2, QuietStep DEF ActivateStarts
<1>4. ASSUME NEW w \in Workers, WorkerLoads(w) PROVE ActorOK' /\ Served /\ UNCHANGED learnerVars
    <2>1. Activating /\ UNCHANGED learnerVars
        BY <1>4 DEF WorkerLoads, Activating
    <2>2. CASE loaded' = [loaded EXCEPT ![w] = job.arg] /\ UNCHANGED <<actor, rpc, job>>
        <3>1. Activating' /\ job'.op = "activate" /\ loaded' = [x \in Workers |-> loaded'[x]]
            BY <2>1, <2>2 DEF Activating, ActorOK
        <3> QED BY <2>1, <2>2, <3>1 DEF ActorOK
    <2>3. CASE loaded' = [loaded EXCEPT ![w] = None] /\ actor' = [failed |-> TRUE, ack |-> None] /\ Raises
        <3>1. job' = NoJob /\ actor'.failed /\ actor' = [failed |-> actor'.failed, ack |-> actor'.ack]
            BY <2>3 DEF Raises
        <3>2. loaded' = [x \in Workers |-> loaded'[x]] /\ job'.op # "sample"
            BY <2>3, <3>1 DEF ActorOK, NoJob
        <3>3. Served
            BY <2>3, OperationEnds
        <3> QED BY <2>1, <3>1, <3>2, <3>3 DEF ActorOK
    <2> QED BY <1>4, <2>1, <2>2, <2>3 DEF WorkerLoads
<1>5. CASE ActivateEnds
    <2>1. job' = NoJob /\ job'.op = "none" /\ Served /\ UNCHANGED <<loaded, learnerVars>>
        BY <1>5, OperationEnds DEF ActivateEnds, Succeeds, NoJob
    <2>2. actor' = [failed |-> actor.failed, ack |-> job.arg] /\ \A w \in Workers : loaded[w] = job.arg
        BY <1>5 DEF ActivateEnds, ActorOK
    <2>3. actor'.ack = job.arg /\ actor' = [failed |-> actor'.failed, ack |-> actor'.ack]
        BY <2>2
    <2> QED BY <2>1, <2>2, <2>3 DEF ActorOK
<1>6. CASE Resume
    <2>1. Quiet
        BY <1>6 DEF Resume, Quiet, ControlVars, Raises, Succeeds, Activating, NoJob
    <2>2. Served
        BY <1>6, OperationEnds DEF Resume
    <2> QED BY <1>6, <2>1, <2>2, QuietStep DEF Resume
<1>7. CASE Pause
    <2>1. Quiet
        BY <1>7 DEF Pause, Quiet, ControlVars, Raises, Succeeds, Activating, NoJob
    <2>2. Served
        BY <1>7, OperationEnds DEF Pause
    <2> QED BY <1>7, <2>1, <2>2, QuietStep DEF Pause
<1>8. CASE SampleAdmits
    <2>1. UNCHANGED <<actor, loaded, learnerVars>> /\ ~Activating
        BY <1>8 DEF SampleAdmits, Activating
    <2>2. CASE Raises
        <3>1. Quiet
            BY <2>1, <2>2 DEF Raises, Quiet
        <3> QED BY <2>1, <2>2, <3>1, QuietStep, OperationEnds
    <2>3. CASE /\ job' = [op |-> "sample", arg |-> job.arg, phase |-> "run", lineage |-> job.lineage,
                          version |-> cack.version, drawn |-> {}]
               /\ UNCHANGED rpc
        <3>1. /\ job' = [op |-> "sample", arg |-> job'.arg, phase |-> job'.phase, lineage |-> job'.lineage,
                         version |-> job'.version, drawn |-> job'.drawn]
              /\ job'.phase = "run"
            BY <2>3
        <3> QED BY <2>1, <2>3, <3>1 DEF ActorOK, Activating
    <2> QED BY <1>8, <2>2, <2>3 DEF SampleAdmits
<1>9. CASE Generates
    <2>1. UNCHANGED <<actor, loaded, learnerVars>> /\ ~Activating /\ job.op = "sample" /\ job.phase = "run"
        BY <1>9 DEF Generates, Activating
    <2>2. CASE Raises
        <3>1. Quiet
            BY <2>1, <2>2 DEF Raises, Quiet
        <3> QED BY <2>1, <2>2, <3>1, QuietStep, OperationEnds
    <2>3. CASE /\ ActorAccepts /\ UNCHANGED rpc
               /\ job' = [job EXCEPT !.phase = "generating", !.drawn = {loaded[w] : w \in Workers}]
        <3>1. PICK a, p, l, v, d : job = [op |-> "sample", arg |-> a, phase |-> p, lineage |-> l,
                                          version |-> v, drawn |-> d]
            BY <2>1 DEF ActorOK, NoJob
        <3> DEFINE Held == {loaded[w] : w \in Workers}
        <3>a. job' = [job EXCEPT !.phase = "generating", !.drawn = Held]
            BY <2>3
        <3> HIDE DEF Held
        <3>b. job' = [op |-> "sample", arg |-> a, phase |-> "generating", lineage |-> l,
                      version |-> v, drawn |-> Held]
            BY <3>1, <3>a
        <3>2. /\ job'.op = "sample" /\ job'.version = job.version /\ job'.drawn = Held
              /\ job' = [op |-> "sample", arg |-> job'.arg, phase |-> job'.phase, lineage |-> job'.lineage,
                         version |-> job'.version, drawn |-> job'.drawn]
            BY <3>1, <3>b
        <3>3. \A w \in Workers : loaded[w] = job.version
            BY <2>1, <2>3 DEF ActorAccepts, ActorOK
        <3>4. Held = {job.version}
            BY <3>3, LoraAssumption DEF Held
        <3> QED BY <2>1, <2>3, <3>2, <3>3, <3>4 DEF ActorOK, Activating
    <2> QED BY <1>9, <2>2, <2>3 DEF Generates
<1>10. CASE GenerationEnds
    <2>1. UNCHANGED <<loaded, learnerVars>> /\ ~Activating /\ job.op = "sample" /\ job.phase = "generating"
        BY <1>10 DEF GenerationEnds, Activating
    <2>2. CASE Raises /\ actor' = [actor EXCEPT !.failed = TRUE]
        <3>1. actor' = [failed |-> TRUE, ack |-> actor.ack] /\ job' = NoJob
            BY <2>2 DEF Raises, ActorOK
        <3>2. actor'.failed /\ actor' = [failed |-> actor'.failed, ack |-> actor'.ack] /\ job'.op = "none"
            BY <3>1 DEF NoJob
        <3> QED BY <2>1, <2>2, <3>1, <3>2, OperationEnds DEF ActorOK
    <2>3. CASE /\ Succeeds([version |-> job.version, drawn |-> job.drawn \cup {loaded[w] : w \in Workers}])
               /\ UNCHANGED actor
        <3> DEFINE value == [version |-> job.version, drawn |-> job.drawn \cup {loaded[w] : w \in Workers}]
        <3>1. job.drawn = {job.version} /\ \A w \in Workers : loaded[w] = job.version
            BY <2>1 DEF ActorOK
        <3>2. value.drawn = {value.version}
            BY <3>1
        <3>3. Pure(value)
            BY <3>2 DEF Pure
        <3>4. Quiet
            BY <2>1, <2>3 DEF Succeeds, Quiet
        <3> QED BY <2>1, <2>3, <3>3, <3>4, QuietStep, OperationEnds
    <2> QED BY <1>10, <2>2, <2>3 DEF GenerationEnds
<1>11. CASE CloseStarts \/ CloseEnds
    <2>1. Quiet /\ rpc' = rpc /\ UNCHANGED learnerVars
        BY <1>11 DEF CloseStarts, CloseEnds, ControlVars, Quiet
    <2> QED BY <2>1, QuietStep
<1>12. CASE CloseFails
    <2>1. Quiet /\ Served /\ UNCHANGED learnerVars
        BY <1>12 DEF CloseFails, ControlVars, Quiet, Notes
    <2> QED BY <2>1, QuietStep
<1>13. CASE CloseReplies
    <2>1. Quiet /\ UNCHANGED learnerVars
        BY <1>13 DEF CloseReplies, serverVars, Quiet
    <2>2. Served
        <3>1. Outstanding /\ rpc.op = "close"
              /\ rpc' = [op |-> "close", arg |-> rpc.arg, by |-> "main", st |-> "ok", value |-> None]
            BY <1>13 DEF CloseReplies
        <3>2. rpc.by = "main"
            BY <3>1 DEF CallOK
        <3> QED BY <3>1, <3>2 DEF Answers
    <2> QED BY <2>1, <2>2, QuietStep
<1>14. CASE HandlerTimesOut
    <2>1. Quiet /\ Served /\ UNCHANGED learnerVars
        BY <1>14 DEF HandlerTimesOut, Quiet, Notes, Awaited
    <2> QED BY <2>1, QuietStep
<1> QED BY <1>1, <1>2, <1>3, <1>4, <1>5, <1>6, <1>7, <1>8, <1>9, <1>10, <1>11, <1>12, <1>13, <1>14 DEF Server

-----------------------------------------------------------------------------
(* The learner *)

\* The learner's part of the invariant.
LearnerOK == TypeOK /\ CallOK /\ PolicyOK /\ PrefetchOK /\ ResultOK /\ TrainedOK

\* A step of the learner leaves the server alone.
LEMMA LearnerInv ==
    ASSUME LearnerOK, (Learner /\ ~MainReturns) \/ TrainRaises \/ CallFails \/ LearnerDies \/ LearnerRestarts
    PROVE  LearnerOK'
<1> USE LoraAssumption DEF LearnerOK, TypeOK, NoCall, NoGroup, None, Points, Callers, Sampling, Behind, Level, Carried
<1>1. CASE MainCalls
    <2> USE <1>1 DEF MainCalls, Raised, OpAt, ArgAt, Sampling, Outstanding, Prefetching
    <2>1. TypeOK'
        BY DEF PrefetchOK, CallOK, PolicyOK
    <2>2. CallOK'
        BY DEF CallOK, PrefetchOK, Pure
    <2>3. PolicyOK'
        BY DEF PolicyOK, CallOK
    <2>4. PrefetchOK'
        BY DEF PrefetchOK, CallOK, PolicyOK, ResultOK, Pure
    <2>5. ResultOK'
        BY DEF ResultOK, CallOK, PolicyOK, PrefetchOK, Pure
    <2>6. TrainedOK'
        BY DEF TrainedOK, ResultOK, Pure
    <2> QED BY <2>1, <2>2, <2>3, <2>4, <2>5, <2>6
<1>2. CASE PrefetchCalls
    <2> USE <1>2 DEF PrefetchCalls, Outstanding, Prefetching
    <2>1. TypeOK'
        BY DEF PrefetchOK, CallOK, PolicyOK
    <2>2. CallOK'
        BY DEF CallOK, PrefetchOK, Pure
    <2>3. PolicyOK'
        BY DEF PolicyOK, CallOK
    <2>4. PrefetchOK'
        BY DEF PrefetchOK, CallOK, PolicyOK, ResultOK, Pure
    <2>5. ResultOK'
        BY DEF ResultOK, CallOK, PolicyOK, PrefetchOK, Pure
    <2>6. TrainedOK'
        BY DEF TrainedOK, ResultOK, Pure
    <2> QED BY <2>1, <2>2, <2>3, <2>4, <2>5, <2>6
<1>3. CASE CallFails
    <2> USE <1>3 DEF CallFails, Raised, Outstanding, Prefetching
    <2>1. TypeOK'
        BY DEF PrefetchOK, CallOK, PolicyOK
    <2>2. CallOK'
        BY DEF CallOK, PrefetchOK, Pure
    <2>3. PolicyOK'
        BY DEF PolicyOK, CallOK
    <2>4. PrefetchOK'
        BY DEF PrefetchOK, CallOK, PolicyOK, ResultOK, Pure
    <2>5. ResultOK'
        BY DEF ResultOK, CallOK, PolicyOK, PrefetchOK, Pure
    <2>6. TrainedOK'
        BY DEF TrainedOK, ResultOK, Pure
    <2> QED BY <2>1, <2>2, <2>3, <2>4, <2>5, <2>6
<1>4. CASE PrefetchReturns
    <2> USE <1>4 DEF PrefetchReturns, Outstanding, Accepted, Prefetching
    <2>a. pending.st = "calling"
        BY DEF CallOK
    <2>b. PICK st, n, v : pending = [st |-> st, group |-> n, value |-> v]
        BY <2>a DEF CallOK
    <2>c. PICK s \in {"done", "failed"} : pending' = [pending EXCEPT !.st = s, !.value = rpc.value]
        OBVIOUS
    <2>d. pending' = [st |-> s, group |-> n, value |-> rpc.value]
        BY <2>b, <2>c
    <2>1. TypeOK'
        BY <2>d
    <2>2. CallOK'
        BY DEF CallOK, PrefetchOK, Pure
    <2>3. PolicyOK'
        BY DEF PolicyOK, CallOK
    <2>4. PrefetchOK'
        BY DEF PrefetchOK, CallOK, PolicyOK, ResultOK, Pure
    <2>5. ResultOK'
        BY DEF ResultOK, CallOK, PolicyOK, PrefetchOK, Pure
    <2>6. TrainedOK'
        BY DEF TrainedOK, ResultOK, Pure
    <2> QED BY <2>1, <2>2, <2>3, <2>4, <2>5, <2>6
<1>5. CASE TakePrefetched
    <2> USE <1>5 DEF TakePrefetched, Raised, Prefetching, Outstanding
    <2>1. TypeOK'
        BY DEF PrefetchOK, CallOK, PolicyOK
    <2>2. CallOK'
        BY DEF CallOK, PrefetchOK, Pure
    <2>3. PolicyOK'
        BY DEF PolicyOK, CallOK
    <2>4. PrefetchOK'
        BY DEF PrefetchOK, CallOK, PolicyOK, ResultOK, Pure
    <2>5. ResultOK'
        BY DEF ResultOK, CallOK, PolicyOK, PrefetchOK, Pure
    <2>6. TrainedOK'
        BY DEF TrainedOK, ResultOK, Pure
    <2> QED BY <2>1, <2>2, <2>3, <2>4, <2>5, <2>6
<1>6. CASE SkipGroup
    <2> USE <1>6 DEF SkipGroup, Forgotten, Advance, Raised, Prefetching, Outstanding
    <2>1. TypeOK'
        BY DEF PrefetchOK, CallOK, PolicyOK
    <2>2. CallOK'
        BY DEF CallOK, PrefetchOK, Pure
    <2>3. PolicyOK'
        BY DEF PolicyOK, CallOK
    <2>4. PrefetchOK'
        BY DEF PrefetchOK, CallOK, PolicyOK, ResultOK, Pure
    <2>5. ResultOK'
        BY DEF ResultOK, CallOK, PolicyOK, PrefetchOK, Pure
    <2>6. TrainedOK'
        BY DEF TrainedOK, ResultOK, Pure
    <2> QED BY <2>1, <2>2, <2>3, <2>4, <2>5, <2>6
<1>7. CASE UseGroup
    <2> USE <1>7 DEF UseGroup, Prefetching, Outstanding
    <2>1. TypeOK'
        BY DEF PrefetchOK, CallOK, PolicyOK
    <2>2. CallOK'
        BY DEF CallOK, PrefetchOK, Pure
    <2>3. PolicyOK'
        BY DEF PolicyOK, CallOK
    <2>4. PrefetchOK'
        BY DEF PrefetchOK, CallOK, PolicyOK, ResultOK, Pure
    <2>5. ResultOK'
        BY DEF ResultOK, CallOK, PolicyOK, PrefetchOK, Pure
    <2>6. TrainedOK'
        BY DEF TrainedOK, ResultOK, Pure
    <2> QED BY <2>1, <2>2, <2>3, <2>4, <2>5, <2>6
<1>8. CASE TrainGroup
    <2> USE <1>8 DEF TrainGroup, WithGroup, Admissible, Raised, Prefetching, Outstanding
    <2>1. TypeOK'
        BY DEF PrefetchOK, CallOK, PolicyOK
    <2>2. CallOK'
        BY DEF CallOK, PrefetchOK, Pure
    <2>3. PolicyOK'
        BY DEF PolicyOK, CallOK
    <2>4. PrefetchOK'
        BY DEF PrefetchOK, CallOK, PolicyOK, ResultOK, Pure
    <2>5. ResultOK'
        BY DEF ResultOK, CallOK, PolicyOK, PrefetchOK, Pure
    <2>6. TrainedOK'
        BY DEF TrainedOK, ResultOK, Pure
    <2> QED BY <2>1, <2>2, <2>3, <2>4, <2>5, <2>6
<1>9. CASE JoinPrefetch
    <2> USE <1>9 DEF JoinPrefetch, Raised, Prefetching, Outstanding
    <2>1. TypeOK'
        BY DEF PrefetchOK, CallOK, PolicyOK
    <2>2. CallOK'
        BY DEF CallOK, PrefetchOK, Pure
    <2>3. PolicyOK'
        BY DEF PolicyOK, CallOK
    <2>4. PrefetchOK'
        BY DEF PrefetchOK, CallOK, PolicyOK, ResultOK, Pure
    <2>5. ResultOK'
        BY DEF ResultOK, CallOK, PolicyOK, PrefetchOK, Pure
    <2>6. TrainedOK'
        BY DEF TrainedOK, ResultOK, Pure
    <2> QED BY <2>1, <2>2, <2>3, <2>4, <2>5, <2>6
<1>10. CASE NextGroup
    <2> USE <1>10 DEF NextGroup, Advance, Raised, Prefetching, Outstanding
    <2>1. TypeOK'
        BY DEF PrefetchOK, CallOK, PolicyOK
    <2>2. CallOK'
        BY DEF CallOK, PrefetchOK, Pure
    <2>3. PolicyOK'
        BY DEF PolicyOK, CallOK
    <2>4. PrefetchOK'
        BY DEF PrefetchOK, CallOK, PolicyOK, ResultOK, Pure
    <2>5. ResultOK'
        BY DEF ResultOK, CallOK, PolicyOK, PrefetchOK, Pure
    <2>6. TrainedOK'
        BY DEF TrainedOK, ResultOK, Pure
    <2> QED BY <2>1, <2>2, <2>3, <2>4, <2>5, <2>6
<1>11. CASE LearnerDies
    <2> USE <1>11 DEF LearnerDies, Prefetching, Outstanding
    <2>1. TypeOK'
        BY DEF PrefetchOK, CallOK, PolicyOK
    <2>2. CallOK'
        BY DEF CallOK, PrefetchOK, Pure
    <2>3. PolicyOK'
        BY DEF PolicyOK, CallOK
    <2>4. PrefetchOK'
        BY DEF PrefetchOK, CallOK, PolicyOK, ResultOK, Pure
    <2>5. ResultOK'
        BY DEF ResultOK, CallOK, PolicyOK, PrefetchOK, Pure
    <2>6. TrainedOK'
        BY DEF TrainedOK, ResultOK, Pure
    <2> QED BY <2>1, <2>2, <2>3, <2>4, <2>5, <2>6
<1>12. CASE LearnerRestarts
    <2> USE <1>12 DEF LearnerRestarts, Prefetching, Outstanding
    <2>1. TypeOK'
        BY DEF PrefetchOK, CallOK, PolicyOK
    <2>2. CallOK'
        BY DEF CallOK, PrefetchOK, Pure
    <2>3. PolicyOK'
        BY DEF PolicyOK, CallOK
    <2>4. PrefetchOK'
        BY DEF PrefetchOK, CallOK, PolicyOK, ResultOK, Pure
    <2>5. ResultOK'
        BY DEF ResultOK, CallOK, PolicyOK, PrefetchOK, Pure
    <2>6. TrainedOK'
        BY DEF TrainedOK, ResultOK, Pure
    <2> QED BY <2>1, <2>2, <2>3, <2>4, <2>5, <2>6
<1>13. CASE TrainRaises
    <2> USE <1>13 DEF TrainRaises, WithGroup, Admissible, Raised, Prefetching, Outstanding
    <2>1. TypeOK'
        BY DEF PrefetchOK, CallOK, PolicyOK
    <2>2. CallOK'
        BY DEF CallOK, PrefetchOK, Pure
    <2>3. PolicyOK'
        BY DEF PolicyOK, CallOK
    <2>4. PrefetchOK'
        BY DEF PrefetchOK, CallOK, PolicyOK, ResultOK, Pure
    <2>5. ResultOK'
        BY DEF ResultOK, CallOK, PolicyOK, PrefetchOK, Pure
    <2>6. TrainedOK'
        BY DEF TrainedOK, ResultOK, Pure
    <2> QED BY <2>1, <2>2, <2>3, <2>4, <2>5, <2>6
<1> QED BY <1>1, <1>2, <1>3, <1>4, <1>5, <1>6, <1>7, <1>8, <1>9, <1>10, <1>11, <1>12, <1>13 DEF Learner

\* A call of the learner's own thread returns: the operation at its program counter is done.
LEMMA MainReturnsInv ==
    ASSUME LearnerOK, MainReturns
    PROVE  LearnerOK'
<1> USE LoraAssumption DEF LearnerOK, TypeOK, NoCall, NoGroup, None, Points, Callers, Sampling, Behind, Level, Carried
<1>a. /\ Outstanding /\ rpc.st = "ok" /\ rpc.by = "main" /\ rpc' = NoCall
      /\ UNCHANGED <<lineage, update, group, pending, trained>>
    BY DEF MainReturns
<1>b. /\ pc \in Callers /\ rpc.op = OpAt(pc) /\ (pc = "activate" => rpc.arg = update)
      /\ (pc = "obtain" => pending = NoGroup) /\ (rpc.op = "sample" => Pure(rpc.value))
    BY <1>a DEF CallOK
<1>c. CallOK'
    BY <1>a DEF CallOK, Outstanding
<1>1. CASE pc = "initialize"
    <2>0. pc' = "activate" /\ UNCHANGED <<ack, snapshots, result>>
        BY <1>b, <1>1 DEF MainReturns
    <2> USE <1>a, <1>b, <1>1, <2>0 DEF Prefetching, OpAt
    <2>1. TypeOK'
        BY DEF PolicyOK
    <2>2. PolicyOK'
        BY DEF PolicyOK
    <2>3. PrefetchOK'
        BY DEF PrefetchOK, PolicyOK, Pure
    <2>4. ResultOK'
        BY DEF ResultOK, PolicyOK, Pure
    <2>5. TrainedOK'
        BY DEF TrainedOK, PolicyOK, Pure
    <2> QED BY <1>c, <2>1, <2>2, <2>3, <2>4, <2>5
<1>2. CASE pc = "activate"
    <2>0. pc' = "resume" /\ ack' = update /\ UNCHANGED <<snapshots, result>>
        BY <1>b, <1>2 DEF MainReturns
    <2> USE <1>a, <1>b, <1>2, <2>0 DEF Prefetching, OpAt
    <2>1. TypeOK'
        BY DEF PolicyOK
    <2>2. PolicyOK'
        BY DEF PolicyOK
    <2>3. PrefetchOK'
        BY DEF PrefetchOK, PolicyOK, Pure
    <2>4. ResultOK'
        BY DEF ResultOK, PolicyOK, Pure
    <2>5. TrainedOK'
        BY DEF TrainedOK, PolicyOK, Pure
    <2> QED BY <1>c, <2>1, <2>2, <2>3, <2>4, <2>5
<1>3. CASE pc = "resume"
    <2>0. /\ snapshots' = {v \in snapshots \cup {update} : v >= update - 1}
          /\ pc' = IF update = 0 THEN "validate" ELSE "check"
          /\ UNCHANGED <<ack, result>>
        BY <1>b, <1>3 DEF MainReturns, Retained
    <2> USE <1>a, <1>b, <1>3, <2>0 DEF Prefetching, OpAt
    <2>1. TypeOK'
        BY DEF PolicyOK
    <2>2. PolicyOK'
        BY DEF PolicyOK
    <2>3. PrefetchOK'
        BY DEF PrefetchOK, PolicyOK, Pure
    <2>4. ResultOK'
        BY DEF ResultOK, PolicyOK, Pure
    <2>5. TrainedOK'
        BY DEF TrainedOK, PolicyOK, Pure
    <2> QED BY <1>c, <2>1, <2>2, <2>3, <2>4, <2>5
<1>4. CASE pc \in Sampling
    <2>0. /\ result' = [st |-> "done", group |-> group, value |-> rpc.value]
          /\ pc' = IF rpc.value.version # ack THEN "close"
                   ELSE CASE pc = "validate" -> "baseline" [] pc = "baseline" -> "obtain"
                          [] pc = "obtain" -> "score" [] pc = "check" -> "next" [] pc = "final" -> "close"
          /\ UNCHANGED <<ack, snapshots>>
        BY <1>b, <1>4 DEF MainReturns, Accepted, Raised
    <2> USE <1>a, <1>b, <1>4, <2>0 DEF Prefetching, OpAt
    <2>1. TypeOK'
        BY DEF PolicyOK
    <2>2. PolicyOK'
        BY DEF PolicyOK
    <2>3. PrefetchOK'
        BY DEF PrefetchOK, PolicyOK, Pure
    <2>4. ResultOK'
        BY DEF ResultOK, PolicyOK, Pure
    <2>5. TrainedOK'
        BY DEF TrainedOK, PolicyOK, Pure
    <2> QED BY <1>c, <2>1, <2>2, <2>3, <2>4, <2>5
<1>5. CASE pc = "pause"
    <2>0. pc' = "activate" /\ UNCHANGED <<ack, snapshots, result>>
        BY <1>b, <1>5 DEF MainReturns
    <2> USE <1>a, <1>b, <1>5, <2>0 DEF Prefetching, OpAt
    <2>1. TypeOK'
        BY DEF PolicyOK
    <2>2. PolicyOK'
        BY DEF PolicyOK
    <2>3. PrefetchOK'
        BY DEF PrefetchOK, PolicyOK, Pure
    <2>4. ResultOK'
        BY DEF ResultOK, PolicyOK, Pure
    <2>5. TrainedOK'
        BY DEF TrainedOK, PolicyOK, Pure
    <2> QED BY <1>c, <2>1, <2>2, <2>3, <2>4, <2>5
<1>6. CASE pc = "close"
    <2>0. pc' = "end" /\ UNCHANGED <<ack, snapshots, result>>
        BY <1>b, <1>6 DEF MainReturns
    <2> USE <1>a, <1>b, <1>6, <2>0 DEF Prefetching, OpAt
    <2>1. TypeOK'
        BY DEF PolicyOK
    <2>2. PolicyOK'
        BY DEF PolicyOK
    <2>3. PrefetchOK'
        BY DEF PrefetchOK, PolicyOK, Pure
    <2>4. ResultOK'
        BY DEF ResultOK, PolicyOK, Pure
    <2>5. TrainedOK'
        BY DEF TrainedOK, PolicyOK, Pure
    <2> QED BY <1>c, <2>1, <2>2, <2>3, <2>4, <2>5
<1> QED BY <1>b, <1>1, <1>2, <1>3, <1>4, <1>5, <1>6

-----------------------------------------------------------------------------
(* The theorems *)

\* Nothing is sampled or trained at first.
LEMMA InitInv == Init => IndInv
<1> SUFFICES ASSUME Init PROVE IndInv
    OBVIOUS
<1> USE LoraAssumption DEF Init, NoCall, NoGroup, NoJob, None
<1>1. TypeOK /\ CallOK /\ ActorOK
    BY DEF TypeOK, CallOK, Outstanding, ActorOK, Activating, Points, Callers, Sampling
<1>2. PolicyOK /\ PrefetchOK /\ ResultOK /\ TrainedOK
    BY DEF PolicyOK, PrefetchOK, ResultOK, TrainedOK, Behind, Level
<1> QED BY <1>1, <1>2 DEF IndInv

\* The invariant holds whatever fails, times out or is started over.
THEOREM LoraInvariant == Spec => []IndInv
<1>1. IndInv /\ [Next]_vars => IndInv'
    <2> SUFFICES ASSUME IndInv, [Next]_vars PROVE IndInv'
        OBVIOUS
    <2>a. LearnerOK /\ ActorOK
        BY DEF IndInv, LearnerOK
    <2>1. CASE Server \/ HandlerTimesOut
        <3>1. ActorOK' /\ Served /\ UNCHANGED learnerVars
            BY <2>1, <2>a, ServerInv DEF LearnerOK
        <3>2. CallOK'
            BY <2>a, <3>1, CallKept DEF LearnerOK, Served
        <3>3. (TypeOK /\ PolicyOK /\ PrefetchOK /\ ResultOK /\ TrainedOK)'
            BY <2>a, <3>1 DEF learnerVars, LearnerOK, TypeOK, PolicyOK, PrefetchOK, ResultOK, TrainedOK, Prefetching, Pure
        <3> QED BY <3>1, <3>2, <3>3 DEF IndInv
    <2>2. CASE Learner \/ TrainRaises \/ CallFails \/ LearnerDies \/ LearnerRestarts
        <3>1. LearnerOK'
            BY <2>2, <2>a, LearnerInv, MainReturnsInv
        <3>2. UNCHANGED serverVars
            BY <2>2 DEF Learner, MainCalls, PrefetchCalls, CallFails, PrefetchReturns, MainReturns, TakePrefetched,
                        SkipGroup, UseGroup, TrainGroup, TrainRaises, JoinPrefetch, NextGroup, LearnerDies, LearnerRestarts
        <3>3. ActorOK'
            BY <2>a, <3>2, QuietStep DEF serverVars, Quiet
        <3> QED BY <3>1, <3>3 DEF IndInv, LearnerOK
    <2>3. CASE UNCHANGED vars
        <3>1. UNCHANGED <<learnerVars, serverVars, rpc>>
            BY <2>3 DEF vars
        <3>2. CallOK' /\ ActorOK'
            BY <2>a, <3>1, CallKept, QuietStep DEF LearnerOK, serverVars, Quiet
        <3>3. (TypeOK /\ PolicyOK /\ PrefetchOK /\ ResultOK /\ TrainedOK)'
            BY <2>a, <3>1 DEF learnerVars, LearnerOK, TypeOK, PolicyOK, PrefetchOK, ResultOK, TrainedOK, Prefetching, Pure
        <3> QED BY <3>2, <3>3 DEF IndInv
    <2> QED BY <2>1, <2>2, <2>3 DEF Next
<1> QED BY <1>1, InitInv, PTL DEF Spec

\* For any workers, groups, updates and failures, every optimizer update consumes the group
\* of its own iteration, once, and that group was drawn from one policy that all workers held
\* throughout, the learner's own or the one before it, whose parameters are still retained
\* when train_group anchors the update to them (distributed_grpo.py, vllm_lora_controller.py).
THEOREM UpdatesAreAnchored == Spec => []UpdatesAnchored
<1>1. IndInv => UpdatesAnchored
    BY DEF IndInv, TypeOK, PolicyOK, ResultOK, TrainedOK, UpdatesAnchored, Admissible, Level, Pure
<1> QED BY <1>1, LoraInvariant, PTL

-----------------------------------------------------------------------------
(* PolicyRoles: the invariant *)

Values == Seq({"base", "sft"} \cup SUBSET Samples)

\* A copy of the policy that is up.
Copies == [up : {TRUE}, table : [EngramRows -> Values], dirty : SUBSET EngramRows, dense : Seq(SUBSET Samples)]

Policies == [dense : Seq(SUBSET Samples), base : SUBSET EngramRows, ids : SUBSET EngramRows,
             values : UNION {[D -> Values] : D \in SUBSET EngramRows}]

Files == [policy : Policies, truth : Copies]

RolesTypeOK ==
    /\ identity \in SUBSET EngramRows /\ baseline = Created(identity)
    /\ role \in [Roles -> Copies \cup {Down}]
    /\ grad \in [EngramRows -> SUBSET Samples] /\ replayed \in SUBSET Samples
    /\ artifacts \in Seq(Files)
    /\ installed \in [Roles -> 0 .. Len(artifacts)]

\* Outside its touched rows a copy is its baseline.
Based(m, first) == \A g \in EngramRows \ m.dirty : m.table[g] = <<Created(first)[g]>>

CopiesBased == \A r \in Roles : role[r].up => Based(role[r], identity)

\* A file holds what is needed to rebuild the learner that wrote it, over its baseline.
Faithful(p, m) ==
    /\ p.dense = m.dense /\ p.ids = m.dirty /\ p.values = [g \in m.dirty |-> m.table[g]]
    /\ Based(m, p.base)

FilesFaithful == \A a \in DOMAIN artifacts : Faithful(artifacts[a].policy, artifacts[a].truth)

\* A learner that resumed has at least the updates of its checkpoint.
ResumedOnward ==
    LET m == role["learner"]
        a == installed["learner"]
    IN  m.up /\ a # 0 => Len(artifacts[a].truth.dense) <= Len(m.dense)

RolesInv == RolesTypeOK /\ CopiesBased /\ FilesFaithful /\ ResumedOnward /\ RolesAgree

\* What the baseline holds is a value of its row.
LEMMA OriginIsValue ==
    ASSUME NEW first \in SUBSET EngramRows, NEW g \in EngramRows
    PROVE  <<Created(first)[g]>> \in Values
BY DEF Created, Values

\* A fresh view is a copy that is its baseline.
LEMMA ViewIsCopy ==
    ASSUME NEW first \in SUBSET EngramRows
    PROVE  /\ View(Created(first)) \in Copies /\ View(Created(first)).up
           /\ Based(View(Created(first)), first)
<1>1. \A g \in EngramRows : <<Created(first)[g]>> \in Values
    BY OriginIsValue
<1> QED BY <1>1 DEF View, Copies, Based, Created

\* Copies with the same touched rows, weights and rows are the same.
LEMMA CopiesEqual ==
    ASSUME NEW m \in Copies, NEW n \in Copies, m.dirty = n.dirty, m.dense = n.dense,
           \A g \in EngramRows : m.table[g] = n.table[g]
    PROVE  m = n
<1>3. m.up = TRUE /\ n.up = TRUE
    BY Zenon DEF Copies
<1>1. m.table = n.table
    BY DEF Copies
<1>2. /\ m = [up |-> m.up, table |-> m.table, dirty |-> m.dirty, dense |-> m.dense]
      /\ n = [up |-> n.up, table |-> n.table, dirty |-> n.dirty, dense |-> n.dense]
    BY DEF Copies
<1> QED BY <1>1, <1>2, <1>3

\* A role that is up holds a copy.
LEMMA UpMeansCopy ==
    ASSUME RolesTypeOK, NEW r \in Roles
    PROVE  /\ role[r].up => role[r] \in Copies
           /\ ~role[r].up => role[r] = Down
<1>1. role[r] \in Copies \/ role[r] = Down
    BY DEF RolesTypeOK
<1>2. role[r] \in Copies => role[r].up
    BY DEF Copies
<1>3. ~Down.up
    BY DEF Down
<1> QED BY <1>1, <1>2, <1>3

\* What load_policy installs over whatever the view held is the learner that published.
LEMMA LoadedIsTruth ==
    ASSUME NEW m \in Copies, NEW n \in Copies, NEW p, RolesTypeOK,
           Faithful(p, n), Based(m, identity), Loadable(p)
    PROVE  Loaded(m, p) = n
<1>1. Loaded(m, p) \in Copies /\ Loaded(m, p).dirty = n.dirty /\ Loaded(m, p).dense = n.dense
    <2>1. ASSUME NEW g \in EngramRows
          PROVE  (IF g \in p.ids THEN p.values[g] ELSE Undone(m, baseline, m.dirty)[g]) \in Values
        <3>1. CASE g \in p.ids
            <4>1. g \in n.dirty /\ p.values[g] = n.table[g]
                BY <3>1 DEF Faithful
            <4> QED BY <3>1, <4>1 DEF Copies
        <3>2. CASE g \notin p.ids
            <4>1. <<baseline[g]>> \in Values
                BY OriginIsValue DEF RolesTypeOK
            <4> QED BY <3>2, <4>1 DEF Undone, Copies
        <3> QED BY <3>1, <3>2
    <2> QED BY <2>1 DEF Loaded, Copies, Faithful
<1>2. ASSUME NEW g \in EngramRows PROVE Loaded(m, p).table[g] = n.table[g]
    BY DEF Loaded, Copies, Faithful, Based, Undone, Loadable, RolesTypeOK
<1> QED BY <1>1, <1>2, CopiesEqual

\* Everything starts down.
LEMMA RolesInitInv == RolesInit => RolesInv
<1> SUFFICES ASSUME RolesInit PROVE RolesInv
    OBVIOUS
<1>1. RolesTypeOK
    BY PolicyRolesAssumption DEF RolesInit, RolesTypeOK, NoGrad
<1>2. \A r \in Roles : ~role[r].up
    BY DEF RolesInit, Down
<1>3. CopiesBased /\ ResumedOnward /\ RolesAgree
    BY <1>2 DEF CopiesBased, ResumedOnward, RolesAgree, Roles
<1>4. FilesFaithful
    BY DEF RolesInit, FilesFaithful
<1> QED BY <1>1, <1>3, <1>4 DEF RolesInv

\* A resumed learner is the one that wrote the checkpoint.
LEMMA ResumedIsTruth ==
    ASSUME NEW first \in SUBSET EngramRows, NEW n \in Copies, NEW p, Faithful(p, n), p.base = first
    PROVE  LET fresh == View(Created(first))
           IN  [fresh EXCEPT !.dense = p.dense, !.dirty = p.ids,
                             !.table = [g \in EngramRows |-> IF g \in p.ids THEN p.values[g] ELSE fresh.table[g]]] = n
<1> DEFINE fresh == View(Created(first))
           m == [fresh EXCEPT !.dense = p.dense, !.dirty = p.ids,
                              !.table = [g \in EngramRows |-> IF g \in p.ids THEN p.values[g] ELSE fresh.table[g]]]
<1>1. fresh \in Copies /\ Based(fresh, first) /\ fresh.dirty = {}
    BY ViewIsCopy DEF View
<1>2. ASSUME NEW g \in EngramRows
      PROVE  (IF g \in p.ids THEN p.values[g] ELSE fresh.table[g]) = n.table[g]
    BY <1>1 DEF Faithful, Based
<1>3. ASSUME NEW g \in EngramRows PROVE n.table[g] \in Values
    BY DEF Copies
<1> HIDE DEF fresh
<1>4. m \in Copies /\ m.dirty = n.dirty /\ m.dense = n.dense /\ \A g \in EngramRows : m.table[g] = n.table[g]
    BY <1>1, <1>2, <1>3 DEF Copies, Faithful
<1>5. m = n
    BY <1>4, CopiesEqual
<1> QED BY <1>5 DEF fresh

\* run_training: every copy is built anew over the baseline it names.
LEMMA StartInv ==
    ASSUME RolesInv, NEW first \in Initials, NEW reference \in BOOLEAN, NEW resume \in 0 .. Len(artifacts),
           Start(first, reference, resume)
    PROVE  RolesInv'
<1> DEFINE fresh == View(Created(first))
           truth == artifacts[resume].truth
<1>1. first \in SUBSET EngramRows /\ fresh \in Copies /\ fresh.up /\ Based(fresh, first)
    BY PolicyRolesAssumption, ViewIsCopy
<1>2. resume # 0 => /\ resume \in DOMAIN artifacts /\ truth \in Copies
                    /\ Faithful(artifacts[resume].policy, truth) /\ artifacts[resume].policy.base = first
    <2> SUFFICES ASSUME resume # 0
                 PROVE  /\ resume \in DOMAIN artifacts /\ truth \in Copies
                        /\ Faithful(artifacts[resume].policy, truth) /\ artifacts[resume].policy.base = first
        OBVIOUS
    <2>1. resume \in DOMAIN artifacts /\ artifacts[resume] \in Files
        <3>1. artifacts \in Seq(Files)
            BY DEF RolesInv, RolesTypeOK
        <3>2. resume \in 1 .. Len(artifacts)
            BY <3>1
        <3> QED BY <3>1, <3>2, ElementOfSeq
    <2>2. artifacts[resume].policy.base = first
        BY DEF Start
    <2>3. Faithful(artifacts[resume].policy, truth)
        BY <2>1 DEF RolesInv, FilesFaithful
    <2> QED BY <2>1, <2>2, <2>3 DEF Files
<1>3. role'["learner"] = IF resume = 0 THEN fresh ELSE truth
    <2>1. CASE resume = 0
        BY <2>1 DEF Start, Roles
    <2>2. CASE resume # 0
        <3>1. role'["learner"] =
                [fresh EXCEPT !.dense = artifacts[resume].policy.dense, !.dirty = artifacts[resume].policy.ids,
                              !.table = [g \in EngramRows |-> IF g \in artifacts[resume].policy.ids
                                                        THEN artifacts[resume].policy.values[g] ELSE fresh.table[g]]]
            BY <2>2 DEF Start, Roles
        <3> DEFINE p == artifacts[resume].policy
        <3>2. truth \in Copies /\ Faithful(p, truth) /\ p.base = first
            BY <1>2, <2>2
        <3> HIDE DEF truth, p
        <3>3. [fresh EXCEPT !.dense = p.dense, !.dirty = p.ids,
                  !.table = [g \in EngramRows |-> IF g \in p.ids THEN p.values[g] ELSE fresh.table[g]]] = truth
            BY <1>1, <3>2, ResumedIsTruth
        <3> QED BY <2>2, <3>1, <3>3 DEF p
    <2> QED BY <2>1, <2>2
<1>4. /\ role'["reference"] \in {fresh, Down} /\ role'["actor"] = Down /\ ~role'["actor"].up
      /\ DOMAIN role' = Roles /\ role' = [r \in Roles |-> role'[r]]
    BY DEF Start, Roles, Down
<1>5. /\ identity' = first /\ baseline' = Created(first) /\ artifacts' = artifacts
      /\ installed' = [r \in Roles |-> IF r = "learner" THEN resume ELSE 0]
      /\ grad' = NoGrad /\ replayed' = {}
    BY DEF Start
<1> HIDE DEF fresh, truth
<1>6. RolesTypeOK'
    <2>1. \A r \in Roles : role'[r] \in Copies \cup {Down}
        BY <1>1, <1>2, <1>3, <1>4 DEF Roles
    <2>2. role' \in [Roles -> Copies \cup {Down}]
        BY <1>4, <2>1
    <2>3. installed' \in [Roles -> 0 .. Len(artifacts')]
        BY <1>5 DEF RolesInv, RolesTypeOK
    <2> QED BY <1>1, <1>5, <2>2, <2>3 DEF RolesInv, RolesTypeOK, NoGrad
<1>7. CopiesBased'
    <2>1. ASSUME NEW r \in Roles, role'[r].up PROVE Based(role'[r], first)
        <3>1. resume # 0 => Based(truth, first)
            BY <1>2 DEF Faithful
        <3>2. ~Down.up
            BY DEF Down
        <3> QED BY <1>1, <1>3, <1>4, <2>1, <3>1, <3>2 DEF Roles
    <2> QED BY <1>5, <2>1 DEF CopiesBased
<1>8. FilesFaithful'
    BY <1>5 DEF RolesInv, FilesFaithful
<1>9. ResumedOnward'
    BY <1>2, <1>3, <1>5 DEF ResumedOnward, truth, Roles, Copies
<1>10. RolesAgree'
    <2>1. ~Down.up
        BY DEF Down
    <2> QED BY <1>3, <1>4, <1>5, <2>1 DEF RolesAgree, fresh, truth, Roles
<1> QED BY <1>6, <1>7, <1>8, <1>9, <1>10 DEF RolesInv

\* A sample only adds gradients.
LEMMA ReplayInv ==
    ASSUME RolesInv, NEW s \in Samples, Replay(s)
    PROVE  RolesInv'
<1>1. RolesTypeOK'
    BY DEF RolesInv, RolesTypeOK, Replay
<1>2. UNCHANGED <<baseline, identity, role, artifacts, installed>>
    BY DEF Replay
<1> QED BY <1>1, <1>2 DEF RolesInv, CopiesBased, FilesFaithful, ResumedOnward, RolesAgree, View

\* optimizer.step: a row that changes is marked, and the update is counted.
LEMMA StepInv ==
    ASSUME RolesInv, Step
    PROVE  RolesInv'
<1> DEFINE m == role["learner"]
           n == role'["learner"]
<1>1. m \in Copies /\ Based(m, identity)
    BY UpMeansCopy DEF RolesInv, CopiesBased, Step, Roles
<1>2. /\ role' = [role EXCEPT !["learner"] =
                    [m EXCEPT !.dirty = Touched(m), !.dense = Append(@, replayed),
                              !.table = [g \in EngramRows |-> IF grad[g] # {} THEN Append(@[g], grad[g]) ELSE @[g]]]]
      /\ n = [m EXCEPT !.dirty = Touched(m), !.dense = Append(@, replayed),
                       !.table = [g \in EngramRows |-> IF grad[g] # {} THEN Append(@[g], grad[g]) ELSE @[g]]]
    BY DEF Step, RolesInv, RolesTypeOK, Roles
<1>3. UNCHANGED <<baseline, identity, artifacts, installed>> /\ grad' = NoGrad /\ replayed' = {}
    BY DEF Step
<1>4. n \in Copies
    <2>1. ASSUME NEW g \in EngramRows
          PROVE  (IF grad[g] # {} THEN Append(m.table[g], grad[g]) ELSE m.table[g]) \in Values
        <3>1. m.table[g] \in Values /\ grad[g] \in SUBSET Samples
            BY <1>1 DEF Copies, RolesInv, RolesTypeOK
        <3> QED BY <3>1 DEF Values
    <2>2. Append(m.dense, replayed) \in Seq(SUBSET Samples)
        <3>1. m.dense \in Seq(SUBSET Samples) /\ replayed \in SUBSET Samples
            BY <1>1 DEF Copies, RolesInv, RolesTypeOK
        <3> QED BY <3>1, AppendProperties
    <2>3. Touched(m) \in SUBSET EngramRows
        BY <1>1 DEF Touched, Copies
    <2> DEFINE t == [g \in EngramRows |-> IF grad[g] # {} THEN Append(m.table[g], grad[g]) ELSE m.table[g]]
               d == Append(m.dense, replayed)
    <2>4. t \in [EngramRows -> Values]
        BY <2>1
    <2>5. n = [m EXCEPT !.dirty = Touched(m), !.dense = d, !.table = t]
        BY <1>1, <1>2 DEF Copies
    <2> HIDE DEF m, n, t, d
    <2>6. [m EXCEPT !.dirty = Touched(m), !.dense = d, !.table = t] \in Copies
        BY <1>1, <2>2, <2>3, <2>4 DEF Copies, d
    <2> QED BY <2>5, <2>6
<1>5. Based(n, identity)
    <2>1. n.dirty = Touched(m)
        BY <1>1, <1>2 DEF Copies
    <2>2. ASSUME NEW g \in EngramRows \ Touched(m) PROVE n.table[g] = m.table[g]
        BY <1>1, <1>2, <2>2 DEF Copies, Touched
    <2> HIDE DEF m, n
    <2> QED BY <1>1, <2>1, <2>2 DEF Based, Touched
<1>6. Len(n.dense) = Len(m.dense) + 1 /\ Len(m.dense) \in Nat
    <2>1. n.dense = Append(m.dense, replayed) /\ m.dense \in Seq(SUBSET Samples)
        BY <1>1, <1>2 DEF Copies
    <2> QED BY <2>1 DEF RolesInv, RolesTypeOK
<1>7. \A r \in Roles \ {"learner"} : role'[r] = role[r]
    BY <1>2 DEF RolesInv, RolesTypeOK
<1> HIDE DEF m, n
<1>8. RolesTypeOK'
    <2>1. role' \in [Roles -> Copies \cup {Down}]
        BY <1>2, <1>4 DEF RolesInv, RolesTypeOK, n, Roles
    <2> QED BY <1>3, <2>1 DEF RolesInv, RolesTypeOK, NoGrad
<1>9. CopiesBased'
    BY <1>3, <1>5, <1>7 DEF RolesInv, CopiesBased, n
<1>10. FilesFaithful'
    BY <1>3 DEF RolesInv, FilesFaithful
<1>11. ASSUME installed["learner"] # 0
       PROVE  Len(artifacts[installed["learner"]].truth.dense) < Len(n.dense)
    <2>1. artifacts[installed["learner"]] \in Files
        <3>1. installed["learner"] \in 1 .. Len(artifacts) /\ artifacts \in Seq(Files)
            BY <1>11 DEF RolesInv, RolesTypeOK, Roles
        <3> QED BY <3>1, ElementOfSeq
    <2>2. Len(artifacts[installed["learner"]].truth.dense) \in Nat
        BY <2>1 DEF Files, Copies
    <2>3. Len(artifacts[installed["learner"]].truth.dense) <= Len(m.dense)
        BY <1>11, <1>1 DEF RolesInv, ResumedOnward, Step, m
    <2> QED BY <1>6, <2>2, <2>3
<1>12. ResumedOnward'
    BY SMTT(30), <1>3, <1>4, <1>11, <1>6 DEF ResumedOnward, n
<1>13. RolesAgree'
    BY <1>3, <1>7, <1>11, <1>6 DEF RolesInv, RolesAgree, n, Roles, View
<1> QED BY <1>8, <1>9, <1>10, <1>12, <1>13 DEF RolesInv

\* publish_policy_artifact: a new file; no copy changes and no file is rewritten.
LEMMA PublishInv ==
    ASSUME RolesInv, Publish
    PROVE  RolesInv'
<1> DEFINE m == role["learner"]
           f == [policy |-> PolicyState(m), truth |-> m]
<1>1. m \in Copies /\ Based(m, identity)
    BY UpMeansCopy DEF RolesInv, CopiesBased, Publish, Roles
<1>2. f \in Files
    <2>1. [g \in m.dirty |-> m.table[g]] \in [m.dirty -> Values] /\ m.dirty \in SUBSET EngramRows
        BY <1>1 DEF Copies
    <2>2. PolicyState(m) \in Policies
        <3> DEFINE v == [g \in m.dirty |-> m.table[g]]
        <3>1. v \in UNION {[D -> Values] : D \in SUBSET EngramRows}
            BY <2>1
        <3>2. m.dense \in Seq(SUBSET Samples) /\ identity \in SUBSET EngramRows
            BY <1>1 DEF Copies, RolesInv, RolesTypeOK
        <3> HIDE DEF m, v
        <3>3. [dense |-> m.dense, base |-> identity, ids |-> m.dirty, values |-> v] \in Policies
            BY <2>1, <3>1, <3>2 DEF Policies
        <3> QED BY <3>3 DEF PolicyState, v
    <2> QED BY <1>1, <2>2 DEF Files
<1>3. Faithful(f.policy, f.truth)
    BY <1>1 DEF Faithful, PolicyState
<1>4. artifacts \in Seq(Files) /\ artifacts' = Append(artifacts, f)
    BY DEF RolesInv, RolesTypeOK, Publish
<1>5. UNCHANGED <<baseline, identity, role, installed, grad, replayed>>
    BY DEF Publish
<1> HIDE DEF f, m
<1>6. /\ artifacts' \in Seq(Files) /\ Len(artifacts') = Len(artifacts) + 1 /\ Len(artifacts) \in Nat
      /\ artifacts'[Len(artifacts) + 1] = f
      /\ \A a \in 1 .. Len(artifacts) : artifacts'[a] = artifacts[a]
    BY <1>2, <1>4, AppendProperties
<1>7. \A r \in Roles : installed[r] \in 0 .. Len(artifacts)
    BY DEF RolesInv, RolesTypeOK
<1>8. RolesTypeOK'
    <2>1. installed' \in [Roles -> 0 .. Len(artifacts')]
        BY <1>5, <1>6 DEF RolesInv, RolesTypeOK
    <2> QED BY <1>5, <1>6, <2>1 DEF RolesInv, RolesTypeOK
<1>9. FilesFaithful'
    <2> SUFFICES ASSUME NEW a \in 1 .. Len(artifacts) + 1
                 PROVE  Faithful(artifacts'[a].policy, artifacts'[a].truth)
        BY <1>6 DEF FilesFaithful
    <2>1. CASE a = Len(artifacts) + 1
        BY <1>3, <1>6, <2>1
    <2>2. CASE a # Len(artifacts) + 1
        <3>1. a \in DOMAIN artifacts /\ artifacts'[a] = artifacts[a]
            BY <1>4, <1>6, <2>2
        <3> QED BY <3>1 DEF RolesInv, FilesFaithful
    <2> QED BY <2>1, <2>2
<1>10. CopiesBased'
    BY <1>5 DEF RolesInv, CopiesBased
<1>11. \A r \in Roles : installed[r] # 0 => artifacts'[installed[r]] = artifacts[installed[r]]
    BY <1>6, <1>7
<1>12. ResumedOnward' /\ RolesAgree'
    BY <1>5, <1>11 DEF RolesInv, ResumedOnward, RolesAgree, Roles, View
<1> QED BY <1>8, <1>9, <1>10, <1>12 DEF RolesInv

\* The training process takes every copy with it.
LEMMA TrainerDiesInv ==
    ASSUME RolesInv, TrainerDies
    PROVE  RolesInv'
<1>1. UNCHANGED <<baseline, identity, artifacts, installed>>
    BY DEF TrainerDies
<1>2. \A r \in Roles : ~role'[r].up
    BY DEF TrainerDies, Down
<1>3. RolesTypeOK'
    BY DEF RolesInv, RolesTypeOK, TrainerDies, NoGrad
<1>4. FilesFaithful'
    BY <1>1 DEF RolesInv, FilesFaithful
<1>5. CopiesBased' /\ ResumedOnward' /\ RolesAgree'
    BY <1>2 DEF CopiesBased, ResumedOnward, RolesAgree, Roles
<1> QED BY <1>3, <1>4, <1>5 DEF RolesInv

\* A step that replaces the actor by a copy over the baseline that agrees with what is
\* recorded as installed.
LEMMA ActorInv ==
    ASSUME RolesInv, NEW n \in Copies, NEW a \in 0 .. Len(artifacts),
           Based(n, identity), n = IF a = 0 THEN View(baseline) ELSE artifacts[a].truth,
           role' = [role EXCEPT !["actor"] = n], installed' = [installed EXCEPT !["actor"] = a],
           UNCHANGED <<baseline, identity, grad, replayed, artifacts>>
    PROVE  RolesInv'
<1>1. RolesTypeOK'
    BY DEF RolesInv, RolesTypeOK
<1>2. /\ role'["actor"] = n /\ installed'["actor"] = a
      /\ \A r \in Roles \ {"actor"} : role'[r] = role[r] /\ installed'[r] = installed[r]
    BY DEF RolesInv, RolesTypeOK, Roles
<1>3. CopiesBased'
    BY <1>2 DEF RolesInv, CopiesBased
<1>4. FilesFaithful'
    BY DEF RolesInv, FilesFaithful
<1>5. ResumedOnward'
    BY <1>2 DEF RolesInv, ResumedOnward, Roles
<1>6. RolesAgree'
    BY <1>2 DEF RolesInv, RolesAgree, Roles, View
<1> QED BY <1>1, <1>3, <1>4, <1>5, <1>6 DEF RolesInv

\* A rollout process starts from the initial policy.
LEMMA BuildActorInv ==
    ASSUME RolesInv, BuildActor
    PROVE  RolesInv'
<1>1. View(baseline) \in Copies /\ Based(View(baseline), identity) /\ 0 \in 0 .. Len(artifacts)
    BY ViewIsCopy DEF RolesInv, RolesTypeOK
<1> QED BY <1>1, ActorInv DEF BuildActor

\* The view's own edits are undone, then the published rows are installed.
LEMMA ActivateInv ==
    ASSUME RolesInv, NEW a \in DOMAIN artifacts, Activate(a)
    PROVE  RolesInv'
<1> DEFINE m == role["actor"]
           p == artifacts[a].policy
           n == artifacts[a].truth
<1>1. m \in Copies /\ Based(m, identity)
    BY UpMeansCopy DEF RolesInv, CopiesBased, Activate, Roles
<1>2. a \in 1 .. Len(artifacts) /\ n \in Copies /\ Faithful(p, n) /\ p.base = identity
    <2>1. a \in 1 .. Len(artifacts) /\ artifacts \in Seq(Files)
        BY DEF RolesInv, RolesTypeOK
    <2>2. artifacts[a] \in Files
        BY <2>1, ElementOfSeq
    <2>3. Faithful(p, n)
        BY DEF RolesInv, FilesFaithful
    <2>4. n \in Copies
        BY <2>2 DEF Files
    <2> QED BY <2>1, <2>3, <2>4 DEF Activate, Loadable
<1>3. /\ role' = [role EXCEPT !["actor"] = Loaded(m, p)] /\ installed' = [installed EXCEPT !["actor"] = a]
      /\ UNCHANGED <<baseline, identity, grad, replayed, artifacts>>
    BY DEF Activate, RolesInv, RolesTypeOK, Roles
<1> HIDE DEF m, p
<1>4. Loaded(m, p) = n
    BY <1>1, <1>2, LoadedIsTruth DEF RolesInv, Loadable
<1>5. Based(n, identity)
    BY <1>2 DEF Faithful
<1>6. n = (IF a = 0 THEN View(baseline) ELSE artifacts[a].truth) /\ a \in 0 .. Len(artifacts)
    BY <1>2
<1>7. n \in Copies
    BY <1>2
<1> HIDE DEF n
<1> QED BY <1>3, <1>4, <1>5, <1>6, <1>7, ActorInv

\* Whatever is started, resumed, published, activated or lost, in whatever order: an actor
\* samples with the rows and weights the learner published, a resumed learner is the one that
\* wrote its checkpoint, and the reference is the initial policy (load_policy,
\* EngramState.load_state_dict, EngramBaseline.view), for any rows, samples and updates.
THEOREM CopiesAgree == RolesSpec => []RolesAgree
<1>1. RolesInv /\ [RolesNext]_rolesVars => RolesInv'
    <2> SUFFICES ASSUME RolesInv, [RolesNext]_rolesVars PROVE RolesInv'
        OBVIOUS
    <2>1. CASE UNCHANGED rolesVars
        <3>1. UNCHANGED <<baseline, identity, role, grad, replayed, artifacts, installed>>
            BY <2>1 DEF rolesVars
        <3> QED BY <3>1 DEF RolesInv, RolesTypeOK, CopiesBased, FilesFaithful, ResumedOnward, RolesAgree, View
    <2> QED BY <2>1, StartInv, ReplayInv, StepInv, PublishInv, TrainerDiesInv, BuildActorInv, ActivateInv
            DEF RolesNext
<1>2. RolesInv => RolesAgree
    BY DEF RolesInv
<1> QED BY <1>1, <1>2, RolesInitInv, PTL DEF RolesSpec

-----------------------------------------------------------------------------
(* EngramCache: the invariant *)

Events == Queues \X Nat
RowValues == Int \X Nat
RowMaps == UNION {[S -> RowValues] : S \in SUBSET TableRows}
RowChunks == UNION {[1 .. n -> TableRows] : n \in 0 .. StagingRows}
Outputs == [want : RowMaps, got : RowMaps, last : Events]
StreamCommands ==
    [op : {"wait", "hits", "install"}, k : Nat, after : Events, rows : SUBSET TableRows, chunk : RowChunks]
CopyCommands == [op : {"dma"}, k : Nat, after : Events, rows : SUBSET TableRows, chunk : RowChunks]
HostRecords ==
    [pc : {"idle", "validate", "plan", "begin", "hits", "install"}, s : Queues, ids : SUBSET TableRows,
     hits : SUBSET TableRows, missing : Seq(TableRows), start : Nat]
Reading == host.pc # "idle"
IsData(c) == c.op \in {"hits", "install"}

\* Types of the cache, of its buffers and of the streams.
CacheTypes ==
    /\ writes \in [TableRows -> Nat] /\ wversion \in Nat
    /\ tags \in [Places -> TableRows \cup {Empty}] /\ version \in Nat \cup {Empty} /\ version <= wversion
    /\ event \in Events /\ copyDone \in Events /\ consumerDone \in Events
    /\ values \in [Places -> RowValues] /\ pinned \in [Buffer -> RowValues] /\ staging \in [Buffer -> RowValues]
StreamTypes ==
    /\ issued \in [Queues -> Nat] /\ executed \in [Queues -> Nat]
    /\ DOMAIN queue = Queues
    /\ \A s \in Queues : executed[s] <= issued[s] /\ DOMAIN queue[s] = executed[s] + 1 .. issued[s]
    /\ \A s \in Streams : \A p \in DOMAIN queue[s] :
          /\ queue[s][p] \in StreamCommands /\ queue[s][p].k <= Len(out)
          /\ IsData(queue[s][p]) => queue[s][p].k \in DOMAIN out
    /\ \A p \in DOMAIN queue["copy"] : queue["copy"][p] \in CopyCommands

\* What the host knows about the read in progress.
HostKnows ==
    /\ out \in Seq(Outputs) /\ \A k \in DOMAIN out : DOMAIN out[k].got = DOMAIN out[k].want
    /\ host \in HostRecords
    /\ Reading => host.s \in Streams /\ out # <<>> /\ out[Len(out)].last = NoEvent
                  /\ DOMAIN out[Len(out)].want = host.ids
    /\ host.pc \in {"validate", "plan"} => host.start = 0 /\ host.hits = {}
    /\ host.pc \in {"begin", "hits", "install"} => host.start < Len(host.missing)
    /\ host.pc = "install" => host.hits = {}
    /\ host.pc \in {"plan", "begin", "hits", "install"} => version = wversion

\* A pending lookup command at place p of s comes before event e: e is behind it in its stream,
\* or behind a wait of a later read.
CoveredBy(e, s, p) ==
    \/ s = e[1] /\ p <= e[2]
    \/ \E b \in DOMAIN queue[e[1]] :
          b <= e[2] /\ queue[e[1]][b].op = "wait" /\ queue[e[1]][b].k > queue[s][p].k

\* Event e comes after everything the reads up to j have issued.
CoversTo(e, j) ==
    \A s \in Streams : \A p \in DOMAIN queue[s] :
        IsData(queue[s][p]) /\ queue[s][p].k <= j => CoveredBy(e, s, p)

\* Reads follow one another, whatever streams they use: a lookup command and the event a wait comes
\* after, the stream of the read in progress, the event the next read waits for, and the events of
\* the reads that returned.
CommandsOrdered ==
    \A s \in Streams : \A p \in DOMAIN queue[s] :
       CoversTo(IF IsData(queue[s][p]) THEN <<s, p>> ELSE queue[s][p].after, queue[s][p].k - 1)
HostOrdered ==
    /\ Reading => CoversTo(<<host.s, issued[host.s]>>, Len(out))
    /\ CoversTo(event, IF Reading THEN Len(out) - 1 ELSE Len(out))
LastsOrdered == \A k \in DOMAIN out : out[k].last # NoEvent => CoversTo(out[k].last, k)
ReadsOrdered == CommandsOrdered /\ HostOrdered /\ LastsOrdered

\* A read issues to one stream, its hits first.
HitsBeforeInstalls ==
    \A s, q \in Streams : \A p \in DOMAIN queue[s], u \in DOMAIN queue[q] :
       IsData(queue[s][p]) /\ IsData(queue[q][u]) /\ queue[s][p].k = queue[q][u].k =>
          s = q /\ (queue[s][p].op = "install" /\ queue[q][u].op = "hits" => u < p)
ReadPlaced ==
    Reading => \A s \in Streams : \A p \in DOMAIN queue[s] :
       IsData(queue[s][p]) /\ queue[s][p].k = Len(out) =>
          s = host.s /\ host.pc \in {"begin", "install"} /\ host.hits = {}
HitsFirst == HitsBeforeInstalls /\ ReadPlaced

\* The rows of an install that was issued are in the staging buffer until it executes, or a
\* transfer that it waits for brings them from the pinned buffer.
Holds(f, chunk) == \A i \in DOMAIN chunk : f[i] = <<chunk[i], writes[chunk[i]]>>
CopyIdle == executed["copy"] = issued["copy"]
Staged(s, p) ==
    /\ Holds(staging, queue[s][p].chunk)
    /\ \A d \in DOMAIN queue["copy"] : CoveredBy(queue["copy"][d].after, s, p)
Loading(s, p) ==
    /\ Holds(pinned, queue[s][p].chunk) /\ queue[s][p].after[1] = "copy"
    /\ \E d \in DOMAIN queue["copy"] :
          queue["copy"][d].chunk = queue[s][p].chunk /\ queue[s][p].after[2] = d
InstallsFed ==
    \A s \in Streams : \A p \in DOMAIN queue[s] : queue[s][p].op = "install" =>
        CoveredBy(consumerDone, s, p) /\ (Staged(s, p) \/ Loading(s, p))
TransferKnown ==
    /\ copyDone[1] = "copy" /\ issued["copy"] <= executed["copy"] + 1
    /\ CopyIdle \/ copyDone[2] = issued["copy"]
    /\ host.pc \in {"hits", "install"} =>
          IF CopyIdle THEN Holds(staging, Chunk)
          ELSE Holds(pinned, Chunk) /\ queue["copy"][issued["copy"]].chunk = Chunk
    /\ ticket => host.pc \in {"hits", "install"} \/ version = Empty

\* Place t of the cache holds row r for read k: now, or when the last install of an earlier read
\* that replaces it has executed.
Replacing(s, p, t, k) ==
    queue[s][p].op = "install" /\ queue[s][p].k < k /\ Replaces(queue[s][p].chunk, t)
Brings(s, p, t, r, k) ==
    /\ Replacing(s, p, t, k) /\ queue[s][p].chunk[Chosen(queue[s][p].chunk, t)] = r
    /\ \A q \in Streams : \A u \in DOMAIN queue[q] : Replacing(q, u, t, k) =>
          queue[q][u].k < queue[s][p].k \/ (queue[q][u].k = queue[s][p].k /\ u <= p)
HeldFor(t, r, k) ==
    \/ /\ values[t] = <<r, writes[r]>>
       /\ \A s \in Streams : \A p \in DOMAIN queue[s] : ~Replacing(s, p, t, k)
    \/ \E s \in Streams : \E p \in DOMAIN queue[s] : Brings(s, p, t, r, k)
TagsHeld == version = wversion => \A t \in Places : tags[t] # Empty => HeldFor(t, tags[t], Len(out) + 1)
HitsTagged == Reading => \A r \in host.hits : tags[PlaceOf(r)] = r
HitsHeld ==
    \A s \in Streams : \A p \in DOMAIN queue[s] : queue[s][p].op = "hits" =>
       \A r \in queue[s][p].rows : HeldFor(PlaceOf(r), r, queue[s][p].k)
TagsRight == TagsHeld /\ HitsTagged /\ HitsHeld

\* Every row of an output is there, on its way, or still to be issued; nobody writes the table
\* under a read.
Brought(c, r) == \/ c.op = "hits" /\ r \in c.rows
                 \/ c.op = "install" /\ Delivers(c.chunk, r)
Coming(k, r) == \E s \in Streams : \E p \in DOMAIN queue[s] : queue[s][p].k = k /\ Brought(queue[s][p], r)
Unissued(k, r) ==
    /\ k = Len(out) /\ Reading
    /\ \/ host.pc \in {"validate", "plan"} \/ r \in host.hits
       \/ \E j \in DOMAIN host.missing : host.start < j /\ host.missing[j] = r
InUse(k) ==
    \/ k = Len(out) /\ Reading
    \/ \E s \in Streams : \E p \in DOMAIN queue[s] : IsData(queue[s][p]) /\ queue[s][p].k = k
Expected(k) == out[k].last # NoEvent \/ (k = Len(out) /\ Reading)
Due(k, r) == out[k].got[r] = out[k].want[r] \/ Coming(k, r) \/ Unissued(k, r)
OutputsRight ==
    \A k \in DOMAIN out : \A r \in DOMAIN out[k].want :
        (Expected(k) => Due(k, r)) /\ (InUse(k) => out[k].want[r] = <<r, writes[r]>>)

EngramTypes == CacheTypes /\ StreamTypes /\ HostKnows
EngramInv ==
    EngramTypes /\ ReadsOrdered /\ HitsFirst /\ InstallsFed /\ TransferKnown /\ TagsRight /\ OutputsRight

-----------------------------------------------------------------------------
(* Places, chunks, streams *)

\* Every row has its place in the cache.
LEMMA PlaceType == \A r \in TableRows : PlaceOf(r) \in Places
BY EngramCacheAssumption DEF TableRows, PlaceOf, Places

\* The row of a chunk that stays at a place is one of the chunk.
LEMMA ChosenStays ==
    ASSUME NEW chunk, NEW t, Replaces(chunk, t)
    PROVE  Chosen(chunk, t) \in DOMAIN chunk /\ PlaceOf(chunk[Chosen(chunk, t)]) = t
BY DEF Replaces, Chosen, Stays

\* A row that a chunk delivers is found in it.
LEMMA IndexFound ==
    ASSUME NEW chunk, NEW r, Delivers(chunk, r)
    PROVE  IndexOf(chunk, r) \in DOMAIN chunk /\ chunk[IndexOf(chunk, r)] = r
BY DEF Delivers, IndexOf

\* A chunk fits the buffers and consists of rows of the table.
LEMMA ChunkType ==
    ASSUME NEW chunk \in RowChunks
    PROVE  \A i \in DOMAIN chunk : i \in Buffer /\ chunk[i] \in TableRows
<1>1. PICK n \in 0 .. StagingRows : chunk \in [1 .. n -> TableRows]
    BY DEF RowChunks
<1> QED BY <1>1, EngramCacheAssumption DEF Buffer

\* Nothing is read from the table but its rows.
LEMMA NothingInChunk == <<>> \in RowChunks
<1>1. <<>> \in [1 .. 0 -> TableRows]
    OBVIOUS
<1>2. 0 \in 0 .. StagingRows
    BY EngramCacheAssumption
<1> QED BY <1>1, <1>2 DEF RowChunks

\* The next chunk of a read with misses left.
LEMMA NextChunk ==
    ASSUME HostKnows, host.pc \in {"begin", "hits", "install"}
    PROVE  /\ Width \in 1 .. StagingRows /\ host.start + Width <= Len(host.missing)
           /\ Len(host.missing) \in Nat /\ host.start \in Nat
           /\ DOMAIN Chunk = 1 .. Width /\ Chunk \in RowChunks
           /\ \A i \in 1 .. Width : Chunk[i] = host.missing[host.start + i]
<1>1. /\ host.missing \in Seq(TableRows) /\ host.start \in Nat /\ host.start < Len(host.missing)
    BY DEF HostKnows, HostRecords
<1>2. Len(host.missing) \in Nat
    BY <1>1
<1>3. Width \in 1 .. StagingRows /\ host.start + Width <= Len(host.missing)
    BY <1>1, <1>2, EngramCacheAssumption DEF Width
<1>4. \A i \in 1 .. Width : host.start + i \in 1 .. Len(host.missing)
    BY <1>1, <1>2, <1>3
<1>5. \A i \in 1 .. Width : host.missing[host.start + i] \in TableRows
    BY <1>1, <1>4
<1>6. Chunk \in [1 .. Width -> TableRows]
    BY <1>5 DEF Chunk
<1>7. Width \in 0 .. StagingRows
    BY <1>3, EngramCacheAssumption
<1> QED BY <1>1, <1>2, <1>3, <1>6, <1>7 DEF Chunk, RowChunks

\* A command appended to stream s: the others keep their places.
Grows(s, c) ==
    /\ DOMAIN queue' = Queues
    /\ \A q \in Queues : \A p \in DOMAIN queue[q] : p \in DOMAIN queue'[q] /\ queue'[q][p] = queue[q][p]
    /\ \A q \in Queues : \A p \in DOMAIN queue'[q] :
          p \in DOMAIN queue[q] \/ (q = s /\ p = issued[s] + 1 /\ queue'[q][p] = c)
    /\ issued[s] + 1 \in DOMAIN queue'[s] /\ queue'[s][issued[s] + 1] = c
    /\ \A p \in DOMAIN queue[s] : p \in Nat /\ p <= issued[s]
    /\ \A q \in Queues : executed'[q] = executed[q] /\ issued'[q] = IF q = s THEN issued[s] + 1 ELSE issued[q]
    /\ issued[s] \in Nat

\* Issue appends one command to a stream, at the place after the last one issued.
LEMMA IssueGrows ==
    ASSUME StreamTypes, NEW s \in Queues, NEW c, Issue(s, c)
    PROVE  /\ Grows(s, c) /\ issued' \in [Queues -> Nat] /\ executed' = executed
           /\ \A q \in Queues : executed'[q] <= issued'[q] /\ DOMAIN queue'[q] = executed'[q] + 1 .. issued'[q]
<1>1. /\ issued \in [Queues -> Nat] /\ executed \in [Queues -> Nat] /\ DOMAIN queue = Queues
      /\ \A q \in Queues : executed[q] <= issued[q] /\ DOMAIN queue[q] = executed[q] + 1 .. issued[q]
    BY DEF StreamTypes
<1>2. PICK m \in Nat : m = issued[s] + 1
    BY <1>1
<1>3. /\ queue' = [queue EXCEPT ![s] = [p \in DOMAIN queue[s] \cup {m} |-> IF p = m THEN c ELSE queue[s][p]]]
      /\ issued' = [issued EXCEPT ![s] = m] /\ executed' = executed
    BY <1>2 DEF Issue
<1>4. \A p \in DOMAIN queue[s] : p \in Nat /\ p <= issued[s] /\ p # m
    BY <1>1, <1>2
<1>5. DOMAIN queue' = Queues /\ \A q \in Queues : q # s => queue'[q] = queue[q]
    BY <1>1, <1>3
<1>6. queue'[s] = [p \in DOMAIN queue[s] \cup {m} |-> IF p = m THEN c ELSE queue[s][p]]
    BY <1>1, <1>3
<1>7. DOMAIN queue'[s] = DOMAIN queue[s] \cup {m} /\ queue'[s][m] = c
    BY <1>6
<1>8. \A p \in DOMAIN queue[s] : queue'[s][p] = queue[s][p]
    BY <1>4, <1>6
<1>9. issued' \in [Queues -> Nat] /\ issued'[s] = m /\ \A q \in Queues : q # s => issued'[q] = issued[q]
    BY <1>1, <1>3
<1>10. DOMAIN queue'[s] = executed'[s] + 1 .. issued'[s] /\ executed'[s] <= issued'[s]
    BY <1>1, <1>2, <1>3, <1>7, <1>9
<1>11. Grows(s, c)
    BY <1>1, <1>2, <1>3, <1>4, <1>5, <1>7, <1>8, <1>9 DEF Grows
<1> QED BY <1>1, <1>3, <1>5, <1>9, <1>10, <1>11

\* The command at place h of stream s, its first, executed: the others keep their places.
Shrinks(s, h) ==
    /\ DOMAIN queue' = Queues
    /\ \A q \in Queues : \A p \in DOMAIN queue'[q] :
          p \in DOMAIN queue[q] /\ queue'[q][p] = queue[q][p] /\ ~(q = s /\ p = h)
    /\ \A q \in Queues : \A p \in DOMAIN queue[q] : p \in DOMAIN queue'[q] \/ (q = s /\ p = h)
    /\ h \in DOMAIN queue[s] /\ \A p \in DOMAIN queue[s] : p \in Nat /\ h <= p
    /\ \A q \in Queues : issued'[q] = issued[q] /\ executed'[q] = IF q = s THEN h ELSE executed[q]
    /\ h \in Nat /\ h = executed[s] + 1

\* An executed command leaves its stream, whose next place is the first pending one.
LEMMA ExecuteShrinks ==
    ASSUME StreamTypes, NEW s \in Queues, Execute(s), NEW h, h = executed[s] + 1
    PROVE  /\ Shrinks(s, h) /\ executed' \in [Queues -> Nat] /\ issued' = issued
           /\ \A q \in Queues : executed'[q] <= issued'[q] /\ DOMAIN queue'[q] = executed'[q] + 1 .. issued'[q]
<1>1. /\ issued \in [Queues -> Nat] /\ executed \in [Queues -> Nat] /\ DOMAIN queue = Queues
      /\ \A q \in Queues : executed[q] <= issued[q] /\ DOMAIN queue[q] = executed[q] + 1 .. issued[q]
    BY DEF StreamTypes
<1>2. h \in Nat /\ executed[s] < issued[s]
    BY <1>1 DEF Execute
<1>3. /\ queue' = [queue EXCEPT ![s] = [p \in DOMAIN queue[s] \ {h} |-> queue[s][p]]]
      /\ executed' = [executed EXCEPT ![s] = h] /\ issued' = issued
    BY DEF Execute
<1>4. h \in DOMAIN queue[s] /\ \A p \in DOMAIN queue[s] : p \in Nat /\ h <= p
    BY <1>1, <1>2
<1>5. DOMAIN queue' = Queues /\ \A q \in Queues : q # s => queue'[q] = queue[q]
    BY <1>1, <1>3
<1>6. queue'[s] = [p \in DOMAIN queue[s] \ {h} |-> queue[s][p]]
    BY <1>1, <1>3
<1>7. DOMAIN queue'[s] = DOMAIN queue[s] \ {h} /\ \A p \in DOMAIN queue'[s] : queue'[s][p] = queue[s][p]
    BY <1>6
<1>8. executed' \in [Queues -> Nat] /\ executed'[s] = h /\ \A q \in Queues : q # s => executed'[q] = executed[q]
    BY <1>1, <1>2, <1>3
<1>9. DOMAIN queue'[s] = executed'[s] + 1 .. issued'[s] /\ executed'[s] <= issued'[s]
    BY <1>1, <1>2, <1>3, <1>4, <1>7, <1>8
<1>10. Shrinks(s, h)
    BY <1>1, <1>2, <1>3, <1>4, <1>5, <1>7, <1>8 DEF Shrinks
<1> QED BY <1>1, <1>3, <1>5, <1>8, <1>9, <1>10

\* The streams of callers are not the copy stream.
LEMMA StreamIsQueue == "copy" \in Queues /\ \A s \in Streams : s \in Queues /\ s # "copy"
BY EngramCacheAssumption DEF Queues

-----------------------------------------------------------------------------
(* Events that come after commands *)

\* The places of a stream are beyond what it has executed.
LEMMA PendingBeyond ==
    ASSUME StreamTypes, NEW s \in Queues, NEW p \in DOMAIN queue[s]
    PROVE  p \in Nat /\ executed[s] \in Nat /\ executed[s] < p /\ p <= issued[s]
BY DEF StreamTypes

\* When an event has happened, nothing it comes after is pending.
LEMMA HappenedCovers ==
    ASSUME StreamTypes, NEW e \in Events, Happened(e), NEW s \in Streams, NEW p \in DOMAIN queue[s]
    PROVE  ~CoveredBy(e, s, p)
<1>1. e[1] \in Queues /\ e[2] \in Nat
    BY DEF Events
<1>2. executed[e[1]] >= e[2] /\ executed[e[1]] \in Nat
    BY <1>1 DEF Happened, StreamTypes
<1>3. ASSUME s = e[1], p <= e[2] PROVE FALSE
    BY <1>1, <1>2, <1>3, PendingBeyond
<1>4. ASSUME NEW b \in DOMAIN queue[e[1]], b <= e[2] PROVE FALSE
    BY <1>1, <1>2, <1>4, PendingBeyond
<1> QED BY <1>3, <1>4 DEF CoveredBy

\* What an issue leaves as it is.
LEMMA CoveredGrows ==
    ASSUME NEW s \in Queues, NEW c, Grows(s, c), NEW e \in Events,
           NEW q \in Streams, NEW p \in DOMAIN queue[q], CoveredBy(e, q, p)
    PROVE  CoveredBy(e, q, p)'
<1>1. e[1] \in Queues /\ q \in Queues
    BY StreamIsQueue DEF Events
<1>2. queue'[q][p] = queue[q][p]
    BY <1>1 DEF Grows
<1>3. \A b \in DOMAIN queue[e[1]] : b \in DOMAIN queue'[e[1]] /\ queue'[e[1]][b] = queue[e[1]][b]
    BY <1>1 DEF Grows
<1> QED BY <1>2, <1>3 DEF CoveredBy

\* An event stays behind the commands of the reads up to j when a later read issues one.
LEMMA CoversToGrows ==
    ASSUME NEW s \in Queues, NEW c, Grows(s, c), NEW e \in Events, NEW j \in Int, CoversTo(e, j),
           IsData(c) /\ s \in Streams => c.k > j /\ c.k \in Nat
    PROVE  CoversTo(e, j)'
<1> SUFFICES ASSUME NEW q \in Streams, NEW p \in DOMAIN queue'[q],
                    IsData(queue'[q][p]), queue'[q][p].k <= j
             PROVE  CoveredBy(e, q, p)'
    BY DEF CoversTo
<1>1. q \in Queues
    BY StreamIsQueue
<1>2. CASE p \in DOMAIN queue[q]
    <2>1. queue'[q][p] = queue[q][p]
        BY <1>1, <1>2 DEF Grows
    <2>2. CoveredBy(e, q, p)
        BY <1>2, <2>1 DEF CoversTo
    <2> QED BY <1>2, <2>2, CoveredGrows
<1>3. CASE p \notin DOMAIN queue[q]
    <2>1. q = s /\ queue'[q][p] = c
        BY <1>1, <1>3 DEF Grows
    <2> QED BY <2>1
<1> QED BY <1>2, <1>3

\* The end of a stream comes after what was issued there too.
LEMMA CoversToEnd ==
    ASSUME NEW s \in Streams, NEW c, Grows(s, c), NEW j \in Int, NEW m, m = issued[s] + 1,
           CoversTo(<<s, issued[s]>>, j)
    PROVE  CoversTo(<<s, m>>, j)'
<1> SUFFICES ASSUME NEW q \in Streams, NEW p \in DOMAIN queue'[q],
                    IsData(queue'[q][p]), queue'[q][p].k <= j
             PROVE  CoveredBy(<<s, m>>, q, p)'
    BY DEF CoversTo
<1>0. q \in Queues /\ s \in Queues /\ issued[s] \in Nat /\ m \in Nat
    BY StreamIsQueue DEF Grows
<1>1. CASE p \in DOMAIN queue[q]
    <2>1. queue'[q][p] = queue[q][p]
        BY <1>0, <1>1 DEF Grows
    <2>2. CoveredBy(<<s, issued[s]>>, q, p)
        BY <1>1, <2>1 DEF CoversTo
    <2>3. CASE q = s /\ p <= issued[s]
        <3>1. p <= m
            BY <1>0, <1>1, <2>3 DEF Grows
        <3> QED BY <2>3, <3>1 DEF CoveredBy
    <2>4. ASSUME NEW b \in DOMAIN queue[s], b <= issued[s], queue[s][b].op = "wait", queue[s][b].k > queue[q][p].k
          PROVE  CoveredBy(<<s, m>>, q, p)'
        <3>1. b \in DOMAIN queue'[s] /\ queue'[s][b] = queue[s][b] /\ b <= m
            BY <1>0, <2>4 DEF Grows
        <3> QED BY <2>1, <2>4, <3>1 DEF CoveredBy
    <2> QED BY <2>2, <2>3, <2>4 DEF CoveredBy
<1>2. CASE p \notin DOMAIN queue[q]
    <2>1. q = s /\ p = m
        BY <1>0, <1>2 DEF Grows
    <2> QED BY <1>0, <2>1 DEF CoveredBy
<1> QED BY <1>1, <1>2

\* A wait of a later read stands for everything the earlier reads issued.
LEMMA CoversToWait ==
    ASSUME NEW s \in Streams, NEW c, Grows(s, c), NEW m, m = issued[s] + 1, NEW j \in Nat,
           c.op = "wait", c.k = j,
           \A q \in Streams : \A p \in DOMAIN queue[q] : queue[q][p].k \in Nat /\ queue[q][p].k < j
    PROVE  CoversTo(<<s, m>>, j)'
<1> SUFFICES ASSUME NEW q \in Streams, NEW p \in DOMAIN queue'[q], IsData(queue'[q][p])
             PROVE  CoveredBy(<<s, m>>, q, p)'
    BY DEF CoversTo
<1>0. q \in Queues /\ s \in Queues /\ issued[s] \in Nat /\ m \in Nat
    BY StreamIsQueue DEF Grows
<1>1. m \in DOMAIN queue'[s] /\ queue'[s][m] = c
    BY DEF Grows
<1>2. p \in DOMAIN queue[q] /\ queue'[q][p] = queue[q][p]
    BY <1>0, <1>1 DEF Grows, IsData
<1>3. m <= m /\ c.k > queue'[q][p].k
    BY <1>0, <1>2
<1> QED BY <1>1, <1>3 DEF CoveredBy

\* An event that comes after more reads comes after fewer.
LEMMA CoversToLess ==
    ASSUME StreamTypes, NEW e, NEW i \in Int, NEW j \in Int, i <= j, CoversTo(e, j)
    PROVE  CoversTo(e, i)
<1>1. \A s \in Streams : \A p \in DOMAIN queue[s] : queue[s][p].k \in Nat
    BY DEF StreamTypes, StreamCommands
<1> QED BY <1>1 DEF CoversTo

\* When an event has happened, the reads it comes after are over.
LEMMA ReadsOver ==
    ASSUME StreamTypes, NEW e \in Events, NEW j, Happened(e), CoversTo(e, j)
    PROVE  \A s \in Streams : \A p \in DOMAIN queue[s] : ~(IsData(queue[s][p]) /\ queue[s][p].k <= j)
BY HappenedCovers DEF CoversTo

\* What an execution leaves as it is: a wait that passes has nothing of an earlier read left.
LEMMA CoveredShrinks ==
    ASSUME StreamTypes, ReadsOrdered, NEW s \in Queues, NEW h, Shrinks(s, h), Happened(queue[s][h].after),
           NEW e \in Events, NEW q \in Streams, NEW p \in DOMAIN queue'[q], IsData(queue[q][p]), CoveredBy(e, q, p)
    PROVE  CoveredBy(e, q, p)'
<1>0. e[1] \in Queues /\ q \in Queues
    BY StreamIsQueue DEF Events
<1>1. p \in DOMAIN queue[q] /\ queue'[q][p] = queue[q][p]
    BY <1>0 DEF Shrinks
<1>2. CASE q = e[1] /\ p <= e[2]
    BY <1>2 DEF CoveredBy
<1>3. ASSUME NEW b \in DOMAIN queue[e[1]], b <= e[2], queue[e[1]][b].op = "wait", queue[e[1]][b].k > queue[q][p].k
      PROVE  CoveredBy(e, q, p)'
    <2>1. CASE b \in DOMAIN queue'[e[1]]
        <3>1. queue'[e[1]][b] = queue[e[1]][b]
            BY <1>0, <2>1 DEF Shrinks
        <3> QED BY <1>1, <1>3, <2>1, <3>1 DEF CoveredBy
    <2>2. CASE e[1] = s /\ b = h
        <3>1. s \in Streams
            <4>1. CASE s = "copy"
                BY <1>3, <2>2, <4>1 DEF StreamTypes, CopyCommands
            <4> QED BY <4>1 DEF Queues
        <3>2. queue[s][h] \in StreamCommands /\ queue[q][p].k \in Nat
            BY <1>1, <1>3, <2>2, <3>1 DEF StreamTypes, StreamCommands
        <3>3. queue[s][h].after \in Events /\ queue[s][h].k \in Nat
            BY <3>2 DEF StreamCommands
        <3>4. ~IsData(queue[s][h])
            BY <1>3, <2>2 DEF IsData
        <3>5. CoversTo(queue[s][h].after, queue[s][h].k - 1)
            BY <1>3, <2>2, <3>1, <3>4 DEF ReadsOrdered, CommandsOrdered
        <3>6. ~(IsData(queue[q][p]) /\ queue[q][p].k <= queue[s][h].k - 1)
            BY <1>1, <3>3, <3>5, ReadsOver
        <3> QED BY <1>3, <2>2, <3>2, <3>3, <3>6
    <2> QED BY <1>0, <1>3, <2>1, <2>2 DEF Shrinks
<1> QED BY <1>2, <1>3 DEF CoveredBy

\* Nor does executing a command undo that, even a wait through which the event is behind others:
\* what the wait comes after has happened.
LEMMA CoversToShrinks ==
    ASSUME StreamTypes, ReadsOrdered, NEW s \in Queues, NEW h, Shrinks(s, h), Happened(queue[s][h].after),
           NEW e \in Events, NEW j, CoversTo(e, j)
    PROVE  CoversTo(e, j)'
<1> SUFFICES ASSUME NEW q \in Streams, NEW p \in DOMAIN queue'[q], IsData(queue'[q][p]), queue'[q][p].k <= j
             PROVE  CoveredBy(e, q, p)'
    BY DEF CoversTo
<1>1. p \in DOMAIN queue[q] /\ queue'[q][p] = queue[q][p]
    BY StreamIsQueue DEF Shrinks
<1>2. CoveredBy(e, q, p)
    BY <1>1 DEF CoversTo
<1> QED BY <1>1, <1>2, CoveredShrinks

\* The command that executes has nothing of an earlier read left before it, and nothing of its
\* own read.
LEMMA FirstOfAll ==
    ASSUME StreamTypes, ReadsOrdered, HitsFirst, NEW s \in Streams, NEW h, Shrinks(s, h), IsData(queue[s][h]),
           NEW q \in Streams, NEW p \in DOMAIN queue[q], IsData(queue[q][p])
    PROVE  /\ queue[s][h].k <= queue[q][p].k /\ queue[s][h].k \in Nat /\ queue[q][p].k \in Nat
           /\ queue[q][p].k = queue[s][h].k => q = s /\ h <= p
<1>0. s \in Queues /\ q \in Queues
    BY StreamIsQueue
<1>1. h \in DOMAIN queue[s] /\ h \in Nat /\ \A b \in DOMAIN queue[s] : b \in Nat /\ h <= b
    BY DEF Shrinks
<1>2. queue[s][h].k \in Nat /\ queue[q][p].k \in Nat
    BY <1>1 DEF StreamTypes, StreamCommands
<1>3. CoversTo(<<s, h>>, queue[s][h].k - 1)
    BY <1>1 DEF ReadsOrdered, CommandsOrdered
<1>4. queue[s][h].k <= queue[q][p].k
    <2> SUFFICES ASSUME queue[q][p].k < queue[s][h].k PROVE FALSE
        BY <1>2
    <2>1. CoveredBy(<<s, h>>, q, p)
        BY <1>2, <1>3 DEF CoversTo
    <2>2. ~\E b \in DOMAIN queue[s] : b <= h /\ queue[s][b].op = "wait"
        BY <1>1 DEF IsData
    <2>3. q = s /\ p <= h
        BY <2>1, <2>2 DEF CoveredBy
    <2>4. p = h
        BY <1>1, <2>3
    <2> QED BY <1>2, <2>3, <2>4
<1>5. queue[q][p].k = queue[s][h].k => q = s /\ h <= p
    BY <1>1 DEF HitsFirst, HitsBeforeInstalls
<1> QED BY <1>2, <1>4, <1>5

-----------------------------------------------------------------------------
(* Types *)

\* Rows copied to the output of read k change nothing else of any output.
LEMMA FilledOutput ==
    ASSUME HostKnows, NEW k \in DOMAIN out, NEW g \in [DOMAIN out[k].got -> RowValues],
           out' = [out EXCEPT ![k] = [out[k] EXCEPT !.got = g]]
    PROVE  /\ out' \in Seq(Outputs) /\ Len(out') = Len(out) /\ DOMAIN out' = DOMAIN out /\ out'[k].got = g
           /\ \A j \in DOMAIN out : out'[j].want = out[j].want /\ out'[j].last = out[j].last
                                    /\ DOMAIN out'[j].got = DOMAIN out[j].got
           /\ \A j \in DOMAIN out : j # k => out'[j].got = out[j].got
<1>1. out \in Seq(Outputs)
    BY DEF HostKnows
<1>2. out[k] \in Outputs
    BY <1>1
<1>3. PICK S \in SUBSET TableRows : out[k].got \in [S -> RowValues]
    BY <1>2 DEF Outputs, RowMaps
<1>4. g \in RowMaps /\ DOMAIN g = DOMAIN out[k].got
    BY <1>3 DEF RowMaps
<1>5. PICK o : o = [out[k] EXCEPT !.got = g]
    OBVIOUS
<1>6. o \in Outputs /\ o.got = g /\ o.want = out[k].want /\ o.last = out[k].last
    BY <1>2, <1>4, <1>5 DEF Outputs
<1>7. out' = [out EXCEPT ![k] = o]
    BY <1>5
<1>8. out' \in Seq(Outputs) /\ Len(out') = Len(out) /\ DOMAIN out' = DOMAIN out /\ out'[k] = o
      /\ \A j \in DOMAIN out : j # k => out'[j] = out[j]
    BY <1>1, <1>6, <1>7
<1> QED BY <1>4, <1>6, <1>8

\* What the execution of hits and of an install do to the output.
LEMMA HitsFill ==
    ASSUME EngramTypes, NEW c \in StreamCommands, c.k \in DOMAIN out, CopiesHits(c)
    PROVE  \E g \in [DOMAIN out[c.k].got -> RowValues] :
              /\ out' = [out EXCEPT ![c.k] = [out[c.k] EXCEPT !.got = g]]
              /\ \A r \in DOMAIN out[c.k].got : g[r] = IF r \in c.rows THEN values[PlaceOf(r)] ELSE out[c.k].got[r]
<1>1. out[c.k] \in Outputs
    BY DEF EngramTypes, HostKnows
<1>2. PICK S \in SUBSET TableRows : out[c.k].got \in [S -> RowValues]
    BY <1>1 DEF Outputs, RowMaps
<1> DEFINE g == [r \in DOMAIN out[c.k].got |-> IF r \in c.rows THEN values[PlaceOf(r)] ELSE out[c.k].got[r]]
<1>3. \A r \in DOMAIN out[c.k].got : values[PlaceOf(r)] \in RowValues /\ out[c.k].got[r] \in RowValues
    BY <1>2, PlaceType DEF EngramTypes, CacheTypes
<1>4. g \in [DOMAIN out[c.k].got -> RowValues]
    BY <1>3
<1>5. out' = [out EXCEPT ![c.k] = [out[c.k] EXCEPT !.got = g]]
    BY DEF CopiesHits, Filled
<1> QED BY <1>4, <1>5

\* An install copies staged rows to the output of its read.
LEMMA InstallFill ==
    ASSUME EngramTypes, NEW c \in StreamCommands, c.k \in DOMAIN out, InstallsRows(c)
    PROVE  \E g \in [DOMAIN out[c.k].got -> RowValues] :
              /\ out' = [out EXCEPT ![c.k] = [out[c.k] EXCEPT !.got = g]]
              /\ \A r \in DOMAIN out[c.k].got :
                    g[r] = IF Delivers(c.chunk, r) THEN staging[IndexOf(c.chunk, r)] ELSE out[c.k].got[r]
<1>1. out[c.k] \in Outputs
    BY DEF EngramTypes, HostKnows
<1>2. PICK S \in SUBSET TableRows : out[c.k].got \in [S -> RowValues]
    BY <1>1 DEF Outputs, RowMaps
<1> DEFINE g == [r \in DOMAIN out[c.k].got |->
                    IF r \in {x \in TableRows : Delivers(c.chunk, x)} THEN staging[IndexOf(c.chunk, r)]
                    ELSE out[c.k].got[r]]
<1>3. c.chunk \in RowChunks
    BY DEF StreamCommands
<1>4. ASSUME NEW r \in DOMAIN out[c.k].got, Delivers(c.chunk, r)
      PROVE  staging[IndexOf(c.chunk, r)] \in RowValues
    BY <1>3, <1>4, IndexFound, ChunkType DEF EngramTypes, CacheTypes
<1>5. g \in [DOMAIN out[c.k].got -> RowValues]
    BY <1>2, <1>4
<1>6. out' = [out EXCEPT ![c.k] = [out[c.k] EXCEPT !.got = g]]
    BY DEF InstallsRows, Filled
<1>7. \A r \in DOMAIN out[c.k].got :
         g[r] = IF Delivers(c.chunk, r) THEN staging[IndexOf(c.chunk, r)] ELSE out[c.k].got[r]
    BY <1>2
<1> QED BY <1>5, <1>6, <1>7

\* What an execution does to the outputs, whatever the command.
OutputsKept ==
    /\ out' \in Seq(Outputs) /\ Len(out') = Len(out) /\ DOMAIN out' = DOMAIN out
    /\ \A j \in DOMAIN out : out'[j].want = out[j].want /\ out'[j].last = out[j].last
                             /\ DOMAIN out'[j].got = DOMAIN out[j].got

\* An executed command changes of the outputs only the rows that have arrived.
LEMMA ExecuteKeepsOutputs ==
    ASSUME EngramTypes, NEW s \in Queues, Execute(s)
    PROVE  OutputsKept
<1> DEFINE h == executed[s] + 1
           c == queue[s][h]
<1>1. Passes(c) \/ Transfers(c) \/ CopiesHits(c) \/ InstallsRows(c)
    BY DEF Execute
<1>2. h \in DOMAIN queue[s]
    BY ExecuteShrinks DEF Shrinks, EngramTypes
<1>3. out \in Seq(Outputs)
    BY DEF EngramTypes, HostKnows
<1>4. CASE Passes(c) \/ Transfers(c)
    BY <1>3, <1>4 DEF Passes, Transfers, OutputsKept
<1>5. CASE CopiesHits(c) \/ InstallsRows(c)
    <2>1. c \in StreamCommands /\ c.k \in DOMAIN out
        <3>1. IsData(c)
            BY <1>5 DEF CopiesHits, InstallsRows, IsData
        <3>2. s \in Streams
            <4>1. CASE s = "copy"
                BY <1>2, <3>1, <4>1 DEF EngramTypes, StreamTypes, CopyCommands, IsData
            <4> QED BY <4>1 DEF Queues
        <3> QED BY <1>2, <3>1, <3>2 DEF EngramTypes, StreamTypes
    <2> HIDE DEF c
    <2>2. PICK g \in [DOMAIN out[c.k].got -> RowValues] : out' = [out EXCEPT ![c.k] = [out[c.k] EXCEPT !.got = g]]
        BY <1>5, <2>1, HitsFill, InstallFill
    <2>3. HostKnows
        BY DEF EngramTypes
    <2> QED BY <2>1, <2>2, <2>3, FilledOutput DEF OutputsKept
<1> QED BY <1>1, <1>4, <1>5

\* An execution keeps the types.
LEMMA ExecuteTypes ==
    ASSUME EngramTypes, NEW s \in Queues, Execute(s)
    PROVE  EngramTypes'
<1>0. OutputsKept
    BY ExecuteKeepsOutputs
<1> DEFINE h == executed[s] + 1
           c == queue[s][h]
<1>1. Passes(c) \/ Transfers(c) \/ CopiesHits(c) \/ InstallsRows(c)
    BY DEF Execute
<1>2. UNCHANGED <<writes, wversion, tags, version, event, copyDone, consumerDone, pinned, host>>
    BY DEF Execute, rowVars, rowCacheVars
<1>3. /\ Shrinks(s, h) /\ executed' \in [Queues -> Nat] /\ issued' = issued
      /\ \A q \in Queues : executed'[q] <= issued'[q] /\ DOMAIN queue'[q] = executed'[q] + 1 .. issued'[q]
    BY ExecuteShrinks DEF EngramTypes
<1>4. StreamTypes'
    <2>0. StreamTypes
        BY DEF EngramTypes
    <2>1. ASSUME NEW q \in Streams, NEW p \in DOMAIN queue'[q]
          PROVE  /\ queue'[q][p] \in StreamCommands /\ queue'[q][p].k <= Len(out')
                 /\ IsData(queue'[q][p]) => queue'[q][p].k \in DOMAIN out'
        <3>1. p \in DOMAIN queue[q] /\ queue'[q][p] = queue[q][p]
            BY <1>3, StreamIsQueue DEF Shrinks
        <3> QED BY <1>0, <2>0, <3>1 DEF StreamTypes, OutputsKept
    <2>2. ASSUME NEW p \in DOMAIN queue'["copy"] PROVE queue'["copy"][p] \in CopyCommands
        <3>1. p \in DOMAIN queue["copy"] /\ queue'["copy"][p] = queue["copy"][p]
            BY <1>3, StreamIsQueue DEF Shrinks
        <3> QED BY <2>0, <3>1 DEF StreamTypes
    <2>3. DOMAIN queue' = Queues /\ issued' \in [Queues -> Nat]
        BY <1>3, <2>0 DEF Shrinks, StreamTypes
    <2> QED BY <1>3, <2>1, <2>2, <2>3 DEF StreamTypes
<1>5. HostKnows'
    <2>0. HostKnows
        BY DEF EngramTypes
    <2>1. /\ out' \in Seq(Outputs) /\ Len(out') = Len(out) /\ DOMAIN out' = DOMAIN out
          /\ \A j \in DOMAIN out : out'[j].want = out[j].want /\ out'[j].last = out[j].last
                                   /\ DOMAIN out'[j].got = DOMAIN out[j].got
        BY <1>0 DEF OutputsKept
    <2>2. \A k \in DOMAIN out' : DOMAIN out'[k].got = DOMAIN out'[k].want
        BY <2>0, <2>1 DEF HostKnows
    <2>3. out # <<>> => out' # <<>> /\ Len(out) \in DOMAIN out
        BY <2>0, <2>1 DEF HostKnows
    <2> QED BY <1>2, <2>0, <2>1, <2>2, <2>3 DEF HostKnows, Reading
<1>6. CacheTypes'
    <2>0. CacheTypes
        BY DEF EngramTypes
    <2>1. h \in DOMAIN queue[s]
        BY <1>3 DEF Shrinks
    <2>2. c.chunk \in RowChunks
        <3>1. CASE s = "copy"
            BY <2>1, <3>1 DEF EngramTypes, StreamTypes, CopyCommands
        <3>2. CASE s \in Streams
            BY <2>1, <3>2 DEF EngramTypes, StreamTypes, StreamCommands
        <3> QED BY <3>1, <3>2 DEF Queues
    <2> HIDE DEF c
    <2>3. values' \in [Places -> RowValues]
        <3>1. CASE InstallsRows(c)
            <4>1. ASSUME NEW t \in Places, Replaces(c.chunk, t) PROVE staging[Chosen(c.chunk, t)] \in RowValues
                BY <2>0, <2>2, <4>1, ChosenStays, ChunkType DEF CacheTypes
            <4> QED BY <2>0, <3>1, <4>1 DEF CacheTypes, InstallsRows
        <3> QED BY <1>1, <2>0, <3>1 DEF CacheTypes, Passes, Transfers, CopiesHits
    <2>4. staging' \in [Buffer -> RowValues]
        BY <1>1, <2>0 DEF CacheTypes, Passes, Transfers, CopiesHits, InstallsRows
    <2> QED BY <1>2, <2>0, <2>3, <2>4 DEF CacheTypes
<1> QED BY <1>4, <1>5, <1>6 DEF EngramTypes

\* Issuing a command of a caller's stream, or a transfer, keeps the streams typed.
LEMMA IssueTypes ==
    ASSUME StreamTypes, NEW s \in Queues, NEW c, Issue(s, c),
           DOMAIN out \subseteq DOMAIN out', Len(out) <= Len(out'), Len(out) \in Nat, Len(out') \in Nat,
           s \in Streams => c \in StreamCommands /\ c.k <= Len(out') /\ (IsData(c) => c.k \in DOMAIN out'),
           s = "copy" => c \in CopyCommands
    PROVE  StreamTypes'
<1>1. /\ Grows(s, c) /\ issued' \in [Queues -> Nat] /\ executed' = executed
      /\ \A q \in Queues : executed'[q] <= issued'[q] /\ DOMAIN queue'[q] = executed'[q] + 1 .. issued'[q]
    BY IssueGrows
<1>2. ASSUME NEW q \in Streams, NEW p \in DOMAIN queue'[q]
      PROVE  /\ queue'[q][p] \in StreamCommands /\ queue'[q][p].k <= Len(out')
             /\ IsData(queue'[q][p]) => queue'[q][p].k \in DOMAIN out'
    <2>0. q \in Queues
        BY StreamIsQueue
    <2>1. CASE p \in DOMAIN queue[q]
        <3>1. queue'[q][p] = queue[q][p]
            BY <1>1, <2>0, <2>1 DEF Grows
        <3>2. queue[q][p] \in StreamCommands /\ queue[q][p].k <= Len(out)
              /\ (IsData(queue[q][p]) => queue[q][p].k \in DOMAIN out)
            BY <2>1 DEF StreamTypes
        <3>3. queue[q][p].k \in Nat
            BY <3>2 DEF StreamCommands
        <3> QED BY <3>1, <3>2, <3>3
    <2>2. CASE p \notin DOMAIN queue[q]
        BY <1>1, <2>0, <2>2 DEF Grows
    <2> QED BY <2>1, <2>2
<1>3. ASSUME NEW p \in DOMAIN queue'["copy"] PROVE queue'["copy"][p] \in CopyCommands
    <2>1. CASE p \in DOMAIN queue["copy"]
        BY <1>1, <2>1, StreamIsQueue DEF Grows, StreamTypes
    <2>2. CASE p \notin DOMAIN queue["copy"]
        BY <1>1, <2>2, StreamIsQueue DEF Grows
    <2> QED BY <2>1, <2>2
<1>4. DOMAIN queue' = Queues /\ executed' \in [Queues -> Nat]
    BY <1>1 DEF Grows, StreamTypes
<1> QED BY <1>1, <1>2, <1>3, <1>4 DEF StreamTypes

\* A step that leaves the streams and the number of outputs alone.
LEMMA StreamsKept ==
    ASSUME StreamTypes, UNCHANGED <<queue, issued, executed, out>>
    PROVE  StreamTypes'
BY DEF StreamTypes

\* The event a stream records next.
LEMMA RecordedType ==
    ASSUME StreamTypes, NEW s \in Queues, NEW n \in Nat
    PROVE  Recorded(s, n) \in Events /\ Recorded(s, n)[1] = s /\ Recorded(s, n)[2] = issued[s] + n
BY DEF StreamTypes, Recorded, Events

\* None is an event of the copy stream that has always happened.
LEMMA NoEventType == NoEvent \in Events /\ NoEvent[1] = "copy" /\ NoEvent[2] = 0
BY DEF NoEvent, Events, Queues

\* A read that returns: only its own output changes, and there only the event.
LEMMA ReturnedOutput ==
    ASSUME HostKnows, StreamTypes, Reading, Returned
    PROVE  /\ out' \in Seq(Outputs) /\ Len(out') = Len(out) /\ DOMAIN out' = DOMAIN out
           /\ Len(out) \in DOMAIN out /\ Len(out) \in Nat
           /\ \A j \in DOMAIN out : out'[j].want = out[j].want /\ out'[j].got = out[j].got
           /\ \A j \in DOMAIN out : j # Len(out) => out'[j].last = out[j].last
           /\ out'[Len(out)].last = Recorded(host.s, 1) /\ event' = Recorded(host.s, 1) /\ event' \in Events
           /\ host' = IdleHost
<1>1. out \in Seq(Outputs) /\ out # <<>> /\ host.s \in Queues
    BY DEF HostKnows, HostRecords
<1>2. PICK K \in Nat : K = Len(out)
    BY <1>1
<1>3. K \in DOMAIN out /\ out[K] \in Outputs
    BY <1>1, <1>2
<1>4. PICK e \in Events : e = Recorded(host.s, 1)
    BY <1>1, RecordedType
<1>5. PICK o : o = [out[K] EXCEPT !.last = e]
    OBVIOUS
<1>6. o \in Outputs /\ o.want = out[K].want /\ o.got = out[K].got /\ o.last = e
    BY <1>3, <1>5 DEF Outputs
<1>7. out' = [out EXCEPT ![K] = o] /\ event' = e /\ host' = IdleHost
    BY <1>2, <1>4, <1>5 DEF Returned
<1>8. out' \in Seq(Outputs) /\ Len(out') = Len(out) /\ DOMAIN out' = DOMAIN out /\ out'[K] = o
      /\ \A j \in DOMAIN out : j # K => out'[j] = out[j]
    BY <1>1, <1>3, <1>6, <1>7
<1> QED BY <1>2, <1>3, <1>4, <1>6, <1>7, <1>8

\* Nobody reads: what is left to know about the host.
LEMMA IdleKnows ==
    ASSUME NEW o \in Seq(Outputs), \A k \in DOMAIN o : DOMAIN o[k].got = DOMAIN o[k].want,
           out' = o, host' = IdleHost
    PROVE  HostKnows'
<1>1. IdleHost \in HostRecords /\ IdleHost.pc = "idle"
    BY DEF IdleHost, HostRecords, Queues
<1> QED BY <1>1 DEF HostKnows, Reading

\* What each call issues is a command of its stream.
LEMMA CommandTypes ==
    ASSUME EngramTypes
    PROVE  /\ \A k \in Nat : \A e \in Events : Command("wait", k, e, {}, <<>>) \in StreamCommands
           /\ \A k \in Nat : \A e \in Events : \A f \in RowChunks :
                 /\ Command("install", k, e, {}, f) \in StreamCommands
                 /\ Command("dma", k, e, {}, f) \in CopyCommands
           /\ \A S \in SUBSET TableRows : HitsCommand(S) \in StreamCommands
           /\ Len(out) \in Nat
<1>1. Len(out) \in Nat
    BY DEF EngramTypes, HostKnows
<1> QED BY <1>1, NothingInChunk, NoEventType DEF Command, HitsCommand, StreamCommands, CopyCommands

\* The types of every other step of the host.
LEMMA ReadTypes ==
    ASSUME EngramTypes, NEW s \in Streams, NEW ids \in SUBSET TableRows, Read(s, ids)
    PROVE  EngramTypes'
<1>1. CacheTypes' /\ event \in Events /\ version' = version /\ wversion' = wversion
    BY DEF Read, EngramTypes, CacheTypes, rowVars, rowCacheVars, bufferVars
<1>2. out \in Seq(Outputs) /\ writes \in [TableRows -> Nat]
    BY DEF EngramTypes, HostKnows, CacheTypes
<1>3. PICK o : o = [want |-> [r \in ids |-> <<r, writes[r]>>], got |-> [r \in ids |-> Garbage], last |-> NoEvent]
    OBVIOUS
<1>4. [r \in ids |-> <<r, writes[r]>>] \in RowMaps /\ [r \in ids |-> Garbage] \in RowMaps
    <2>1. [r \in ids |-> <<r, writes[r]>>] \in [ids -> RowValues]
        BY <1>2 DEF RowValues, TableRows
    <2>2. [r \in ids |-> Garbage] \in [ids -> RowValues]
        BY DEF RowValues, Garbage
    <2> QED BY <2>1, <2>2 DEF RowMaps
<1>5. o \in Outputs /\ o.last = NoEvent /\ DOMAIN o.want = ids /\ DOMAIN o.got = ids
    BY <1>3, <1>4, NoEventType DEF Outputs
<1>6. out' = Append(out, o)
    BY <1>3 DEF Read
<1>7. out' \in Seq(Outputs) /\ Len(out') = Len(out) + 1 /\ Len(out) \in Nat /\ Len(out') \in Nat
      /\ DOMAIN out \subseteq DOMAIN out' /\ out'[Len(out')] = o /\ out' # <<>>
      /\ \A k \in DOMAIN out' : (k \in DOMAIN out /\ out'[k] = out[k]) \/ out'[k] = o
    BY <1>2, <1>5, <1>6
<1>8. StreamTypes'
    <2>1. PICK c : c = Command("wait", Len(out) + 1, event, {}, <<>>)
        OBVIOUS
    <2>2. c \in StreamCommands
        BY <1>1, <1>7, <2>1, CommandTypes
    <2>3. c.k = Len(out) + 1 /\ ~IsData(c)
        BY <2>1 DEF Command, IsData
    <2>4. Issue(s, c)
        BY <2>1 DEF Read
    <2> QED BY <1>7, <2>2, <2>3, <2>4, IssueTypes, StreamIsQueue DEF EngramTypes
<1>9. HostKnows'
    <2>1. host' = [pc |-> "validate", s |-> s, ids |-> ids, hits |-> {}, missing |-> <<>>, start |-> 0]
        BY DEF Read
    <2>2. host' \in HostRecords
        BY <2>1, StreamIsQueue DEF HostRecords
    <2>3. \A k \in DOMAIN out' : DOMAIN out'[k].got = DOMAIN out'[k].want
        BY <1>5, <1>7 DEF EngramTypes, HostKnows
    <2> QED BY <1>5, <1>7, <2>1, <2>2, <2>3 DEF HostKnows, Reading
<1> QED BY <1>1, <1>8, <1>9 DEF EngramTypes

\* The host goes on with the same read, the same outputs and the same number of writes.
LEMMA HostGoesOn ==
    ASSUME HostKnows, Reading, host' \in HostRecords, host'.s = host.s, host'.ids = host.ids, host'.pc # "validate", out' = out,
           host'.pc \in {"begin", "hits", "install"} => host'.start < Len(host'.missing),
           host'.pc = "install" => host'.hits = {}, host'.pc # "idle", version' = wversion', host'.pc = "plan" => host'.start = 0 /\ host'.hits = {}
    PROVE  HostKnows'
BY DEF HostKnows, Reading

\* _validate preserves the types.
LEMMA ValidateTypes ==
    ASSUME EngramTypes, Validate
    PROVE  EngramTypes'
<1>1. CacheTypes' /\ version' = wversion' /\ out' = out
    <2>1. /\ writes' = writes /\ wversion' = wversion /\ values' = values /\ pinned' = pinned /\ staging' = staging
          /\ out' = out
        BY DEF Validate, rowVars, bufferVars
    <2>2. CASE Fresh /\ UNCHANGED rowCacheVars
        BY <2>1, <2>2 DEF Fresh, rowCacheVars, EngramTypes, CacheTypes
    <2>3. CASE ~Fresh /\ Drained /\ Waited /\ Untagged /\ version' = wversion
        <3>1. tags' \in [Places -> TableRows \cup {Empty}]
            BY <2>3 DEF Untagged
        <3> QED BY <2>1, <2>3, <3>1, NoEventType DEF Waited, EngramTypes, CacheTypes
    <2> QED BY <2>2, <2>3 DEF Validate
<1>2. StreamTypes'
    BY StreamsKept DEF EngramTypes, Validate, streamVars
<1>3. host' \in HostRecords /\ host'.s = host.s /\ host'.ids = host.ids /\ host'.pc = "plan" /\ Reading
      /\ host'.start = 0 /\ host'.hits = {}
    BY DEF EngramTypes, HostKnows, HostRecords, Validate, Reading
<1> QED BY <1>1, <1>2, <1>3, HostGoesOn DEF EngramTypes

\* A read that has hits only preserves the types.
LEMMA PlanHitsTypes ==
    ASSUME EngramTypes, PlanHits
    PROVE  EngramTypes'
<1>1. Reading /\ host.s \in Streams /\ Returned /\ HostKnows /\ StreamTypes
    BY DEF PlanHits, EngramTypes, HostKnows, Reading
<1>2. /\ out' \in Seq(Outputs) /\ Len(out') = Len(out) /\ DOMAIN out' = DOMAIN out
      /\ Len(out) \in DOMAIN out /\ Len(out) \in Nat
      /\ \A j \in DOMAIN out : out'[j].want = out[j].want /\ out'[j].got = out[j].got
      /\ event' \in Events /\ host' = IdleHost
    BY <1>1, ReturnedOutput
<1>3. CacheTypes'
    BY <1>2 DEF PlanHits, EngramTypes, CacheTypes, rowVars, bufferVars
<1>4. HostKnows'
    <2>1. \A k \in DOMAIN out' : DOMAIN out'[k].got = DOMAIN out'[k].want
        BY <1>1, <1>2 DEF HostKnows
    <2> QED BY <1>2, <2>1, IdleKnows
<1>5. StreamTypes'
    <2>1. PICK c : c = HitsCommand(Hits)
        OBVIOUS
    <2>2. c \in StreamCommands
        <3>1. Hits \in SUBSET TableRows
            BY DEF Hits, EngramTypes, HostKnows, HostRecords
        <3> QED BY <2>1, <3>1, CommandTypes
    <2>3. c.k = Len(out) /\ Issue(host.s, c)
        BY <2>1 DEF HitsCommand, Command, PlanHits
    <2> QED BY <1>1, <1>2, <2>2, <2>3, IssueTypes, StreamIsQueue
<1> QED BY <1>3, <1>4, <1>5 DEF EngramTypes

\* A read that lists its misses preserves the types.
LEMMA PlanMissesTypes ==
    ASSUME EngramTypes, PlanMisses
    PROVE  EngramTypes'
<1>1. CacheTypes' /\ StreamTypes' /\ out' = out /\ version' = version /\ wversion' = wversion
    BY StreamsKept DEF EngramTypes, CacheTypes, PlanMisses, rowVars, rowCacheVars, bufferVars, streamVars
<1>2. PICK q \in [1 .. Cardinality(host.ids \ Hits) -> host.ids \ Hits] :
          host' = [host EXCEPT !.pc = "begin", !.hits = Hits, !.missing = q]
    BY DEF PlanMisses
<1>3. host \in HostRecords /\ host.ids \in SUBSET TableRows /\ version = wversion
    BY DEF EngramTypes, HostKnows, HostRecords, PlanMisses
<1>4. Cardinality(host.ids \ Hits) \in Nat /\ Cardinality(host.ids \ Hits) > 0
    <2>1. IsFiniteSet(TableRows)
        <3>1. 0 \in Int /\ NumRows - 1 \in Int
            BY EngramCacheAssumption
        <3>2. IsFiniteSet(0 .. NumRows - 1)
            BY <3>1, FS_Interval
        <3> QED BY <3>2 DEF TableRows
    <2>2. IsFiniteSet(host.ids \ Hits)
        BY <1>3, <2>1, FS_Subset
    <2>3. host.ids \ Hits # {}
        BY DEF PlanMisses, Hits
    <2> QED BY <2>2, <2>3, FS_CardinalityType, FS_EmptySet
<1>5. q \in Seq(TableRows) /\ Len(q) = Cardinality(host.ids \ Hits)
    <2>1. PICK n \in Nat : n = Cardinality(host.ids \ Hits)
        BY <1>4
    <2>2. q \in [1 .. n -> TableRows]
        BY <1>2, <1>3, <2>1
    <2>3. q \in Seq(TableRows)
        BY <2>2, SeqDef
    <2>4. Len(q) = n
        BY <2>2, <2>3, LenProperties
    <2> QED BY <2>1, <2>3, <2>4
<1>6. Hits \in SUBSET TableRows
    BY <1>3 DEF Hits
<1>7. host' \in HostRecords /\ host'.s = host.s /\ host'.ids = host.ids /\ host'.pc = "begin" /\ host'.missing = q
    BY <1>2, <1>3, <1>5, <1>6 DEF HostRecords
<1>8. host'.start = 0
    BY <1>2, <1>3 DEF EngramTypes, HostKnows, PlanMisses, HostRecords
<1> QED BY <1>1, <1>3, <1>4, <1>5, <1>7, <1>8, HostGoesOn DEF EngramTypes, PlanMisses, Reading

\* What the steps that issue for the chunk know.
LEMMA ChunkKnown ==
    ASSUME EngramTypes, host.pc \in {"begin", "hits", "install"}
    PROVE  /\ Reading /\ host.s \in Streams /\ HostKnows /\ StreamTypes /\ Chunk \in RowChunks
           /\ out \in Seq(Outputs) /\ Len(out) \in DOMAIN out /\ Len(out) \in Nat /\ version = wversion
           /\ \A i \in DOMAIN Chunk : i \in Buffer /\ Chunk[i] \in TableRows
<1>1. Reading /\ HostKnows /\ StreamTypes
    BY DEF EngramTypes, Reading
<1>2. host.s \in Streams /\ out \in Seq(Outputs) /\ out # <<>> /\ version = wversion
    BY <1>1 DEF HostKnows
<1>3. Chunk \in RowChunks
    BY <1>1, NextChunk
<1> QED BY <1>1, <1>2, <1>3, ChunkType

\* _begin_transfer preserves the types.
LEMMA BeginTransferTypes ==
    ASSUME EngramTypes, BeginTransfer
    PROVE  EngramTypes'
<1>1. /\ Reading /\ host.s \in Streams /\ HostKnows /\ StreamTypes /\ Chunk \in RowChunks
      /\ Len(out) \in Nat /\ \A i \in DOMAIN Chunk : i \in Buffer /\ Chunk[i] \in TableRows
    BY ChunkKnown DEF BeginTransfer
<1>2. /\ writes' = writes /\ wversion' = wversion /\ tags' = tags /\ version' = version /\ event' = event
      /\ consumerDone' = consumerDone /\ values' = values /\ staging' = staging /\ out' = out
    BY DEF BeginTransfer, rowVars
<1>3. CacheTypes'
    <2>1. copyDone' \in Events
        BY <1>1, RecordedType, StreamIsQueue DEF BeginTransfer
    <2>2. pinned' \in [Buffer -> RowValues]
        <3>1. ASSUME NEW i \in DOMAIN Chunk PROVE <<Chunk[i], writes[Chunk[i]]>> \in RowValues
            BY <1>1 DEF EngramTypes, CacheTypes, RowValues, TableRows
        <3>2. pinned' = [i \in Buffer |-> IF i \in DOMAIN Chunk THEN <<Chunk[i], writes[Chunk[i]]>> ELSE pinned[i]]
            BY DEF BeginTransfer
        <3> QED BY <3>1, <3>2 DEF EngramTypes, CacheTypes
    <2> QED BY <1>2, <2>1, <2>2 DEF EngramTypes, CacheTypes
<1>4. StreamTypes'
    <2>1. PICK c : c = Command("dma", Len(out), consumerDone, {}, Chunk)
        OBVIOUS
    <2>2. consumerDone \in Events
        BY DEF EngramTypes, CacheTypes
    <2>3. c \in CopyCommands
        BY <1>1, <2>1, <2>2, CommandTypes
    <2>4. Issue("copy", c)
        BY <2>1 DEF BeginTransfer, StagingFree
    <2> QED BY <1>1, <1>2, <2>3, <2>4, IssueTypes, StreamIsQueue
<1>5. HostKnows'
    <2>1. host' = [host EXCEPT !.pc = IF host.hits = {} THEN "install" ELSE "hits"] /\ host.pc = "begin"
        BY DEF BeginTransfer
    <2>2. host \in HostRecords /\ version = wversion /\ host.start < Len(host.missing)
        BY <1>1, <2>1 DEF HostKnows
    <2>3. host' \in HostRecords /\ host'.s = host.s /\ host'.ids = host.ids /\ host'.pc \in {"hits", "install"}
          /\ host'.start = host.start /\ host'.missing = host.missing /\ (host'.pc = "install" => host'.hits = {})
        BY <2>1, <2>2 DEF HostRecords
    <2> QED BY <1>1, <1>2, <2>2, <2>3, HostGoesOn
<1> QED BY <1>3, <1>4, <1>5 DEF EngramTypes

\* Issuing the hits preserves the types.
LEMMA CopyHitsTypes ==
    ASSUME EngramTypes, CopyHits
    PROVE  EngramTypes'
<1>1. /\ Reading /\ host.s \in Streams /\ HostKnows /\ StreamTypes /\ Len(out) \in Nat /\ Len(out) \in DOMAIN out
    BY ChunkKnown DEF CopyHits
<1>2. CacheTypes' /\ version' = version /\ wversion' = wversion /\ out' = out
    BY DEF CopyHits, rowVars, rowCacheVars, bufferVars, EngramTypes, CacheTypes
<1>3. StreamTypes'
    <2>1. PICK c : c = HitsCommand(host.hits)
        OBVIOUS
    <2>2. host.hits \in SUBSET TableRows
        BY <1>1 DEF HostKnows, HostRecords
    <2>3. c \in StreamCommands
        BY <2>1, <2>2, CommandTypes
    <2>4. Issue(host.s, c) /\ c.k = Len(out)
        BY <2>1 DEF CopyHits, HitsCommand, Command
    <2> QED BY <1>1, <1>2, <2>3, <2>4, IssueTypes, StreamIsQueue
<1>4. HostKnows'
    <2>1. host' = [host EXCEPT !.pc = "install", !.hits = {}] /\ host.pc = "hits"
        BY DEF CopyHits
    <2>2. host \in HostRecords /\ version = wversion /\ host.start < Len(host.missing)
        BY <1>1, <2>1 DEF HostKnows
    <2>3. host' \in HostRecords /\ host'.s = host.s /\ host'.ids = host.ids /\ host'.pc = "install"
          /\ host'.start = host.start /\ host'.missing = host.missing /\ host'.hits = {}
        BY <2>1, <2>2 DEF HostRecords
    <2> QED BY <1>1, <1>2, <2>2, <2>3, HostGoesOn
<1> QED BY <1>2, <1>3, <1>4 DEF EngramTypes

\* _consume_transfer preserves the types, whether a chunk is left or the read returns.
LEMMA ConsumeTypes ==
    ASSUME EngramTypes, ConsumeTransfer
    PROVE  EngramTypes'
<1>1. /\ Reading /\ host.s \in Streams /\ HostKnows /\ StreamTypes /\ Chunk \in RowChunks
      /\ Len(out) \in Nat /\ Len(out) \in DOMAIN out /\ \A i \in DOMAIN Chunk : i \in Buffer /\ Chunk[i] \in TableRows
    BY ChunkKnown DEF ConsumeTransfer
<1>2. /\ writes' = writes /\ wversion' = wversion /\ version' = version /\ copyDone' = copyDone
      /\ values' = values /\ staging' = staging /\ pinned' = pinned
    BY DEF ConsumeTransfer, rowVars, bufferVars
<1>3. /\ event' \in Events /\ Len(out') = Len(out) /\ DOMAIN out' = DOMAIN out /\ HostKnows'
    <2>1. CASE Returned
        <3>1. /\ out' \in Seq(Outputs) /\ Len(out') = Len(out) /\ DOMAIN out' = DOMAIN out
              /\ \A j \in DOMAIN out : out'[j].want = out[j].want /\ out'[j].got = out[j].got
              /\ event' \in Events /\ host' = IdleHost
            BY <1>1, <2>1, ReturnedOutput
        <3>2. \A k \in DOMAIN out' : DOMAIN out'[k].got = DOMAIN out'[k].want
            BY <1>1, <3>1 DEF HostKnows
        <3> QED BY <3>1, <3>2, IdleKnows
    <2>2. CASE /\ host.start + Width # Len(host.missing)
               /\ host' = [host EXCEPT !.pc = "begin", !.start = host.start + Width] /\ UNCHANGED <<event, out>>
        <3>1. Width \in Nat /\ host.start + Width <= Len(host.missing) /\ Len(host.missing) \in Nat /\ host.start \in Nat
            BY <1>1, NextChunk DEF ConsumeTransfer
        <3>2. host \in HostRecords /\ version = wversion
            BY <1>1 DEF HostKnows, ConsumeTransfer
        <3>3. host' \in HostRecords /\ host'.s = host.s /\ host'.ids = host.ids /\ host'.pc = "begin"
              /\ host'.start = host.start + Width /\ host'.missing = host.missing
            <4>1. PICK n \in Nat : n = host.start + Width
                BY <3>1
            <4>2. host' = [host EXCEPT !.pc = "begin", !.start = n]
                BY <2>2, <4>1
            <4> QED BY <3>2, <4>1, <4>2 DEF HostRecords
        <3>4. HostKnows'
            BY <1>1, <1>2, <2>2, <3>1, <3>2, <3>3, HostGoesOn
        <3> QED BY <2>2, <3>4 DEF EngramTypes, CacheTypes
    <2> QED BY <2>1, <2>2 DEF ConsumeTransfer
<1>4. CacheTypes'
    <2>1. consumerDone' \in Events
        BY <1>1, RecordedType, StreamIsQueue DEF ConsumeTransfer
    <2>2. tags' \in [Places -> TableRows \cup {Empty}]
        <3>1. ASSUME NEW t \in Places, Replaces(Chunk, t) PROVE Chunk[Chosen(Chunk, t)] \in TableRows
            BY <1>1, <3>1, ChosenStays
        <3>2. tags' = [t \in Places |-> IF Replaces(Chunk, t) THEN Chunk[Chosen(Chunk, t)] ELSE tags[t]]
            BY DEF ConsumeTransfer
        <3> QED BY <3>1, <3>2 DEF EngramTypes, CacheTypes
    <2> QED BY <1>2, <1>3, <2>1, <2>2 DEF EngramTypes, CacheTypes
<1>5. StreamTypes'
    <2>1. PICK c : c = Command("install", Len(out), copyDone, {}, Chunk)
        OBVIOUS
    <2>2. copyDone \in Events
        BY DEF EngramTypes, CacheTypes
    <2>3. c \in StreamCommands
        BY <1>1, <2>1, <2>2, CommandTypes
    <2>4. Issue(host.s, c) /\ c.k = Len(out)
        BY <2>1 DEF ConsumeTransfer, Command
    <2> QED BY <1>1, <1>3, <2>3, <2>4, IssueTypes, StreamIsQueue
<1> QED BY <1>3, <1>4, <1>5 DEF EngramTypes

\* An exception inside read preserves the types of the cache and of the host.
LEMMA RaisesTypes ==
    ASSUME EngramTypes, ReadRaises, event' \in Events, consumerDone' \in Events
    PROVE  CacheTypes' /\ HostKnows'
<1>1. CacheTypes'
    <2>1. tags' \in [Places -> TableRows \cup {Empty}]
        BY DEF ReadRaises, Untagged
    <2> QED BY <2>1 DEF EngramTypes, CacheTypes, ReadRaises, rowVars, bufferVars, Empty
<1>2. HostKnows'
    <2>1. out' = out /\ host' = IdleHost
        BY DEF ReadRaises
    <2>2. out \in Seq(Outputs) /\ \A k \in DOMAIN out : DOMAIN out[k].got = DOMAIN out[k].want
        BY DEF EngramTypes, HostKnows
    <2> QED BY <2>1, <2>2, IdleKnows
<1> QED BY <1>1, <1>2

\* So it does with the commands that were issued before it.
LEMMA FailureTypes ==
    ASSUME EngramTypes, ReadFails \/ InstallFails
    PROVE  EngramTypes'
<1>1. host.s \in Queues /\ StreamTypes /\ out' = out /\ Len(out) \in Nat
    BY DEF EngramTypes, HostKnows, HostRecords, ReadFails, InstallFails, ReadRaises
<1>2. CASE ReadFails
    <2>1. event' \in Events /\ consumerDone' \in Events
        BY <1>1, <1>2, RecordedType DEF ReadFails, EngramTypes, CacheTypes
    <2>2. CacheTypes' /\ HostKnows'
        BY <1>2, <2>1, RaisesTypes DEF ReadFails
    <2>3. StreamTypes'
        BY <1>1, <1>2, StreamsKept DEF ReadFails, streamVars
    <2> QED BY <2>2, <2>3 DEF EngramTypes
<1>3. CASE InstallFails
    <2>1. event' \in Events /\ consumerDone' \in Events
        BY <1>1, <1>3, RecordedType DEF InstallFails
    <2>2. CacheTypes' /\ HostKnows'
        BY <1>3, <2>1, RaisesTypes DEF InstallFails
    <2>3. StreamTypes'
        <3>1. PICK c : c = Command("wait", 0, copyDone, {}, <<>>)
            OBVIOUS
        <3>2. c \in StreamCommands
            BY <3>1, CommandTypes DEF EngramTypes, CacheTypes
        <3>3. c.k = 0 /\ ~IsData(c) /\ Issue(host.s, c)
            BY <1>3, <3>1 DEF InstallFails, Command, IsData
        <3>4. host.s \in Streams
            BY <1>3 DEF EngramTypes, HostKnows, InstallFails, Reading
        <3> QED BY <1>1, <3>2, <3>3, <3>4, IssueTypes, StreamIsQueue
    <2> QED BY <2>2, <2>3 DEF EngramTypes
<1> QED BY <1>2, <1>3

\* An optimizer step preserves the types.
LEMMA OptimizerTypes ==
    ASSUME EngramTypes, NEW touched, NEW cleared, OptimizerStep(touched, cleared)
    PROVE  EngramTypes'
<1>1. /\ wversion' = wversion + 1 /\ values' = values /\ staging' = staging /\ pinned' = pinned
      /\ out' = out /\ host' = host /\ Waited
    BY DEF OptimizerStep, bufferVars
<1>2. writes' \in [TableRows -> Nat]
    BY DEF OptimizerStep, EngramTypes, CacheTypes
<1>3. tags' \in [Places -> TableRows \cup {Empty}] /\ version' \in {version, Empty}
    BY DEF OptimizerStep, EngramTypes, CacheTypes, Untagged
<1>4. CacheTypes'
    <2>1. version \in Nat \cup {Empty} /\ wversion \in Nat /\ version <= wversion
        BY DEF EngramTypes, CacheTypes
    <2>2. wversion' \in Nat /\ version' \in Nat \cup {Empty} /\ version' <= wversion'
        BY <1>1, <1>3, <2>1 DEF Empty
    <2>3. event' \in Events /\ copyDone' \in Events /\ consumerDone' \in Events
        BY <1>1, NoEventType DEF Waited
    <2> QED BY <1>1, <1>2, <1>3, <2>2, <2>3 DEF EngramTypes, CacheTypes
<1>5. StreamTypes'
    BY <1>1, StreamsKept DEF EngramTypes, OptimizerStep, streamVars
<1>6. HostKnows'
    <2>1. host.pc = "idle"
        BY DEF OptimizerStep
    <2> QED BY <1>1, <2>1 DEF EngramTypes, HostKnows, Reading
<1> QED BY <1>4, <1>5, <1>6 DEF EngramTypes

\* Every step preserves the types.
LEMMA EngramTypesNext ==
    ASSUME EngramTypes, EngramNext
    PROVE  EngramTypes'
BY ExecuteTypes, ReadTypes, ValidateTypes, PlanHitsTypes, PlanMissesTypes, BeginTransferTypes, CopyHitsTypes,
   ConsumeTypes, FailureTypes, OptimizerTypes DEF EngramNext

\* Nothing to come after.
LEMMA CoversNothing ==
    ASSUME NEW e, NEW j, \A s \in Streams : \A p \in DOMAIN queue[s] : ~(IsData(queue[s][p]) /\ queue[s][p].k <= j)
    PROVE  CoversTo(e, j)
BY DEF CoversTo

\* An event stays behind commands while the streams do not change.
LEMMA CoversSame ==
    ASSUME NEW e, NEW j, queue' = queue, CoversTo(e, j)
    PROVE  CoversTo(e, j)'
BY DEF CoversTo, CoveredBy, IsData

\* What is known of a pending command.
LEMMA PendingCommand ==
    ASSUME StreamTypes, HostKnows, NEW s \in Streams, NEW p \in DOMAIN queue[s]
    PROVE  /\ queue[s][p] \in StreamCommands /\ queue[s][p].k \in Nat /\ queue[s][p].k <= Len(out) /\ Len(out) \in Nat
           /\ queue[s][p].after \in Events /\ p \in Nat /\ <<s, p>> \in Events
<1>1. queue[s][p] \in StreamCommands /\ queue[s][p].k <= Len(out)
    BY DEF StreamTypes
<1>2. p \in Nat
    BY PendingBeyond, StreamIsQueue
<1>3. queue[s][p].k \in Nat /\ queue[s][p].after \in Events
    BY <1>1 DEF StreamCommands
<1>4. <<s, p>> \in Events
    BY <1>2, StreamIsQueue DEF Events
<1>5. Len(out) \in Nat
    BY DEF HostKnows
<1> QED BY <1>1, <1>2, <1>3, <1>4, <1>5

\* A command issued: a lookup command is of the last read.
LEMMA CommandsOrderedGrow ==
    ASSUME StreamTypes, HostKnows, CommandsOrdered, NEW s \in Queues, NEW c, Grows(s, c), NEW m, m = issued[s] + 1,
           s \in Streams => CoversTo(IF IsData(c) THEN <<s, m>> ELSE c.after, c.k - 1)',
           s \in Streams /\ IsData(c) => c.k = Len(out)
    PROVE  CommandsOrdered'
<1> SUFFICES ASSUME NEW q \in Streams, NEW p \in DOMAIN queue'[q]
             PROVE  CoversTo(IF IsData(queue[q][p]) THEN <<q, p>> ELSE queue[q][p].after, queue[q][p].k - 1)'
    BY DEF CommandsOrdered
<1>0. q \in Queues
    BY StreamIsQueue
<1>1. PICK d : d = queue'[q][p]
    OBVIOUS
<1>2. PICK e : e = IF IsData(d) THEN <<q, p>> ELSE d.after
    OBVIOUS
<1>3. CASE p \in DOMAIN queue[q]
    <2>1. queue[q][p] = d
        BY <1>0, <1>1, <1>3 DEF Grows
    <2>2. PICK j : j = d.k - 1
        OBVIOUS
    <2>3. j \in Int /\ j < Len(out) /\ Len(out) \in Nat /\ e \in Events
        BY <1>2, <1>3, <2>1, <2>2, PendingCommand
    <2>4. CoversTo(e, j)
        BY <1>2, <1>3, <2>1, <2>2 DEF CommandsOrdered
    <2>5. CoversTo(e, j)'
        BY <2>3, <2>4, CoversToGrows
    <2> QED BY <1>1, <1>2, <2>2, <2>5
<1>4. CASE p \notin DOMAIN queue[q]
    <2>1. q = s /\ p = m /\ d = c
        BY <1>0, <1>1, <1>4 DEF Grows
    <2> QED BY <1>1, <2>1
<1> QED BY <1>3, <1>4

\* The events of the reads that returned stay behind their commands when a command is issued.
LEMMA LastsOrderedGrow ==
    ASSUME StreamTypes, HostKnows, LastsOrdered, NEW s \in Queues, NEW c, Grows(s, c),
           s \in Streams /\ IsData(c) => Reading /\ c.k = Len(out)
    PROVE  \A k \in DOMAIN out : \A e \in Events : e = out[k].last /\ e # NoEvent => CoversTo(e, k)'
<1> SUFFICES ASSUME NEW k \in DOMAIN out, NEW e \in Events, e = out[k].last, e # NoEvent
             PROVE  CoversTo(e, k)'
    OBVIOUS
<1>1. out \in Seq(Outputs)
    BY DEF HostKnows
<1>2. k \in Nat /\ k <= Len(out) /\ Len(out) \in Nat
    BY <1>1
<1>3. CoversTo(e, k)
    BY DEF LastsOrdered
<1>4. s \in Streams /\ IsData(c) => c.k > k /\ c.k \in Nat
    BY <1>2 DEF HostKnows
<1> QED BY <1>2, <1>3, <1>4, CoversToGrows

\* A lookup command issued for the read in progress comes after everything before it.
LEMMA LookupOrdered ==
    ASSUME EngramTypes, ReadsOrdered, Reading, NEW s, s = host.s, NEW n, n = Len(out), NEW c,
           IsData(c), c.k = n, Issue(s, c), NEW m, m = issued[s] + 1
    PROVE  /\ CommandsOrdered' /\ CoversTo(<<s, m>>, n)'
           /\ \A e \in Events : e = event => CoversTo(e, n - 1)'
           /\ \A k \in DOMAIN out : \A e \in Events : e = out[k].last /\ e # NoEvent => CoversTo(e, k)'
<1>1. StreamTypes /\ HostKnows /\ n \in Nat /\ s \in Streams
    BY DEF EngramTypes, HostKnows
<1>2. CommandsOrdered /\ LastsOrdered /\ CoversTo(<<s, issued[s]>>, n) /\ CoversTo(event, n - 1)
    BY DEF ReadsOrdered, HostOrdered
<1>3. Grows(s, c) /\ s \in Queues
    BY <1>1, IssueGrows, StreamIsQueue
<1>4. CoversTo(<<s, m>>, n)'
    BY <1>1, <1>2, <1>3, CoversToEnd
<1>5. CoversTo(<<s, m>>, n - 1)'
    <2>1. CoversTo(<<s, issued[s]>>, n - 1)
        BY <1>1, <1>2, CoversToLess
    <2> QED BY <1>1, <1>3, <2>1, CoversToEnd
<1>6. CommandsOrdered'
    BY <1>1, <1>2, <1>3, <1>5, CommandsOrderedGrow
<1>7. \A e \in Events : e = event => CoversTo(e, n - 1)'
    BY <1>1, <1>2, <1>3, CoversToGrows
<1>8. \A k \in DOMAIN out : \A e \in Events : e = out[k].last /\ e # NoEvent => CoversTo(e, k)'
    BY <1>1, <1>2, <1>3, LastsOrderedGrow
<1> QED BY <1>4, <1>6, <1>7, <1>8

\* A command that is no lookup command: it leaves what was ordered so.
LEMMA OthersOrdered ==
    ASSUME EngramTypes, ReadsOrdered, NEW s \in Queues, NEW c, ~IsData(c), Issue(s, c),
           s \in Streams => CoversTo(c.after, c.k - 1)'
    PROVE  /\ CommandsOrdered'
           /\ \A e \in Events : \A j \in Int : CoversTo(e, j) => CoversTo(e, j)'
           /\ \A k \in DOMAIN out : \A e \in Events : e = out[k].last /\ e # NoEvent => CoversTo(e, k)'
<1>1. StreamTypes /\ HostKnows /\ CommandsOrdered /\ LastsOrdered
    BY DEF EngramTypes, ReadsOrdered
<1>2. Grows(s, c)
    BY <1>1, IssueGrows
<1>3. PICK m : m = issued[s] + 1
    OBVIOUS
<1>4. CommandsOrdered'
    BY <1>1, <1>2, <1>3, CommandsOrderedGrow
<1>5. \A e \in Events : \A j \in Int : CoversTo(e, j) => CoversTo(e, j)'
    BY <1>2, CoversToGrows
<1>6. \A k \in DOMAIN out : \A e \in Events : e = out[k].last /\ e # NoEvent => CoversTo(e, k)'
    BY <1>1, <1>2, LastsOrderedGrow
<1> QED BY <1>4, <1>5, <1>6

\* The order after a step, from what it does to the streams, to the host and to the outputs.
LEMMA HostOrderedThen ==
    ASSUME NEW s, NEW m, NEW n, NEW e, n = Len(out'), e = event',
           Reading' => host'.s = s /\ issued'[s] = m /\ CoversTo(<<s, m>>, n)' /\ CoversTo(e, n - 1)',
           ~Reading' => CoversTo(e, n)'
    PROVE  HostOrdered'
BY DEF HostOrdered

\* So they do after a step that returns a read whose event is behind its commands.
LEMMA LastsOrderedThen ==
    ASSUME HostKnows',
           \A k \in DOMAIN out : \A e \in Events : e = out[k].last /\ e # NoEvent => CoversTo(e, k)',
           \A k \in DOMAIN out' : \/ out'[k].last = NoEvent \/ (k \in DOMAIN out /\ out'[k].last = out[k].last)
                                  \/ \E e \in Events : e = out'[k].last /\ CoversTo(e, k)'
    PROVE  LastsOrdered'
<1> SUFFICES ASSUME NEW k \in DOMAIN out', out'[k].last # NoEvent PROVE CoversTo(out[k].last, k)'
    BY DEF LastsOrdered
<1>1. out' \in Seq(Outputs)
    BY DEF HostKnows
<1>2. PICK o \in Outputs : o = out'[k]
    BY <1>1
<1>3. PICK e \in Events : e = out'[k].last
    BY <1>2 DEF Outputs
<1>4. CoversTo(e, k)'
    BY <1>3
<1> QED BY <1>3, <1>4

\* The streams and the outputs do not change.
LEMMA OrderedSame ==
    ASSUME EngramTypes, ReadsOrdered, HostKnows', queue' = queue, out' = out
    PROVE  /\ CommandsOrdered' /\ LastsOrdered'
           /\ \A e \in Events : \A j \in Int : CoversTo(e, j) => CoversTo(e, j)'
<1>1. CommandsOrdered /\ LastsOrdered /\ StreamTypes /\ HostKnows
    BY DEF ReadsOrdered, EngramTypes
<1>2. \A e \in Events : \A j \in Int : CoversTo(e, j) => CoversTo(e, j)'
    BY CoversSame
<1>3. CommandsOrdered'
    <2> SUFFICES ASSUME NEW q \in Streams, NEW p \in DOMAIN queue[q]
                 PROVE  CoversTo(IF IsData(queue[q][p]) THEN <<q, p>> ELSE queue[q][p].after, queue[q][p].k - 1)'
        BY DEF CommandsOrdered
    <2>1. PICK e : e = IF IsData(queue[q][p]) THEN <<q, p>> ELSE queue[q][p].after
        OBVIOUS
    <2>2. PICK j : j = queue[q][p].k - 1
        OBVIOUS
    <2>3. CoversTo(e, j)
        BY <1>1, <2>1, <2>2 DEF CommandsOrdered
    <2>4. CoversTo(e, j)'
        BY <2>3, CoversSame
    <2>5. e = (IF IsData(queue[q][p]) THEN <<q, p>> ELSE queue[q][p].after)' /\ j = (queue[q][p].k - 1)'
        BY <2>1, <2>2 DEF IsData
    <2> QED BY <2>4, <2>5
<1>4. \A k \in DOMAIN out : \A e \in Events : e = out[k].last /\ e # NoEvent => CoversTo(e, k)'
    BY <1>1, CoversSame DEF LastsOrdered
<1>5. LastsOrdered'
    BY <1>4, LastsOrderedThen
<1> QED BY <1>2, <1>3, <1>5

\* Reads stay in order when a command executes.
LEMMA OrderedExecute ==
    ASSUME EngramTypes, ReadsOrdered, NEW s \in Queues, Execute(s), EngramTypes'
    PROVE  ReadsOrdered'
<1>1. StreamTypes /\ HostKnows /\ HostKnows' /\ CommandsOrdered /\ HostOrdered /\ LastsOrdered
    BY DEF EngramTypes, ReadsOrdered
<1>2. PICK h : h = executed[s] + 1
    OBVIOUS
<1>3. Shrinks(s, h) /\ issued' = issued
    BY <1>1, <1>2, ExecuteShrinks
<1>4. Happened(queue[s][h].after)
    BY <1>2 DEF Execute
<1>5. \A e \in Events : \A j : CoversTo(e, j) => CoversTo(e, j)'
    BY <1>1, <1>3, <1>4, CoversToShrinks
<1>6. /\ out' \in Seq(Outputs) /\ Len(out') = Len(out) /\ DOMAIN out' = DOMAIN out
      /\ \A k \in DOMAIN out : out'[k].last = out[k].last
    BY ExecuteKeepsOutputs DEF OutputsKept
<1>7. host' = host /\ event' = event
    BY DEF Execute, rowCacheVars
<1>8. CommandsOrdered'
    <2> SUFFICES ASSUME NEW q \in Streams, NEW p \in DOMAIN queue'[q]
                 PROVE  CoversTo(IF IsData(queue[q][p]) THEN <<q, p>> ELSE queue[q][p].after, queue[q][p].k - 1)'
        BY DEF CommandsOrdered
    <2>1. p \in DOMAIN queue[q] /\ queue'[q][p] = queue[q][p]
        BY <1>3, StreamIsQueue DEF Shrinks
    <2>2. PICK e : e = IF IsData(queue[q][p]) THEN <<q, p>> ELSE queue[q][p].after
        OBVIOUS
    <2>3. PICK j : j = queue[q][p].k - 1
        OBVIOUS
    <2>4. CoversTo(e, j) /\ e \in Events
        BY <1>1, <2>1, <2>2, <2>3, PendingCommand DEF CommandsOrdered
    <2>5. CoversTo(e, j)'
        BY <1>5, <2>4
    <2>6. e = (IF IsData(queue[q][p]) THEN <<q, p>> ELSE queue[q][p].after)' /\ j = (queue[q][p].k - 1)'
        BY <2>1, <2>2, <2>3 DEF IsData
    <2> QED BY <2>5, <2>6
<1>9. LastsOrdered'
    <2>1. \A k \in DOMAIN out : \A e \in Events : e = out[k].last /\ e # NoEvent => CoversTo(e, k)'
        BY <1>1, <1>5 DEF LastsOrdered
    <2> QED BY <1>1, <1>6, <2>1, LastsOrderedThen
<1>10. HostOrdered'
    <2>1. PICK n : n = Len(out)
        OBVIOUS
    <2>2. PICK e \in Events : e = event
        BY DEF EngramTypes, CacheTypes
    <2>3. PICK t : t = host.s
        OBVIOUS
    <2>4. PICK m : m = issued[t]
        OBVIOUS
    <2>5. Reading => CoversTo(<<t, m>>, n) /\ CoversTo(e, n - 1)
        BY <1>1, <2>1, <2>2, <2>3, <2>4 DEF HostOrdered
    <2>6. ~Reading => CoversTo(e, n)
        BY <1>1, <2>1, <2>2 DEF HostOrdered
    <2>7. <<t, m>> \in Events
        BY <1>1, <2>3, <2>4 DEF Events, HostKnows, HostRecords, StreamTypes
    <2>8. Reading' = Reading
        BY <1>7 DEF Reading
    <2>9. Reading' => host'.s = t /\ issued'[t] = m /\ CoversTo(<<t, m>>, n)' /\ CoversTo(e, n - 1)'
        BY <1>3, <1>5, <1>7, <2>3, <2>4, <2>5, <2>7, <2>8
    <2> QED BY <1>5, <1>6, <1>7, <2>1, <2>2, <2>6, <2>8, <2>9, HostOrderedThen
<1> QED BY <1>8, <1>9, <1>10 DEF ReadsOrdered

\* A read that begins waits for the event of the one before.
LEMMA OrderedRead ==
    ASSUME EngramTypes, ReadsOrdered, NEW s \in Streams, NEW ids \in SUBSET TableRows, Read(s, ids), EngramTypes'
    PROVE  ReadsOrdered'
<1>1. StreamTypes /\ HostKnows /\ HostKnows' /\ HostOrdered /\ ~Reading /\ out \in Seq(Outputs) /\ s \in Queues
    BY StreamIsQueue DEF EngramTypes, ReadsOrdered, Reading, Read, HostKnows
<1>2. PICK n \in Nat : n = Len(out)
    BY <1>1
<1>3. PICK e \in Events : e = event
    BY DEF EngramTypes, CacheTypes
<1>4. PICK c : c = Command("wait", n + 1, e, {}, <<>>)
    OBVIOUS
<1>5. Issue(s, c) /\ c.op = "wait" /\ ~IsData(c) /\ c.k = n + 1 /\ c.after = e
    BY <1>2, <1>3, <1>4 DEF Read, Command, IsData
<1>6. CoversTo(e, n)
    BY <1>1, <1>2, <1>3 DEF HostOrdered
<1>7. Grows(s, c)
    BY <1>1, <1>5, IssueGrows
<1>8. CoversTo(e, n)'
    BY <1>1, <1>2, <1>5, <1>6, <1>7, CoversToGrows
<1>9. /\ CommandsOrdered'
      /\ \A k \in DOMAIN out : \A f \in Events : f = out[k].last /\ f # NoEvent => CoversTo(f, k)'
    <2>1. PICK j : j = c.k - 1
        OBVIOUS
    <2>2. CoversTo(e, j)'
        BY <1>2, <1>5, <1>8, <2>1
    <2> QED BY <1>1, <1>5, <2>1, <2>2, OthersOrdered
<1>10. PICK o : o = [want |-> [r \in ids |-> <<r, writes[r]>>], got |-> [r \in ids |-> Garbage], last |-> NoEvent]
    OBVIOUS
<1>11. out' = Append(out, o) /\ o.last = NoEvent
    BY <1>10 DEF Read
<1>12. LastsOrdered'
    <2>1. \A k \in DOMAIN out' : (k \in DOMAIN out /\ out'[k] = out[k]) \/ out'[k] = o
        BY <1>1, <1>11
    <2>2. \A k \in DOMAIN out' : out'[k].last = NoEvent \/ (k \in DOMAIN out /\ out'[k].last = out[k].last)
        BY <1>11, <2>1
    <2> QED BY <1>1, <1>9, <2>2, LastsOrderedThen
<1>13. PICK m : m = issued[s] + 1
    OBVIOUS
<1>14. CoversTo(<<s, m>>, n + 1)'
    <2>1. \A q \in Streams : \A p \in DOMAIN queue[q] : queue[q][p].k \in Nat /\ queue[q][p].k < n + 1
        <3> SUFFICES ASSUME NEW q \in Streams, NEW p \in DOMAIN queue[q]
                     PROVE  queue[q][p].k \in Nat /\ queue[q][p].k < n + 1
            OBVIOUS
        <3>1. queue[q][p].k \in Nat /\ queue[q][p].k <= Len(out)
            BY <1>1, PendingCommand
        <3> QED BY <1>2, <3>1
    <2>2. PICK j \in Nat : j = n + 1
        BY <1>2
    <2>3. CoversTo(<<s, m>>, j)'
        BY <1>5, <1>7, <1>13, <2>1, <2>2, CoversToWait
    <2> QED BY <2>2, <2>3
<1>15. HostOrdered'
    <2>1. host'.s = s /\ event' = event /\ Reading'
        BY DEF Read, rowCacheVars, Reading
    <2>2. issued'[s] = m
        BY <1>1, <1>7, <1>13 DEF Grows
    <2>3. Len(out') = n + 1
        BY <1>1, <1>2, <1>11
    <2>4. PICK j \in Nat : j = n + 1 /\ j - 1 = n
        BY <1>2
    <2>5. CoversTo(<<s, m>>, j)' /\ CoversTo(e, j - 1)'
        BY <1>8, <1>14, <2>4
    <2> QED BY <1>3, <2>1, <2>2, <2>3, <2>4, <2>5, HostOrderedThen
<1> QED BY <1>9, <1>12, <1>15 DEF ReadsOrdered

\* Reads stay in order in _validate, which forgets events that have happened.
LEMMA OrderedValidate ==
    ASSUME EngramTypes, ReadsOrdered, Validate, EngramTypes'
    PROVE  ReadsOrdered'
<1>1. StreamTypes /\ HostKnows /\ HostKnows' /\ HostOrdered /\ out' = out /\ queue' = queue /\ issued' = issued
    BY DEF EngramTypes, ReadsOrdered, Validate, streamVars
<1>2. /\ CommandsOrdered' /\ LastsOrdered'
      /\ \A e \in Events : \A j \in Int : CoversTo(e, j) => CoversTo(e, j)'
    BY <1>1, OrderedSame
<1>3. Reading /\ Reading' /\ host'.s = host.s /\ host.s \in Queues
    BY <1>1 DEF Validate, Reading, HostKnows, HostRecords
<1>4. PICK n \in Nat : n = Len(out)
    BY <1>1 DEF HostKnows
<1>5. PICK e \in Events, f \in Events : e = event /\ f = event'
    BY DEF EngramTypes, CacheTypes
<1>6. PICK t \in Queues, m \in Nat : t = host.s /\ m = issued[t]
    BY <1>1, <1>3 DEF StreamTypes
<1>7. CoversTo(<<t, m>>, n) /\ CoversTo(e, n - 1) /\ <<t, m>> \in Events
    BY <1>1, <1>3, <1>4, <1>5, <1>6 DEF HostOrdered, Events
<1>8. CoversTo(f, n - 1)
    <2>1. CASE f = e
        BY <1>7, <2>1
    <2>2. CASE f # e
        <3>1. Happened(e)
            BY <1>5, <2>2 DEF Validate, rowCacheVars, Drained
        <3>2. \A s \in Streams : \A p \in DOMAIN queue[s] : ~(IsData(queue[s][p]) /\ queue[s][p].k <= n - 1)
            BY <1>1, <1>7, <3>1, ReadsOver
        <3> QED BY <3>2, CoversNothing
    <2> QED BY <2>1, <2>2
<1>9. CoversTo(<<t, m>>, n)' /\ CoversTo(f, n - 1)'
    BY <1>2, <1>4, <1>7, <1>8
<1>10. HostOrdered'
    BY <1>1, <1>3, <1>4, <1>5, <1>6, <1>9, HostOrderedThen
<1> QED BY <1>2, <1>10 DEF ReadsOrdered

\* Reads stay in order when the misses are listed.
LEMMA OrderedPlanMisses ==
    ASSUME EngramTypes, ReadsOrdered, PlanMisses, EngramTypes'
    PROVE  ReadsOrdered'
<1>1. /\ StreamTypes /\ HostKnows /\ HostKnows' /\ HostOrdered /\ out' = out /\ queue' = queue /\ issued' = issued
      /\ event' = event
    BY DEF EngramTypes, ReadsOrdered, PlanMisses, streamVars, rowCacheVars
<1>2. /\ CommandsOrdered' /\ LastsOrdered'
      /\ \A e \in Events : \A j \in Int : CoversTo(e, j) => CoversTo(e, j)'
    BY <1>1, OrderedSame
<1>3. Reading /\ Reading' /\ host'.s = host.s /\ host.s \in Queues
    BY <1>1 DEF PlanMisses, Reading, HostKnows, HostRecords
<1>4. PICK n \in Nat : n = Len(out)
    BY <1>1 DEF HostKnows
<1>5. PICK e \in Events : e = event
    BY DEF EngramTypes, CacheTypes
<1>6. PICK t \in Queues, m \in Nat : t = host.s /\ m = issued[t]
    BY <1>1, <1>3 DEF StreamTypes
<1>7. CoversTo(<<t, m>>, n) /\ CoversTo(e, n - 1) /\ <<t, m>> \in Events
    BY <1>1, <1>3, <1>4, <1>5, <1>6 DEF HostOrdered, Events
<1>8. CoversTo(<<t, m>>, n)' /\ CoversTo(e, n - 1)'
    BY <1>2, <1>4, <1>7
<1>9. HostOrdered'
    BY <1>1, <1>3, <1>4, <1>5, <1>6, <1>8, HostOrderedThen
<1> QED BY <1>2, <1>9 DEF ReadsOrdered

\* A transfer issued to the copy stream keeps reads in order.
LEMMA OrderedBegin ==
    ASSUME EngramTypes, ReadsOrdered, BeginTransfer, EngramTypes'
    PROVE  ReadsOrdered'
<1>1. /\ StreamTypes /\ HostKnows /\ HostKnows' /\ HostOrdered /\ out' = out /\ event' = event
      /\ Reading /\ Reading' /\ host'.s = host.s /\ host.s \in Streams
    BY DEF EngramTypes, ReadsOrdered, BeginTransfer, Reading, HostKnows, HostRecords
<1>2. PICK n \in Nat : n = Len(out)
    BY <1>1 DEF HostKnows
<1>3. PICK e \in Events : e = event
    BY DEF EngramTypes, CacheTypes
<1>4. PICK c : c = Command("dma", Len(out), consumerDone, {}, Chunk)
    OBVIOUS
<1>5. Issue("copy", c) /\ ~IsData(c)
    BY <1>4 DEF BeginTransfer, StagingFree, Command, IsData
<1>6. /\ CommandsOrdered'
      /\ \A f \in Events : \A j \in Int : CoversTo(f, j) => CoversTo(f, j)'
      /\ \A k \in DOMAIN out : \A f \in Events : f = out[k].last /\ f # NoEvent => CoversTo(f, k)'
    BY <1>5, OthersOrdered, StreamIsQueue
<1>7. LastsOrdered'
    BY <1>1, <1>6, LastsOrderedThen
<1>8. PICK t \in Streams, m \in Nat : t = host.s /\ m = issued[t]
    BY <1>1, StreamIsQueue DEF StreamTypes
<1>9. CoversTo(<<t, m>>, n) /\ CoversTo(e, n - 1) /\ <<t, m>> \in Events
    BY <1>1, <1>2, <1>3, <1>8, StreamIsQueue DEF HostOrdered, Events
<1>10. CoversTo(<<t, m>>, n)' /\ CoversTo(e, n - 1)'
    BY <1>2, <1>6, <1>9
<1>11. issued'[t] = m
    BY <1>1, <1>5, <1>8, IssueGrows, StreamIsQueue DEF Grows
<1>12. HostOrdered'
    BY <1>1, <1>2, <1>3, <1>8, <1>10, <1>11, HostOrderedThen
<1> QED BY <1>6, <1>7, <1>12 DEF ReadsOrdered

\* A lookup command of the read in progress, which goes on.
LEMMA OrderedLookup ==
    ASSUME EngramTypes, ReadsOrdered, Reading, EngramTypes', NEW c, IsData(c), c.k = Len(out), Issue(host.s, c),
           Reading', host'.s = host.s, event' = event, out' = out
    PROVE  ReadsOrdered'
<1>1. StreamTypes /\ HostKnows /\ HostKnows' /\ HostOrdered /\ host.s \in Queues
    BY DEF EngramTypes, ReadsOrdered, HostKnows, HostRecords
<1>2. PICK n \in Nat : n = Len(out)
    BY <1>1 DEF HostKnows
<1>3. PICK s \in Queues, m \in Nat : s = host.s /\ m = issued[s] + 1
    BY <1>1 DEF StreamTypes
<1>4. PICK e \in Events : e = event
    BY DEF EngramTypes, CacheTypes
<1>5. /\ CommandsOrdered' /\ CoversTo(<<s, m>>, n)' /\ CoversTo(e, n - 1)'
      /\ \A k \in DOMAIN out : \A f \in Events : f = out[k].last /\ f # NoEvent => CoversTo(f, k)'
    BY <1>1, <1>2, <1>3, <1>4, LookupOrdered
<1>6. LastsOrdered'
    BY <1>1, <1>5, LastsOrderedThen
<1>7. issued'[s] = m
    BY <1>1, <1>3, IssueGrows DEF Grows
<1>8. HostOrdered'
    BY <1>2, <1>3, <1>4, <1>5, <1>7, HostOrderedThen
<1> QED BY <1>5, <1>6, <1>8 DEF ReadsOrdered

\* A lookup command of the read in progress, which returns.
LEMMA OrderedReturn ==
    ASSUME EngramTypes, ReadsOrdered, Reading, EngramTypes', NEW c, IsData(c), c.k = Len(out), Issue(host.s, c), Returned
    PROVE  ReadsOrdered'
<1>1. StreamTypes /\ HostKnows /\ HostKnows' /\ HostOrdered /\ host.s \in Queues
    BY DEF EngramTypes, ReadsOrdered, HostKnows, HostRecords
<1>2. PICK n \in Nat : n = Len(out)
    BY <1>1 DEF HostKnows
<1>3. PICK s \in Queues, m \in Nat : s = host.s /\ m = issued[s] + 1
    BY <1>1 DEF StreamTypes
<1>6. /\ CommandsOrdered' /\ CoversTo(<<s, m>>, n)'
      /\ \A k \in DOMAIN out : \A e \in Events : e = out[k].last /\ e # NoEvent => CoversTo(e, k)'
    BY <1>1, <1>2, <1>3, LookupOrdered
<1>7. /\ DOMAIN out' = DOMAIN out /\ Len(out') = n /\ \A j \in DOMAIN out : j # n => out'[j].last = out[j].last
      /\ out'[n].last = <<s, m>> /\ event' = <<s, m>> /\ event' \in Events /\ ~Reading'
    BY <1>1, <1>2, <1>3, ReturnedOutput DEF Recorded, Reading, IdleHost
<1>8. LastsOrdered'
    <2>1. \A k \in DOMAIN out' : \/ out'[k].last = NoEvent \/ (k \in DOMAIN out /\ out'[k].last = out[k].last)
                                 \/ \E e \in Events : e = out'[k].last /\ CoversTo(e, k)'
        <3> SUFFICES ASSUME NEW k \in DOMAIN out', k = n
                     PROVE  \E e \in Events : e = out'[k].last /\ CoversTo(e, k)'
            BY <1>7
        <3> QED BY <1>6, <1>7
    <2> QED BY <1>1, <1>6, <2>1, LastsOrderedThen
<1>9. HostOrdered'
    BY <1>6, <1>7, HostOrderedThen
<1> QED BY <1>6, <1>8, <1>9 DEF ReadsOrdered

\* A lookup of hits issued to the read's own stream keeps reads in order.
LEMMA OrderedHits ==
    ASSUME EngramTypes, ReadsOrdered, PlanHits \/ CopyHits, EngramTypes'
    PROVE  ReadsOrdered'
<1>1. Reading
    BY DEF PlanHits, CopyHits, Reading
<1>2. CASE PlanHits
    <2>1. PICK c : c = HitsCommand(Hits)
        OBVIOUS
    <2>2. Issue(host.s, c) /\ IsData(c) /\ c.k = Len(out) /\ Returned
        BY <1>2, <2>1 DEF PlanHits, HitsCommand, Command, IsData
    <2> QED BY <1>1, <2>2, OrderedReturn
<1>3. CASE CopyHits
    <2>1. PICK c : c = HitsCommand(host.hits)
        OBVIOUS
    <2>2. Issue(host.s, c) /\ IsData(c) /\ c.k = Len(out)
        BY <1>3, <2>1 DEF CopyHits, HitsCommand, Command, IsData
    <2>3. host'.s = host.s /\ Reading' /\ event' = event /\ out' = out
        BY <1>3 DEF CopyHits, rowCacheVars, EngramTypes, HostKnows, HostRecords, Reading
    <2> QED BY <1>1, <2>2, <2>3, OrderedLookup
<1> QED BY <1>2, <1>3

\* So does an install, also when its read returns with its event behind it.
LEMMA OrderedConsume ==
    ASSUME EngramTypes, ReadsOrdered, ConsumeTransfer, EngramTypes'
    PROVE  ReadsOrdered'
<1>1. PICK c : c = Command("install", Len(out), copyDone, {}, Chunk)
    OBVIOUS
<1>2. Issue(host.s, c) /\ IsData(c) /\ c.k = Len(out) /\ Reading
    BY <1>1 DEF ConsumeTransfer, Command, IsData, Reading
<1>3. CASE Returned
    BY <1>2, <1>3, OrderedReturn
<1>4. CASE host' = [host EXCEPT !.pc = "begin", !.start = host.start + Width] /\ UNCHANGED <<event, out>>
    <2>1. host'.s = host.s /\ Reading'
        BY <1>4 DEF EngramTypes, HostKnows, HostRecords, Reading
    <2> QED BY <1>2, <1>4, <2>1, OrderedLookup
<1> QED BY <1>3, <1>4 DEF ConsumeTransfer

\* A read that fails leaves an event behind everything it had issued.
LEMMA OrderedFailure ==
    ASSUME EngramTypes, ReadsOrdered, ReadFails \/ InstallFails, EngramTypes'
    PROVE  ReadsOrdered'
<1>1. /\ StreamTypes /\ HostKnows /\ HostKnows' /\ HostOrdered /\ out' = out /\ Reading /\ ~Reading'
      /\ host.s \in Streams /\ host.s \in Queues
    BY DEF EngramTypes, ReadsOrdered, ReadFails, InstallFails, ReadRaises, Reading, HostKnows, HostRecords, IdleHost
<1>2. PICK n \in Nat : n = Len(out)
    BY <1>1 DEF HostKnows
<1>3. PICK s \in Queues, m \in Nat : s = host.s /\ m = issued[s]
    BY <1>1 DEF StreamTypes
<1>4. CoversTo(<<s, m>>, n) /\ <<s, m>> \in Events
    BY <1>1, <1>2, <1>3 DEF HostOrdered, Events
<1>5. CASE ReadFails
    <2>1. queue' = queue /\ event' = <<s, m>>
        BY <1>3, <1>5 DEF ReadFails, streamVars, Recorded
    <2>2. /\ CommandsOrdered' /\ LastsOrdered' /\ CoversTo(<<s, m>>, n)'
        BY <1>1, <1>2, <1>4, <2>1, OrderedSame
    <2>3. HostOrdered'
        BY <1>1, <1>2, <2>1, <2>2, HostOrderedThen
    <2> QED BY <2>2, <2>3 DEF ReadsOrdered
<1>6. CASE InstallFails
    <2>1. PICK c : c = Command("wait", 0, copyDone, {}, <<>>)
        OBVIOUS
    <2>2. Issue(s, c) /\ ~IsData(c) /\ c.k = 0 /\ event' = <<s, m + 1>> /\ s \in Streams
        BY <1>1, <1>3, <1>6, <2>1 DEF InstallFails, Recorded, Command, IsData
    <2>3. Grows(s, c)
        BY <1>1, <2>2, IssueGrows
    <2>4. PICK j \in Int : j = c.k - 1 /\ j < 0
        BY <2>2
    <2>5. PICK e : e = c.after
        OBVIOUS
    <2>6. CoversTo(e, j)
        <3>1. \A q \in Streams : \A p \in DOMAIN queue[q] : ~(IsData(queue[q][p]) /\ queue[q][p].k <= j)
            <4> SUFFICES ASSUME NEW q \in Streams, NEW p \in DOMAIN queue[q] PROVE ~(queue[q][p].k <= j)
                OBVIOUS
            <4>1. queue[q][p].k \in Nat
                BY <1>1, PendingCommand
            <4> QED BY <2>4, <4>1
        <3> QED BY <3>1, CoversNothing
    <2>7. e \in Events
        BY <2>1, <2>5 DEF EngramTypes, CacheTypes, Command
    <2>8. CoversTo(e, j)'
        BY <2>2, <2>3, <2>4, <2>6, <2>7, CoversToGrows
    <2>9. /\ CommandsOrdered'
          /\ \A k \in DOMAIN out : \A f \in Events : f = out[k].last /\ f # NoEvent => CoversTo(f, k)'
        BY <2>2, <2>4, <2>5, <2>8, OthersOrdered
    <2>10. LastsOrdered'
        BY <1>1, <2>9, LastsOrderedThen
    <2>11. PICK u : u = issued[s] + 1
        OBVIOUS
    <2>12. CoversTo(<<s, u>>, n)'
        BY <1>2, <1>3, <1>4, <2>2, <2>3, <2>11, CoversToEnd
    <2>13. HostOrdered'
        BY <1>1, <1>2, <1>3, <2>2, <2>11, <2>12, HostOrderedThen
    <2> QED BY <2>9, <2>10, <2>13 DEF ReadsOrdered
<1> QED BY <1>5, <1>6

\* An optimizer step waits for every event and so forgets nothing.
LEMMA OrderedOptimizer ==
    ASSUME EngramTypes, ReadsOrdered, NEW touched, NEW cleared, OptimizerStep(touched, cleared), EngramTypes'
    PROVE  /\ ReadsOrdered'
           /\ \A s \in Streams : \A p \in DOMAIN queue[s] : ~IsData(queue[s][p])
<1>1. /\ StreamTypes /\ HostKnows /\ HostKnows' /\ HostOrdered /\ out' = out /\ queue' = queue /\ ~Reading /\ ~Reading'
    BY DEF EngramTypes, ReadsOrdered, OptimizerStep, streamVars, Reading
<1>2. PICK n \in Nat : n = Len(out)
    BY <1>1 DEF HostKnows
<1>3. PICK e \in Events : e = event
    BY DEF EngramTypes, CacheTypes
<1>4. Happened(e) /\ CoversTo(e, n)
    BY <1>1, <1>2, <1>3 DEF OptimizerStep, Drained, HostOrdered
<1>5. \A s \in Streams : \A p \in DOMAIN queue[s] : ~(IsData(queue[s][p]) /\ queue[s][p].k <= n)
    BY <1>1, <1>4, ReadsOver
<1>6. \A s \in Streams : \A p \in DOMAIN queue[s] : ~IsData(queue[s][p])
    BY <1>1, <1>2, <1>5, PendingCommand
<1>7. CoversTo(NoEvent, n)
    BY <1>5, CoversNothing
<1>8. CommandsOrdered' /\ LastsOrdered'
    BY <1>1, OrderedSame
<1>9. PICK f : f = NoEvent
    OBVIOUS
<1>10. CoversTo(f, n)'
    BY <1>1, <1>7, <1>9, CoversSame
<1>11. HostOrdered'
    <2>1. event' = f
        BY <1>9 DEF OptimizerStep, Waited
    <2> QED BY <1>1, <1>2, <1>10, <2>1, HostOrderedThen
<1> QED BY <1>6, <1>8, <1>11 DEF ReadsOrdered

\* Every step keeps reads in order.
LEMMA ReadsOrderedNext ==
    ASSUME EngramTypes, ReadsOrdered, EngramNext
    PROVE  ReadsOrdered'
<1>1. EngramTypes'
    BY EngramTypesNext
<1> QED BY <1>1, OrderedExecute, OrderedRead, OrderedValidate, OrderedHits, OrderedPlanMisses, OrderedBegin,
           OrderedConsume, OrderedFailure, OrderedOptimizer DEF EngramNext

\* The hits of a read stay before its installs.
LEMMA HitsShrink ==
    ASSUME HitsBeforeInstalls, NEW s \in Queues, NEW h, Shrinks(s, h)
    PROVE  HitsBeforeInstalls'
<1>1. \A q \in Streams : \A p \in DOMAIN queue'[q] : p \in DOMAIN queue[q] /\ queue'[q][p] = queue[q][p]
    BY StreamIsQueue DEF Shrinks
<1> SUFFICES ASSUME NEW a \in Streams, NEW q \in Streams, NEW p \in DOMAIN queue'[a], NEW u \in DOMAIN queue'[q],
                    IsData(queue'[a][p]), IsData(queue'[q][u]), queue'[a][p].k = queue'[q][u].k
             PROVE  a = q /\ (queue'[a][p].op = "install" /\ queue'[q][u].op = "hits" => u < p)
    BY DEF HitsBeforeInstalls, IsData
<1> QED BY <1>1 DEF HitsBeforeInstalls

\* Hits stay first when a command that is no lookup is issued.
LEMMA HitsGrow ==
    ASSUME StreamTypes, HitsBeforeInstalls, NEW s \in Queues, NEW c, Grows(s, c), s \in Streams => ~IsData(c)
    PROVE  HitsBeforeInstalls'
<1>1. \A q \in Streams : \A p \in DOMAIN queue'[q] :
         IsData(queue'[q][p]) => p \in DOMAIN queue[q] /\ queue'[q][p] = queue[q][p]
    BY StreamIsQueue DEF Grows
<1> SUFFICES ASSUME NEW a \in Streams, NEW q \in Streams, NEW p \in DOMAIN queue'[a], NEW u \in DOMAIN queue'[q],
                    IsData(queue'[a][p]), IsData(queue'[q][u]), queue'[a][p].k = queue'[q][u].k
             PROVE  a = q /\ (queue'[a][p].op = "install" /\ queue'[q][u].op = "hits" => u < p)
    BY DEF HitsBeforeInstalls, IsData
<1> QED BY <1>1 DEF HitsBeforeInstalls

\* Hits stay first when the read issues a lookup to its stream, as long as no hits follow installs.
LEMMA LookupHitsFirst ==
    ASSUME EngramTypes, HitsFirst, Reading, NEW s, s = host.s, NEW c, IsData(c), c.k = Len(out), Issue(s, c),
           c.op = "hits" => host.pc \notin {"begin", "install"}
    PROVE  /\ HitsBeforeInstalls'
           /\ \A q \in Streams : \A p \in DOMAIN queue'[q] : IsData(queue'[q][p]) /\ queue'[q][p].k = Len(out) => q = s
<1>1. StreamTypes /\ HostKnows /\ s \in Streams /\ s \in Queues /\ HitsBeforeInstalls /\ ReadPlaced
    BY StreamIsQueue DEF EngramTypes, HostKnows, HitsFirst
<1>2. PICK m : m = issued[s] + 1
    OBVIOUS
<1>3. Grows(s, c)
    BY <1>1, IssueGrows
<1>4. \A q \in Streams : \A p \in DOMAIN queue'[q] :
         (p \in DOMAIN queue[q] /\ queue'[q][p] = queue[q][p]) \/ (q = s /\ p = m /\ queue'[q][p] = c)
    BY <1>2, <1>3, StreamIsQueue DEF Grows
<1>5. \A p \in DOMAIN queue[s] : p < m
    BY <1>2, <1>3 DEF Grows
<1>6. \A q \in Streams : \A p \in DOMAIN queue[q] :
         IsData(queue[q][p]) /\ queue[q][p].k = Len(out) => q = s /\ c.op = "install"
    BY <1>1 DEF ReadPlaced, IsData
<1>7. HitsBeforeInstalls'
    <2> SUFFICES ASSUME NEW a \in Streams, NEW q \in Streams, NEW p \in DOMAIN queue'[a], NEW u \in DOMAIN queue'[q],
                        IsData(queue'[a][p]), IsData(queue'[q][u]), queue'[a][p].k = queue'[q][u].k
                 PROVE  a = q /\ (queue'[a][p].op = "install" /\ queue'[q][u].op = "hits" => u < p)
        BY DEF HitsBeforeInstalls, IsData
    <2>1. CASE p \in DOMAIN queue[a] /\ queue'[a][p] = queue[a][p]
        <3>1. CASE u \in DOMAIN queue[q] /\ queue'[q][u] = queue[q][u]
            BY <1>1, <2>1, <3>1 DEF HitsBeforeInstalls
        <3>2. CASE q = s /\ u = m /\ queue'[q][u] = c
            <4>1. a = s /\ c.op = "install"
                BY <1>6, <2>1, <3>2
            <4> QED BY <3>2, <4>1
        <3> QED BY <1>4, <3>1, <3>2
    <2>2. CASE a = s /\ p = m /\ queue'[a][p] = c
        <3>1. CASE u \in DOMAIN queue[q] /\ queue'[q][u] = queue[q][u]
            BY <1>5, <1>6, <2>2, <3>1
        <3>2. CASE q = s /\ u = m /\ queue'[q][u] = c
            BY <2>2, <3>2
        <3> QED BY <1>4, <3>1, <3>2
    <2> QED BY <1>4, <2>1, <2>2
<1>8. ASSUME NEW q \in Streams, NEW p \in DOMAIN queue'[q], IsData(queue'[q][p]) /\ queue'[q][p].k = Len(out)
      PROVE  q = s
    BY <1>4, <1>6, <1>8
<1> QED BY <1>7, <1>8

\* Every step keeps the hits of a read before its installs, in one stream.
LEMMA HitsFirstNext ==
    ASSUME EngramTypes, ReadsOrdered, HitsFirst, EngramNext
    PROVE  HitsFirst'
<1>1. /\ StreamTypes /\ HostKnows /\ HitsBeforeInstalls /\ ReadPlaced /\ Len(out) \in Nat /\ out \in Seq(Outputs)
      /\ host \in HostRecords
    BY DEF EngramTypes, HostKnows, HitsFirst
<1>2. CASE \E s \in Queues : Execute(s)
    <2>1. PICK s \in Queues : Execute(s)
        BY <1>2
    <2>2. PICK h : h = executed[s] + 1
        OBVIOUS
    <2>3. Shrinks(s, h)
        BY <1>1, <2>1, <2>2, ExecuteShrinks
    <2>4. Len(out') = Len(out) /\ host' = host
        BY <2>1, ExecuteKeepsOutputs DEF OutputsKept, Execute
    <2>5. \A q \in Streams : \A p \in DOMAIN queue'[q] : p \in DOMAIN queue[q] /\ queue'[q][p] = queue[q][p]
        BY <2>3, StreamIsQueue DEF Shrinks
    <2>6. ReadPlaced'
        BY <1>1, <2>4, <2>5 DEF ReadPlaced, Reading, IsData
    <2> QED BY <1>1, <2>3, <2>6, HitsShrink DEF HitsFirst
<1>3. CASE \E s \in Streams, ids \in SUBSET TableRows \ {{}} : Read(s, ids)
    <2>1. PICK s \in Streams, ids \in SUBSET TableRows \ {{}} : Read(s, ids)
        BY <1>3
    <2>2. PICK c : c = Command("wait", Len(out) + 1, event, {}, <<>>)
        OBVIOUS
    <2>3. Issue(s, c) /\ ~IsData(c)
        BY <2>1, <2>2 DEF Read, Command, IsData
    <2>4. Grows(s, c) /\ s \in Queues
        BY <1>1, <2>3, IssueGrows, StreamIsQueue
    <2>5. HitsBeforeInstalls'
        BY <1>1, <2>3, <2>4, HitsGrow
    <2>6. Len(out') = Len(out) + 1
        BY <1>1, <2>1 DEF Read
    <2>7. ReadPlaced'
        <3> SUFFICES ASSUME NEW q \in Streams, NEW p \in DOMAIN queue'[q], IsData(queue'[q][p]), queue'[q][p].k = Len(out')
                     PROVE  FALSE
            BY DEF ReadPlaced, IsData
        <3>1. p \in DOMAIN queue[q] /\ queue'[q][p] = queue[q][p]
            BY <2>3, <2>4, StreamIsQueue DEF Grows
        <3>2. queue[q][p].k \in Nat /\ queue[q][p].k <= Len(out)
            BY <1>1, <3>1, PendingCommand
        <3> QED BY <1>1, <2>6, <3>1, <3>2
    <2> QED BY <2>5, <2>7 DEF HitsFirst
<1>4. CASE Validate \/ PlanMisses
    <2>1. queue' = queue /\ out' = out /\ host.pc \notin {"begin", "install"} /\ Reading
        BY <1>4 DEF Validate, PlanMisses, streamVars, Reading
    <2>2. HitsBeforeInstalls'
        BY <1>1, <2>1 DEF HitsBeforeInstalls, IsData
    <2>3. ReadPlaced'
        BY <1>1, <2>1 DEF ReadPlaced, IsData
    <2> QED BY <2>2, <2>3 DEF HitsFirst
<1>5. CASE PlanHits \/ CopyHits
    <2>1. PICK c : c = HitsCommand(IF PlanHits THEN Hits ELSE host.hits)
        OBVIOUS
    <2>2. Issue(host.s, c) /\ IsData(c) /\ c.k = Len(out) /\ Reading /\ host.pc \notin {"begin", "install"}
        BY <1>5, <2>1 DEF PlanHits, CopyHits, HitsCommand, Command, IsData, Reading
    <2>3. /\ HitsBeforeInstalls'
          /\ \A q \in Streams : \A p \in DOMAIN queue'[q] :
                IsData(queue'[q][p]) /\ queue'[q][p].k = Len(out) => q = host.s
        BY <2>2, LookupHitsFirst
    <2>4. \/ ~Reading'
          \/ out' = out /\ host'.s = host.s /\ host'.pc = "install" /\ host'.hits = {}
        <3>1. CASE PlanHits
            BY <3>1 DEF PlanHits, Returned, Reading, IdleHost
        <3>2. CASE CopyHits
            <4>1. out' = out /\ host' = [host EXCEPT !.pc = "install", !.hits = {}]
                BY <3>2 DEF CopyHits
            <4> QED BY <1>1, <4>1 DEF HostRecords
        <3> QED BY <1>5, <3>1, <3>2
    <2>5. ReadPlaced'
        BY <2>3, <2>4 DEF ReadPlaced, IsData
    <2> QED BY <2>3, <2>5 DEF HitsFirst
<1>6. CASE BeginTransfer
    <2>1. PICK c : c = Command("dma", Len(out), consumerDone, {}, Chunk)
        OBVIOUS
    <2>2. Issue("copy", c)
        BY <1>6, <2>1 DEF BeginTransfer, StagingFree
    <2>3. Grows("copy", c)
        BY <1>1, <2>2, IssueGrows, StreamIsQueue
    <2>4. HitsBeforeInstalls'
        BY <1>1, <2>3, HitsGrow, StreamIsQueue
    <2>5. \A q \in Streams : \A p \in DOMAIN queue'[q] : p \in DOMAIN queue[q] /\ queue'[q][p] = queue[q][p]
        BY <2>3, StreamIsQueue DEF Grows
    <2>6. out' = out /\ host' = [host EXCEPT !.pc = IF host.hits = {} THEN "install" ELSE "hits"] /\ Reading
        BY <1>6 DEF BeginTransfer, Reading
    <2>7. host'.s = host.s /\ host'.hits = host.hits /\ (host.hits = {} => host'.pc = "install")
        BY <1>1, <2>6 DEF HostRecords
    <2>8. ReadPlaced'
        BY <1>1, <2>5, <2>6, <2>7 DEF ReadPlaced, IsData
    <2> QED BY <2>4, <2>8 DEF HitsFirst
<1>7. CASE ConsumeTransfer
    <2>1. PICK c : c = Command("install", Len(out), copyDone, {}, Chunk)
        OBVIOUS
    <2>2. Issue(host.s, c) /\ IsData(c) /\ c.op = "install" /\ c.k = Len(out) /\ Reading /\ host.hits = {}
        BY <1>1, <1>7, <2>1 DEF ConsumeTransfer, Command, IsData, Reading, HostKnows
    <2>3. /\ HitsBeforeInstalls'
          /\ \A q \in Streams : \A p \in DOMAIN queue'[q] :
                IsData(queue'[q][p]) /\ queue'[q][p].k = Len(out) => q = host.s
        BY <2>2, LookupHitsFirst
    <2>4. \/ ~Reading'
          \/ out' = out /\ host'.s = host.s /\ host'.pc = "begin" /\ host'.hits = {}
        <3>1. CASE Returned
            BY <3>1 DEF Returned, Reading, IdleHost
        <3>2. CASE host' = [host EXCEPT !.pc = "begin", !.start = host.start + Width] /\ out' = out
            BY <1>1, <2>2, <3>2 DEF HostRecords
        <3> QED BY <1>7, <3>1, <3>2 DEF ConsumeTransfer
    <2>5. ReadPlaced'
        BY <2>3, <2>4 DEF ReadPlaced, IsData
    <2> QED BY <2>3, <2>5 DEF HitsFirst
<1>8. CASE ReadFails \/ InstallFails
    <2>1. ReadPlaced'
        BY <1>8 DEF ReadFails, InstallFails, ReadRaises, IdleHost, ReadPlaced, Reading
    <2>2. HitsBeforeInstalls'
        <3>1. CASE ReadFails
            BY <1>1, <3>1 DEF ReadFails, streamVars, HitsBeforeInstalls, IsData
        <3>2. CASE InstallFails
            <4>1. PICK c : c = Command("wait", 0, copyDone, {}, <<>>)
                OBVIOUS
            <4>2. Issue(host.s, c) /\ ~IsData(c) /\ host.s \in Queues
                BY <1>1, <3>2, <4>1 DEF InstallFails, Command, IsData, HostRecords
            <4>3. Grows(host.s, c)
                BY <1>1, <4>2, IssueGrows
            <4> QED BY <1>1, <4>2, <4>3, HitsGrow
        <3> QED BY <1>8, <3>1, <3>2
    <2> QED BY <2>1, <2>2 DEF HitsFirst
<1>9. CASE \E touched \in SUBSET TableRows \ {{}}, cl \in BOOLEAN : OptimizerStep(touched, cl)
    <2>1. queue' = queue /\ host' = host /\ ~Reading
        BY <1>9 DEF OptimizerStep, streamVars, Reading
    <2>2. HitsBeforeInstalls' /\ ReadPlaced'
        BY <1>1, <2>1 DEF HitsBeforeInstalls, ReadPlaced, Reading, IsData
    <2> QED BY <2>2 DEF HitsFirst
<1> QED BY <1>2, <1>3, <1>4, <1>5, <1>6, <1>7, <1>8, <1>9 DEF EngramNext

\* The copy stream has at most one transfer pending.
LEMMA CopyQueue ==
    ASSUME StreamTypes, TransferKnown
    PROVE  /\ CopyIdle => DOMAIN queue["copy"] = {}
           /\ ~CopyIdle => DOMAIN queue["copy"] = {issued["copy"]} /\ copyDone[2] = issued["copy"]
           /\ Happened(copyDone) => CopyIdle
<1>1. /\ issued["copy"] \in Nat /\ executed["copy"] \in Nat /\ executed["copy"] <= issued["copy"]
      /\ DOMAIN queue["copy"] = executed["copy"] + 1 .. issued["copy"]
    BY StreamIsQueue DEF StreamTypes
<1>2. issued["copy"] <= executed["copy"] + 1 /\ copyDone[1] = "copy" /\ (CopyIdle \/ copyDone[2] = issued["copy"])
    BY DEF TransferKnown
<1>3. CopyIdle => DOMAIN queue["copy"] = {}
    BY <1>1 DEF CopyIdle
<1>4. ASSUME ~CopyIdle PROVE DOMAIN queue["copy"] = {issued["copy"]} /\ copyDone[2] = issued["copy"]
    <2>1. issued["copy"] = executed["copy"] + 1
        BY <1>1, <1>2, <1>4 DEF CopyIdle
    <2> QED BY <1>1, <1>2, <1>4, <2>1
<1>5. Happened(copyDone) => CopyIdle
    BY <1>1, <1>2 DEF Happened, CopyIdle
<1> QED BY <1>3, <1>4, <1>5

\* What becomes of the rows of an install that is pending before and after a step.
LEMMA StagedKept ==
    ASSUME NEW q, NEW p, Staged(q, p), queue'[q][p] = queue[q][p], writes' = writes, staging' = staging,
           \A d \in DOMAIN queue'["copy"] : \A e : e = queue'["copy"][d].after => CoveredBy(e, q, p)'
    PROVE  Staged(q, p)'
<1>1. Holds(staging, queue[q][p].chunk)'
    BY DEF Staged, Holds
<1>2. ASSUME NEW d \in DOMAIN queue'["copy"] PROVE CoveredBy(queue["copy"][d].after, q, p)'
    <2>1. PICK e : e = queue'["copy"][d].after
        OBVIOUS
    <2>2. CoveredBy(e, q, p)'
        BY <2>1
    <2> QED BY <2>1, <2>2
<1> QED BY <1>1, <1>2 DEF Staged

\* Rows on their way from the pinned buffer stay so while it and their transfer stay.
LEMMA LoadingKept ==
    ASSUME NEW q, NEW p, Loading(q, p), queue'[q][p] = queue[q][p], writes' = writes, pinned' = pinned,
           \A d \in DOMAIN queue["copy"] : d \in DOMAIN queue'["copy"] /\ queue'["copy"][d] = queue["copy"][d]
    PROVE  Loading(q, p)'
BY DEF Loading, Holds

\* A lookup command whose turn has come has its rows.
LEMMA ReadyIsStaged ==
    ASSUME StreamTypes, InstallsFed, NEW s \in Streams, NEW p \in DOMAIN queue[s], queue[s][p].op = "install",
           Happened(queue[s][p].after)
    PROVE  Staged(s, p)
<1> SUFFICES ASSUME Loading(s, p) PROVE FALSE
    BY DEF InstallsFed
<1>1. PICK d \in DOMAIN queue["copy"] : queue[s][p].after[2] = d
    BY DEF Loading
<1>2. queue[s][p].after[1] = "copy"
    BY DEF Loading
<1>3. executed["copy"] < d /\ executed["copy"] \in Nat /\ d \in Nat
    BY PendingBeyond, StreamIsQueue
<1> QED BY <1>1, <1>2, <1>3 DEF Happened

\* Nor does a transfer whose turn has come overwrite rows that an install still needs.
LEMMA TransferSpares ==
    ASSUME StreamTypes, NEW d \in DOMAIN queue["copy"], Happened(queue["copy"][d].after),
           NEW s \in Streams, NEW p \in DOMAIN queue[s]
    PROVE  ~Staged(s, p)
<1> SUFFICES ASSUME Staged(s, p) PROVE FALSE
    OBVIOUS
<1>1. PICK e : e = queue["copy"][d].after
    OBVIOUS
<1>2. e \in Events
    BY <1>1 DEF StreamTypes, CopyCommands
<1>3. CoveredBy(e, s, p)
    BY <1>1 DEF Staged
<1>4. Happened(e)
    BY <1>1
<1> QED BY <1>2, <1>3, <1>4, HappenedCovers

\* An executed command keeps the rows of pending installs in the buffers: a transfer starts only
\* after the installs that use the staging buffer.
LEMMA FedExecute ==
    ASSUME EngramTypes, ReadsOrdered, InstallsFed, TransferKnown, NEW s \in Queues, Execute(s)
    PROVE  InstallsFed' /\ TransferKnown'
<1>1. StreamTypes /\ consumerDone \in Events
    BY DEF EngramTypes, CacheTypes
<1>2. PICK h : h = executed[s] + 1
    OBVIOUS
<1>3. Shrinks(s, h) /\ issued' = issued
    BY <1>1, <1>2, ExecuteShrinks
<1>4. Happened(queue[s][h].after)
    BY <1>2 DEF Execute
<1>5. /\ writes' = writes /\ pinned' = pinned /\ consumerDone' = consumerDone /\ copyDone' = copyDone
      /\ ticket' = ticket /\ host' = host /\ version' = version
    BY DEF Execute, rowVars, rowCacheVars
<1>6. \A q \in Streams : \A p \in DOMAIN queue'[q] : p \in DOMAIN queue[q] /\ queue'[q][p] = queue[q][p]
    BY <1>3, StreamIsQueue DEF Shrinks
<1>7. ASSUME NEW q \in Streams, NEW p \in DOMAIN queue'[q], queue[q][p].op = "install", NEW e \in Events, CoveredBy(e, q, p)
      PROVE  CoveredBy(e, q, p)'
    BY <1>1, <1>3, <1>4, <1>7, CoveredShrinks DEF IsData
<1>8. PICK c : c = queue[s][h]
    OBVIOUS
<1>9. Passes(c) \/ Transfers(c) \/ CopiesHits(c) \/ InstallsRows(c)
    BY <1>2, <1>8 DEF Execute
<1>10. h \in DOMAIN queue[s]
    BY <1>3 DEF Shrinks
<1>11. Chunk' = Chunk
    BY <1>5 DEF Chunk, Width
<1>12. CASE s \in Streams
    <2>1. c.op # "dma"
        BY <1>8, <1>10, <1>12, <1>1 DEF StreamTypes, StreamCommands
    <2>2. staging' = staging
        BY <1>9, <2>1 DEF Passes, Transfers, CopiesHits, InstallsRows
    <2>3. /\ \A d \in DOMAIN queue["copy"] : d \in DOMAIN queue'["copy"] /\ queue'["copy"][d] = queue["copy"][d]
          /\ \A d \in DOMAIN queue'["copy"] : d \in DOMAIN queue["copy"] /\ queue'["copy"][d] = queue["copy"][d]
          /\ executed'["copy"] = executed["copy"]
        BY <1>3, <1>12, StreamIsQueue DEF Shrinks
    <2>4. ASSUME NEW q \in Streams, NEW p \in DOMAIN queue'[q], queue'[q][p].op = "install"
          PROVE  (CoveredBy(consumerDone, q, p) /\ (Staged(q, p) \/ Loading(q, p)))'
        <3>1. p \in DOMAIN queue[q] /\ queue'[q][p] = queue[q][p] /\ queue[q][p].op = "install"
            BY <1>6, <2>4
        <3>2. CoveredBy(consumerDone, q, p) /\ (Staged(q, p) \/ Loading(q, p))
            BY <3>1 DEF InstallsFed
        <3>3. PICK e \in Events : e = consumerDone
            BY <1>1
        <3>4. CoveredBy(e, q, p)'
            BY <1>7, <3>1, <3>2, <3>3
        <3>5. CASE Staged(q, p)
            <4>1. ASSUME NEW d \in DOMAIN queue'["copy"], NEW f, f = queue'["copy"][d].after PROVE CoveredBy(f, q, p)'
                <5>1. d \in DOMAIN queue["copy"] /\ f = queue["copy"][d].after
                    BY <2>3, <4>1
                <5>2. f \in Events
                    BY <1>1, <5>1 DEF StreamTypes, CopyCommands
                <5>3. CoveredBy(f, q, p)
                    BY <3>5, <5>1 DEF Staged
                <5> QED BY <1>7, <3>1, <5>2, <5>3
            <4>2. Staged(q, p)'
                BY <1>5, <2>2, <3>1, <3>5, <4>1, StagedKept
            <4> QED BY <1>5, <3>3, <3>4, <4>2
        <3>6. CASE Loading(q, p)
            <4>1. Loading(q, p)'
                BY <1>5, <2>3, <3>1, <3>6, LoadingKept
            <4> QED BY <1>5, <3>3, <3>4, <4>1
        <3> QED BY <3>2, <3>5, <3>6
    <2>5. InstallsFed'
        BY <2>4 DEF InstallsFed
    <2>6. CopyIdle' = CopyIdle /\ Holds(staging, Chunk)' = Holds(staging, Chunk)
          /\ Holds(pinned, Chunk)' = Holds(pinned, Chunk)
        BY <1>3, <1>5, <1>11, <2>2, <2>3 DEF CopyIdle, Holds
    <2>7. ~CopyIdle => queue'["copy"][issued["copy"]] = queue["copy"][issued["copy"]]
        BY <1>1, <2>3, CopyQueue
    <2>8. TransferKnown'
        BY <1>3, <1>5, <1>11, <2>3, <2>6, <2>7 DEF TransferKnown
    <2> QED BY <2>5, <2>8
<1>13. CASE s = "copy"
    <2>1. c \in CopyCommands /\ c.op = "dma" /\ c.chunk \in RowChunks
        BY <1>1, <1>8, <1>10, <1>13 DEF StreamTypes, CopyCommands
    <2>2. staging' = [i \in Buffer |-> IF i \in DOMAIN c.chunk THEN pinned[i] ELSE staging[i]]
        BY <1>9, <2>1 DEF Passes, Transfers, CopiesHits, InstallsRows
    <2>3. \A i \in DOMAIN c.chunk : staging'[i] = pinned[i]
        BY <2>1, <2>2, ChunkType
    <2>4. ~CopyIdle /\ h = issued["copy"] /\ DOMAIN queue["copy"] = {h}
        BY <1>1, <1>10, <1>13, CopyQueue
    <2>5. DOMAIN queue'["copy"] = {} /\ executed'["copy"] = issued'["copy"]
        BY <1>3, <1>13, <2>4, StreamIsQueue DEF Shrinks
    <2>6. ASSUME NEW q \in Streams, NEW p \in DOMAIN queue'[q], queue'[q][p].op = "install"
          PROVE  (CoveredBy(consumerDone, q, p) /\ (Staged(q, p) \/ Loading(q, p)))'
        <3>1. p \in DOMAIN queue[q] /\ queue'[q][p] = queue[q][p] /\ queue[q][p].op = "install"
            BY <1>6, <2>6
        <3>2. CoveredBy(consumerDone, q, p) /\ (Staged(q, p) \/ Loading(q, p))
            BY <3>1 DEF InstallsFed
        <3>3. PICK e \in Events : e = consumerDone
            BY <1>1
        <3>4. CoveredBy(e, q, p)'
            BY <1>7, <3>1, <3>2, <3>3
        <3>5. ~Staged(q, p)
            BY <1>1, <1>4, <1>10, <1>13, <3>1, TransferSpares
        <3>6. Holds(pinned, queue[q][p].chunk) /\ queue[q][p].chunk = c.chunk
            BY <1>8, <1>13, <2>4, <3>2, <3>5 DEF Loading
        <3>7. Holds(staging, queue[q][p].chunk)'
            BY <1>5, <2>3, <3>1, <3>6 DEF Holds
        <3>8. Staged(q, p)'
            BY <2>5, <3>7 DEF Staged
        <3> QED BY <1>5, <3>3, <3>4, <3>8
    <2>7. InstallsFed'
        BY <2>6 DEF InstallsFed
    <2>8. host.pc \in {"hits", "install"} => Holds(staging, Chunk)'
        BY <1>5, <1>8, <1>11, <1>13, <2>3, <2>4 DEF TransferKnown, Holds
    <2>9. issued'["copy"] \in Nat /\ CopyIdle'
        BY <1>1, <1>3, <2>5, StreamIsQueue DEF StreamTypes, CopyIdle
    <2>10. TransferKnown'
        BY <1>5, <2>5, <2>8, <2>9 DEF TransferKnown
    <2> QED BY <2>7, <2>10
<1> QED BY <1>12, <1>13 DEF Queues

\* A command issued to a caller's stream: the installs that are pending keep their rows.
LEMMA FedIssue ==
    ASSUME EngramTypes, InstallsFed, TransferKnown, NEW s \in Streams, NEW c, Issue(s, c),
           writes' = writes, staging' = staging, pinned' = pinned
    PROVE  /\ Grows(s, c) /\ s \in Queues
           /\ \A q \in Streams : \A p \in DOMAIN queue[q] : queue[q][p].op = "install" =>
                 /\ (Staged(q, p) \/ Loading(q, p))'
                 /\ \A e \in Events : CoveredBy(e, q, p) => CoveredBy(e, q, p)'
           /\ CopyIdle' = CopyIdle /\ executed'["copy"] = executed["copy"] /\ issued'["copy"] = issued["copy"]
           /\ DOMAIN queue'["copy"] = DOMAIN queue["copy"]
           /\ \A d \in DOMAIN queue["copy"] : queue'["copy"][d] = queue["copy"][d]
<1>1. StreamTypes /\ s \in Queues /\ s # "copy"
    BY StreamIsQueue DEF EngramTypes
<1>2. Grows(s, c)
    BY <1>1, IssueGrows
<1>3. executed'["copy"] = executed["copy"] /\ issued'["copy"] = issued["copy"]
    BY <1>1, <1>2, StreamIsQueue DEF Grows
<1>4. /\ \A d \in DOMAIN queue["copy"] : d \in DOMAIN queue'["copy"] /\ queue'["copy"][d] = queue["copy"][d]
      /\ \A d \in DOMAIN queue'["copy"] : d \in DOMAIN queue["copy"]
    BY <1>1, <1>2, StreamIsQueue DEF Grows
<1>5. ASSUME NEW q \in Streams, NEW p \in DOMAIN queue[q], queue[q][p].op = "install"
      PROVE  /\ (Staged(q, p) \/ Loading(q, p))'
             /\ \A e \in Events : CoveredBy(e, q, p) => CoveredBy(e, q, p)'
    <2>1. \A e \in Events : CoveredBy(e, q, p) => CoveredBy(e, q, p)'
        BY <1>1, <1>2, CoveredGrows
    <2>2. queue'[q][p] = queue[q][p]
        BY <1>2, StreamIsQueue DEF Grows
    <2>3. CASE Staged(q, p)
        <3>1. ASSUME NEW d \in DOMAIN queue'["copy"], NEW f, f = queue'["copy"][d].after PROVE CoveredBy(f, q, p)'
            <4>1. d \in DOMAIN queue["copy"] /\ f = queue["copy"][d].after
                BY <1>4, <3>1
            <4>2. f \in Events
                BY <1>1, <4>1 DEF StreamTypes, CopyCommands
            <4>3. CoveredBy(f, q, p)
                BY <2>3, <4>1 DEF Staged
            <4> QED BY <2>1, <4>2, <4>3
        <3>2. Staged(q, p)'
            BY <2>2, <2>3, <3>1, StagedKept
        <3> QED BY <2>1, <3>2
    <2>4. CASE Loading(q, p)
        <3>1. Loading(q, p)'
            BY <1>4, <2>2, <2>4, LoadingKept
        <3> QED BY <2>1, <3>1
    <2> QED BY <1>5, <2>3, <2>4 DEF InstallsFed
<1>6. DOMAIN queue'["copy"] = DOMAIN queue["copy"]
    BY <1>4
<1> QED BY <1>1, <1>2, <1>3, <1>4, <1>5, <1>6 DEF CopyIdle

\* A command that is no install and moves no event of the transfers.
LEMMA FedLater ==
    ASSUME EngramTypes, InstallsFed, TransferKnown, NEW s \in Streams, NEW c, Issue(s, c), c.op # "install",
           writes' = writes, staging' = staging, pinned' = pinned, consumerDone' = consumerDone
    PROVE  InstallsFed'
<1> SUFFICES ASSUME NEW q \in Streams, NEW p \in DOMAIN queue'[q], queue'[q][p].op = "install"
             PROVE  (CoveredBy(consumerDone, q, p) /\ (Staged(q, p) \/ Loading(q, p)))'
    BY DEF InstallsFed
<1>1. /\ Grows(s, c) /\ s \in Queues
      /\ \A a \in Streams : \A b \in DOMAIN queue[a] : queue[a][b].op = "install" =>
            /\ (Staged(a, b) \/ Loading(a, b))'
            /\ \A e \in Events : CoveredBy(e, a, b) => CoveredBy(e, a, b)'
    BY FedIssue
<1>2. p \in DOMAIN queue[q] /\ queue[q][p].op = "install"
    BY <1>1, StreamIsQueue DEF Grows
<1>3. PICK e \in Events : e = consumerDone
    BY DEF EngramTypes, CacheTypes
<1>4. CoveredBy(e, q, p)
    BY <1>2, <1>3 DEF InstallsFed
<1>5. CoveredBy(e, q, p)' /\ (Staged(q, p) \/ Loading(q, p))'
    BY <1>1, <1>2, <1>4
<1> QED BY <1>3, <1>5

\* Nothing is issued.
LEMMA FedSame ==
    ASSUME EngramTypes, InstallsFed, queue' = queue, writes' = writes, staging' = staging, pinned' = pinned,
           consumerDone' = consumerDone
    PROVE  InstallsFed'
BY DEF InstallsFed, Staged, Loading, Holds, CoveredBy

\* When the last consumer has executed no install is pending.
LEMMA FedNothing ==
    ASSUME StreamTypes, InstallsFed, Happened(consumerDone), consumerDone \in Events, queue' = queue
    PROVE  InstallsFed'
<1>1. ASSUME NEW q \in Streams, NEW p \in DOMAIN queue[q] PROVE queue[q][p].op # "install"
    BY HappenedCovers DEF InstallsFed
<1> QED BY <1>1 DEF InstallsFed

\* A read that begins touches no buffer.
LEMMA FedRead ==
    ASSUME EngramTypes, InstallsFed, TransferKnown, NEW s \in Streams, NEW ids, Read(s, ids)
    PROVE  InstallsFed' /\ TransferKnown'
<1>1. PICK c : c = Command("wait", Len(out) + 1, event, {}, <<>>)
    OBVIOUS
<1>2. /\ Issue(s, c) /\ c.op = "wait" /\ writes' = writes /\ staging' = staging /\ pinned' = pinned
      /\ consumerDone' = consumerDone /\ copyDone' = copyDone /\ ticket' = ticket /\ version' = version
      /\ host.pc = "idle" /\ host'.pc = "validate"
    BY <1>1 DEF Read, Command, rowVars, rowCacheVars, bufferVars
<1>3. CopyIdle' = CopyIdle /\ executed'["copy"] = executed["copy"] /\ issued'["copy"] = issued["copy"]
    BY <1>2, FedIssue
<1>4. TransferKnown'
    BY <1>2, <1>3 DEF TransferKnown
<1> QED BY <1>2, <1>4, FedLater

\* _validate touches no buffer.
LEMMA FedValidate ==
    ASSUME EngramTypes, InstallsFed, TransferKnown, Validate
    PROVE  InstallsFed' /\ TransferKnown'
<1>1. /\ queue' = queue /\ executed' = executed /\ issued' = issued /\ writes' = writes /\ staging' = staging
      /\ pinned' = pinned /\ host' = [host EXCEPT !.pc = "plan"] /\ host.pc = "validate" /\ host \in HostRecords
      /\ StreamTypes /\ consumerDone \in Events
    BY DEF Validate, streamVars, rowVars, bufferVars, EngramTypes, HostKnows, CacheTypes
<1>2. host'.pc = "plan"
    BY <1>1 DEF HostRecords
<1>3. CASE UNCHANGED rowCacheVars
    <2>1. InstallsFed'
        BY <1>1, <1>3, FedSame DEF rowCacheVars
    <2>2. TransferKnown'
        BY <1>1, <1>2, <1>3 DEF rowCacheVars, TransferKnown, CopyIdle
    <2> QED BY <2>1, <2>2
<1>4. CASE Drained /\ Waited
    <2>1. InstallsFed'
        BY <1>1, <1>4, FedNothing DEF Drained
    <2>2. CopyIdle
        BY <1>1, <1>4, CopyQueue DEF Drained
    <2>3. TransferKnown'
        BY <1>1, <1>2, <1>4, <2>2, NoEventType DEF Waited, TransferKnown, CopyIdle
    <2> QED BY <2>1, <2>3
<1> QED BY <1>3, <1>4 DEF Validate

\* Issuing hits touches no buffer.
LEMMA FedHits ==
    ASSUME EngramTypes, InstallsFed, TransferKnown, PlanHits \/ CopyHits
    PROVE  InstallsFed' /\ TransferKnown'
<1>1. PICK c : c = HitsCommand(IF PlanHits THEN Hits ELSE host.hits)
    OBVIOUS
<1>2. /\ Issue(host.s, c) /\ c.op = "hits" /\ writes' = writes /\ staging' = staging /\ pinned' = pinned
      /\ consumerDone' = consumerDone /\ copyDone' = copyDone /\ ticket' = ticket /\ version' = version
    BY <1>1 DEF PlanHits, CopyHits, HitsCommand, Command, rowVars, rowCacheVars, bufferVars
<1>3. host.s \in Streams /\ host \in HostRecords /\ StreamTypes /\ version = wversion /\ wversion \in Nat
    BY DEF PlanHits, CopyHits, EngramTypes, HostKnows, Reading, CacheTypes
<1>4. /\ CopyIdle' = CopyIdle /\ executed'["copy"] = executed["copy"] /\ issued'["copy"] = issued["copy"]
      /\ \A d \in DOMAIN queue["copy"] : queue'["copy"][d] = queue["copy"][d]
    BY <1>2, <1>3, FedIssue
<1>5. \/ host.pc = "plan" /\ host'.pc = "idle"
      \/ host.pc = "hits" /\ host'.pc = "install" /\ Chunk' = Chunk
    <2>1. CASE PlanHits
        BY <2>1 DEF PlanHits, Returned, IdleHost
    <2>2. CASE CopyHits
        <3>1. host.pc = "hits" /\ host' = [host EXCEPT !.pc = "install", !.hits = {}]
            BY <2>2 DEF CopyHits
        <3>2. host'.pc = "install" /\ host'.start = host.start /\ host'.missing = host.missing
            BY <1>3, <3>1 DEF HostRecords
        <3> QED BY <3>1, <3>2 DEF Chunk, Width
    <2> QED BY <2>1, <2>2
<1>6. TransferKnown'
    <2>1. CASE host.pc = "plan" /\ host'.pc = "idle"
        <3>1. ~ticket
            BY <1>3, <2>1 DEF TransferKnown, Empty
        <3> QED BY <1>2, <1>4, <2>1, <3>1 DEF TransferKnown
    <2>2. CASE host.pc = "hits" /\ host'.pc = "install" /\ Chunk' = Chunk
        <3>1. ~CopyIdle => queue'["copy"][issued["copy"]] = queue["copy"][issued["copy"]]
            BY <1>3, <1>4, CopyQueue
        <3>2. Holds(staging, Chunk)' = Holds(staging, Chunk) /\ Holds(pinned, Chunk)' = Holds(pinned, Chunk)
            BY <1>2, <2>2 DEF Holds
        <3> QED BY <1>2, <1>4, <2>2, <3>1, <3>2 DEF TransferKnown
    <2> QED BY <1>5, <2>1, <2>2
<1>7. InstallsFed'
    BY <1>2, <1>3, FedLater
<1> QED BY <1>6, <1>7

\* Listing misses touches no buffer.
LEMMA FedPlanMisses ==
    ASSUME EngramTypes, InstallsFed, TransferKnown, PlanMisses
    PROVE  InstallsFed' /\ TransferKnown'
<1>1. /\ UNCHANGED <<queue, executed, issued, writes, staging, pinned, consumerDone, copyDone, ticket, version>>
      /\ host.pc = "plan" /\ host \in HostRecords
    BY DEF PlanMisses, streamVars, rowVars, rowCacheVars, bufferVars, EngramTypes, HostKnows
<1>2. PICK q : host' = [host EXCEPT !.pc = "begin", !.hits = Hits, !.missing = q]
    BY DEF PlanMisses
<1>3. host'.pc = "begin"
    BY <1>1, <1>2 DEF HostRecords
<1>4. TransferKnown'
    BY <1>1, <1>3 DEF TransferKnown, CopyIdle
<1> QED BY <1>1, <1>4, FedSame

\* _begin_transfer overwrites the pinned buffer after its last transfer, and no other is pending.
LEMMA FedBegin ==
    ASSUME EngramTypes, InstallsFed, TransferKnown, BeginTransfer
    PROVE  InstallsFed' /\ TransferKnown'
<1>1. StreamTypes /\ host \in HostRecords /\ consumerDone \in Events
    BY DEF EngramTypes, HostKnows, CacheTypes
<1>2. PICK c : c = Command("dma", Len(out), consumerDone, {}, Chunk)
    OBVIOUS
<1>3. /\ Issue("copy", c) /\ c.after = consumerDone /\ c.chunk = Chunk
      /\ writes' = writes /\ staging' = staging /\ consumerDone' = consumerDone
    BY <1>2 DEF BeginTransfer, StagingFree, Command, rowVars
<1>4. Grows("copy", c) /\ "copy" \in Queues
    BY <1>1, <1>3, IssueGrows, StreamIsQueue
<1>5. CopyIdle /\ DOMAIN queue["copy"] = {}
    BY <1>1, CopyQueue DEF BeginTransfer, PinnedFree
<1>6. PICK m : m = issued["copy"] + 1
    OBVIOUS
<1>7. /\ DOMAIN queue'["copy"] = {m} /\ queue'["copy"][m] = c /\ issued'["copy"] = m
      /\ executed'["copy"] = executed["copy"] /\ issued["copy"] \in Nat
    BY <1>4, <1>5, <1>6 DEF Grows
<1>8. ASSUME NEW q \in Streams, NEW p \in DOMAIN queue'[q], queue'[q][p].op = "install"
      PROVE  (CoveredBy(consumerDone, q, p) /\ (Staged(q, p) \/ Loading(q, p)))'
    <2>1. p \in DOMAIN queue[q] /\ queue'[q][p] = queue[q][p] /\ queue[q][p].op = "install"
        BY <1>4, <1>8, StreamIsQueue DEF Grows
    <2>2. CoveredBy(consumerDone, q, p) /\ Staged(q, p)
        BY <1>5, <2>1 DEF InstallsFed, Loading
    <2>3. PICK e \in Events : e = consumerDone
        BY <1>1
    <2>4. CoveredBy(e, q, p)'
        BY <1>4, <2>1, <2>2, <2>3, CoveredGrows
    <2>5. \A d \in DOMAIN queue'["copy"] : \A f : f = queue'["copy"][d].after => CoveredBy(f, q, p)'
        BY <1>3, <1>7, <2>3, <2>4
    <2>6. Staged(q, p)'
        BY <1>3, <2>1, <2>2, <2>5, StagedKept
    <2> QED BY <1>3, <2>3, <2>4, <2>6
<1>9. InstallsFed'
    BY <1>8 DEF InstallsFed
<1>10. host' = [host EXCEPT !.pc = IF host.hits = {} THEN "install" ELSE "hits"]
    BY DEF BeginTransfer
<1>11. host'.pc \in {"hits", "install"} /\ host'.start = host.start /\ host'.missing = host.missing
    BY <1>1, <1>10 DEF HostRecords
<1>12. Chunk' = Chunk
    BY <1>11 DEF Chunk, Width
<1>13. Holds(pinned, Chunk)'
    <2>1. \A i \in DOMAIN Chunk : i \in Buffer
        BY ChunkKnown DEF BeginTransfer
    <2>2. pinned' = [i \in Buffer |-> IF i \in DOMAIN Chunk THEN <<Chunk[i], writes[Chunk[i]]>> ELSE pinned[i]]
        BY DEF BeginTransfer
    <2>3. \A i \in DOMAIN Chunk : pinned'[i] = <<Chunk[i], writes[Chunk[i]]>>
        BY <2>1, <2>2
    <2> QED BY <1>3, <1>12, <2>3 DEF Holds
<1>14. copyDone' = <<"copy", m>>
    BY <1>6 DEF BeginTransfer, Recorded
<1>15. m <= executed["copy"] + 1 /\ ~CopyIdle'
    BY <1>5, <1>6, <1>7 DEF CopyIdle
<1>16. TransferKnown'
    BY <1>3, <1>7, <1>11, <1>12, <1>13, <1>14, <1>15 DEF TransferKnown
<1> QED BY <1>9, <1>16

\* The install that is issued has its rows staged or on their way.
LEMMA FedConsume ==
    ASSUME EngramTypes, ReadsOrdered, InstallsFed, TransferKnown, ConsumeTransfer
    PROVE  InstallsFed' /\ TransferKnown'
<1>1. /\ StreamTypes /\ HostKnows /\ host \in HostRecords /\ host.s \in Streams /\ Reading /\ copyDone \in Events
      /\ Chunk \in RowChunks /\ HostOrdered
    BY ChunkKnown DEF ConsumeTransfer, EngramTypes, HostKnows, CacheTypes, ReadsOrdered
<1>2. PICK c : c = Command("install", Len(out), copyDone, {}, Chunk)
    OBVIOUS
<1>3. PICK s \in Streams : s = host.s
    BY <1>1
<1>4. /\ Issue(s, c) /\ c.op = "install" /\ c.after = copyDone /\ c.chunk = Chunk /\ IsData(c)
      /\ writes' = writes /\ staging' = staging /\ pinned' = pinned /\ copyDone' = copyDone /\ ticket' = FALSE
    BY <1>2, <1>3 DEF ConsumeTransfer, Command, IsData, rowVars, bufferVars
<1>5. /\ Grows(s, c) /\ s \in Queues
      /\ \A q \in Streams : \A p \in DOMAIN queue[q] : queue[q][p].op = "install" => (Staged(q, p) \/ Loading(q, p))'
      /\ CopyIdle' = CopyIdle /\ executed'["copy"] = executed["copy"] /\ issued'["copy"] = issued["copy"]
      /\ DOMAIN queue'["copy"] = DOMAIN queue["copy"]
      /\ \A d \in DOMAIN queue["copy"] : queue'["copy"][d] = queue["copy"][d]
    BY <1>1, <1>4, FedIssue
<1>6. PICK n \in Nat : n = Len(out)
    BY <1>1 DEF HostKnows
<1>7. PICK m : m = issued[s] + 1
    OBVIOUS
<1>8. CoversTo(<<s, m>>, n)'
    <2>1. CoversTo(<<s, issued[s]>>, n)
        BY <1>1, <1>3, <1>6 DEF HostOrdered
    <2> QED BY <1>5, <1>7, <2>1, CoversToEnd
<1>9. consumerDone' = <<s, m>>
    BY <1>3, <1>7 DEF ConsumeTransfer, Recorded
<1>10. \A q \in Streams : \A p \in DOMAIN queue'[q] :
          \/ p \in DOMAIN queue[q] /\ queue'[q][p] = queue[q][p]
          \/ q = s /\ p = m /\ queue'[q][p] = c
    BY <1>5, <1>7, StreamIsQueue DEF Grows
<1>11. ASSUME NEW q \in Streams, NEW p \in DOMAIN queue'[q], queue'[q][p].op = "install"
       PROVE  (CoveredBy(consumerDone, q, p) /\ (Staged(q, p) \/ Loading(q, p)))'
    <2>1. CASE p \in DOMAIN queue[q] /\ queue'[q][p] = queue[q][p]
        <3>1. queue[q][p].k <= n
            BY <1>1, <1>6, <2>1, PendingCommand
        <3>2. CoveredBy(<<s, m>>, q, p)'
            BY <1>8, <1>11, <2>1, <3>1 DEF CoversTo, IsData
        <3>3. PICK e : e = <<s, m>>
            OBVIOUS
        <3> QED BY <1>5, <1>9, <1>11, <2>1, <3>2, <3>3
    <2>2. CASE q = s /\ p = m /\ queue'[q][p] = c
        <3>1. CoveredBy(<<s, m>>, q, p)'
            <4>1. m <= m
                BY <1>5, <1>7 DEF Grows
            <4> QED BY <2>2, <4>1 DEF CoveredBy
        <3>2. PICK e : e = <<s, m>>
            OBVIOUS
        <3>3. CoveredBy(consumerDone, q, p)'
            BY <1>9, <3>1, <3>2
        <3>4. CASE CopyIdle
            <4>1. Holds(staging, Chunk)
                BY <3>4 DEF TransferKnown, ConsumeTransfer
            <4>2. DOMAIN queue'["copy"] = {}
                BY <1>1, <1>5, <3>4, CopyQueue
            <4>3. Holds(staging, queue[q][p].chunk)'
                BY <1>4, <2>2, <4>1 DEF Holds
            <4>4. Staged(q, p)'
                BY <4>2, <4>3 DEF Staged
            <4> QED BY <3>3, <4>4
        <3>5. CASE ~CopyIdle
            <4>1. /\ Holds(pinned, Chunk) /\ queue["copy"][issued["copy"]].chunk = Chunk
                  /\ copyDone[1] = "copy" /\ copyDone[2] = issued["copy"]
                BY <3>5 DEF TransferKnown, ConsumeTransfer
            <4>2. issued["copy"] \in DOMAIN queue["copy"]
                BY <1>1, <3>5, CopyQueue
            <4>3. Holds(pinned, queue[q][p].chunk)'
                BY <1>4, <2>2, <4>1 DEF Holds
            <4>4. \E d \in DOMAIN queue'["copy"] :
                     queue'["copy"][d].chunk = queue'[q][p].chunk /\ queue'[q][p].after[2] = d
                BY <1>4, <1>5, <2>2, <4>1, <4>2
            <4>5. queue'[q][p].after[1] = "copy"
                BY <1>4, <2>2, <4>1
            <4>6. Loading(q, p)'
                BY <4>3, <4>4, <4>5 DEF Loading
            <4> QED BY <3>3, <4>6
        <3> QED BY <3>4, <3>5
    <2> QED BY <1>10, <2>1, <2>2
<1>12. InstallsFed'
    BY <1>11 DEF InstallsFed
<1>13. host'.pc \in {"idle", "begin"}
    <2>1. CASE Returned
        BY <2>1 DEF Returned, IdleHost
    <2>2. CASE host' = [host EXCEPT !.pc = "begin", !.start = host.start + Width]
        BY <1>1, <2>2 DEF HostRecords
    <2> QED BY <2>1, <2>2 DEF ConsumeTransfer
<1>14. TransferKnown'
    BY <1>4, <1>5, <1>13 DEF TransferKnown
<1> QED BY <1>12, <1>14

\* A read that fails leaves buffers and consumers as they are, or waits for its transfer.
LEMMA FedFailure ==
    ASSUME EngramTypes, ReadsOrdered, InstallsFed, TransferKnown, ReadFails \/ InstallFails
    PROVE  InstallsFed' /\ TransferKnown'
<1>1. /\ StreamTypes /\ HostKnows /\ host.s \in Streams /\ Reading /\ HostOrdered
      /\ writes' = writes /\ staging' = staging /\ pinned' = pinned /\ copyDone' = copyDone
      /\ version' = Empty /\ host'.pc = "idle"
    BY DEF ReadFails, InstallFails, ReadRaises, rowVars, bufferVars, IdleHost, EngramTypes, HostKnows, Reading, ReadsOrdered
<1>2. CASE ReadFails
    <2>1. queue' = queue /\ issued' = issued /\ executed' = executed /\ consumerDone' = consumerDone
        BY <1>2 DEF ReadFails, streamVars
    <2>2. InstallsFed'
        BY <1>1, <2>1, FedSame
    <2>3. TransferKnown'
        BY <1>1, <2>1 DEF TransferKnown, CopyIdle
    <2> QED BY <2>2, <2>3
<1>3. CASE InstallFails
    <2>1. PICK c : c = Command("wait", 0, copyDone, {}, <<>>)
        OBVIOUS
    <2>2. PICK s \in Streams : s = host.s
        BY <1>1
    <2>3. Issue(s, c) /\ c.op # "install" /\ ticket' = FALSE
        BY <1>3, <2>1, <2>2 DEF InstallFails, Command
    <2>4. /\ Grows(s, c) /\ s \in Queues
          /\ \A q \in Streams : \A p \in DOMAIN queue[q] : queue[q][p].op = "install" => (Staged(q, p) \/ Loading(q, p))'
          /\ CopyIdle' = CopyIdle /\ executed'["copy"] = executed["copy"] /\ issued'["copy"] = issued["copy"]
        BY <1>1, <2>3, FedIssue
    <2>5. PICK n \in Nat : n = Len(out)
        BY <1>1 DEF HostKnows
    <2>6. PICK m : m = issued[s] + 1
        OBVIOUS
    <2>7. CoversTo(<<s, m>>, n)'
        <3>1. CoversTo(<<s, issued[s]>>, n)
            BY <1>1, <2>2, <2>5 DEF HostOrdered
        <3> QED BY <2>4, <2>6, <3>1, CoversToEnd
    <2>8. consumerDone' = <<s, m>>
        BY <1>3, <2>2, <2>6 DEF InstallFails, Recorded
    <2>9. ASSUME NEW q \in Streams, NEW p \in DOMAIN queue'[q], queue'[q][p].op = "install"
          PROVE  (CoveredBy(consumerDone, q, p) /\ (Staged(q, p) \/ Loading(q, p)))'
        <3>1. p \in DOMAIN queue[q] /\ queue'[q][p] = queue[q][p]
            BY <2>3, <2>4, <2>9, StreamIsQueue DEF Grows
        <3>2. queue[q][p].k <= n
            BY <1>1, <2>5, <3>1, PendingCommand
        <3>3. CoveredBy(<<s, m>>, q, p)'
            BY <2>7, <2>9, <3>1, <3>2 DEF CoversTo, IsData
        <3>4. PICK e : e = <<s, m>>
            OBVIOUS
        <3> QED BY <2>4, <2>8, <2>9, <3>1, <3>3, <3>4
    <2>10. InstallsFed'
        BY <2>9 DEF InstallsFed
    <2>11. TransferKnown'
        BY <1>1, <2>3, <2>4 DEF TransferKnown
    <2> QED BY <2>10, <2>11
<1> QED BY <1>2, <1>3

\* An optimizer step changes rows when no install is pending.
LEMMA FedOptimizer ==
    ASSUME EngramTypes, InstallsFed, TransferKnown, NEW touched, NEW cleared, OptimizerStep(touched, cleared)
    PROVE  InstallsFed' /\ TransferKnown'
<1>1. /\ StreamTypes /\ consumerDone \in Events /\ Drained /\ Waited
      /\ queue' = queue /\ executed' = executed /\ issued' = issued /\ host' = host /\ host.pc = "idle"
    BY DEF OptimizerStep, streamVars, EngramTypes, CacheTypes
<1>2. InstallsFed'
    BY <1>1, FedNothing DEF Drained
<1>3. CopyIdle
    BY <1>1, CopyQueue DEF Drained
<1>4. TransferKnown'
    BY <1>1, <1>3, NoEventType DEF Waited, TransferKnown, CopyIdle
<1> QED BY <1>2, <1>4

\* Every step keeps the rows of pending installs in the buffers.
LEMMA FedNext ==
    ASSUME EngramTypes, ReadsOrdered, InstallsFed, TransferKnown, EngramNext
    PROVE  InstallsFed' /\ TransferKnown'
BY FedExecute, FedRead, FedValidate, FedHits, FedPlanMisses, FedBegin, FedConsume, FedFailure, FedOptimizer DEF EngramNext

\* A pending command is the same to the cache after a step.
LEMMA ReplacingKept ==
    ASSUME NEW q, NEW p, NEW t, NEW k, queue'[q][p] = queue[q][p]
    PROVE  /\ Replacing(q, p, t, k)' <=> Replacing(q, p, t, k)
           /\ (queue[q][p].chunk[Chosen(queue[q][p].chunk, t)])' = queue[q][p].chunk[Chosen(queue[q][p].chunk, t)]
<1>1. PICK c : c = queue[q][p]
    OBVIOUS
<1>2. c = queue'[q][p]
    BY <1>1
<1>3. Replacing(q, p, t, k) <=> c.op = "install" /\ c.k < k /\ Replaces(c.chunk, t)
    BY <1>1 DEF Replacing
<1>4. Replacing(q, p, t, k)' <=> c.op = "install" /\ c.k < k /\ Replaces(c.chunk, t)
    BY <1>2 DEF Replacing
<1> QED BY <1>1, <1>2, <1>3, <1>4

\* A place holds its row for a read as long as nothing else that the read follows replaces it.
LEMMA HeldGrows ==
    ASSUME NEW s \in Queues, NEW c, Grows(s, c), values' = values, writes' = writes, NEW t, NEW r, NEW k, HeldFor(t, r, k),
           s \in Streams => ~(c.op = "install" /\ c.k < k /\ Replaces(c.chunk, t))
    PROVE  HeldFor(t, r, k)'
<1>1. \A q \in Streams : \A p \in DOMAIN queue[q] : p \in DOMAIN queue'[q] /\ queue'[q][p] = queue[q][p]
    BY StreamIsQueue DEF Grows
<1>2. ASSUME NEW q \in Streams, NEW p \in DOMAIN queue'[q], Replacing(q, p, t, k)'
      PROVE  p \in DOMAIN queue[q] /\ Replacing(q, p, t, k)
    <2>1. CASE p \in DOMAIN queue[q]
        BY <1>1, <1>2, <2>1, ReplacingKept
    <2>2. CASE p \notin DOMAIN queue[q]
        <3>1. q = s /\ queue'[q][p] = c
            BY <2>2, StreamIsQueue DEF Grows
        <3>2. c.op = "install" /\ c.k < k /\ Replaces(c.chunk, t)
            BY <1>2, <3>1 DEF Replacing
        <3> QED BY <3>1, <3>2
    <2> QED BY <2>1, <2>2
<1>3. CASE values[t] = <<r, writes[r]>> /\ \A q \in Streams : \A p \in DOMAIN queue[q] : ~Replacing(q, p, t, k)
    <2>1. \A q \in Streams : \A p \in DOMAIN queue'[q] : ~Replacing(q, p, t, k)'
        BY <1>2, <1>3
    <2> QED BY <1>3, <2>1 DEF HeldFor
<1>4. CASE \E q \in Streams : \E p \in DOMAIN queue[q] : Brings(q, p, t, r, k)
    <2>0. PICK q \in Streams : \E p \in DOMAIN queue[q] : Brings(q, p, t, r, k)
        BY <1>4
    <2>1. PICK p \in DOMAIN queue[q] : Brings(q, p, t, r, k)
        BY <2>0
    <2>2. p \in DOMAIN queue'[q] /\ queue'[q][p] = queue[q][p]
        BY <1>1
    <2>3. Replacing(q, p, t, k)' /\ (queue[q][p].chunk[Chosen(queue[q][p].chunk, t)])' = r
        BY <2>1, <2>2, ReplacingKept DEF Brings
    <2>4. ASSUME NEW a \in Streams, NEW u \in DOMAIN queue'[a], Replacing(a, u, t, k)'
          PROVE  queue'[a][u].k < queue'[q][p].k \/ (queue'[a][u].k = queue'[q][p].k /\ u <= p)
        <3>1. u \in DOMAIN queue[a] /\ Replacing(a, u, t, k) /\ queue'[a][u] = queue[a][u]
            BY <1>1, <1>2, <2>4
        <3> QED BY <2>1, <2>2, <3>1 DEF Brings
    <2>5. Brings(q, p, t, r, k)'
        BY <2>3, <2>4 DEF Brings
    <2> QED BY <2>2, <2>5 DEF HeldFor
<1> QED BY <1>3, <1>4 DEF HeldFor

\* A place holds its row for a read while a command executes that does not replace it.
LEMMA HeldShrinks ==
    ASSUME NEW s \in Queues, NEW h, Shrinks(s, h), writes' = writes, NEW t, NEW r, NEW k, HeldFor(t, r, k),
           values'[t] = values[t], s \in Streams => ~Replacing(s, h, t, k)
    PROVE  HeldFor(t, r, k)'
<1>1. \A q \in Streams : \A p \in DOMAIN queue'[q] : p \in DOMAIN queue[q] /\ queue'[q][p] = queue[q][p]
    BY StreamIsQueue DEF Shrinks
<1>2. ASSUME NEW q \in Streams, NEW p \in DOMAIN queue'[q], Replacing(q, p, t, k)'
      PROVE  p \in DOMAIN queue[q] /\ Replacing(q, p, t, k)
    BY <1>1, <1>2, ReplacingKept
<1>3. CASE values[t] = <<r, writes[r]>> /\ \A q \in Streams : \A p \in DOMAIN queue[q] : ~Replacing(q, p, t, k)
    <2>1. \A q \in Streams : \A p \in DOMAIN queue'[q] : ~Replacing(q, p, t, k)'
        BY <1>2, <1>3
    <2> QED BY <1>3, <2>1 DEF HeldFor
<1>4. CASE \E q \in Streams : \E p \in DOMAIN queue[q] : Brings(q, p, t, r, k)
    <2>0. PICK q \in Streams : \E p \in DOMAIN queue[q] : Brings(q, p, t, r, k)
        BY <1>4
    <2>1. PICK p \in DOMAIN queue[q] : Brings(q, p, t, r, k)
        BY <2>0
    <2>2. p \in DOMAIN queue'[q] /\ queue'[q][p] = queue[q][p]
        <3>1. ~(q = s /\ p = h)
            BY <2>1 DEF Brings
        <3> QED BY <1>1, <3>1, StreamIsQueue DEF Shrinks
    <2>3. Replacing(q, p, t, k)' /\ (queue[q][p].chunk[Chosen(queue[q][p].chunk, t)])' = r
        BY <2>1, <2>2, ReplacingKept DEF Brings
    <2>4. ASSUME NEW a \in Streams, NEW u \in DOMAIN queue'[a], Replacing(a, u, t, k)'
          PROVE  queue'[a][u].k < queue'[q][p].k \/ (queue'[a][u].k = queue'[q][p].k /\ u <= p)
        <3>1. u \in DOMAIN queue[a] /\ Replacing(a, u, t, k) /\ queue'[a][u] = queue[a][u]
            BY <1>1, <1>2, <2>4
        <3> QED BY <2>1, <2>2, <3>1 DEF Brings
    <2>5. Brings(q, p, t, r, k)'
        BY <2>3, <2>4 DEF Brings
    <2> QED BY <2>2, <2>5 DEF HeldFor
<1> QED BY <1>3, <1>4 DEF HeldFor

\* An execution: an install that replaces the place has the row.
LEMMA HeldExecute ==
    ASSUME EngramTypes, ReadsOrdered, HitsFirst, InstallsFed, NEW s \in Queues, Execute(s), NEW h, h = executed[s] + 1,
           NEW t \in Places, NEW r, NEW k, HeldFor(t, r, k), s \in Streams /\ queue[s][h].op = "install" => queue[s][h].k < k
    PROVE  HeldFor(t, r, k)'
<1>1. StreamTypes /\ writes' = writes /\ values \in [Places -> RowValues]
    BY DEF EngramTypes, CacheTypes, Execute, rowVars
<1>2. Shrinks(s, h)
    BY <1>1, ExecuteShrinks
<1>3. PICK c : c = queue[s][h]
    OBVIOUS
<1>4. (Passes(c) \/ Transfers(c) \/ CopiesHits(c) \/ InstallsRows(c)) /\ Happened(c.after)
    BY <1>3 DEF Execute
<1>5. h \in DOMAIN queue[s]
    BY <1>2 DEF Shrinks
<1>6. CASE s \in Streams /\ Replacing(s, h, t, k)
    <2>1. c.op = "install" /\ IsData(c) /\ Replaces(c.chunk, t)
        BY <1>3, <1>6 DEF Replacing, IsData
    <2>2. Staged(s, h)
        BY <1>1, <1>3, <1>4, <1>5, <1>6, <2>1, ReadyIsStaged
    <2>3. Chosen(c.chunk, t) \in DOMAIN c.chunk
        BY <2>1, ChosenStays
    <2>4. staging[Chosen(c.chunk, t)] = <<c.chunk[Chosen(c.chunk, t)], writes[c.chunk[Chosen(c.chunk, t)]]>>
        BY <1>3, <2>2, <2>3 DEF Staged, Holds
    <2>5. values'[t] = staging[Chosen(c.chunk, t)]
        <3>1. values' = [x \in Places |-> IF Replaces(c.chunk, x) THEN staging[Chosen(c.chunk, x)] ELSE values[x]]
            BY <1>4, <2>1 DEF Passes, Transfers, CopiesHits, InstallsRows
        <3> QED BY <2>1, <3>1
    <2>0. PICK q \in Streams : \E p \in DOMAIN queue[q] : Brings(q, p, t, r, k)
        BY <1>5, <1>6 DEF HeldFor
    <2>6. PICK p \in DOMAIN queue[q] : Brings(q, p, t, r, k)
        BY <2>0
    <2>7. queue[q][p].op = "install" /\ IsData(queue[q][p])
        BY <2>6 DEF Brings, Replacing, IsData
    <2>8. c.k <= queue[q][p].k /\ c.k \in Nat /\ queue[q][p].k \in Nat /\ (queue[q][p].k = c.k => q = s /\ h <= p)
        BY <1>1, <1>2, <1>3, <1>6, <2>1, <2>7, FirstOfAll
    <2>9. CASE q = s /\ p = h
        <3>1. c.chunk[Chosen(c.chunk, t)] = r
            BY <1>3, <2>6, <2>9 DEF Brings
        <3>2. values'[t] = <<r, writes'[r]>>
            BY <1>1, <2>4, <2>5, <3>1
        <3>3. ASSUME NEW a \in Streams, NEW u \in DOMAIN queue'[a], Replacing(a, u, t, k)' PROVE FALSE
            <4>1. u \in DOMAIN queue[a] /\ queue'[a][u] = queue[a][u] /\ ~(a = s /\ u = h)
                BY <1>2, StreamIsQueue DEF Shrinks
            <4>2. Replacing(a, u, t, k)
                BY <3>3, <4>1, ReplacingKept
            <4>3. queue[a][u].k < c.k \/ (queue[a][u].k = c.k /\ u <= h)
                BY <1>3, <2>6, <2>9, <4>1, <4>2 DEF Brings
            <4>4. IsData(queue[a][u])
                BY <4>2 DEF Replacing, IsData
            <4>5. c.k <= queue[a][u].k /\ queue[a][u].k \in Nat /\ (queue[a][u].k = c.k => a = s /\ h <= u)
                BY <1>1, <1>2, <1>3, <1>6, <2>1, <4>1, <4>4, FirstOfAll
            <4>6. h \in Nat /\ u \in Nat
                BY <1>1, <1>5, <4>1, PendingBeyond, StreamIsQueue
            <4> QED BY <2>8, <4>1, <4>3, <4>5, <4>6
        <3> QED BY <3>2, <3>3 DEF HeldFor
    <2>10. CASE ~(q = s /\ p = h)
        <3>1. queue[s][h].k < queue[q][p].k \/ (queue[s][h].k = queue[q][p].k /\ h <= p)
            BY <1>5, <1>6, <2>6 DEF Brings
        <3>2. \A a \in Streams : \A u \in DOMAIN queue'[a] : u \in DOMAIN queue[a] /\ queue'[a][u] = queue[a][u]
            BY <1>2, StreamIsQueue DEF Shrinks
        <3>3. p \in DOMAIN queue'[q] /\ queue'[q][p] = queue[q][p]
            BY <1>2, <2>10, <3>2, StreamIsQueue DEF Shrinks
        <3>4. Replacing(q, p, t, k)' /\ (queue[q][p].chunk[Chosen(queue[q][p].chunk, t)])' = r
            BY <2>6, <3>3, ReplacingKept DEF Brings
        <3>5. ASSUME NEW a \in Streams, NEW u \in DOMAIN queue'[a], Replacing(a, u, t, k)'
              PROVE  queue'[a][u].k < queue'[q][p].k \/ (queue'[a][u].k = queue'[q][p].k /\ u <= p)
            <4>1. u \in DOMAIN queue[a] /\ Replacing(a, u, t, k) /\ queue'[a][u] = queue[a][u]
                BY <3>2, <3>5, ReplacingKept
            <4> QED BY <2>6, <3>3, <4>1 DEF Brings
        <3>6. Brings(q, p, t, r, k)'
            BY <3>4, <3>5 DEF Brings
        <3> QED BY <3>3, <3>6 DEF HeldFor
    <2> QED BY <2>9, <2>10
<1>7. CASE s \in Streams => ~Replacing(s, h, t, k)
    <2>1. values'[t] = values[t]
        <3>1. CASE InstallsRows(c)
            <4>1. c.op = "install"
                BY <3>1 DEF InstallsRows
            <4>2. s \in Streams
                <5>1. CASE s = "copy"
                    BY <1>1, <1>3, <1>5, <4>1, <5>1 DEF StreamTypes, CopyCommands
                <5> QED BY <5>1 DEF Queues
            <4>3. ~Replaces(c.chunk, t)
                BY <1>3, <1>7, <4>1, <4>2 DEF Replacing
            <4>4. values' = [x \in Places |-> IF Replaces(c.chunk, x) THEN staging[Chosen(c.chunk, x)] ELSE values[x]]
                BY <3>1 DEF InstallsRows
            <4> QED BY <4>3, <4>4
        <3>2. CASE Passes(c) \/ Transfers(c) \/ CopiesHits(c)
            BY <3>2 DEF Passes, Transfers, CopiesHits
        <3> QED BY <1>4, <3>1, <3>2
    <2> QED BY <1>1, <1>2, <1>7, <2>1, HeldShrinks
<1> QED BY <1>6, <1>7

\* For another read, when what is pending is of earlier reads than both.
LEMMA HeldForOther ==
    ASSUME NEW t, NEW r, NEW k, NEW j, HeldFor(t, r, k),
           \A s \in Streams : \A p \in DOMAIN queue[s] :
               queue[s][p].op = "install" => (queue[s][p].k < k <=> queue[s][p].k < j)
    PROVE  HeldFor(t, r, j)
<1>1. \A s \in Streams : \A p \in DOMAIN queue[s] : Replacing(s, p, t, k) <=> Replacing(s, p, t, j)
    BY DEF Replacing
<1> QED BY <1>1 DEF HeldFor, Brings

\* A place holds its row while streams, cache and table stay.
LEMMA HeldSame ==
    ASSUME NEW t, NEW r, NEW k, HeldFor(t, r, k), queue' = queue, values' = values, writes' = writes
    PROVE  HeldFor(t, r, k)'
BY DEF HeldFor, Brings, Replacing

\* The hits that are pending find their rows after a command has been issued.
LEMMA HitsHeldGrow ==
    ASSUME EngramTypes, HitsHeld, NEW s \in Queues, NEW c, Grows(s, c), values' = values, writes' = writes,
           s \in Streams /\ c.op = "install" => c.k = Len(out),
           s \in Streams /\ c.op = "hits" => \A r \in c.rows : \A t : t = PlaceOf(r) => HeldFor(t, r, c.k)'
    PROVE  HitsHeld'
<1> SUFFICES ASSUME NEW q \in Streams, NEW p \in DOMAIN queue'[q], queue'[q][p].op = "hits", NEW r \in queue'[q][p].rows
             PROVE  HeldFor(PlaceOf(r), r, queue[q][p].k)'
    BY DEF HitsHeld
<1>1. StreamTypes /\ HostKnows
    BY DEF EngramTypes
<1>2. PICK k : k = queue'[q][p].k
    OBVIOUS
<1>3. PICK t : t = PlaceOf(r)
    OBVIOUS
<1>4. CASE p \in DOMAIN queue[q]
    <2>1. queue'[q][p] = queue[q][p]
        BY <1>4, StreamIsQueue DEF Grows
    <2>2. HeldFor(t, r, k)
        BY <1>2, <1>3, <1>4, <2>1 DEF HitsHeld
    <2>3. k \in Nat /\ k <= Len(out) /\ Len(out) \in Nat
        BY <1>1, <1>2, <1>4, <2>1, PendingCommand
    <2>4. s \in Streams => ~(c.op = "install" /\ c.k < k /\ Replaces(c.chunk, t))
        BY <2>3
    <2>5. HeldFor(t, r, k)'
        BY <2>2, <2>4, HeldGrows
    <2> QED BY <1>2, <1>3, <2>5
<1>5. CASE p \notin DOMAIN queue[q]
    <2>1. q = s /\ queue'[q][p] = c
        BY <1>5, StreamIsQueue DEF Grows
    <2>2. HeldFor(t, r, k)'
        BY <1>2, <1>3, <2>1
    <2> QED BY <1>2, <1>3, <2>2
<1> QED BY <1>4, <1>5

\* The tags after a step that leaves them as they are.
LEMMA TagsHeldThen ==
    ASSUME NEW n, n = Len(out'), tags' = tags, version' = version, wversion' = wversion,
           version = wversion => \A t \in Places : \A r : r = tags[t] /\ r # Empty => HeldFor(t, r, n + 1)'
    PROVE  TagsHeld'
<1> SUFFICES ASSUME version' = wversion', NEW t \in Places, tags'[t] # Empty PROVE HeldFor(t, tags[t], Len(out) + 1)'
    BY DEF TagsHeld
<1>1. PICK r : r = tags[t]
    OBVIOUS
<1>2. HeldFor(t, r, n + 1)'
    BY <1>1
<1>3. PICK k : k = n + 1
    OBVIOUS
<1> QED BY <1>1, <1>2, <1>3

\* The tags are right for the next read when a command is issued that is no install.
LEMMA TagsGrow ==
    ASSUME EngramTypes, TagsHeld, NEW s \in Queues, NEW c, Grows(s, c), values' = values, writes' = writes,
           NEW n, n = Len(out), s \in Streams => c.op # "install"
    PROVE  version = wversion => \A t \in Places : \A r : r = tags[t] /\ r # Empty => HeldFor(t, r, n + 1)'
<1> SUFFICES ASSUME version = wversion, NEW t \in Places, NEW r, r = tags[t], r # Empty PROVE HeldFor(t, r, n + 1)'
    OBVIOUS
<1>1. PICK k : k = n + 1
    OBVIOUS
<1>2. HeldFor(t, r, k)
    BY <1>1 DEF TagsHeld
<1>3. HeldFor(t, r, k)'
    BY <1>2, HeldGrows
<1> QED BY <1>1, <1>3

\* Tags and pending hits stay right when a command executes.
LEMMA TagsExecute ==
    ASSUME EngramTypes, ReadsOrdered, HitsFirst, InstallsFed, TagsRight, NEW s \in Queues, Execute(s)
    PROVE  TagsRight'
<1>1. /\ StreamTypes /\ HostKnows /\ TagsHeld /\ HitsTagged /\ HitsHeld
      /\ tags' = tags /\ version' = version /\ wversion' = wversion /\ writes' = writes /\ host' = host
    BY DEF EngramTypes, TagsRight, Execute, rowVars, rowCacheVars
<1>2. PICK h : h = executed[s] + 1
    OBVIOUS
<1>3. Shrinks(s, h)
    BY <1>1, <1>2, ExecuteShrinks
<1>4. PICK n \in Nat : n = Len(out) /\ n = Len(out')
    BY <1>1, ExecuteKeepsOutputs DEF OutputsKept, HostKnows
<1>5. h \in DOMAIN queue[s]
    BY <1>3 DEF Shrinks
<1>6. TagsHeld'
    <2>1. ASSUME version = wversion, NEW t \in Places, NEW r, r = tags[t], r # Empty PROVE HeldFor(t, r, n + 1)'
        <3>1. PICK k : k = n + 1
            OBVIOUS
        <3>2. HeldFor(t, r, k)
            BY <1>1, <1>4, <2>1, <3>1 DEF TagsHeld
        <3>3. ASSUME s \in Streams PROVE queue[s][h].k < k
            <4>1. queue[s][h].k \in Nat /\ queue[s][h].k <= Len(out)
                BY <1>1, <1>5, <3>3, PendingCommand
            <4> QED BY <1>4, <3>1, <4>1
        <3>4. HeldFor(t, r, k)'
            BY <1>2, <3>2, <3>3, HeldExecute
        <3> QED BY <3>1, <3>4
    <2> QED BY <1>1, <1>4, <2>1, TagsHeldThen
<1>7. HitsHeld'
    <2> SUFFICES ASSUME NEW q \in Streams, NEW p \in DOMAIN queue'[q], queue'[q][p].op = "hits", NEW r \in queue'[q][p].rows
                 PROVE  HeldFor(PlaceOf(r), r, queue[q][p].k)'
        BY DEF HitsHeld
    <2>1. p \in DOMAIN queue[q] /\ queue'[q][p] = queue[q][p] /\ ~(q = s /\ p = h)
        BY <1>3, StreamIsQueue DEF Shrinks
    <2>2. PICK k : k = queue[q][p].k
        OBVIOUS
    <2>3. PICK t : t = PlaceOf(r)
        OBVIOUS
    <2>4. t \in Places
        BY <1>1, <2>1, <2>3, PlaceType, PendingCommand DEF StreamCommands
    <2>5. HeldFor(t, r, k)
        BY <1>1, <2>1, <2>2, <2>3 DEF HitsHeld
    <2>6. ASSUME s \in Streams, queue[s][h].op = "install" PROVE queue[s][h].k < k
        <3>1. IsData(queue[s][h]) /\ IsData(queue[q][p])
            BY <2>1, <2>6 DEF IsData
        <3>2. /\ queue[s][h].k <= k /\ queue[s][h].k \in Nat /\ k \in Nat
              /\ k = queue[s][h].k => q = s /\ h <= p
            BY <1>1, <1>3, <2>1, <2>2, <2>6, <3>1, FirstOfAll
        <3>3. k = queue[s][h].k => p < h
            BY <1>5, <2>1, <2>2, <2>6, <3>1 DEF HitsFirst, HitsBeforeInstalls
        <3>4. h \in Nat /\ p \in Nat
            BY <1>1, <1>5, <2>1, PendingBeyond, StreamIsQueue
        <3> QED BY <3>2, <3>3, <3>4
    <2>7. HeldFor(t, r, k)'
        BY <1>2, <2>4, <2>5, <2>6, HeldExecute
    <2>8. k = (queue[q][p].k)'
        BY <2>1, <2>2
    <2> QED BY <2>3, <2>7, <2>8
<1>8. HitsTagged'
    BY <1>1 DEF HitsTagged, Reading
<1> QED BY <1>6, <1>7, <1>8 DEF TagsRight

\* A read that begins finds the tags right for itself.
LEMMA TagsRead ==
    ASSUME EngramTypes, TagsRight, NEW s \in Streams, NEW ids, Read(s, ids)
    PROVE  TagsRight'
<1>1. PICK c : c = Command("wait", Len(out) + 1, event, {}, <<>>)
    OBVIOUS
<1>2. /\ Issue(s, c) /\ c.op = "wait" /\ writes' = writes /\ values' = values /\ tags' = tags /\ version' = version
      /\ wversion' = wversion /\ host'.hits = {}
    BY <1>1 DEF Read, Command, rowVars, rowCacheVars, bufferVars
<1>3. StreamTypes /\ HostKnows /\ s \in Queues /\ TagsHeld /\ HitsHeld /\ out \in Seq(Outputs)
    BY StreamIsQueue DEF EngramTypes, HostKnows, TagsRight
<1>4. Grows(s, c)
    BY <1>2, <1>3, IssueGrows
<1>5. PICK n \in Nat : n = Len(out)
    BY <1>3
<1>6. PICK m \in Nat : m = n + 1
    BY <1>5
<1>7. Len(out') = m
    BY <1>3, <1>5, <1>6 DEF Read
<1>8. ASSUME version = wversion, NEW t \in Places, NEW r, r = tags[t], r # Empty PROVE HeldFor(t, r, m + 1)'
    <2>1. HeldFor(t, r, n + 1)
        BY <1>3, <1>5, <1>8 DEF TagsHeld
    <2>2. PICK k : k = m + 1
        OBVIOUS
    <2>3. ASSUME NEW q \in Streams, NEW p \in DOMAIN queue[q] PROVE queue[q][p].k < m /\ queue[q][p].k < k
        <3>1. queue[q][p].k \in Nat /\ queue[q][p].k <= n
            BY <1>3, <1>5, PendingCommand
        <3> QED BY <1>6, <2>2, <3>1
    <2>4. HeldFor(t, r, m)
        BY <1>6, <2>1
    <2>5. HeldFor(t, r, k)
        BY <2>3, <2>4, HeldForOther
    <2>6. HeldFor(t, r, k)'
        BY <1>2, <1>3, <1>4, <2>5, HeldGrows
    <2> QED BY <2>2, <2>6
<1>9. TagsHeld'
    BY <1>2, <1>7, <1>8, TagsHeldThen
<1>10. HitsHeld'
    BY <1>2, <1>3, <1>4, HitsHeldGrow
<1>11. HitsTagged'
    BY <1>2 DEF HitsTagged
<1> QED BY <1>9, <1>10, <1>11 DEF TagsRight

\* Nothing is issued and nothing written.
LEMMA TagsSame ==
    ASSUME TagsHeld, HitsHeld, queue' = queue, values' = values, writes' = writes, out' = out
    PROVE  /\ HitsHeld'
           /\ tags' = tags /\ version' = version /\ wversion' = wversion => TagsHeld'
<1>1. HitsHeld'
    <2> SUFFICES ASSUME NEW q \in Streams, NEW p \in DOMAIN queue[q], queue[q][p].op = "hits", NEW r \in queue[q][p].rows
                 PROVE  HeldFor(PlaceOf(r), r, queue[q][p].k)'
        BY DEF HitsHeld
    <2>1. PICK k : k = queue[q][p].k
        OBVIOUS
    <2>2. PICK t : t = PlaceOf(r)
        OBVIOUS
    <2>3. HeldFor(t, r, k)
        BY <2>1, <2>2 DEF HitsHeld
    <2>4. HeldFor(t, r, k)'
        BY <2>3, HeldSame
    <2>5. k = (queue[q][p].k)'
        BY <2>1
    <2> QED BY <2>2, <2>4, <2>5
<1>2. ASSUME tags' = tags, version' = version, wversion' = wversion PROVE TagsHeld'
    <2>1. PICK n : n = Len(out)
        OBVIOUS
    <2>2. ASSUME version = wversion, NEW t \in Places, NEW r, r = tags[t], r # Empty PROVE HeldFor(t, r, n + 1)'
        <3>1. PICK k : k = n + 1
            OBVIOUS
        <3>2. HeldFor(t, r, k)
            BY <2>1, <2>2, <3>1 DEF TagsHeld
        <3>3. HeldFor(t, r, k)'
            BY <3>2, HeldSame
        <3> QED BY <3>1, <3>3
    <2> QED BY <1>2, <2>1, <2>2, TagsHeldThen
<1> QED BY <1>1, <1>2

\* A changed table version leaves no tag.
LEMMA TagsValidate ==
    ASSUME EngramTypes, TagsRight, Validate
    PROVE  TagsRight'
<1>1. /\ queue' = queue /\ values' = values /\ writes' = writes /\ wversion' = wversion /\ out' = out
      /\ host' = [host EXCEPT !.pc = "plan"] /\ host \in HostRecords /\ host.hits = {} /\ TagsHeld /\ HitsHeld
    BY DEF Validate, streamVars, rowVars, bufferVars, EngramTypes, HostKnows, TagsRight
<1>2. HitsTagged'
    <2>1. host'.hits = {}
        BY <1>1 DEF HostRecords
    <2> QED BY <2>1 DEF HitsTagged
<1>3. TagsHeld' /\ HitsHeld'
    <2>1. CASE UNCHANGED rowCacheVars
        BY <1>1, <2>1, TagsSame DEF rowCacheVars
    <2>2. CASE Untagged
        <3>1. \A t \in Places : tags'[t] = Empty
            BY <2>2 DEF Untagged
        <3>2. TagsHeld'
            BY <3>1 DEF TagsHeld
        <3> QED BY <1>1, <3>2, TagsSame
    <2> QED BY <2>1, <2>2 DEF Validate
<1> QED BY <1>2, <1>3 DEF TagsRight

\* The hits a read issues find the rows their tags name.
LEMMA TagsHits ==
    ASSUME EngramTypes, HitsFirst, TagsRight, PlanHits \/ CopyHits
    PROVE  TagsRight'
<1>1. /\ StreamTypes /\ HostKnows /\ host.s \in Streams /\ Reading /\ TagsHeld /\ HitsTagged /\ HitsHeld /\ ReadPlaced
      /\ version = wversion /\ host.pc \in {"plan", "hits"} /\ host \in HostRecords
    BY DEF PlanHits, CopyHits, EngramTypes, HostKnows, Reading, TagsRight, HitsFirst
<1>2. PICK hit : hit = IF PlanHits THEN Hits ELSE host.hits
    OBVIOUS
<1>3. PICK c : c = HitsCommand(hit)
    OBVIOUS
<1>4. PICK s \in Streams : s = host.s
    BY <1>1
<1>5. PICK n \in Nat : n = Len(out)
    BY <1>1 DEF HostKnows
<1>6. /\ Issue(s, c) /\ c.op = "hits" /\ c.rows = hit /\ c.k = n /\ writes' = writes /\ values' = values
      /\ tags' = tags /\ version' = version /\ wversion' = wversion
    BY <1>2, <1>3, <1>4, <1>5 DEF PlanHits, CopyHits, HitsCommand, Command, rowVars, rowCacheVars, bufferVars
<1>7. Grows(s, c) /\ s \in Queues
    BY <1>1, <1>6, IssueGrows, StreamIsQueue
<1>8. Len(out') = n
    <2>1. CASE PlanHits
        BY <1>1, <1>5, <2>1, ReturnedOutput DEF PlanHits
    <2>2. CASE CopyHits
        BY <1>5, <2>2 DEF CopyHits
    <2> QED BY <2>1, <2>2
<1>9. \A r \in hit : r \in TableRows /\ tags[PlaceOf(r)] = r
    BY <1>1, <1>2 DEF Hits, HitsTagged, HostRecords
<1>10. TagsHeld'
    <2>1. version = wversion => \A t \in Places : \A r : r = tags[t] /\ r # Empty => HeldFor(t, r, n + 1)'
        BY <1>1, <1>5, <1>6, <1>7, TagsGrow
    <2> QED BY <1>6, <1>8, <2>1, TagsHeldThen
<1>11. ASSUME NEW r \in hit, NEW t, t = PlaceOf(r) PROVE HeldFor(t, r, n)'
    <2>1. t \in Places /\ tags[t] = r /\ r # Empty
        BY <1>9, <1>11, PlaceType DEF TableRows, Empty
    <2>2. HeldFor(t, r, n + 1)
        BY <1>1, <1>5, <2>1 DEF TagsHeld
    <2>3. ASSUME NEW q \in Streams, NEW p \in DOMAIN queue[q], queue[q][p].op = "install"
          PROVE  queue[q][p].k < n + 1 <=> queue[q][p].k < n
        <3>1. queue[q][p].k # n
            BY <1>1, <1>5, <2>3 DEF ReadPlaced, IsData
        <3>2. queue[q][p].k \in Nat
            BY <1>1, PendingCommand
        <3> QED BY <3>1, <3>2
    <2>4. PICK k : k = n + 1
        OBVIOUS
    <2>5. HeldFor(t, r, n)
        BY <2>2, <2>3, <2>4, HeldForOther
    <2> QED BY <1>6, <1>7, <2>5, HeldGrows
<1>12. HitsHeld'
    BY <1>1, <1>6, <1>7, <1>11, HitsHeldGrow
<1>13. HitsTagged'
    <2>1. CASE PlanHits
        BY <2>1 DEF PlanHits, Returned, IdleHost, HitsTagged
    <2>2. CASE CopyHits
        <3>1. host' = [host EXCEPT !.pc = "install", !.hits = {}]
            BY <2>2 DEF CopyHits
        <3>2. host'.hits = {}
            BY <1>1, <3>1 DEF HostRecords
        <3> QED BY <3>2 DEF HitsTagged
    <2> QED BY <2>1, <2>2
<1> QED BY <1>10, <1>12, <1>13 DEF TagsRight

\* The hits of a read have their tags.
LEMMA TagsPlanMisses ==
    ASSUME EngramTypes, TagsRight, PlanMisses
    PROVE  TagsRight'
<1>1. /\ queue' = queue /\ values' = values /\ writes' = writes /\ wversion' = wversion /\ out' = out
      /\ tags' = tags /\ version' = version /\ host \in HostRecords /\ TagsHeld /\ HitsHeld
    BY DEF PlanMisses, streamVars, rowVars, rowCacheVars, bufferVars, EngramTypes, HostKnows, TagsRight
<1>2. PICK q : host' = [host EXCEPT !.pc = "begin", !.hits = Hits, !.missing = q]
    BY DEF PlanMisses
<1>3. host'.hits = Hits
    BY <1>1, <1>2 DEF HostRecords
<1>4. HitsTagged'
    BY <1>1, <1>3 DEF HitsTagged, Hits, PlaceOf
<1> QED BY <1>1, <1>4, TagsSame DEF TagsRight

\* _begin_transfer leaves tags and cache as they are.
LEMMA TagsBegin ==
    ASSUME EngramTypes, TagsRight, BeginTransfer
    PROVE  TagsRight'
<1>1. StreamTypes /\ host \in HostRecords /\ TagsHeld /\ HitsTagged /\ HitsHeld /\ Reading /\ "copy" \notin Streams
    BY StreamIsQueue DEF BeginTransfer, EngramTypes, HostKnows, TagsRight, Reading
<1>2. PICK c : c = Command("dma", Len(out), consumerDone, {}, Chunk)
    OBVIOUS
<1>3. /\ Issue("copy", c) /\ writes' = writes /\ values' = values /\ tags' = tags /\ version' = version
      /\ wversion' = wversion /\ out' = out /\ host' = [host EXCEPT !.pc = IF host.hits = {} THEN "install" ELSE "hits"]
    BY <1>2 DEF BeginTransfer, StagingFree, rowVars
<1>4. Grows("copy", c) /\ "copy" \in Queues
    BY <1>1, <1>3, IssueGrows, StreamIsQueue
<1>5. HitsHeld'
    BY <1>1, <1>3, <1>4, HitsHeldGrow
<1>6. PICK n : n = Len(out)
    OBVIOUS
<1>7. version = wversion => \A t \in Places : \A r : r = tags[t] /\ r # Empty => HeldFor(t, r, n + 1)'
    BY <1>1, <1>3, <1>4, <1>6, TagsGrow
<1>8. TagsHeld'
    BY <1>3, <1>6, <1>7, TagsHeldThen
<1>9. HitsTagged'
    <2>1. host'.hits = host.hits
        BY <1>1, <1>3 DEF HostRecords
    <2> QED BY <1>1, <1>3, <2>1 DEF HitsTagged
<1> QED BY <1>5, <1>8, <1>9 DEF TagsRight

\* The tags an install sets name the rows it brings, for the reads that follow.
LEMMA TagsConsume ==
    ASSUME EngramTypes, HitsFirst, TagsRight, ConsumeTransfer
    PROVE  TagsRight'
<1>1. /\ StreamTypes /\ HostKnows /\ host.s \in Streams /\ Reading /\ TagsHeld /\ HitsHeld /\ ReadPlaced
      /\ version = wversion /\ host.hits = {} /\ host \in HostRecords
    BY DEF ConsumeTransfer, EngramTypes, HostKnows, Reading, TagsRight, HitsFirst
<1>2. PICK f : f = Chunk
    OBVIOUS
<1>3. PICK c : c = Command("install", Len(out), copyDone, {}, f)
    OBVIOUS
<1>4. PICK s \in Streams : s = host.s
    BY <1>1
<1>5. PICK n \in Nat : n = Len(out)
    BY <1>1 DEF HostKnows
<1>6. /\ Issue(s, c) /\ c.op = "install" /\ c.chunk = f /\ c.k = n /\ writes' = writes /\ values' = values
      /\ tags' = [t \in Places |-> IF Replaces(f, t) THEN f[Chosen(f, t)] ELSE tags[t]]
      /\ version' = version /\ wversion' = wversion
    BY <1>2, <1>3, <1>4, <1>5 DEF ConsumeTransfer, Command, rowVars, bufferVars
<1>7. Grows(s, c) /\ s \in Queues
    BY <1>1, <1>6, IssueGrows, StreamIsQueue
<1>8. PICK m : m = issued[s] + 1
    OBVIOUS
<1>9. Len(out') = n /\ (host'.hits = {} \/ ~Reading')
    <2>1. CASE Returned
        BY <1>1, <1>5, <2>1, ReturnedOutput DEF IdleHost
    <2>2. CASE host' = [host EXCEPT !.pc = "begin", !.start = host.start + Width] /\ out' = out
        BY <1>1, <1>5, <2>2 DEF HostRecords
    <2> QED BY <2>1, <2>2 DEF ConsumeTransfer
<1>10. HitsHeld'
    BY <1>1, <1>5, <1>6, <1>7, HitsHeldGrow
<1>11. HitsTagged'
    BY <1>9 DEF HitsTagged
<1>12. ASSUME NEW t \in Places, NEW r, r = tags'[t], r # Empty, NEW k, k = n + 1 PROVE HeldFor(t, r, k)'
    <2>1. CASE ~Replaces(f, t)
        <3>1. tags[t] = r
            BY <1>6, <1>12, <2>1
        <3>2. HeldFor(t, r, k)
            BY <1>1, <1>5, <1>12, <3>1 DEF TagsHeld
        <3> QED BY <1>6, <1>7, <2>1, <3>2, HeldGrows
    <2>2. CASE Replaces(f, t)
        <3>1. r = f[Chosen(f, t)]
            BY <1>6, <1>12, <2>2
        <3>2. m \in DOMAIN queue'[s] /\ queue'[s][m] = c
            BY <1>7, <1>8 DEF Grows
        <3>3. n < k
            BY <1>12
        <3>4. Replacing(s, m, t, k)'
            BY <1>6, <2>2, <3>2, <3>3 DEF Replacing
        <3>5. ASSUME NEW a \in Streams, NEW u \in DOMAIN queue'[a], Replacing(a, u, t, k)'
              PROVE  queue'[a][u].k < queue'[s][m].k \/ (queue'[a][u].k = queue'[s][m].k /\ u <= m)
            <4>1. CASE u \in DOMAIN queue[a] /\ queue'[a][u] = queue[a][u]
                <5>1. queue[a][u].k \in Nat /\ queue[a][u].k <= n
                    BY <1>1, <1>5, <4>1, PendingCommand
                <5>2. IsData(queue[a][u])
                    BY <3>5, <4>1 DEF Replacing, IsData
                <5>3. queue[a][u].k = n => a = s
                    BY <1>1, <1>4, <1>5, <4>1, <5>2 DEF ReadPlaced
                <5>4. a = s => u <= m
                    BY <1>7, <1>8, <4>1 DEF Grows
                <5> QED BY <1>6, <3>2, <4>1, <5>1, <5>3, <5>4
            <4>2. CASE a = s /\ u = m
                <5>1. m <= m
                    BY <1>7, <1>8 DEF Grows
                <5> QED BY <4>2, <5>1
            <4> QED BY <1>7, <1>8, <4>1, <4>2, StreamIsQueue DEF Grows
        <3>6. (queue[s][m].chunk[Chosen(queue[s][m].chunk, t)])' = r
            BY <1>6, <3>1, <3>2
        <3>7. Brings(s, m, t, r, k)'
            BY <3>4, <3>5, <3>6 DEF Brings
        <3> QED BY <3>2, <3>7 DEF HeldFor
    <2> QED BY <2>1, <2>2
<1>13. TagsHeld'
    <2> SUFFICES ASSUME NEW t \in Places, tags'[t] # Empty PROVE HeldFor(t, tags[t], Len(out) + 1)'
        BY DEF TagsHeld
    <2>1. PICK r : r = tags'[t]
        OBVIOUS
    <2>2. PICK k : k = n + 1
        OBVIOUS
    <2>3. HeldFor(t, r, k)'
        BY <1>12, <2>1, <2>2
    <2> QED BY <1>9, <2>1, <2>2, <2>3
<1> QED BY <1>10, <1>11, <1>13 DEF TagsRight

\* A read that fails leaves no tag, and its pending hits their rows.
LEMMA TagsFailure ==
    ASSUME EngramTypes, TagsRight, ReadFails \/ InstallFails
    PROVE  TagsRight'
<1>1. /\ StreamTypes /\ TagsHeld /\ HitsHeld /\ host.s \in Queues
      /\ writes' = writes /\ values' = values /\ out' = out /\ host' = IdleHost
      /\ version' = Empty /\ wversion' = wversion /\ wversion \in Nat
    BY DEF ReadFails, InstallFails, ReadRaises, rowVars, bufferVars, EngramTypes, HostKnows, HostRecords, CacheTypes, TagsRight
<1>2. TagsHeld'
    BY <1>1 DEF TagsHeld, Empty
<1>3. HitsTagged'
    BY <1>1 DEF HitsTagged, Reading, IdleHost
<1>4. HitsHeld'
    <2>1. CASE ReadFails
        BY <1>1, <2>1, TagsSame DEF ReadFails, streamVars
    <2>2. CASE InstallFails
        <3>1. PICK c : c = Command("wait", 0, copyDone, {}, <<>>)
            OBVIOUS
        <3>2. PICK s \in Queues : s = host.s
            BY <1>1
        <3>3. Issue(s, c) /\ c.op = "wait"
            BY <2>2, <3>1, <3>2 DEF InstallFails, Command
        <3>4. Grows(s, c)
            BY <1>1, <3>3, IssueGrows
        <3> QED BY <1>1, <3>3, <3>4, HitsHeldGrow
    <2> QED BY <2>1, <2>2
<1> QED BY <1>2, <1>3, <1>4 DEF TagsRight

\* After an optimizer step the tags are gone or of another version.
LEMMA TagsOptimizer ==
    ASSUME EngramTypes, ReadsOrdered, TagsRight, NEW touched, NEW cleared, OptimizerStep(touched, cleared), EngramTypes'
    PROVE  TagsRight'
<1>1. queue' = queue /\ host' = host /\ ~Reading /\ wversion' = wversion + 1 /\ version' \in {version, Empty}
    BY DEF OptimizerStep, streamVars, Reading
<1>2. version \in Nat \cup {Empty} /\ wversion \in Nat /\ version <= wversion
    BY DEF EngramTypes, CacheTypes
<1>3. TagsHeld'
    BY <1>1, <1>2 DEF TagsHeld, Empty
<1>4. HitsTagged'
    BY <1>1 DEF HitsTagged, Reading
<1>5. HitsHeld'
    <2>1. \A s \in Streams : \A p \in DOMAIN queue[s] : ~IsData(queue[s][p])
        BY OrderedOptimizer
    <2> QED BY <1>1, <2>1 DEF HitsHeld, IsData
<1> QED BY <1>3, <1>4, <1>5 DEF TagsRight

\* Every step keeps tags and hits right.
LEMMA TagsRightNext ==
    ASSUME EngramTypes, ReadsOrdered, HitsFirst, InstallsFed, TagsRight, EngramNext
    PROVE  TagsRight'
<1>1. EngramTypes'
    BY EngramTypesNext
<1> QED BY <1>1, TagsExecute, TagsRead, TagsValidate, TagsHits, TagsPlanMisses, TagsBegin, TagsConsume, TagsFailure,
           TagsOptimizer DEF EngramNext

\* A lookup command that executes delivers the rows of the table.
LEMMA Delivered ==
    ASSUME EngramTypes, ReadsOrdered, HitsFirst, InstallsFed, HitsHeld, NEW s \in Streams, Execute(s),
           NEW h, h = executed[s] + 1, NEW c, c = queue[s][h], IsData(c)
    PROVE  /\ c.k \in DOMAIN out
           /\ \A j \in DOMAIN out : j # c.k => out'[j].got = out[j].got
           /\ \A r \in DOMAIN out[c.k].got :
                 out'[c.k].got[r] = IF Brought(c, r) THEN <<r, writes[r]>> ELSE out[c.k].got[r]
<1>1. StreamTypes /\ HostKnows /\ s \in Queues
    BY StreamIsQueue DEF EngramTypes
<1>2. Shrinks(s, h)
    BY <1>1, ExecuteShrinks
<1>3. h \in DOMAIN queue[s]
    BY <1>2 DEF Shrinks
<1>4. c \in StreamCommands /\ c.k \in DOMAIN out
    BY <1>1, <1>3 DEF StreamTypes
<1>5. (Passes(c) \/ Transfers(c) \/ CopiesHits(c) \/ InstallsRows(c)) /\ Happened(c.after)
    BY DEF Execute
<1>6. CASE CopiesHits(c)
    <2>1. c.op = "hits"
        BY <1>6 DEF CopiesHits
    <2>2. PICK g \in [DOMAIN out[c.k].got -> RowValues] :
             /\ out' = [out EXCEPT ![c.k] = [out[c.k] EXCEPT !.got = g]]
             /\ \A r \in DOMAIN out[c.k].got : g[r] = IF r \in c.rows THEN values[PlaceOf(r)] ELSE out[c.k].got[r]
        BY <1>4, <1>6, HitsFill
    <2>3. out'[c.k].got = g /\ \A j \in DOMAIN out : j # c.k => out'[j].got = out[j].got
        BY <1>1, <1>4, <2>2, FilledOutput
    <2>4. ASSUME NEW r \in c.rows PROVE values[PlaceOf(r)] = <<r, writes[r]>>
        <3>1. HeldFor(PlaceOf(r), r, c.k)
            BY <1>3, <2>1 DEF HitsHeld
        <3>2. ASSUME NEW q \in Streams, NEW p \in DOMAIN queue[q], Replacing(q, p, PlaceOf(r), c.k) PROVE FALSE
            <4>1. IsData(queue[q][p]) /\ queue[q][p].k < c.k
                BY <3>2 DEF Replacing, IsData
            <4>2. c.k <= queue[q][p].k /\ c.k \in Nat /\ queue[q][p].k \in Nat
                BY <1>1, <1>2, <4>1, FirstOfAll
            <4> QED BY <4>1, <4>2
        <3> QED BY <3>1, <3>2 DEF HeldFor, Brings
    <2>5. \A r : Brought(c, r) <=> r \in c.rows
        BY <2>1 DEF Brought
    <2>6. ASSUME NEW r \in DOMAIN out[c.k].got
          PROVE  out'[c.k].got[r] = IF Brought(c, r) THEN <<r, writes[r]>> ELSE out[c.k].got[r]
        <3>1. out'[c.k].got[r] = IF r \in c.rows THEN values[PlaceOf(r)] ELSE out[c.k].got[r]
            BY <2>2, <2>3
        <3>2. CASE r \in c.rows
            BY <2>4, <2>5, <3>1, <3>2
        <3> QED BY <2>5, <3>1, <3>2
    <2> QED BY <1>4, <2>3, <2>6
<1>7. CASE InstallsRows(c)
    <2>1. c.op = "install"
        BY <1>7 DEF InstallsRows
    <2>2. PICK g \in [DOMAIN out[c.k].got -> RowValues] :
             /\ out' = [out EXCEPT ![c.k] = [out[c.k] EXCEPT !.got = g]]
             /\ \A r \in DOMAIN out[c.k].got :
                   g[r] = IF Delivers(c.chunk, r) THEN staging[IndexOf(c.chunk, r)] ELSE out[c.k].got[r]
        BY <1>4, <1>7, InstallFill
    <2>3. out'[c.k].got = g /\ \A j \in DOMAIN out : j # c.k => out'[j].got = out[j].got
        BY <1>1, <1>4, <2>2, FilledOutput
    <2>4. Staged(s, h)
        BY <1>1, <1>3, <1>5, <2>1, ReadyIsStaged
    <2>5. ASSUME NEW r, Delivers(c.chunk, r) PROVE staging[IndexOf(c.chunk, r)] = <<r, writes[r]>>
        <3>1. IndexOf(c.chunk, r) \in DOMAIN c.chunk /\ c.chunk[IndexOf(c.chunk, r)] = r
            BY <2>5, IndexFound
        <3> QED BY <2>4, <3>1 DEF Staged, Holds
    <2>6. \A r : Brought(c, r) <=> Delivers(c.chunk, r)
        BY <2>1 DEF Brought
    <2> QED BY <1>4, <2>2, <2>3, <2>5, <2>6
<1>8. ~Passes(c) /\ ~Transfers(c)
    BY DEF Passes, Transfers, IsData
<1> QED BY <1>5, <1>6, <1>7, <1>8

\* A lookup command that executes delivers its rows as the table holds them.
LEMMA OutputsExecute ==
    ASSUME EngramTypes, ReadsOrdered, HitsFirst, InstallsFed, TagsRight, OutputsRight, NEW s \in Queues, Execute(s)
    PROVE  OutputsRight'
<1>1. StreamTypes /\ HostKnows /\ HitsHeld /\ writes' = writes /\ host' = host
    BY DEF EngramTypes, TagsRight, Execute, rowVars
<1>2. PICK h : h = executed[s] + 1
    OBVIOUS
<1>3. Shrinks(s, h)
    BY <1>1, <1>2, ExecuteShrinks
<1>4. PICK c : c = queue[s][h]
    OBVIOUS
<1>5. /\ Len(out') = Len(out) /\ DOMAIN out' = DOMAIN out
      /\ \A j \in DOMAIN out : out'[j].want = out[j].want /\ out'[j].last = out[j].last
    BY ExecuteKeepsOutputs DEF OutputsKept
<1>6. h \in DOMAIN queue[s]
    BY <1>3 DEF Shrinks
<1>7. \A q \in Streams : \A p \in DOMAIN queue'[q] : p \in DOMAIN queue[q] /\ queue'[q][p] = queue[q][p]
    BY <1>3, StreamIsQueue DEF Shrinks
<1>8. ~(s \in Streams /\ IsData(c)) => \A j \in DOMAIN out : out'[j].got = out[j].got
    <2> SUFFICES ASSUME ~(s \in Streams /\ IsData(c)) PROVE out' = out
        OBVIOUS
    <2>1. Passes(c) \/ Transfers(c) \/ CopiesHits(c) \/ InstallsRows(c)
        BY <1>2, <1>4 DEF Execute
    <2>2. ~IsData(c)
        <3>1. CASE s = "copy"
            BY <1>1, <1>4, <1>6, <3>1 DEF StreamTypes, CopyCommands, IsData
        <3> QED BY <3>1 DEF Queues
    <2> QED BY <2>1, <2>2 DEF Passes, Transfers, CopiesHits, InstallsRows, IsData
<1> SUFFICES ASSUME NEW k \in DOMAIN out, NEW r \in DOMAIN out[k].want
             PROVE  ((Expected(k) => Due(k, r)) /\ (InUse(k) => out[k].want[r] = <<r, writes[r]>>))'
    BY <1>5 DEF OutputsRight
<1>9. (InUse(k) => out[k].want[r] = <<r, writes[r]>>)'
    <2>1. InUse(k)' => InUse(k)
        BY <1>1, <1>5, <1>7 DEF InUse, Reading, IsData
    <2> QED BY <1>1, <1>5, <2>1 DEF OutputsRight
<1>10. (Expected(k) => Due(k, r))'
    <2> SUFFICES ASSUME Expected(k)' PROVE Due(k, r)'
        OBVIOUS
    <2>1. Expected(k)
        BY <1>1, <1>5 DEF Expected, Reading
    <2>2. Due(k, r)
        BY <2>1 DEF OutputsRight
    <2>3. r \in DOMAIN out[k].got
        BY <1>1 DEF HostKnows
    <2>4. CASE s \in Streams /\ IsData(c) /\ c.k = k /\ Brought(c, r)
        <3>1. out'[k].got[r] = <<r, writes[r]>>
            BY <1>1, <1>2, <1>4, <2>3, <2>4, Delivered
        <3>2. InUse(k)
            BY <1>4, <1>6, <2>4 DEF InUse
        <3>3. out[k].want[r] = <<r, writes[r]>>
            BY <3>2 DEF OutputsRight
        <3> QED BY <1>5, <3>1, <3>3 DEF Due
    <2>5. CASE ~(s \in Streams /\ IsData(c) /\ c.k = k /\ Brought(c, r))
        <3>1. out'[k].got[r] = out[k].got[r]
            <4>1. CASE s \in Streams /\ IsData(c)
                <5>1. /\ \A j \in DOMAIN out : j # c.k => out'[j].got = out[j].got
                      /\ \A x \in DOMAIN out[c.k].got :
                            out'[c.k].got[x] = IF Brought(c, x) THEN <<x, writes[x]>> ELSE out[c.k].got[x]
                    BY <1>1, <1>2, <1>4, <4>1, Delivered
                <5>2. CASE c.k = k
                    BY <2>3, <2>5, <4>1, <5>1, <5>2
                <5> QED BY <5>1, <5>2
            <4> QED BY <1>8, <4>1
        <3>2. Coming(k, r) => Coming(k, r)'
            <4> SUFFICES ASSUME Coming(k, r) PROVE Coming(k, r)'
                OBVIOUS
            <4>0. PICK q \in Streams : \E p \in DOMAIN queue[q] : queue[q][p].k = k /\ Brought(queue[q][p], r)
                BY DEF Coming
            <4>1. PICK p \in DOMAIN queue[q] : queue[q][p].k = k /\ Brought(queue[q][p], r)
                BY <4>0
            <4>2. IsData(queue[q][p])
                BY <4>1 DEF Brought, IsData
            <4>3. ~(q = s /\ p = h)
                BY <1>4, <2>5, <4>1, <4>2
            <4>4. p \in DOMAIN queue'[q] /\ queue'[q][p] = queue[q][p]
                BY <1>3, <1>7, <4>3, StreamIsQueue DEF Shrinks
            <4> QED BY <4>1, <4>4 DEF Coming, Brought
        <3>3. Unissued(k, r) => Unissued(k, r)'
            BY <1>1, <1>5 DEF Unissued, Reading
        <3> QED BY <1>5, <2>2, <3>1, <3>2, <3>3 DEF Due
    <2> QED BY <2>4, <2>5
<1> QED BY <1>9, <1>10

\* Rows on their way stay so, and a lookup command that is issued brings its own.
LEMMA ComingGrows ==
    ASSUME NEW s \in Queues, NEW c, Grows(s, c)
    PROVE  /\ \A k, r : Coming(k, r) => Coming(k, r)'
           /\ \A k, r : s \in Streams /\ c.k = k /\ Brought(c, r) => Coming(k, r)'
           /\ \A k : (~Reading' \/ k # Len(out')) /\ ~(s \in Streams /\ IsData(c) /\ c.k = k) /\ InUse(k)' => InUse(k)
<1>1. \A q \in Streams : \A p \in DOMAIN queue[q] : p \in DOMAIN queue'[q] /\ queue'[q][p] = queue[q][p]
    BY StreamIsQueue DEF Grows
<1>2. ASSUME NEW k, NEW r, Coming(k, r) PROVE Coming(k, r)'
    BY <1>1, <1>2 DEF Coming, Brought
<1>3. ASSUME NEW k, NEW r, s \in Streams, c.k = k, Brought(c, r) PROVE Coming(k, r)'
    <2>1. PICK m \in DOMAIN queue'[s] : queue'[s][m] = c
        BY DEF Grows
    <2>2. Brought(queue[s][m], r)'
        BY <1>3, <2>1 DEF Brought
    <2>3. queue'[s][m].k = k
        BY <1>3, <2>1
    <2> QED BY <1>3, <2>1, <2>2, <2>3 DEF Coming
<1>4. ASSUME NEW k, ~Reading' \/ k # Len(out'), ~(s \in Streams /\ IsData(c) /\ c.k = k), InUse(k)' PROVE InUse(k)
    <2>0. PICK q \in Streams : \E p \in DOMAIN queue'[q] : IsData(queue'[q][p]) /\ queue'[q][p].k = k
        BY <1>4 DEF InUse, IsData
    <2>1. PICK p \in DOMAIN queue'[q] : IsData(queue'[q][p]) /\ queue'[q][p].k = k
        BY <2>0
    <2>2. p \in DOMAIN queue[q] /\ queue'[q][p] = queue[q][p]
        BY <1>4, <2>1, StreamIsQueue DEF Grows
    <2> QED BY <2>1, <2>2 DEF InUse
<1> QED BY <1>2, <1>3, <1>4

\* The rows on their way stay so while the streams do not change.
LEMMA ComingSame ==
    ASSUME queue' = queue
    PROVE  /\ \A k, r : Coming(k, r) => Coming(k, r)'
           /\ \A k : (~Reading' \/ k # Len(out')) /\ InUse(k)' => InUse(k)
BY DEF Coming, Brought, InUse, IsData

\* A step of the read in progress.
LEMMA OutputsWhileReading ==
    ASSUME EngramTypes, OutputsRight, Reading, writes' = writes, NEW n, n = Len(out), Len(out') = n, DOMAIN out' = DOMAIN out,
           \A j \in DOMAIN out : out'[j].want = out[j].want /\ out'[j].got = out[j].got,
           \A j \in DOMAIN out : j # n => out'[j].last = out[j].last,
           \A k, r : Coming(k, r) => Coming(k, r)',
           \A k \in DOMAIN out : k # n /\ InUse(k)' => InUse(k),
           Expected(n)' => \A r \in DOMAIN out[n].want : Unissued(n, r) => Coming(n, r)' \/ Unissued(n, r)'
    PROVE  OutputsRight'
<1> SUFFICES ASSUME NEW k \in DOMAIN out, NEW r \in DOMAIN out[k].want
             PROVE  ((Expected(k) => Due(k, r)) /\ (InUse(k) => out[k].want[r] = <<r, writes[r]>>))'
    BY DEF OutputsRight
<1>1. CASE k = n
    <2>1. Expected(n) /\ InUse(n)
        BY DEF Expected, InUse
    <2>2. Due(n, r) /\ out[n].want[r] = <<r, writes[r]>>
        BY <1>1, <2>1 DEF OutputsRight
    <2>3. Expected(n)' => Due(n, r)'
        BY <1>1, <2>2 DEF Due
    <2> QED BY <1>1, <2>2, <2>3
<1>2. CASE k # n
    <2>1. ~Unissued(k, r) /\ (Expected(k)' => Expected(k))
        BY <1>2 DEF Unissued, Expected
    <2>2. Expected(k)' => Due(k, r)'
        BY <2>1 DEF OutputsRight, Due
    <2>3. InUse(k)' => out[k].want[r] = <<r, writes[r]>>
        BY <1>2 DEF OutputsRight
    <2> QED BY <2>2, <2>3
<1> QED BY <1>1, <1>2

\* A read that begins has all its rows to issue.
LEMMA OutputsRead ==
    ASSUME EngramTypes, OutputsRight, NEW s \in Streams, NEW ids \in SUBSET TableRows, Read(s, ids)
    PROVE  OutputsRight'
<1>1. StreamTypes /\ HostKnows /\ s \in Queues /\ out \in Seq(Outputs) /\ ~Reading /\ writes' = writes /\ Reading'
    BY StreamIsQueue DEF EngramTypes, HostKnows, Read, Reading, rowVars
<1>2. PICK n \in Nat : n = Len(out)
    BY <1>1
<1>3. PICK c : c = Command("wait", n + 1, event, {}, <<>>)
    OBVIOUS
<1>4. Issue(s, c) /\ ~IsData(c)
    BY <1>2, <1>3 DEF Read, Command, IsData
<1>5. Grows(s, c)
    BY <1>1, <1>4, IssueGrows
<1>6. PICK o : o = [want |-> [r \in ids |-> <<r, writes[r]>>], got |-> [r \in ids |-> Garbage], last |-> NoEvent]
    OBVIOUS
<1>7. out' = Append(out, o) /\ host' = [pc |-> "validate", s |-> s, ids |-> ids, hits |-> {}, missing |-> <<>>, start |-> 0]
    BY <1>6 DEF Read
<1>8. /\ Len(out') = n + 1 /\ out'[n + 1] = o
      /\ \A k \in DOMAIN out' : k = n + 1 \/ (k \in DOMAIN out /\ k # n + 1 /\ out'[k] = out[k])
    BY <1>1, <1>2, <1>7
<1> SUFFICES ASSUME NEW k \in DOMAIN out', NEW r \in DOMAIN out'[k].want
             PROVE  ((Expected(k) => Due(k, r)) /\ (InUse(k) => out[k].want[r] = <<r, writes[r]>>))'
    BY DEF OutputsRight
<1>9. CASE k = n + 1
    <2>1. Unissued(k, r)'
        BY <1>1, <1>7, <1>8, <1>9 DEF Unissued
    <2>2. out'[k].want = [x \in ids |-> <<x, writes[x]>>]
        BY <1>6, <1>8, <1>9
    <2>3. out'[k].want[r] = <<r, writes[r]>>
        BY <2>2
    <2> QED BY <1>1, <2>1, <2>3 DEF Due
<1>10. CASE k \in DOMAIN out /\ k # n + 1 /\ out'[k] = out[k]
    <2>1. ~Unissued(k, r) /\ (Expected(k)' => Expected(k))
        BY <1>1, <1>8, <1>10 DEF Unissued, Expected
    <2>2. Expected(k)' => Due(k, r)'
        <3>1. Coming(k, r) => Coming(k, r)'
            BY <1>1, <1>5, ComingGrows
        <3> QED BY <1>10, <2>1, <3>1 DEF OutputsRight, Due
    <2>3. InUse(k)' => InUse(k)
        BY <1>1, <1>4, <1>5, <1>8, <1>10, ComingGrows
    <2>4. InUse(k)' => out[k].want[r] = <<r, writes[r]>>
        BY <1>10, <2>3 DEF OutputsRight
    <2> QED BY <1>1, <1>10, <2>2, <2>4
<1> QED BY <1>8, <1>9, <1>10

\* Its rows are the hits and the misses it lists.
LEMMA OutputsPlan ==
    ASSUME EngramTypes, OutputsRight, Validate \/ PlanMisses
    PROVE  OutputsRight'
<1>1. HostKnows /\ Reading /\ writes' = writes /\ queue' = queue /\ out' = out /\ host \in HostRecords
    BY DEF EngramTypes, HostKnows, Validate, PlanMisses, Reading, rowVars, streamVars
<1>2. PICK n : n = Len(out)
    OBVIOUS
<1>3. ASSUME NEW r \in DOMAIN out[n].want, Unissued(n, r) PROVE Unissued(n, r)'
    <2>1. CASE Validate
        <3>1. host' = [host EXCEPT !.pc = "plan"]
            BY <2>1 DEF Validate
        <3>2. host'.pc = "plan"
            BY <1>1, <3>1 DEF HostRecords
        <3> QED BY <1>1, <1>2, <3>2 DEF Unissued, Reading
    <2>2. CASE PlanMisses
        <3>1. PICK q : host' = [host EXCEPT !.pc = "begin", !.hits = Hits, !.missing = q] /\ Lists(q, host.ids \ Hits)
                       /\ q \in [1 .. Cardinality(host.ids \ Hits) -> host.ids \ Hits]
            BY <2>2 DEF PlanMisses
        <3>2. host'.pc = "begin" /\ host'.hits = Hits /\ host'.missing = q /\ host'.start = 0
            BY <1>1, <2>2, <3>1 DEF HostRecords, HostKnows, PlanMisses
        <3>3. r \in host.ids
            BY <1>1, <1>2 DEF HostKnows
        <3>4. CASE r \in Hits
            BY <1>1, <1>2, <3>2, <3>4 DEF Unissued, Reading
        <3>5. CASE r \notin Hits
            <4>1. PICK j \in DOMAIN q : q[j] = r
                BY <3>1, <3>3, <3>5 DEF Lists
            <4>2. 0 < j
                BY <3>1, <4>1
            <4> QED BY <1>1, <1>2, <3>2, <4>1, <4>2 DEF Unissued, Reading
        <3> QED BY <3>4, <3>5
    <2> QED BY <2>1, <2>2
<1>4. \A k, r : Coming(k, r) => Coming(k, r)'
    BY <1>1, ComingSame
<1>5. \A k \in DOMAIN out : k # n /\ InUse(k)' => InUse(k)
    BY <1>1, <1>2, ComingSame
<1> QED BY <1>1, <1>2, <1>3, <1>4, <1>5, OutputsWhileReading

\* The hits it issues are on their way.
LEMMA OutputsHits ==
    ASSUME EngramTypes, OutputsRight, PlanHits \/ CopyHits
    PROVE  OutputsRight'
<1>1. /\ StreamTypes /\ HostKnows /\ host.s \in Streams /\ Reading /\ writes' = writes /\ host \in HostRecords
      /\ DOMAIN out[Len(out)].want = host.ids
    BY DEF EngramTypes, HostKnows, PlanHits, CopyHits, Reading, rowVars
<1>2. PICK n \in Nat : n = Len(out)
    BY <1>1 DEF HostKnows
<1>3. PICK hit : hit = IF PlanHits THEN Hits ELSE host.hits
    OBVIOUS
<1>4. PICK c : c = HitsCommand(hit)
    OBVIOUS
<1>5. PICK s \in Streams : s = host.s
    BY <1>1
<1>6. Issue(s, c) /\ c.op = "hits" /\ c.rows = hit /\ c.k = n
    BY <1>2, <1>3, <1>4, <1>5 DEF PlanHits, CopyHits, HitsCommand, Command
<1>7. Grows(s, c) /\ s \in Queues
    BY <1>1, <1>6, IssueGrows, StreamIsQueue
<1>8. /\ Len(out') = n /\ DOMAIN out' = DOMAIN out
      /\ \A j \in DOMAIN out : out'[j].want = out[j].want /\ out'[j].got = out[j].got
      /\ \A j \in DOMAIN out : j # n => out'[j].last = out[j].last
    <2>1. CASE PlanHits
        BY <1>1, <1>2, <2>1, ReturnedOutput DEF PlanHits
    <2>2. CASE CopyHits
        BY <1>2, <2>2 DEF CopyHits
    <2> QED BY <2>1, <2>2
<1>9. ASSUME NEW r \in DOMAIN out[n].want, Unissued(n, r) PROVE Coming(n, r)' \/ Unissued(n, r)'
    <2>1. CASE r \in hit
        <3>1. Brought(c, r)
            BY <1>6, <2>1 DEF Brought
        <3> QED BY <1>6, <1>7, <3>1, ComingGrows
    <2>2. CASE r \notin hit
        <3>1. ~PlanHits /\ CopyHits /\ r \notin host.hits
            BY <1>1, <1>2, <1>3, <2>2 DEF PlanHits
        <3>2. host' = [host EXCEPT !.pc = "install", !.hits = {}] /\ host.pc = "hits"
            BY <3>1 DEF CopyHits
        <3>3. host'.pc = "install" /\ host'.missing = host.missing /\ host'.start = host.start
            BY <1>1, <3>2 DEF HostRecords
        <3>4. PICK j \in DOMAIN host.missing : host.start < j /\ host.missing[j] = r
            BY <1>9, <3>1, <3>2 DEF Unissued
        <3> QED BY <1>8, <3>3, <3>4 DEF Unissued, Reading
    <2> QED BY <2>1, <2>2
<1>10. \A k, r : Coming(k, r) => Coming(k, r)'
    BY <1>7, ComingGrows
<1>11. \A k \in DOMAIN out : k # n /\ InUse(k)' => InUse(k)
    BY <1>6, <1>7, <1>8, ComingGrows
<1> QED BY <1>1, <1>2, <1>8, <1>9, <1>10, <1>11, OutputsWhileReading

\* A transfer delivers nothing yet.
LEMMA OutputsBegin ==
    ASSUME EngramTypes, OutputsRight, BeginTransfer
    PROVE  OutputsRight'
<1>1. StreamTypes /\ HostKnows /\ Reading /\ writes' = writes /\ host \in HostRecords /\ out' = out
    BY DEF EngramTypes, HostKnows, BeginTransfer, Reading, rowVars
<1>2. PICK n \in Nat : n = Len(out)
    BY <1>1 DEF HostKnows
<1>3. PICK c : c = Command("dma", Len(out), consumerDone, {}, Chunk)
    OBVIOUS
<1>4. Issue("copy", c)
    BY <1>3 DEF BeginTransfer, StagingFree
<1>5. Grows("copy", c) /\ "copy" \in Queues /\ "copy" \notin Streams
    BY <1>1, <1>4, IssueGrows, StreamIsQueue
<1>6. host' = [host EXCEPT !.pc = IF host.hits = {} THEN "install" ELSE "hits"] /\ host.pc = "begin"
    BY DEF BeginTransfer
<1>7. host'.pc \in {"hits", "install"} /\ host'.hits = host.hits /\ host'.missing = host.missing /\ host'.start = host.start
    BY <1>1, <1>6 DEF HostRecords
<1>8. ASSUME NEW r \in DOMAIN out[n].want, Unissued(n, r) PROVE Unissued(n, r)'
    BY <1>1, <1>6, <1>7, <1>8 DEF Unissued, Reading
<1>9. \A k, r : Coming(k, r) => Coming(k, r)'
    BY <1>5, ComingGrows
<1>10. \A k \in DOMAIN out : k # n /\ InUse(k)' => InUse(k)
    BY <1>1, <1>2, <1>5, ComingGrows
<1> QED BY <1>1, <1>2, <1>8, <1>9, <1>10, OutputsWhileReading

\* The chunk it installs is on its way; when the read returns nothing is left to issue.
LEMMA OutputsConsume ==
    ASSUME EngramTypes, OutputsRight, ConsumeTransfer
    PROVE  OutputsRight'
<1>1. /\ StreamTypes /\ HostKnows /\ host.s \in Streams /\ Reading /\ writes' = writes /\ host \in HostRecords
      /\ host.hits = {} /\ host.pc = "install"
    BY DEF EngramTypes, HostKnows, ConsumeTransfer, Reading, rowVars
<1>2. PICK n \in Nat : n = Len(out)
    BY <1>1 DEF HostKnows
<1>3. PICK c : c = Command("install", Len(out), copyDone, {}, Chunk)
    OBVIOUS
<1>4. PICK s \in Streams : s = host.s
    BY <1>1
<1>5. Issue(s, c) /\ c.op = "install" /\ c.chunk = Chunk /\ c.k = n
    BY <1>2, <1>3, <1>4 DEF ConsumeTransfer, Command
<1>6. Grows(s, c) /\ s \in Queues
    BY <1>1, <1>5, IssueGrows, StreamIsQueue
<1>7. /\ Width \in 1 .. StagingRows /\ host.start + Width <= Len(host.missing)
      /\ Len(host.missing) \in Nat /\ host.start \in Nat /\ DOMAIN Chunk = 1 .. Width
      /\ \A i \in 1 .. Width : Chunk[i] = host.missing[host.start + i]
    BY <1>1, NextChunk
<1>8. PICK w \in Nat : w = Width
    BY <1>7, EngramCacheAssumption
<1>9. /\ Len(out') = n /\ DOMAIN out' = DOMAIN out
      /\ \A j \in DOMAIN out : out'[j].want = out[j].want /\ out'[j].got = out[j].got
      /\ \A j \in DOMAIN out : j # n => out'[j].last = out[j].last
      /\ \/ host.start + w = Len(host.missing)
         \/ host'.pc = "begin" /\ host'.missing = host.missing /\ host'.start = host.start + w
    <2>1. CASE host.start + Width = Len(host.missing) /\ Returned
        BY <1>1, <1>2, <1>8, <2>1, ReturnedOutput
    <2>2. CASE host' = [host EXCEPT !.pc = "begin", !.start = host.start + Width] /\ UNCHANGED <<event, out>>
        <3>1. host' = [host EXCEPT !.pc = "begin", !.start = host.start + w] /\ out' = out
            BY <1>8, <2>2
        <3>2. host'.pc = "begin" /\ host'.missing = host.missing /\ host'.start = host.start + w
            BY <1>1, <3>1 DEF HostRecords
        <3> QED BY <1>2, <3>1, <3>2
    <2> QED BY <2>1, <2>2 DEF ConsumeTransfer
<1>10. ASSUME NEW r \in DOMAIN out[n].want, Unissued(n, r) PROVE Coming(n, r)' \/ Unissued(n, r)'
    <2>1. PICK j \in DOMAIN host.missing : host.start < j /\ host.missing[j] = r
        BY <1>1, <1>10 DEF Unissued
    <2>2. j \in Nat /\ j <= Len(host.missing)
        BY <1>1, <2>1 DEF HostRecords
    <2>3. CASE j <= host.start + w
        <3>1. PICK i \in 1 .. w : host.start + i = j
            <4>1. j - host.start \in 1 .. w /\ host.start + (j - host.start) = j
                BY <1>7, <2>1, <2>2, <2>3
            <4> QED BY <4>1
        <3>2. i \in DOMAIN Chunk /\ Chunk[i] = r
            BY <1>7, <1>8, <2>1, <3>1
        <3>3. Brought(c, r)
            BY <1>5, <3>2 DEF Brought, Delivers
        <3> QED BY <1>5, <1>6, <3>3, ComingGrows
    <2>4. CASE ~(j <= host.start + w)
        <3>1. host'.pc = "begin" /\ host'.missing = host.missing /\ host'.start = host.start + w
            BY <1>9, <2>2, <2>4
        <3>2. host'.start < j
            BY <1>7, <2>2, <2>4, <3>1
        <3> QED BY <1>9, <2>1, <3>1, <3>2 DEF Unissued, Reading
    <2> QED BY <2>3, <2>4
<1>11. \A k, r : Coming(k, r) => Coming(k, r)'
    BY <1>6, ComingGrows
<1>12. \A k \in DOMAIN out : k # n /\ InUse(k)' => InUse(k)
    BY <1>5, <1>6, <1>9, ComingGrows
<1> QED BY <1>1, <1>2, <1>9, <1>10, <1>11, <1>12, OutputsWhileReading

\* Nothing is due of a read that fails, and nothing less of the others.
LEMMA OutputsFailure ==
    ASSUME EngramTypes, OutputsRight, ReadFails \/ InstallFails
    PROVE  OutputsRight'
<1>1. /\ StreamTypes /\ HostKnows /\ Reading /\ writes' = writes /\ out' = out /\ host' = IdleHost /\ host.s \in Queues
      /\ out[Len(out)].last = NoEvent
    BY DEF EngramTypes, HostKnows, HostRecords, ReadFails, InstallFails, ReadRaises, Reading, rowVars
<1>2. PICK n \in Nat : n = Len(out)
    BY <1>1 DEF HostKnows
<1>3. ~Reading' /\ ~Expected(n)'
    BY <1>1, <1>2 DEF Reading, Expected, IdleHost
<1>4. /\ \A k, r : Coming(k, r) => Coming(k, r)'
      /\ \A k \in DOMAIN out : k # n /\ InUse(k)' => InUse(k)
    <2>1. CASE ReadFails
        <3>1. queue' = queue
            BY <2>1 DEF ReadFails, streamVars
        <3> QED BY <1>3, <3>1, ComingSame
    <2>2. CASE InstallFails
        <3>1. PICK c : c = Command("wait", 0, copyDone, {}, <<>>)
            OBVIOUS
        <3>2. PICK s \in Queues : s = host.s
            BY <1>1
        <3>3. Issue(s, c) /\ ~IsData(c)
            BY <2>2, <3>1, <3>2 DEF InstallFails, Command, IsData
        <3>4. Grows(s, c)
            BY <1>1, <3>3, IssueGrows
        <3> QED BY <1>3, <3>3, <3>4, ComingGrows
    <2> QED BY <2>1, <2>2
<1> QED BY <1>1, <1>2, <1>3, <1>4, OutputsWhileReading

\* An optimizer step changes rows when no output is in use.
LEMMA OutputsOptimizer ==
    ASSUME EngramTypes, ReadsOrdered, OutputsRight, NEW touched, NEW cleared, OptimizerStep(touched, cleared), EngramTypes'
    PROVE  OutputsRight'
<1>1. queue' = queue /\ host' = host /\ out' = out /\ ~Reading
    BY DEF OptimizerStep, streamVars, Reading
<1>2. \A s \in Streams : \A p \in DOMAIN queue[s] : ~IsData(queue[s][p])
    BY OrderedOptimizer
<1> SUFFICES ASSUME NEW k \in DOMAIN out, NEW r \in DOMAIN out[k].want
             PROVE  ((Expected(k) => Due(k, r)) /\ (InUse(k) => out[k].want[r] = <<r, writes[r]>>))'
    BY <1>1 DEF OutputsRight
<1>3. ~InUse(k)'
    BY <1>1, <1>2 DEF InUse, IsData, Reading
<1>4. Expected(k)' => Expected(k)
    BY <1>1 DEF Expected, Reading
<1>5. Due(k, r) => Due(k, r)'
    <2>1. ~Unissued(k, r)
        BY <1>1 DEF Unissued
    <2>2. Coming(k, r) => Coming(k, r)'
        BY <1>1, ComingSame
    <2> QED BY <1>1, <2>1, <2>2 DEF Due
<1> QED BY <1>3, <1>4, <1>5 DEF OutputsRight

\* Every step keeps every output on its way to the rows the read asked for.
LEMMA OutputsRightNext ==
    ASSUME EngramTypes, ReadsOrdered, HitsFirst, InstallsFed, TagsRight, OutputsRight, EngramNext
    PROVE  OutputsRight'
<1>1. EngramTypes'
    BY EngramTypesNext
<1> QED BY <1>1, OutputsExecute, OutputsRead, OutputsPlan, OutputsHits, OutputsBegin, OutputsConsume, OutputsFailure,
           OutputsOptimizer DEF EngramNext

-----------------------------------------------------------------------------
\* The invariant holds of an unused cache.
LEMMA EngramInitInv ==
    ASSUME EngramInit
    PROVE  EngramInv
<1>1. /\ \A s \in Queues : DOMAIN queue[s] = {} /\ issued[s] = 0 /\ executed[s] = 0
      /\ host.pc = "idle" /\ out = <<>> /\ DOMAIN out = {} /\ ~Reading
    BY DEF EngramInit, IdleHost, Reading
<1>2. CacheTypes
    BY NoEventType, EngramCacheAssumption DEF EngramInit, CacheTypes, RowValues, Garbage
<1>3. StreamTypes
    <2>1. issued \in [Queues -> Nat] /\ executed \in [Queues -> Nat] /\ DOMAIN queue = Queues
        BY DEF EngramInit
    <2>2. ASSUME NEW s \in Queues PROVE DOMAIN queue[s] = executed[s] + 1 .. issued[s] /\ executed[s] <= issued[s]
        <3>1. DOMAIN queue[s] = {} /\ issued[s] = 0 /\ executed[s] = 0
            BY <1>1
        <3>2. 0 + 1 .. 0 = {}
            OBVIOUS
        <3> QED BY <3>1, <3>2
    <2> QED BY <1>1, <2>1, <2>2, StreamIsQueue DEF StreamTypes
<1>4. HostKnows
    BY DEF EngramInit, HostKnows, IdleHost, HostRecords, Queues, Reading
<1>5. ReadsOrdered
    BY <1>1, StreamIsQueue DEF ReadsOrdered, CommandsOrdered, HostOrdered, LastsOrdered, CoversTo
<1>6. HitsFirst
    BY <1>1, StreamIsQueue DEF HitsFirst, HitsBeforeInstalls, ReadPlaced
<1>7. InstallsFed
    BY <1>1, StreamIsQueue DEF InstallsFed
<1>8. TransferKnown
    <2>1. copyDone = NoEvent /\ ticket = FALSE
        BY DEF EngramInit
    <2> QED BY <1>1, <2>1, NoEventType, StreamIsQueue DEF TransferKnown, CopyIdle
<1>9. TagsRight
    <2>1. \A t \in Places : tags[t] = Empty
        BY DEF EngramInit
    <2> QED BY <1>1, <2>1, StreamIsQueue DEF TagsRight, TagsHeld, HitsTagged, HitsHeld
<1>10. OutputsRight
    BY <1>1 DEF OutputsRight
<1> QED BY <1>2, <1>3, <1>4, <1>5, <1>6, <1>7, <1>8, <1>9, <1>10 DEF EngramInv, EngramTypes

\* Every step of the cache, the streams and the optimizer preserves the invariant.
LEMMA EngramNextInv ==
    ASSUME EngramInv, EngramNext
    PROVE  EngramInv'
BY EngramTypesNext, ReadsOrderedNext, HitsFirstNext, FedNext, TagsRightNext, OutputsRightNext DEF EngramInv

\* Nothing else can disturb it.
LEMMA EngramStutterInv ==
    ASSUME EngramInv, UNCHANGED engramVars
    PROVE  EngramInv'
<1>1. /\ writes' = writes /\ wversion' = wversion /\ tags' = tags /\ version' = version /\ ticket' = ticket
      /\ event' = event /\ copyDone' = copyDone /\ consumerDone' = consumerDone /\ values' = values
      /\ pinned' = pinned /\ staging' = staging /\ queue' = queue /\ issued' = issued /\ executed' = executed
      /\ host' = host /\ out' = out
    BY DEF engramVars, rowVars, rowCacheVars, bufferVars, streamVars
<1>2. EngramTypes /\ ReadsOrdered /\ HitsFirst /\ InstallsFed /\ TransferKnown /\ TagsRight /\ OutputsRight
    BY DEF EngramInv
<1>3. EngramTypes'
    BY <1>1, <1>2, StreamsKept DEF EngramTypes, CacheTypes, HostKnows, Reading
<1>4. ReadsOrdered'
    <2>1. CommandsOrdered' /\ LastsOrdered'
        BY <1>1, <1>2, <1>3, OrderedSame DEF EngramTypes
    <2>2. HostOrdered'
        BY <1>1, <1>2 DEF ReadsOrdered, HostOrdered, CoversTo, CoveredBy, IsData, Reading
    <2> QED BY <2>1, <2>2 DEF ReadsOrdered
<1>5. HitsFirst'
    BY <1>1, <1>2 DEF HitsFirst, HitsBeforeInstalls, ReadPlaced, IsData, Reading
<1>6. InstallsFed'
    BY <1>1, <1>2, FedSame
<1>7. TransferKnown'
    BY <1>1, <1>2 DEF TransferKnown, CopyIdle, Holds, Chunk, Width
<1>8. TagsRight'
    BY <1>1, <1>2, TagsSame DEF TagsRight, HitsTagged, Reading
<1>9. OutputsRight'
    BY <1>1, <1>2 DEF OutputsRight, Expected, Due, Coming, Unissued, InUse, Brought, IsData, Reading
<1> QED BY <1>3, <1>4, <1>5, <1>6, <1>7, <1>8, <1>9 DEF EngramInv

\* When the event of a read has happened nothing of it is left, so that its output is complete.
LEMMA EngramInvLookups ==
    ASSUME EngramInv
    PROVE  LookupsExact
<1>1. EngramTypes /\ StreamTypes /\ HostKnows /\ LastsOrdered /\ OutputsRight /\ TransferKnown
    BY DEF EngramInv, EngramTypes, ReadsOrdered
<1>2. ASSUME NEW k \in DOMAIN out, out[k].last # NoEvent, Happened(out[k].last) PROVE out[k].got = out[k].want
    <2>1. PICK o \in Outputs : o = out[k]
        BY <1>1 DEF HostKnows
    <2>2. PICK e \in Events : e = out[k].last
        BY <2>1 DEF Outputs
    <2>3. \A s \in Streams : \A p \in DOMAIN queue[s] : ~(IsData(queue[s][p]) /\ queue[s][p].k <= k)
        <3>1. CoversTo(e, k) /\ Happened(e)
            BY <1>1, <1>2, <2>2 DEF LastsOrdered
        <3> QED BY <1>1, <3>1, ReadsOver
    <2>4. ASSUME NEW r \in DOMAIN out[k].want PROVE out[k].got[r] = out[k].want[r]
        <3>1. Due(k, r)
            BY <1>1, <1>2 DEF OutputsRight, Expected
        <3>2. ~Coming(k, r)
            <4>1. k <= k
                BY <1>1 DEF HostKnows
            <4> QED BY <2>3, <4>1 DEF Coming, Brought, IsData
        <3>3. ~Unissued(k, r)
            BY <1>1, <1>2 DEF Unissued, HostKnows
        <3> QED BY <3>1, <3>2, <3>3 DEF Due
    <2>5. DOMAIN o.got = DOMAIN o.want
        BY <1>1, <2>1 DEF HostKnows
    <2>6. PICK S \in SUBSET TableRows, T \in SUBSET TableRows : o.got \in [S -> RowValues] /\ o.want \in [T -> RowValues]
        BY DEF Outputs, RowMaps
    <2> QED BY <2>1, <2>4, <2>5, <2>6
<1>3. host.pc = "begin" => ~ticket
    BY <1>1 DEF TransferKnown, HostKnows, EngramTypes, CacheTypes, Empty
<1> QED BY <1>2, <1>3 DEF LookupsExact

\* (LookupsExact) Whatever the streams, buffers, collisions and failures, a lookup that returns
\* delivers the rows the table held when it was called, and no transfer is refused because an
\* abandoned one is outstanding (_RowCache.read).
THEOREM LookupsAreExact == EngramSpec => []LookupsExact
<1>1. EngramInit => EngramInv
    BY EngramInitInv
<1>2. EngramInv /\ [EngramNext]_engramVars => EngramInv'
    BY EngramNextInv, EngramStutterInv
<1>3. EngramInv => LookupsExact
    BY EngramInvLookups
<1> QED BY <1>1, <1>2, <1>3, PTL DEF EngramSpec

=============================================================================
