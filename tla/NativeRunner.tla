---------------------------- MODULE NativeRunner ----------------------------
(***************************************************************************)
(* The native benchmark runner (rollout_manager/runner.py) under the       *)
(* backend that drives it (backends/native.py): episode threads that       *)
(* generate a candidate, have it reviewed, compile it on a build slot and  *)
(* evaluate it on a GPU slot within a budget of host memory.               *)
(*                                                                         *)
(* Slots and bytes go back to their pools only when the process group that *)
(* used them is known to have stopped; otherwise they are quarantined and  *)
(* the whole run is stopped.  The processes themselves are kept apart from *)
(* what the runner believes of them: alive[s] are the processes that       *)
(* really run on slot s.                                                   *)
(***************************************************************************)
EXTENDS Naturals, Sequences, FiniteSets

CONSTANTS
    Episodes,        \* episodes the backend submits
    BuildSlots,      \* items of the build pool
    GpuSlots,        \* items of the GPU pool
    Level,           \* threads of the episode pool (args.concurrency)
    TurnLimits,      \* values of args.turns
    Modes,           \* processes of one development evaluation, in order
    HostCapacity,    \* bytes of the evaluator host budget
    HostBytes        \* estimate of each job's evaluation

NoSlot == "none"

ASSUME RunnerAssumption ==
    /\ IsFiniteSet(Episodes) /\ Level \in Nat \ {0} /\ TurnLimits \subseteq 1..2
    /\ BuildSlots \cap GpuSlots = {} /\ NoSlot \notin BuildSlots \cup GpuSlots
    /\ Modes \in Seq(STRING) /\ Modes # <<>>
    /\ HostCapacity \in Nat /\ HostBytes \in [Episodes -> 1..HostCapacity]

VARIABLES
    turnLimit,  \* args.turns, fixed for the run
    runnerFatal,\* the CancellationFlag, its local and its external event
    free,       \* items in the build pool and in the GPU pool
    waiting,    \* ByteBudget.waiting, oldest first
    held,       \* ByteBudget.allocations: job -> "none", "admitted", "quarantined"
    pc,         \* where each episode thread is
    turn,       \* its turn
    stage,      \* the evaluation it is in: "evaluation" or "verification"
    slot,       \* the pool item it holds
    mode,       \* index of the process of the evaluation it runs
    proof,      \* every process of this stage was seen to stop
    best,       \* some turn was correct in development
    cleanup,    \* cleanup_state of the current turn's record
    reported,   \* cleanup_state of the episode's record
    alive,      \* slot -> processes of a job that run on it
    closing     \* stop_driver is set

runnerVars == <<turnLimit, runnerFatal, free, waiting, held, pc, turn, stage, slot, mode,
                proof, best, cleanup, reported, alive, closing>>

Slots == BuildSlots \cup GpuSlots

RunnerInit ==
    /\ turnLimit \in TurnLimits
    /\ runnerFatal = FALSE /\ closing = FALSE
    /\ free = Slots
    /\ waiting = <<>>
    /\ held = [j \in Episodes |-> "none"]
    /\ pc = [j \in Episodes |-> "new"]
    /\ turn = [j \in Episodes |-> 1]
    /\ stage = [j \in Episodes |-> "evaluation"]
    /\ slot = [j \in Episodes |-> NoSlot]
    /\ mode = [j \in Episodes |-> 1]
    /\ proof = [j \in Episodes |-> TRUE]
    /\ best = [j \in Episodes |-> FALSE]
    /\ cleanup = [j \in Episodes |-> "not_required"]
    /\ reported = [j \in Episodes |-> "not_required"]
    /\ alive = [s \in Slots |-> {}]

\* Bytes the budget has given out: ByteBudget.used, one unit per byte of a job.
ByteUnits(S) == UNION {{j} \X (1..HostBytes[j]) : j \in S}
Holding == {j \in Episodes : held[j] # "none"}
Used == Cardinality(ByteUnits(Holding))

\* Processes of an episode, on whatever slot they are.
Running(j) == {s \in Slots : \E p \in alive[s] : p[1] = j}

-----------------------------------------------------------------------------
(***************************************************************************)
(* The end of a turn.  TurnOver is reached from every return and every     *)
(* exception of turn(): c is the cleanup state its record carries, stop    *)
(* says that fatal is set on the way, feedback that tool feedback was      *)
(* measured, correct that the development evaluation passed.               *)
(***************************************************************************)
Merged(j, c) == IF turnLimit = 1 \/ c # "not_required" THEN c ELSE reported[j]

StartVerification(j) ==
    /\ pc' = [pc EXCEPT ![j] = "hostq"]
    /\ stage' = [stage EXCEPT ![j] = "verification"]
    /\ waiting' = Append(SelectSeq(waiting, LAMBDA k : k # j), j)

EpisodeOver(j) ==
    /\ pc' = [pc EXCEPT ![j] = "done"]
    /\ waiting' = SelectSeq(waiting, LAMBDA k : k # j)
    /\ UNCHANGED stage

TurnOver(j, c, stop, feedback, correct) ==
    /\ runnerFatal' = (runnerFatal \/ stop)
    /\ cleanup' = [cleanup EXCEPT ![j] = "not_required"]
    /\ best' = [best EXCEPT ![j] = @ \/ correct]
    /\ slot' = [slot EXCEPT ![j] = NoSlot]
    /\ \/ /\ \/ turnLimit = 1 \/ runnerFatal'
             \/ turn[j] < turnLimit /\ ~feedback
             \/ turn[j] = turnLimit /\ ~best'[j]
          /\ reported' = [reported EXCEPT ![j] = Merged(j, c)]
          /\ EpisodeOver(j) /\ UNCHANGED turn
       \/ /\ turnLimit > 1 /\ ~runnerFatal' /\ turn[j] < turnLimit /\ feedback
          /\ reported' = [reported EXCEPT ![j] = Merged(j, c)]
          /\ pc' = [pc EXCEPT ![j] = "infer"]
          /\ turn' = [turn EXCEPT ![j] = @ + 1]
          /\ waiting' = SelectSeq(waiting, LAMBDA k : k # j)
          /\ UNCHANGED stage
       \/ /\ turnLimit > 1 /\ ~runnerFatal' /\ turn[j] = turnLimit /\ best'[j]
          /\ reported' = [reported EXCEPT ![j] = "unknown"]
          /\ StartVerification(j) /\ UNCHANGED turn

\* An exception of the current turn that leaves its pools alone.
TurnRaises(j, c, stop) ==
    /\ TurnOver(j, c, stop, FALSE, FALSE)
    /\ UNCHANGED <<free, held, mode, proof, alive, closing>>
-----------------------------------------------------------------------------
\* The backend submits the plan to the episode pool; a thread takes it up.
\* An episode dispatched after fatal raises before anything of it exists.
Dispatch(j) ==
    /\ pc[j] = "new" /\ ~closing
    /\ Cardinality({k \in Episodes : pc[k] \notin {"new", "done"}}) < Level
    /\ pc' = [pc EXCEPT ![j] = IF runnerFatal THEN "done" ELSE "infer"]
    /\ UNCHANGED <<runnerFatal, free, waiting, held, turn, stage, slot, mode, proof,
                   best, cleanup, reported, alive, closing>>

\* The model's answer is parsed into a candidate ...
Inferred(j) ==
    /\ pc[j] = "infer"
    /\ pc' = [pc EXCEPT ![j] = "review"]
    /\ UNCHANGED <<runnerFatal, free, waiting, held, turn, stage, slot, mode, proof,
                   best, cleanup, reported, alive, closing>>

\* ... or the call fails (infrastructure, stops the run), or it does not parse.
InferenceFails(j) ==
    /\ pc[j] = "infer"
    /\ \E stop \in BOOLEAN : TurnRaises(j, cleanup[j], stop)

\* await_review: approved, or rejected, timed out or stopped.
Approved(j) ==
    /\ pc[j] = "review"
    /\ pc' = [pc EXCEPT ![j] = "buildq"]
    /\ UNCHANGED <<runnerFatal, free, waiting, held, turn, stage, slot, mode, proof,
                   best, cleanup, reported, alive, closing>>

NotApproved(j) ==
    /\ pc[j] = "review"
    /\ TurnRaises(j, cleanup[j], FALSE)

\* reservation(): the wait for a slot ends with fatal or the admission deadline.
ReservationStopped(j) ==
    /\ pc[j] = "buildq"
    /\ TurnRaises(j, cleanup[j], FALSE)

\* reservation(builds): an item of the pool, then the compiler is launched,
\* unless fatal was set or there is no headroom (the item goes back at once).
StartBuild(j) ==
    /\ pc[j] = "buildq"
    /\ \E s \in free \cap BuildSlots :
         \/ /\ ~runnerFatal
            /\ free' = free \ {s}
            /\ slot' = [slot EXCEPT ![j] = s]
            /\ pc' = [pc EXCEPT ![j] = "build"]
            /\ cleanup' = [cleanup EXCEPT ![j] = "unknown"]
            /\ alive' = [alive EXCEPT ![s] = @ \cup {<<j, "compile">>}]
            /\ UNCHANGED <<runnerFatal, waiting, held, turn, stage, mode, proof, best,
                           reported, closing>>
         \/ TurnRaises(j, cleanup[j], FALSE)

\* The kernel: a process group has really gone.  External.
ProcessGone(s) ==
    /\ \E p \in alive[s] : alive' = [alive EXCEPT ![s] = @ \ {p}]
    /\ UNCHANGED <<runnerFatal, free, waiting, held, pc, turn, stage, slot, mode, proof,
                   best, cleanup, reported, closing>>

BuildGone(j) == <<j, "compile">> \notin alive[slot[j]]

\* Mutant of Returned: the mark is forgotten.
ReturnedAlways(j, quarantined) == free \cup {slot[j]}

\* The finally of reservation(): the item goes back unless it is quarantined.
Returned(j, quarantined) == IF quarantined THEN free ELSE free \cup {slot[j]}

\* The compiler's group stopped: a candidate that compiled is queued for the
\* evaluation, one that did not ends its turn with feedback.
BuildEnds(j) ==
    /\ pc[j] = "build" /\ BuildGone(j)
    /\ free' = Returned(j, FALSE)
    /\ \/ /\ cleanup' = [cleanup EXCEPT ![j] = "unknown"]
          /\ pc' = [pc EXCEPT ![j] = "hostq"]
          /\ stage' = [stage EXCEPT ![j] = "evaluation"]
          /\ waiting' = Append(waiting, j)
          /\ slot' = [slot EXCEPT ![j] = NoSlot]
          /\ UNCHANGED <<runnerFatal, turn, best, reported>>
       \/ TurnOver(j, "verified", FALSE, TRUE, FALSE)
    /\ UNCHANGED <<held, mode, proof, alive, closing>>

\* run_process stopped it for fatal, its deadline or its log, and saw it end.
BuildStopped(j) ==
    /\ pc[j] = "build" /\ BuildGone(j)
    /\ free' = Returned(j, FALSE)
    /\ TurnOver(j, "verified", TRUE, FALSE, FALSE)
    /\ UNCHANGED <<held, mode, proof, alive, closing>>

\* The leader was reaped, members of its group were still there after two
\* seconds: process_group_stopped is false.
BuildUnclean(j) ==
    /\ pc[j] = "build" /\ ~BuildGone(j)
    /\ free' = Returned(j, TRUE)
    /\ TurnOver(j, "unknown", TRUE, FALSE, FALSE)
    /\ UNCHANGED <<held, mode, proof, alive, closing>>

\* process.wait(timeout=10) expired: TimeoutExpired leaves compile(), nothing
\* marks the reservation, and turn() does not count it as infrastructure.
BuildWaitExpires(j) ==
    /\ pc[j] = "build" /\ ~BuildGone(j)
    /\ free' = Returned(j, FALSE)
    /\ TurnOver(j, cleanup[j], FALSE, FALSE, FALSE)
    /\ UNCHANGED <<held, mode, proof, alive, closing>>
-----------------------------------------------------------------------------
(***************************************************************************)
(* evaluate(): host bytes first, then a GPU slot, both held through the    *)
(* evaluation and given up in the opposite order.                          *)
(***************************************************************************)
\* The turn, or with two turns the final verification of the episode, ends
\* with cleanup state c.
StageOver(j, c, stop, feedback, correct) ==
    IF stage[j] = "verification" /\ turnLimit > 1
    THEN /\ runnerFatal' = (runnerFatal \/ stop)
         /\ reported' = [reported EXCEPT ![j] = c]
         /\ slot' = [slot EXCEPT ![j] = NoSlot]
         /\ EpisodeOver(j) /\ UNCHANGED <<turn, best, cleanup>>
    ELSE TurnOver(j, c, stop, feedback, correct)

\* The state the record is in while nothing has been proved.
Pending(j) == IF stage[j] = "verification" /\ turnLimit > 1 THEN reported[j] ELSE cleanup[j]

\* ByteBudget.acquire: the head of the line, when its bytes fit.
AdmitHost(j) ==
    /\ pc[j] = "hostq" /\ ~runnerFatal
    /\ waiting # <<>> /\ Head(waiting) = j
    /\ Used + HostBytes[j] <= HostCapacity
    /\ waiting' = Tail(waiting)
    /\ held' = [held EXCEPT ![j] = "admitted"]
    /\ pc' = [pc EXCEPT ![j] = "gpuq"]
    /\ UNCHANGED <<runnerFatal, free, turn, stage, slot, mode, proof, best, cleanup,
                   reported, alive, closing>>

\* Fatal or the deadline: the entry leaves the line.
HostCancelled(j) ==
    /\ pc[j] = "hostq"
    /\ StageOver(j, Pending(j), FALSE, FALSE, FALSE)
    /\ UNCHANGED <<free, held, mode, proof, alive, closing>>

\* The finally of evaluator_memory().
HostReturned(j, quarantined) ==
    [held EXCEPT ![j] = IF quarantined THEN "quarantined" ELSE "none"]

\* Fatal or the deadline while waiting for a GPU, or fatal or no headroom
\* right after it was obtained: nothing was launched, everything goes back.
GpuCancelled(j) ==
    /\ pc[j] = "gpuq"
    /\ held' = HostReturned(j, FALSE)
    /\ StageOver(j, Pending(j), FALSE, FALSE, FALSE)
    /\ UNCHANGED <<free, mode, proof, alive, closing>>

StartEvaluation(j) ==
    /\ pc[j] = "gpuq" /\ ~runnerFatal
    /\ \E s \in free \cap GpuSlots :
         /\ free' = free \ {s}
         /\ slot' = [slot EXCEPT ![j] = s]
    /\ pc' = [pc EXCEPT ![j] = "launch"]
    /\ mode' = [mode EXCEPT ![j] = 1]
    /\ proof' = [proof EXCEPT ![j] = TRUE]
    /\ UNCHANGED <<runnerFatal, waiting, held, turn, stage, best, cleanup, reported,
                   alive, closing>>

\* HarnessRunner.child launches the next process of the evaluation.  Its check
\* looks at GPU contexts: a straggler without one does not stop it.
LaunchProcess(j) ==
    /\ pc[j] = "launch"
    /\ alive' = [alive EXCEPT ![slot[j]] = @ \cup {<<j, Modes[mode[j]]>>}]
    /\ pc' = [pc EXCEPT ![j] = "child"]
    /\ UNCHANGED <<runnerFatal, free, waiting, held, turn, stage, slot, mode, proof,
                   best, cleanup, reported, closing>>

\* Group stopped and contexts released, as probed right after the process.
SeenGone(j) == <<j, Modes[mode[j]]>> \notin alive[slot[j]]

\* The process passed and another one follows it (not in a verification).
NextMode(j) ==
    /\ pc[j] = "child"
    /\ stage[j] = "evaluation" /\ mode[j] < Len(Modes)
    /\ proof' = [proof EXCEPT ![j] = @ /\ SeenGone(j)]
    /\ mode' = [mode EXCEPT ![j] = @ + 1]
    /\ pc' = [pc EXCEPT ![j] = "launch"]
    /\ UNCHANGED <<runnerFatal, free, waiting, held, turn, stage, slot, best, cleanup,
                   reported, alive, closing>>

\* Mutant of Clean: only the last process is looked at.
CleanLast(j) == SeenGone(j)

Clean(j) == proof[j] /\ SeenGone(j)

\* The evaluation is over with all of its processes stopped.  A correct one is
\* followed by the verification when there is a single turn.
EvaluationEnds(j) ==
    /\ pc[j] = "child" /\ Clean(j)
    /\ free' = Returned(j, FALSE)
    /\ held' = HostReturned(j, FALSE)
    /\ \E correct \in BOOLEAN :
         IF turnLimit = 1 /\ stage[j] = "evaluation" /\ correct
         THEN /\ cleanup' = [cleanup EXCEPT ![j] = "unknown"]
              /\ slot' = [slot EXCEPT ![j] = NoSlot]
              /\ StartVerification(j)
              /\ UNCHANGED <<runnerFatal, turn, best, reported>>
         ELSE StageOver(j, "verified", FALSE, TRUE, correct)
    /\ UNCHANGED <<mode, proof, alive, closing>>

\* A process was stopped for fatal, its deadline or its log: infrastructure,
\* but its cleanup was seen.
EvaluationStopped(j) ==
    /\ pc[j] = "child" /\ Clean(j)
    /\ free' = Returned(j, FALSE)
    /\ held' = HostReturned(j, FALSE)
    /\ StageOver(j, "verified", TRUE, FALSE, FALSE)
    /\ UNCHANGED <<mode, proof, alive, closing>>

\* Some process was not seen to stop, or evaluate() raised with no proof at all
\* (a busy GPU, a failed instrumentation, an expired wait).
EvaluationUnclean(j) ==
    /\ pc[j] \in {"launch", "child"}
    /\ free' = Returned(j, TRUE)
    /\ held' = HostReturned(j, TRUE)
    /\ StageOver(j, "unknown", TRUE, FALSE, FALSE)
    /\ UNCHANGED <<mode, proof, alive, closing>>
-----------------------------------------------------------------------------
\* External cancellation, through the backend's cancel_event or a signal.
Cancel ==
    /\ ~runnerFatal /\ runnerFatal' = TRUE
    /\ UNCHANGED <<free, waiting, held, pc, turn, stage, slot, mode, proof, best,
                   cleanup, reported, alive, closing>>

\* NativeBackend.close: no further plans; the driver shuts the pool down and
\* run() returns when every thread has.
Close ==
    /\ ~closing /\ closing' = TRUE
    /\ UNCHANGED <<runnerFatal, free, waiting, held, pc, turn, stage, slot, mode, proof,
                   best, cleanup, reported, alive>>

RunEnded == closing /\ \A j \in Episodes : pc[j] \in {"new", "done"}

RunReturns == RunEnded /\ UNCHANGED runnerVars

EpisodeStep(j) ==
    \/ Dispatch(j) \/ Inferred(j) \/ InferenceFails(j)
    \/ Approved(j) \/ NotApproved(j) \/ ReservationStopped(j)
    \/ StartBuild(j) \/ BuildEnds(j) \/ BuildStopped(j) \/ BuildUnclean(j)
    \/ BuildWaitExpires(j)
    \/ AdmitHost(j) \/ HostCancelled(j) \/ GpuCancelled(j)
    \/ StartEvaluation(j) \/ LaunchProcess(j) \/ NextMode(j)
    \/ EvaluationEnds(j) \/ EvaluationStopped(j) \/ EvaluationUnclean(j)

RunnerNext ==
    /\ \/ \E j \in Episodes : EpisodeStep(j)
       \/ \E s \in Slots : ProcessGone(s)
       \/ Cancel \/ Close \/ RunReturns
    /\ UNCHANGED turnLimit

RunnerSpec == RunnerInit /\ [][RunnerNext]_runnerVars
-----------------------------------------------------------------------------
\* A GPU or a share of host memory that can be given to another episode is
\* really unused: no process is left on a free GPU slot, and an episode whose
\* bytes went back has no evaluation process left (reservation, evaluator_memory).
ReleasedClean ==
    /\ \A s \in free \cap GpuSlots : alive[s] = {}
    /\ \A j \in Episodes : held[j] = "none" => Running(j) \cap GpuSlots = {}
    /\ Used <= HostCapacity

\* An episode that reports "verified" or "not_required" left no process on a GPU
\* and, when it has a single turn, none at all; on this word the coordinator
\* releases the resources of the episode (turn(), episode(), run_process).
VerifiedMeansReaped ==
    \A j \in Episodes : pc[j] = "done" /\ reported[j] # "unknown" =>
        /\ Running(j) \cap GpuSlots = {}
        /\ turnLimit = 1 => Running(j) = {}
=============================================================================
