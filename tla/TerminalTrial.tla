---------------------------- MODULE TerminalTrial ----------------------------
(***************************************************************************)
(* A Terminal-Bench episode: the backend admits a wave of trials, Harbor    *)
(* runs each one (start the environment, run the agent, run the verifier,  *)
(* stop the environment), and the Pouch environment drives a container     *)
(* daemon over HTTP.  A request to the daemon may be carried out although  *)
(* its answer is lost, or long after the client has given up on it; the    *)
(* environment never repeats one.  What it can prove of the container at   *)
(* the end decides whether the episode counts and whether another wave is  *)
(* admitted.                                                               *)
(***************************************************************************)
EXTENDS Naturals, FiniteSets

CONSTANTS
    Trials,     \* the episodes offered to the backend
    WaveSize,   \* most trials of a wave
    MaxTurns    \* max_turns of the agent

ASSUME TrialAssumption ==
    /\ IsFiniteSet(Trials) /\ WaveSize \in Nat \ {0} /\ MaxTurns \in Nat \ {0}

Commands == {"setup", "agent", "verify"}
Operations == {"create", "start", "stop", "delete"} \cup Commands

VARIABLES
    admitted, seen, stopped,   \* TerminalBenchBackend
    trialResult,   \* EpisodeResult of a trial, or NoResult
    phase,      \* where Harbor is with the trial
    exc,        \* exception_info of result.json
    turns, req, \* the agent: turns taken, and its last request to the model
    verified,   \* original-verifier-terminal.json exists
    created,    \* the creation task: "no", "pending", "ok" or "error"
    broken, uncertain, stopSent, deleteSent,   \* flags of PouchEnvironment
    cleaning,   \* stop() under way: "no", "failure" (_cleanup_after_failure) or "final"
    wait,       \* the daemon request the client awaits
    cleanupReceipt,   \* cleanup_verified in pouch-environment.json
    flying,     \* requests the daemon may still carry out
    container,  \* the container that bears the trial's owner label
    command     \* the last command of each kind inside the container

backend == <<admitted, seen, stopped, trialResult>>
harbor == <<phase, exc, turns, req, verified>>
flags == <<created, broken, uncertain, stopSent, deleteSent>>
daemon == <<flying, container, command>>
pouch == <<flags, cleaning, wait, cleanupReceipt>>
trialVars == <<backend, harbor, pouch, daemon>>

NoResult == [cleanup |-> "none"]

TrialInit ==
    /\ admitted = {} /\ seen = {} /\ stopped = FALSE
    /\ trialResult = [t \in Trials |-> NoResult]
    /\ phase = [t \in Trials |-> "waiting"] /\ exc = [t \in Trials |-> "none"]
    /\ turns = [t \in Trials |-> 0] /\ req = [t \in Trials |-> "none"]
    /\ verified = [t \in Trials |-> FALSE]
    /\ created = [t \in Trials |-> "no"]
    /\ broken = [t \in Trials |-> FALSE] /\ uncertain = [t \in Trials |-> FALSE]
    /\ stopSent = [t \in Trials |-> FALSE] /\ deleteSent = [t \in Trials |-> FALSE]
    /\ cleaning = [t \in Trials |-> "no"] /\ wait = [t \in Trials |-> "none"]
    /\ cleanupReceipt = [t \in Trials |-> "none"]
    /\ flying = [t \in Trials |-> {}] /\ container = [t \in Trials |-> "none"]
    /\ command = [t \in Trials |-> [c \in Commands |-> "none"]]

----------------------------------------------------------------------------
(***************************************************************************)
(* The daemon (external).  A request that is in flight is carried out or   *)
(* refused, at any time.                                                   *)
(***************************************************************************)
Exists(t) == container[t] \in {"created", "running", "stopped"}

After(op, c) ==
    CASE op = "create" /\ c = "none" -> "created"
      [] op = "start" /\ c \in {"created", "stopped"} -> "running"
      [] op = "stop" /\ c = "running" -> "stopped"
      [] op = "delete" /\ c \in {"created", "stopped"} -> "gone"
      [] OTHER -> c

Lands(t, op) ==
    /\ op \in flying[t]
    /\ flying' = [flying EXCEPT ![t] = @ \ {op}]
    /\ container' = [container EXCEPT ![t] = After(op, @)]
    /\ command' = [command EXCEPT ![t] = [c \in Commands |->
                      CASE op = "stop" /\ @[c] = "running" -> "killed"
                        [] op = c /\ container[t] = "running" -> "running"
                        [] OTHER -> @[c]]]
    /\ UNCHANGED <<backend, harbor, pouch>>

Refused(t, op) ==
    /\ op \in flying[t]
    /\ flying' = [flying EXCEPT ![t] = @ \ {op}]
    /\ UNCHANGED <<backend, harbor, pouch, container, command>>

CommandEnds(t, c) ==
    /\ command[t][c] = "running"
    /\ command' = [command EXCEPT ![t][c] = "done"]
    /\ UNCHANGED <<backend, harbor, pouch, flying, container>>

\* The relay writes the answer to the agent's request into the outbox.
RelayAnswers(t) ==
    /\ req[t] \in {"published", "unknown"}
    /\ \E answer \in {"answered", "failed"} :
          req' = [req EXCEPT ![t] = IF @ = "published" THEN answer ELSE "unknown_answered"]
    /\ UNCHANGED <<backend, phase, exc, turns, verified, pouch, daemon>>

----------------------------------------------------------------------------
(***************************************************************************)
(* The environment: requests, and what follows when one fails.             *)
(***************************************************************************)
SendRequest(t, op) ==
    /\ wait' = [wait EXCEPT ![t] = op]
    /\ flying' = [flying EXCEPT ![t] = @ \cup {op}]

\* The answer to op reached the client and reports success.
Answered(t, op) ==
    /\ wait[t] = op /\ op \notin flying[t]
    /\ CASE op = "create" -> container[t] # "none"
         [] op = "start" -> container[t] = "running"
         [] op = "stop" -> container[t] # "running"
         [] op = "delete" -> container[t] = "gone"
         [] OTHER -> command[t][op] = "done"

IdleClient(t) == wait[t] = "none" /\ cleaning[t] = "no"

\* An exception leaves the operation: no further command is accepted, the
\* container is taken down, then Harbor goes on in the given phase.
Abandon(t, next, why) ==
    /\ broken' = [broken EXCEPT ![t] = TRUE]
    /\ cleaning' = [cleaning EXCEPT ![t] = IF created[t] = "no" THEN "no" ELSE "failure"]
    /\ wait' = [wait EXCEPT ![t] = "none"]
    /\ phase' = [phase EXCEPT ![t] = next]
    /\ exc' = [exc EXCEPT ![t] = why]

\* start(): inspect the image, then post the single create request.
Create(t) ==
    /\ phase[t] = "boot" /\ IdleClient(t) /\ created[t] = "no"
    /\ \/ /\ SendRequest(t, "create")
          /\ created' = [created EXCEPT ![t] = "pending"]
          /\ UNCHANGED <<phase, exc, broken, cleaning>>
       \/ /\ Abandon(t, "final", "other") /\ UNCHANGED <<created, flying>>
    /\ UNCHANGED <<backend, turns, req, verified, uncertain, stopSent, deleteSent,
                   cleanupReceipt, container, command>>

\* The creation task ends.  It is shielded: a cancelled start() leaves it to
\* the cleanup, which waits for it.
CreateReturns(t) ==
    /\ created[t] = "pending"
    /\ \/ /\ "create" \notin flying[t] /\ container[t] # "none"
          /\ created' = [created EXCEPT ![t] = "ok"]
       \/ created' = [created EXCEPT ![t] = "error"]
    /\ UNCHANGED <<backend, harbor, broken, uncertain, stopSent, deleteSent, cleaning,
                   wait, cleanupReceipt, daemon>>

StartContainer(t) ==
    /\ phase[t] = "boot" /\ wait[t] = "create" /\ cleaning[t] = "no"
    /\ \/ created[t] = "ok" /\ SendRequest(t, "start") /\ UNCHANGED <<phase, exc, broken, cleaning>>
       \/ Abandon(t, "final", "other") /\ UNCHANGED flying
    /\ UNCHANGED <<backend, turns, req, verified, created, uncertain, stopSent, deleteSent,
                   cleanupReceipt, container, command>>

Started(t) ==
    /\ phase[t] = "boot" /\ wait[t] = "start"
    /\ \/ /\ Answered(t, "start")
          /\ wait' = [wait EXCEPT ![t] = "none"]
          /\ phase' = [phase EXCEPT ![t] = "setup"]
          /\ UNCHANGED <<exc, broken, cleaning>>
       \/ Abandon(t, "final", "other")
    /\ UNCHANGED <<backend, turns, req, verified, created, uncertain, stopSent, deleteSent,
                   cleanupReceipt, daemon>>

\* The offline bootstrap and the task's prerequisites, once started.
Bootstrap(t) ==
    /\ phase[t] = "setup"
    /\ \/ /\ IdleClient(t) /\ command[t]["setup"] = "none" /\ SendRequest(t, "setup")
          /\ UNCHANGED <<phase, exc, broken, cleaning>>
       \/ /\ Answered(t, "setup")
          /\ wait' = [wait EXCEPT ![t] = "none"]
          /\ phase' = [phase EXCEPT ![t] = "agent"]
          /\ UNCHANGED <<exc, broken, cleaning, flying>>
       \/ wait[t] = "setup" /\ Abandon(t, "final", "other") /\ UNCHANGED flying
    /\ UNCHANGED <<backend, turns, req, verified, created, uncertain, stopSent, deleteSent,
                   cleanupReceipt, container, command>>

----------------------------------------------------------------------------
(***************************************************************************)
(* FileRelayAgent.run.                                                     *)
(***************************************************************************)
Generate(t) ==
    /\ phase[t] = "agent" /\ IdleClient(t) /\ req[t] \in {"none", "received"}
    /\ IF turns[t] < MaxTurns
       THEN req' = [req EXCEPT ![t] = "published"] /\ UNCHANGED phase
       ELSE phase' = [phase EXCEPT ![t] = "verify"] /\ UNCHANGED req
    /\ turns' = [turns EXCEPT ![t] = IF @ < MaxTurns THEN @ + 1 ELSE @]
    /\ UNCHANGED <<backend, exc, verified, pouch, daemon>>

\* A completion: a final answer, or one shell command.
Completion(t) ==
    /\ phase[t] = "agent" /\ IdleClient(t) /\ req[t] = "answered"
    /\ req' = [req EXCEPT ![t] = "received"]
    /\ \/ phase' = [phase EXCEPT ![t] = "verify"] /\ UNCHANGED <<wait, daemon>>
       \/ /\ SendRequest(t, "agent")
          /\ command' = [command EXCEPT ![t]["agent"] = "none"]
          /\ UNCHANGED <<phase, container>>
    /\ UNCHANGED <<backend, exc, turns, verified, flags, cleaning, cleanupReceipt>>

\* No completion: a failure with terminal proof, or the deadline.
GenerationFails(t) ==
    /\ phase[t] = "agent" /\ IdleClient(t) /\ req[t] \in {"published", "failed"}
    /\ req' = [req EXCEPT ![t] = IF @ = "failed" THEN "terminal" ELSE "unknown"]
    /\ phase' = [phase EXCEPT ![t] = "final"] /\ exc' = [exc EXCEPT ![t] = "other"]
    /\ UNCHANGED <<backend, turns, verified, pouch, daemon>>

\* exec() of a command of the agent returns, or its outcome stays unknown.
CommandReturns(t) ==
    /\ phase[t] = "agent" /\ wait[t] = "agent"
    /\ \/ /\ Answered(t, "agent") /\ wait' = [wait EXCEPT ![t] = "none"]
          /\ UNCHANGED <<phase, exc, broken, cleaning>>
       \/ Abandon(t, "final", "other")
    /\ UNCHANGED <<backend, turns, req, verified, created, uncertain, stopSent, deleteSent,
                   cleanupReceipt, daemon>>

\* Harbor cancels the agent: its time is up and the verifier still runs, or
\* the job was cancelled.  A command that has started is waited for first.
CancelAgent(t) ==
    /\ phase[t] = "agent" /\ cleaning[t] = "no" /\ wait[t] \in {"none", "agent"}
    /\ \E next \in {"verify", "final"} :
          /\ phase' = [phase EXCEPT ![t] = next]
          /\ exc' = [exc EXCEPT ![t] = IF next = "verify" THEN "AgentTimeoutError" ELSE "other"]
    /\ req' = [req EXCEPT ![t] = CASE wait[t] = "agent" -> @
                                   [] @ = "published" -> "unknown"
                                   [] @ \in {"answered", "failed"} -> "unknown_answered"
                                   [] OTHER -> @]
    /\ wait' = [wait EXCEPT ![t] = IF @ = "agent" THEN "drain" ELSE @]
    /\ UNCHANGED <<backend, turns, verified, flags, cleaning, cleanupReceipt, daemon>>

\* exec() after its cancellation: only an exit status the daemon reported
\* lets the container live on.
TerminalProvenAlways(t) == TRUE
TerminalProven(t) == command[t]["agent"] = "done"

DrainEnds(t) ==
    /\ wait[t] = "drain" /\ cleaning[t] = "no"
    /\ \/ /\ TerminalProven(t) /\ wait' = [wait EXCEPT ![t] = "none"]
          /\ UNCHANGED <<phase, exc, broken, cleaning>>
       \/ Abandon(t, phase[t], exc[t])
    /\ UNCHANGED <<backend, turns, req, verified, created, uncertain, stopSent, deleteSent,
                   cleanupReceipt, daemon>>

----------------------------------------------------------------------------
(***************************************************************************)
(* Harbor's verifier and finalization.                                     *)
(***************************************************************************)
Verify(t) ==
    /\ phase[t] = "verify" /\ IdleClient(t) /\ ~verified[t]
    /\ IF broken[t]
       THEN /\ phase' = [phase EXCEPT ![t] = "final"] /\ exc' = [exc EXCEPT ![t] = "other"]
            /\ UNCHANGED <<wait, flying>>
       ELSE SendRequest(t, "verify") /\ UNCHANGED <<phase, exc>>
    /\ UNCHANGED <<backend, turns, req, verified, flags, cleaning, cleanupReceipt, container, command>>

VerifierReturns(t) ==
    /\ phase[t] = "verify" /\ wait[t] = "verify"
    /\ \/ /\ Answered(t, "verify") /\ wait' = [wait EXCEPT ![t] = "none"]
          /\ verified' = [verified EXCEPT ![t] = TRUE]
          /\ phase' = [phase EXCEPT ![t] = "final"]
          /\ UNCHANGED <<exc, broken, cleaning>>
       \/ Abandon(t, "final", "other") /\ UNCHANGED verified
    /\ UNCHANGED <<backend, turns, req, created, uncertain, stopSent, deleteSent,
                   cleanupReceipt, daemon>>

Finalize(t) ==
    /\ phase[t] = "final" /\ IdleClient(t)
    /\ phase' = [phase EXCEPT ![t] = "finalized"]
    /\ cleaning' = [cleaning EXCEPT ![t] = IF created[t] = "no" THEN "no" ELSE "final"]
    /\ UNCHANGED <<backend, exc, turns, req, verified, flags, wait, cleanupReceipt, daemon>>

----------------------------------------------------------------------------
(***************************************************************************)
(* CleanupPollingMixin.stop.                                               *)
(***************************************************************************)
CleanupProven(t) ==
    /\ cleanupReceipt' = [cleanupReceipt EXCEPT ![t] = "true"]
    /\ cleaning' = [cleaning EXCEPT ![t] = "no"]
    /\ wait' = [wait EXCEPT ![t] = "none"]

\* stop() raises.  _cleanup_after_failure records it and swallows it; Harbor
\* only sees the exception.
CleanupFails(t, record) ==
    /\ cleanupReceipt' = [cleanupReceipt EXCEPT ![t] = IF record \/ cleaning[t] = "failure" THEN "false" ELSE @]
    /\ cleaning' = [cleaning EXCEPT ![t] = "no"]
    /\ wait' = [wait EXCEPT ![t] = "none"]

Delete(t) ==
    IF deleteSent[t]
    THEN CleanupFails(t, FALSE) /\ UNCHANGED <<deleteSent, flying>>
    ELSE /\ deleteSent' = [deleteSent EXCEPT ![t] = TRUE] /\ SendRequest(t, "delete")
         /\ UNCHANGED <<cleanupReceipt, cleaning>>

\* Absence proves nothing while the create request may still be carried out.
AbsenceProves(t) == ~uncertain'[t]

InspectOwned(t) ==
    /\ cleaning[t] # "no" /\ wait[t] = "none" /\ created[t] # "pending"
    /\ uncertain' = [uncertain EXCEPT ![t] = @ \/ created[t] = "error"]
    /\ CASE ~Exists(t) ->
              /\ IF AbsenceProves(t) THEN CleanupProven(t) ELSE CleanupFails(t, TRUE)
              /\ UNCHANGED <<stopSent, deleteSent, flying>>
         [] container[t] = "running" ->
              /\ IF stopSent[t]
                 THEN CleanupFails(t, FALSE) /\ UNCHANGED <<stopSent, flying>>
                 ELSE /\ stopSent' = [stopSent EXCEPT ![t] = TRUE] /\ SendRequest(t, "stop")
                      /\ UNCHANGED <<cleanupReceipt, cleaning>>
              /\ UNCHANGED deleteSent
         [] OTHER -> Delete(t) /\ UNCHANGED stopSent
    /\ UNCHANGED <<backend, harbor, created, broken, container, command>>

\* _wait_stopped, after the stop request was answered.
PollStopped(t) ==
    /\ cleaning[t] # "no" /\ Answered(t, "stop")
    /\ IF Exists(t)
       THEN Delete(t)
       ELSE CleanupProven(t) /\ UNCHANGED <<deleteSent, flying>>
    /\ UNCHANGED <<backend, harbor, created, broken, uncertain, stopSent, container, command>>

Deleted(t) ==
    /\ cleaning[t] # "no" /\ Answered(t, "delete") /\ CleanupProven(t)
    /\ UNCHANGED <<backend, harbor, flags, daemon>>

\* Any request of stop() fails or times out, or stop() runs out of time.
CleanupRaises(t) ==
    /\ cleaning[t] # "no" /\ created[t] # "pending"
    /\ CleanupFails(t, FALSE)
    /\ uncertain' = [uncertain EXCEPT ![t] = @ \/ created[t] = "error"]
    /\ UNCHANGED <<backend, harbor, created, broken, stopSent, deleteSent, daemon>>

----------------------------------------------------------------------------
(***************************************************************************)
(* TerminalBenchBackend.                                                   *)
(***************************************************************************)
SpoolEmpty == \A t \in Trials : req[t] \notin {"published", "unknown"}

AdmitGroup(W) ==
    /\ ~stopped /\ admitted = {} /\ W \cap seen = {} /\ SpoolEmpty
    /\ admitted' = W /\ seen' = seen \cup W
    /\ UNCHANGED <<stopped, trialResult, harbor, pouch, daemon>>

FinishTrial(t, eligible, cleanup) ==
    trialResult' = [trialResult EXCEPT ![t] = [eligible |-> eligible, cleanup |-> cleanup]]

\* execute: a cancelled episode is not run, a Job that cannot be created has
\* not started, any other is Harbor's.
ExecuteTrial(t) ==
    /\ t \in admitted /\ trialResult[t] = NoResult /\ phase[t] = "waiting"
    /\ \/ FinishTrial(t, FALSE, "not_required") /\ UNCHANGED <<stopped, phase>>
       \/ /\ FinishTrial(t, FALSE, "not_required")
          /\ stopped' = FALSE       \* self._stopped = started
          /\ UNCHANGED phase
       \/ phase' = [phase EXCEPT ![t] = "boot"] /\ UNCHANGED <<stopped, trialResult>>
    /\ UNCHANGED <<admitted, seen, exc, turns, req, verified, pouch, daemon>>

\* Harbor's job ended without a result of the trial.
ResultMissing(t) ==
    /\ t \in admitted /\ trialResult[t] = NoResult /\ phase[t] = "finalized" /\ IdleClient(t)
    /\ stopped' = TRUE /\ FinishTrial(t, FALSE, "uncertain")
    /\ UNCHANGED <<admitted, seen, harbor, pouch, daemon>>

\* classify_trial, and the request states the agent left.
Evaluated(t) == verified[t] /\ exc[t] \in {"none", "AgentTimeoutError"}
RequestsKnown(t) == req[t] \notin {"published", "unknown", "unknown_answered"}

Classify(t) ==
    /\ t \in admitted /\ trialResult[t] = NoResult /\ phase[t] = "finalized" /\ IdleClient(t)
    /\ \E evidence \in BOOLEAN :      \* of the training turns and the CTRF report
         LET eligible == Evaluated(t) /\ cleanupReceipt[t] = "true" /\ RequestsKnown(t) /\ evidence
         IN  /\ FinishTrial(t, eligible, IF cleanupReceipt[t] = "true" THEN "verified" ELSE "uncertain")
             /\ stopped' = (stopped \/ ~eligible)
    /\ UNCHANGED <<admitted, seen, harbor, pouch, daemon>>

\* execute raises: a result file cannot be read or names another task.  The
\* coordinator accounts for the episode; _stopped is left alone.
ExecuteRaises(t) ==
    /\ t \in admitted /\ trialResult[t] = NoResult /\ phase[t] = "finalized" /\ IdleClient(t)
    /\ FinishTrial(t, FALSE, "raised")
    /\ UNCHANGED <<admitted, seen, stopped, harbor, pouch, daemon>>

FinishGroup ==
    /\ admitted # {} /\ \A t \in admitted : trialResult[t] # NoResult
    /\ stopped' = (stopped \/ ~SpoolEmpty)
    /\ admitted' = {}
    /\ UNCHANGED <<seen, trialResult, harbor, pouch, daemon>>

----------------------------------------------------------------------------
TrialStep(t) ==
    \/ \E op \in Operations : Lands(t, op) \/ Refused(t, op)
    \/ \E c \in Commands : CommandEnds(t, c)
    \/ RelayAnswers(t)
    \/ Create(t) \/ CreateReturns(t) \/ StartContainer(t) \/ Started(t) \/ Bootstrap(t)
    \/ Generate(t) \/ Completion(t) \/ GenerationFails(t) \/ CommandReturns(t)
    \/ CancelAgent(t) \/ DrainEnds(t)
    \/ Verify(t) \/ VerifierReturns(t) \/ Finalize(t)
    \/ InspectOwned(t) \/ PollStopped(t) \/ Deleted(t) \/ CleanupRaises(t)
    \/ ExecuteTrial(t) \/ ResultMissing(t) \/ Classify(t) \/ ExecuteRaises(t)

TrialNext ==
    \/ \E W \in SUBSET Trials : W # {} /\ Cardinality(W) <= WaveSize /\ AdmitGroup(W)
    \/ FinishGroup
    \/ \E t \in Trials : TrialStep(t)

TrialSpec == TrialInit /\ [][TrialNext]_trialVars

----------------------------------------------------------------------------
\* A receipt with cleanup_verified true, on which the coordinator releases the
\* episode's resources, is never wrong: the owned container does not exist and
\* no request is under way that would still create it, whatever answers were
\* lost and however late the daemon works.
VerifiedIsGone ==
    \A t \in Trials : cleanupReceipt[t] = "true" =>
        /\ ~Exists(t)
        /\ container[t] = "none" => "create" \notin flying[t]

\* The verifier grades a file system nobody is writing to: while its command
\* is under way no command of the agent or of the bootstrap runs in the
\* container or may still start there, also after an agent that timed out in
\* the middle of a command.
GradedStateSettled ==
    \A t \in Trials : command[t]["verify"] = "running" =>
        \A c \in {"setup", "agent"} : c \notin flying[t] /\ command[t][c] # "running"

\* What a trial reports, its cleanup and its grade, rests on what the daemon did.
TrialEvidenceSound == VerifiedIsGone /\ GradedStateSettled

\* "Owned container cleanup is unverified; stop further admission": no wave is
\* admitted after an episode that the backend returned with uncertain cleanup.
UncertainStopsAdmission ==
    [][admitted = {} /\ admitted' # {} => \A t \in Trials : trialResult[t].cleanup # "uncertain"]_trialVars

=============================================================================
