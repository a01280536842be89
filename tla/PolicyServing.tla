--------------------------- MODULE PolicyServing ---------------------------
(***************************************************************************)
(* Serving one policy to rollouts while a learner replaces it: the         *)
(* controllers of rollout_manager/backends/pytorch_controller.py and       *)
(* vllm_controller.py, the actor process behind the latter (vllm_actor.py) *)
(* and the loopback shim and relay barrier in front of them                *)
(* (native_qwen_loopback.py).                                              *)
(*                                                                         *)
(* Generations run on threads of their own; the control operations (pause, *)
(* activate, resume, close) are called one at a time by the provider.      *)
(***************************************************************************)
EXTENDS Integers, FiniteSets

CONSTANTS
    Requests,    \* request identities, each admitted at most once
    MaxVersion,  \* bound: newest policy version
    Remote,      \* TRUE: VLLMPolicyController, FALSE: PyTorchPolicyController
    Shim         \* TRUE: requests come through the shim, control through its route

ASSUME ServingConstants == MaxVersion \in Nat /\ Remote \in BOOLEAN /\ Shim \in BOOLEAN

VARIABLES
    thread,    \* [request -> where its handler thread is]
    lease,     \* [request -> policy version captured when it was admitted]
    \* the controller
    state, drained, policy, failure,
    weights,   \* version of the weights that sample, or Mixed while they are copied
    target,    \* version being loaded
    \* the actor process: requests received, the one it computes, whether it lives
    queued, running, alive,
    \* shim and route
    phase, routePaused, routeError,
    relay,     \* [request -> what the relay knows of its delivery]
    control    \* where the control operation is

controller == <<state, drained, policy, failure, weights, target>>
actor == <<queued, running, alive>>
route == <<phase, routePaused, routeError>>
perRequest == <<thread, lease, relay>>
vars == <<perRequest, controller, actor, route, control>>

Mixed == -1
None == -2

\* Handler threads that own the shim's slot, count as active in the controller, or hold
\* the sampler lock.
ShimActive == {r \in Requests : Shim /\ thread[r] \notin {"new", "gone"}}
Active == {r \in Requests : thread[r] \in {"admitted", "sampling", "lost", "sampled", "failing"}}
Sampling == {r \in Requests : thread[r] \in {"sampling", "lost", "sampled"}}
\* Requests the actor may still compute although nobody waits for them.
Orphans == {r \in queued \cup running : thread[r] # "sampling"}

Init ==
    /\ thread = [r \in Requests |-> "new"] /\ lease = [r \in Requests |-> None]
    /\ relay = [r \in Requests |-> "none"]
    /\ state = "new" /\ drained = FALSE /\ policy = None /\ failure = FALSE
    /\ weights = Mixed /\ target = 0
    /\ queued = {} /\ running = {} /\ alive = TRUE
    /\ phase = "new" /\ routePaused = FALSE /\ routeError = FALSE
    /\ control = "new"

-----------------------------------------------------------------------------
(* A generation, on its own thread *)

Move(r, here, there) == thread[r] = here /\ thread' = [thread EXCEPT ![r] = there]

\* NativeControllerHTTPShim.reserve: one slot, open only while the phase is running.
Reserve(r) ==
    /\ Shim /\ phase = "running" /\ ShimActive = {}
    /\ Move(r, "new", "reserved")
    /\ relay' = [relay EXCEPT ![r] = "dispatched"]
    /\ UNCHANGED <<lease, controller, actor, route, control>>

Entered == IF Shim THEN "reserved" ELSE "new"
\* What follows an error of generate: the handler's error response, or the caller's.
Raised == IF Shim THEN "raised" ELSE "gone"

\* Mutant: a request that arrives during a pause is admitted.
AdmissionOpenPaused == state \in {"running", "paused"}
AdmissionOpen == state = "running"

\* generate: under the condition, the policy is captured and the request counted.
Admit(r) ==
    /\ AdmissionOpen
    /\ Move(r, Entered, "admitted")
    /\ lease' = [lease EXCEPT ![r] = policy]
    /\ UNCHANGED <<relay, controller, actor, route, control>>

\* Admission is closed, or the payload is not valid for the policy.
Reject(r) ==
    /\ control # "new"
    /\ Move(r, Entered, Raised)
    /\ UNCHANGED <<lease, relay, controller, actor, route, control>>

\* The sampler lock is taken; a remote generation is sent to the actor.
StartSampling(r) ==
    /\ Sampling = {}
    /\ Move(r, "admitted", "sampling")
    /\ queued' = IF Remote THEN queued \cup {r} ELSE queued
    /\ UNCHANGED <<lease, relay, controller, running, alive, route, control>>

\* The tokens are sampled, in process or in the actor.
Sampled(r) ==
    /\ Remote => r \notin queued \cup running /\ alive
    /\ Move(r, "sampling", "sampled")
    /\ UNCHANGED <<lease, relay, controller, actor, route, control>>

\* The call of the actor fails or times out: its outcome is unknown.  In process, the
\* sampler raises and has ended.
CallFails(r) ==
    /\ Move(r, "sampling", IF Remote THEN "lost" ELSE "failing")
    /\ UNCHANGED <<lease, relay, controller, actor, route, control>>

\* Mutant: a lost call is reported to the caller only.
MarkFailedNever == UNCHANGED <<state, drained, failure>>
\* _fail_generation.
MarkFailed == state' = "failed" /\ drained' = FALSE /\ failure' = TRUE

\* _sample_locked records the failure before the sampler lock is released.
RecordLost(r) ==
    /\ Move(r, "lost", "failing")
    /\ MarkFailed
    /\ UNCHANGED <<lease, relay, policy, weights, target, actor, route, control>>

\* Decoding, persistence or validation of the sample fails: the lock is released first.
ProcessingFails(r) ==
    /\ Move(r, "sampled", "failing")
    /\ UNCHANGED <<lease, relay, controller, actor, route, control>>

\* Mutant: an exception leaves the request counted as active.
RaiseCounted(r) ==
    /\ thread[r] = "failing"
    /\ IF Remote /\ ~failure THEN MarkFailed ELSE UNCHANGED <<state, drained, failure>>
    /\ UNCHANGED <<perRequest, policy, weights, target, actor, route, control>>
\* The exception leaves generate: the request no longer counts as active.
Raise(r) ==
    /\ Move(r, "failing", Raised)
    /\ IF Remote /\ ~failure THEN MarkFailed ELSE UNCHANGED <<state, drained, failure>>
    /\ UNCHANGED <<lease, relay, policy, weights, target, actor, route, control>>

\* generate returns its completion, whose training record names the captured policy.
Return(r) ==
    /\ Move(r, "sampled", IF Shim THEN "returned" ELSE "gone")
    /\ UNCHANGED <<lease, relay, controller, actor, route, control>>

\* execute_generation ends in the relay: the answer counts unless it was given up before.
Close(r, status) ==
    relay' = [relay EXCEPT ![r] = IF @ = "dispatched" THEN status ELSE @]

\* The handler validates against the controller's policy of this moment, records the
\* trace, answers and releases the slot; the answer may not arrive.
Deliver(r) ==
    /\ state \in {"running", "paused"} /\ lease[r] = policy
    /\ Move(r, "returned", "gone")
    /\ \E status \in {"finished", "uncertain"} : Close(r, status)
    /\ UNCHANGED <<lease, controller, actor, route, control>>

\* The completion is refused: its record is missing, and the handler answers an error.
RefuseCompletion(r) ==
    /\ Move(r, "returned", "raised")
    /\ UNCHANGED <<lease, relay, controller, actor, route, control>>

\* An error is answered, by the vLLM controller with a receipt of what the sampler did:
\* only a request that is proved ended has failed, any other stays uncertain.
DeliverError(r) ==
    /\ Move(r, "raised", "gone")
    /\ \E status \in {"failed", "uncertain"} :
          /\ status = "failed" => Remote /\ r \notin Orphans
          /\ Close(r, status)
    /\ UNCHANGED <<lease, controller, actor, route, control>>

\* The relay's deadline passes, or the request is cancelled: the generation goes on.
RelayGivesUp(r) ==
    /\ relay[r] = "dispatched"
    /\ Close(r, "uncertain")
    /\ UNCHANGED <<thread, lease, controller, actor, route, control>>

\* The CPU side commits the answer and the browser acknowledges it.
Acknowledge(r) ==
    /\ relay[r] \in {"finished", "failed"}
    /\ relay' = [relay EXCEPT ![r] = IF @ = "finished" THEN "acknowledged" ELSE "closed"]
    /\ UNCHANGED <<thread, lease, controller, actor, route, control>>

-----------------------------------------------------------------------------
(* The actor process serves one call after the other *)

\* A request for another policy than the loaded one is answered with an error.
ActorTakes(r) ==
    /\ alive /\ running = {} /\ r \in queued
    /\ queued' = queued \ {r}
    /\ IF lease[r] = weights
       THEN running' = {r} /\ UNCHANGED thread
       ELSE /\ thread' = [thread EXCEPT ![r] = IF @ = "sampling" THEN "lost" ELSE @]
            /\ UNCHANGED running
    /\ UNCHANGED <<lease, relay, controller, alive, route, control>>

\* An answer nobody receives may end the actor.
ActorEnds(r) ==
    /\ r \in running /\ running' = {}
    /\ alive' \in (IF thread[r] = "sampling" THEN {TRUE} ELSE BOOLEAN)
    /\ UNCHANGED <<perRequest, controller, queued, route, control>>

\* Its lifetime ends, or it crashes.
ActorDies ==
    /\ Remote /\ alive
    /\ alive' = FALSE /\ running' = {} /\ queued' = {}
    /\ UNCHANGED <<perRequest, controller, route, control>>

-----------------------------------------------------------------------------
(* Control operations *)

Fail == control' = "idle" /\ routeError' = TRUE

\* start: the model is built, the initial policy loaded; then the shim opens.
Start ==
    /\ control = "new"
    /\ state' = "loading" /\ control' = "loading" /\ target' = 0
    /\ UNCHANGED <<perRequest, drained, policy, failure, weights, actor, route>>

\* pause through the route first closes the shim.
BeginPause ==
    /\ control = "idle"
    /\ control' = "quiesce"
    /\ routePaused' = FALSE
    /\ phase' = IF Shim THEN "quiescing" ELSE phase
    /\ UNCHANGED <<perRequest, controller, actor, routeError>>

Quiesced == ShimActive = {}

ControllerPause ==
    /\ control = "quiesce" /\ Quiesced
    /\ IF state \in {"running", "paused"}
       THEN state' = "paused" /\ drained' = FALSE /\ control' = "drain" /\ UNCHANGED routeError
       ELSE Fail /\ UNCHANGED <<state, drained>>
    /\ UNCHANGED <<perRequest, policy, failure, weights, target, actor, phase, routePaused>>

NoneActive == Active = {}

\* The sampler is drained.  A failed actor proves nothing.
Drained ==
    /\ control = "drain" /\ NoneActive
    /\ IF Remote /\ (failure \/ state = "failed")
       THEN Fail /\ UNCHANGED drained
       ELSE /\ drained' = TRUE
            /\ control' = IF Shim THEN "deliver" ELSE "idle"
            /\ UNCHANGED routeError
    /\ UNCHANGED <<perRequest, state, policy, failure, weights, target, actor, phase, routePaused>>

\* Mutant: the probe is content when no request is on its way.
DeliveredNoneActive == \A r \in Requests : relay[r] # "dispatched"
\* LocalGPURelayDeliveryProbe.wait: every request of the shim finished and is acknowledged.
DeliveredAll == \A r \in Requests : relay[r] \in {"none", "acknowledged"}

DeliveryProved ==
    /\ control = "deliver" /\ DeliveredAll
    /\ phase' = "paused" /\ routePaused' = TRUE /\ control' = "idle"
    /\ UNCHANGED <<perRequest, controller, actor, routeError>>

\* A failed or uncertain request, another boot of the relay, or the timeout.
DeliveryFails ==
    /\ control = "deliver" /\ Fail
    /\ UNCHANGED <<perRequest, controller, actor, phase, routePaused>>

RouteReady == Shim => routePaused /\ ~routeError

\* activate: refused unless the pause was proved; the artifact must be newer.
Activate(v) ==
    /\ control = "idle" /\ RouteReady
    /\ routePaused' = FALSE /\ phase' = IF Shim THEN "loading" ELSE phase
    /\ IF state = "paused" /\ drained /\ Active = {}
       THEN /\ drained' = FALSE
            /\ IF v > policy
               THEN /\ control' = "loading" /\ target' = v /\ weights' = Mixed
                    /\ UNCHANGED routeError
               ELSE Fail /\ UNCHANGED <<target, weights>>
       ELSE Fail /\ UNCHANGED <<drained, target, weights>>
    /\ UNCHANGED <<perRequest, state, policy, failure, actor>>

\* The weights are loaded and acknowledged.
Loaded ==
    /\ control = "loading" /\ (Remote => alive /\ running = {})
    /\ weights' = target /\ policy' = target
    /\ state' = IF state = "loading" THEN "running" ELSE "paused"
    /\ control' = "idle"
    /\ routePaused' = (Shim /\ state # "loading")
    /\ phase' = IF ~Shim THEN phase ELSE IF state = "loading" THEN "running" ELSE "paused"
    /\ UNCHANGED <<perRequest, drained, failure, target, actor, routeError>>

\* A partial copy or an unknown load never serves again.
LoadFails ==
    /\ control = "loading"
    /\ weights' = Mixed /\ state' = "failed" /\ Fail
    /\ UNCHANGED <<perRequest, drained, policy, failure, target, actor, phase, routePaused>>

Resume ==
    /\ control = "idle" /\ RouteReady
    /\ state = "paused" /\ Active = {}
    /\ state' = "running" /\ drained' = FALSE
    /\ routePaused' = FALSE /\ phase' = IF Shim THEN "running" ELSE phase
    /\ UNCHANGED <<perRequest, policy, failure, weights, target, actor, routeError, control>>

\* close: the shim is quiesced and its server ends, then the controller drains.
BeginClose ==
    /\ control = "idle"
    /\ control' = "closing"
    /\ phase' = IF Shim THEN "quiescing" ELSE phase
    /\ UNCHANGED <<perRequest, controller, actor, routePaused, routeError>>

ShimClosed ==
    /\ control = "closing" /\ ShimActive = {}
    /\ phase' = IF Shim THEN "closed" ELSE phase
    /\ state' = "closed" /\ drained' = FALSE
    /\ control' = "shutdown"
    /\ UNCHANGED <<perRequest, policy, failure, weights, target, actor, routePaused, routeError>>

\* The model is dropped; the actor is told to close, or killed.
Closed ==
    /\ control = "shutdown" /\ Active = {}
    /\ control' = "closed"
    /\ alive' = FALSE /\ running' = {} /\ queued' = {}
    /\ state' \in (IF Remote THEN {"closed", "failed"} ELSE {"closed"})
    /\ UNCHANGED <<perRequest, drained, policy, failure, weights, target, route>>

-----------------------------------------------------------------------------
Handler(r) ==
    \/ Admit(r) \/ Reject(r) \/ StartSampling(r) \/ Sampled(r) \/ CallFails(r)
    \/ RecordLost(r) \/ ProcessingFails(r) \/ Raise(r) \/ Return(r)
    \/ Deliver(r) \/ RefuseCompletion(r) \/ DeliverError(r)

ActorStep == ActorDies \/ \E r \in Requests : ActorTakes(r) \/ ActorEnds(r)

Waiting ==
    \/ ControllerPause \/ Drained \/ DeliveryProved \/ DeliveryFails
    \/ Loaded \/ LoadFails \/ ShimClosed \/ Closed

Done == control = "closed" /\ UNCHANGED vars

Next ==
    \/ Start \/ BeginPause \/ BeginClose \/ Resume \/ Waiting \/ Done
    \/ \E v \in 1..MaxVersion : Activate(v)
    \/ ActorStep
    \/ \E r \in Requests : Reserve(r) \/ Handler(r) \/ RelayGivesUp(r) \/ Acknowledge(r)

\* Threads run, calls of the actor end or time out (600 s), the delivery probe has a
\* deadline.  Nobody has to send requests, to acknowledge them or to start a control
\* operation, and the actor may hang.
Fairness ==
    /\ WF_vars(Waiting)
    /\ \A r \in Requests : WF_vars(thread[r] # "new" /\ Handler(r))

Spec == Init /\ [][Next]_vars /\ Fairness

-----------------------------------------------------------------------------
(* Properties *)

\* Weights never change under a request that samples with them, nor the policy before its
\* completion is validated: what a training record names is what the tokens were drawn
\* from (pytorch_controller.py 210-260, 289-345; native_qwen_loopback.py 167-176).
SampledUnderItsPolicy ==
    /\ \A r \in Requests : thread[r] \in {"sampling", "sampled"} => weights = lease[r]
    /\ \A r \in Requests : thread[r] = "returned" => policy = lease[r]
    /\ \A r \in running : weights = lease[r]

\* While the actor may still compute a request nobody waits for, its recorded failure
\* keeps every later generation, activation and resumption out (_fail_generation).
UncertainOutcomeBlocks ==
    \A r \in Orphans : /\ control # "loading"
                       /\ thread[r] # "lost" => state \in {"failed", "closed"}

\* A policy is replaced only when every request the shim ever accepted has been answered,
\* committed on the CPU side and acknowledged, and no handler is left
\* (BrowserRelayPolicyController.pause and activate).
ActivationAfterDelivery ==
    Shim /\ phase = "loading" =>
        \A r \in Requests : thread[r] \in {"new", "gone"} /\ relay[r] \in {"none", "acknowledged"}

\* Every control operation returns or raises, however generations and the actor fail.
ControlReturns ==
    control \in {"quiesce", "drain", "deliver", "loading", "closing", "shutdown"}
        ~> control \in {"idle", "closed"}
=============================================================================
