------------------------ MODULE PolicyServingProofs ------------------------
(***************************************************************************)
(* Proofs about PolicyServing for any set of requests, any number of       *)
(* policy versions, both controllers and with or without the shim.         *)
(***************************************************************************)
EXTENDS PolicyServing, TLAPS

-----------------------------------------------------------------------------
(* The invariant *)

Steps ==
    {"new", "reserved", "admitted", "sampling", "lost", "sampled", "failing", "returned",
     "raised", "gone"}

\* The values of all variables but the flags.
TypeOK ==
    /\ thread \in [Requests -> Steps] /\ lease \in [Requests -> Int]
    /\ relay \in [Requests -> {"none", "dispatched", "finished", "uncertain", "failed", "acknowledged", "closed"}]
    /\ state \in {"new", "loading", "running", "paused", "failed", "closed"}
    /\ policy \in Int /\ weights \in Int /\ target \in Nat
    /\ queued \subseteq Requests /\ running \subseteq Requests
    /\ phase \in {"new", "running", "quiescing", "paused", "loading", "closed"}
    /\ control \in {"new", "idle", "quiesce", "drain", "deliver", "loading", "closing", "shutdown", "closed"}

\* Before start nothing is served.
NotStarted ==
    control = "new" => /\ state = "new" /\ queued = {} /\ running = {}
                       /\ \A r \in Requests : thread[r] = "new"

\* While weights are replaced nobody samples, in this process or in the actor.
LoadsAlone ==
    /\ control = "loading" => /\ state \in {"loading", "paused"}
                              /\ Active = {} /\ queued = {} /\ running = {}
    /\ state = "loading" => control = "loading"

\* Weights are the policy's whenever requests are or may be admitted, and an active request
\* was admitted under that policy.
ServesPolicy ==
    /\ state \in {"running", "paused"} /\ control # "loading" => weights = policy
    /\ \A r \in Active : weights = policy /\ lease[r] = policy

\* Only the remote controller has an actor, which knows no request before it is sent nor
\* after its answer was taken; only handlers of the shim wait for delivery.
CallsKnown ==
    /\ queued \cup running # {} => Remote
    /\ \A r \in queued \cup running : thread[r] \notin {"new", "reserved", "admitted", "sampled", "returned"}
    /\ \A r \in Requests : thread[r] \in {"reserved", "returned", "raised"} => Shim

\* A closed shim has no handlers from the moment it was quiesced.
ShimQuiet ==
    /\ Shim /\ control \in {"quiesce", "closing"} => phase # "running"
    /\ Shim /\ (control \in {"new", "drain", "deliver", "loading", "shutdown", "closed"} \/ routePaused \/ phase = "loading")
         => phase # "running" /\ ShimActive = {}

\* A pause proved by the route, and the load it allows, follow the delivery of everything.
PauseProved ==
    /\ Shim /\ (routePaused \/ phase = "loading") => DeliveredAll
    /\ Shim /\ control = "loading" /\ state = "paused" => phase = "loading"

IndInv ==
    /\ TypeOK /\ NotStarted /\ LoadsAlone /\ ServesPolicy /\ CallsKnown /\ ShimQuiet /\ PauseProved
    /\ SampledUnderItsPolicy /\ UncertainOutcomeBlocks

-----------------------------------------------------------------------------
(* Every step keeps it *)

\* Before start.
LEMMA InitInv == Init => IndInv
<1> SUFFICES ASSUME Init PROVE IndInv
    OBVIOUS
<1> USE DEF Init
<1>1. TypeOK
    BY DEF TypeOK, Steps, Mixed, None
<1>2. NotStarted /\ LoadsAlone /\ ServesPolicy /\ CallsKnown
    BY DEF NotStarted, LoadsAlone, ServesPolicy, CallsKnown, Active
<1>3. ShimQuiet /\ PauseProved /\ SampledUnderItsPolicy /\ UncertainOutcomeBlocks
    BY DEF ShimQuiet, PauseProved, SampledUnderItsPolicy, UncertainOutcomeBlocks, ShimActive, Orphans
<1> QED BY <1>1, <1>2, <1>3 DEF IndInv

\* A generation on its thread: its lease is the policy of the weights it samples with.
LEMMA GenerationInv ==
    ASSUME IndInv, NEW r \in Requests,
           \/ Admit(r) \/ Reject(r) \/ StartSampling(r) \/ Sampled(r) \/ CallFails(r)
           \/ RecordLost(r) \/ ProcessingFails(r) \/ Raise(r) \/ Return(r)
    PROVE  IndInv'
<1> USE ServingConstants DEF IndInv, TypeOK, Steps, NotStarted, LoadsAlone, ServesPolicy, CallsKnown, ShimQuiet, PauseProved,
           SampledUnderItsPolicy, UncertainOutcomeBlocks, Active, ShimActive, Orphans, DeliveredAll,
           controller, actor, route, perRequest
<1>1. CASE Admit(r)
    BY <1>1 DEF Admit, Move, Entered, AdmissionOpen
<1>2. CASE Reject(r)
    BY <1>2 DEF Reject, Move, Entered, Raised
<1>3. CASE StartSampling(r)
    BY <1>3 DEF StartSampling, Move, Sampling
<1>4. CASE Sampled(r)
    BY <1>4 DEF Sampled, Move
<1>5. CASE CallFails(r)
    BY <1>5 DEF CallFails, Move
<1>6. CASE RecordLost(r)
    BY <1>6 DEF RecordLost, Move, MarkFailed
<1>7. CASE ProcessingFails(r)
    BY <1>7 DEF ProcessingFails, Move
<1>8. CASE Raise(r)
    BY <1>8 DEF Raise, Move, Raised, MarkFailed
<1>9. CASE Return(r)
    BY <1>9 DEF Return, Move
<1> QED BY <1>1, <1>2, <1>3, <1>4, <1>5, <1>6, <1>7, <1>8, <1>9 DEF IndInv

\* Shim and relay: nothing is reserved behind a closed shim.
LEMMA DeliveryInv ==
    ASSUME IndInv, NEW r \in Requests,
           \/ Reserve(r) \/ Deliver(r) \/ RefuseCompletion(r) \/ DeliverError(r)
           \/ RelayGivesUp(r) \/ Acknowledge(r)
    PROVE  IndInv'
<1> USE ServingConstants DEF IndInv, TypeOK, Steps, NotStarted, LoadsAlone, ServesPolicy, CallsKnown, ShimQuiet, PauseProved,
           SampledUnderItsPolicy, UncertainOutcomeBlocks, Active, ShimActive, Orphans, DeliveredAll,
           controller, actor, route, perRequest
<1>1. CASE Reserve(r)
    BY <1>1 DEF Reserve, Move
<1>2. CASE Deliver(r)
    BY <1>2 DEF Deliver, Move, Close
<1>3. CASE RefuseCompletion(r)
    BY <1>3 DEF RefuseCompletion, Move
<1>4. CASE DeliverError(r)
    BY <1>4 DEF DeliverError, Move, Close
<1>5. CASE RelayGivesUp(r)
    BY <1>5 DEF RelayGivesUp, Close
<1>6. CASE Acknowledge(r)
    BY <1>6 DEF Acknowledge
<1> QED BY <1>1, <1>2, <1>3, <1>4, <1>5, <1>6 DEF IndInv

\* The actor serves what it has, with the weights it has.
LEMMA ActorInv ==
    ASSUME IndInv, ActorStep
    PROVE  IndInv'
<1> USE ServingConstants DEF IndInv, TypeOK, Steps, NotStarted, LoadsAlone, ServesPolicy, CallsKnown, ShimQuiet, PauseProved,
           SampledUnderItsPolicy, UncertainOutcomeBlocks, Active, ShimActive, Orphans, DeliveredAll,
           controller, actor, route, perRequest
<1>1. CASE ActorDies
    BY <1>1 DEF ActorDies
<1>2. CASE \E r \in Requests : ActorTakes(r)
    BY <1>2 DEF ActorTakes
<1>3. CASE \E r \in Requests : ActorEnds(r)
    BY <1>3 DEF ActorEnds
<1> QED BY <1>1, <1>2, <1>3 DEF ActorStep

\* A control operation begins.
LEMMA OperationInv ==
    ASSUME IndInv, Start \/ BeginPause \/ BeginClose \/ Resume \/ \E v \in 1..MaxVersion : Activate(v)
    PROVE  IndInv'
<1> USE ServingConstants DEF IndInv, TypeOK, Steps, NotStarted, LoadsAlone, ServesPolicy, CallsKnown, ShimQuiet, PauseProved,
           SampledUnderItsPolicy, UncertainOutcomeBlocks, Active, ShimActive, Orphans, DeliveredAll,
           controller, actor, route, perRequest
<1>1. CASE Start
    BY <1>1 DEF Start
<1>2. CASE BeginPause
    BY <1>2 DEF BeginPause
<1>3. CASE BeginClose
    BY <1>3 DEF BeginClose
<1>4. CASE Resume
    BY <1>4 DEF Resume, RouteReady
<1>5. CASE \E v \in 1..MaxVersion : Activate(v)
    BY <1>5 DEF Activate, RouteReady, Fail, Mixed
<1> QED BY <1>1, <1>2, <1>3, <1>4, <1>5 DEF IndInv

\* A control operation gets what it waits for.
LEMMA WaitingInv ==
    ASSUME IndInv, Waiting
    PROVE  IndInv'
<1> USE ServingConstants DEF IndInv, TypeOK, Steps, NotStarted, LoadsAlone, ServesPolicy, CallsKnown, ShimQuiet, PauseProved,
           SampledUnderItsPolicy, UncertainOutcomeBlocks, Active, ShimActive, Orphans, DeliveredAll,
           controller, actor, route, perRequest
<1>1. CASE ControllerPause
    <2>1. CASE state \in {"running", "paused"}
        <3>1. state' = "paused" /\ control' = "drain" /\ control = "quiesce" /\ ShimActive = {}
            BY <1>1, <2>1 DEF ControllerPause, Quiesced
        <3> QED BY <1>1, <2>1, <3>1 DEF ControllerPause
    <2>2. CASE state \notin {"running", "paused"}
        BY <1>1, <2>2 DEF ControllerPause, Fail
    <2> QED BY <2>1, <2>2
<1>2. CASE Drained
    BY <1>2 DEF Drained, NoneActive, Fail
<1>3. CASE DeliveryProved
    BY <1>3 DEF DeliveryProved
<1>4. CASE DeliveryFails
    BY <1>4 DEF DeliveryFails, Fail
<1>5. CASE Loaded
    <2>1. \A r \in Requests : thread[r] \in {"new", "reserved", "returned", "raised", "gone"}
        BY <1>5 DEF Loaded
    <2>2. Shim => \A r \in Requests : thread[r] \in {"new", "gone"}
        BY <1>5 DEF Loaded
    <2>3. CASE state = "loading"
        <3>1. /\ state' = "running" /\ control' = "idle" /\ weights' = target /\ policy' = target
              /\ phase' = IF Shim THEN "running" ELSE phase
            BY <1>5, <2>3 DEF Loaded
        <3>2. ~routePaused'
            BY <1>5, <2>3 DEF Loaded
        <3>3. UNCHANGED <<thread, lease, relay, target, queued, running>>
            BY <1>5 DEF Loaded
        <3>4. queued = {} /\ running = {}
            BY <1>5 DEF Loaded
        <3> QED BY <2>1, <2>2, <3>1, <3>2, <3>3, <3>4
    <2>4. CASE state = "paused"
        BY <1>5, <2>1, <2>2, <2>4 DEF Loaded
    <2> QED BY <1>5, <2>3, <2>4 DEF Loaded
<1>6. CASE LoadFails
    BY <1>6 DEF LoadFails, Fail, Mixed
<1>7. CASE ShimClosed
    BY <1>7 DEF ShimClosed
<1>8. CASE Closed
    BY <1>8 DEF Closed
<1> QED BY <1>1, <1>2, <1>3, <1>4, <1>5, <1>6, <1>7, <1>8 DEF Waiting

\* No step breaks the invariant.
LEMMA StepInv == IndInv /\ [Next]_vars => IndInv'
<1> SUFFICES ASSUME IndInv, [Next]_vars PROVE IndInv'
    OBVIOUS
<1>1. CASE UNCHANGED vars
    BY <1>1 DEF vars, IndInv, TypeOK, Steps, NotStarted, LoadsAlone, ServesPolicy, CallsKnown, ShimQuiet, PauseProved,
           SampledUnderItsPolicy, UncertainOutcomeBlocks, Active, ShimActive, Orphans, DeliveredAll,
           controller, actor, route, perRequest
<1> QED BY <1>1, GenerationInv, DeliveryInv, ActorInv, OperationInv, WaitingInv DEF Next, Done, Handler

-----------------------------------------------------------------------------
(* Theorems *)

\* The invariant holds in every reachable state.
THEOREM ServingInvariant == Spec => []IndInv
<1> QED BY InitInv, StepInv, PTL DEF Spec

\* Whatever requests, pauses, activations and failures interleave, a request samples with
\* the weights of the policy it was admitted under, and that policy is still the
\* controller's when its completion is validated (pytorch_controller.py generate, pause,
\* activate; native_qwen_loopback.py).
THEOREM SamplesUnderPolicy == Spec => []SampledUnderItsPolicy
<1>1. IndInv => SampledUnderItsPolicy
    BY DEF IndInv
<1> QED BY <1>1, ServingInvariant, PTL

\* As long as the actor may compute a request nobody waits for, no weights are loaded, and
\* once its caller has recorded the loss, nothing is admitted, activated or resumed
\* (vllm_controller.py _fail_generation).
THEOREM UncertainBlocks == Spec => []UncertainOutcomeBlocks
<1>1. IndInv => UncertainOutcomeBlocks
    BY DEF IndInv
<1> QED BY <1>1, ServingInvariant, PTL

\* A policy is replaced behind the shim only when every request ever accepted has been
\* answered, committed and acknowledged, although deliveries fail or stay unknown
\* (BrowserRelayPolicyController.pause and activate).
THEOREM ActivatesAfterDelivery == Spec => []ActivationAfterDelivery
<1>1. IndInv => ActivationAfterDelivery
    BY DEF IndInv, TypeOK, Steps, ShimQuiet, PauseProved, ShimActive, DeliveredAll, ActivationAfterDelivery
<1> QED BY <1>1, ServingInvariant, PTL
=============================================================================
