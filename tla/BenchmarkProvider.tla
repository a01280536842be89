------------------------- MODULE BenchmarkProvider -------------------------
(***************************************************************************)
(* Training on benchmark episodes: BenchmarkTrainingProvider and           *)
(* GroupAssembler of rollout_manager/benchmark_training.py, driven by the  *)
(* learner loop of dsv41_train/rl/runtime.py.                              *)
(*                                                                         *)
(* The learner calls from its own thread; every operation is a coroutine   *)
(* on the provider's event loop.  A call that times out leaves its         *)
(* coroutine running.  The places where such a coroutine awaits, or where  *)
(* the learner's thread can step in between a check and an assignment, are *)
(* the values of op.at.                                                    *)
(***************************************************************************)
EXTENDS Integers, FiniteSets

CONSTANTS
    GroupSize,      \* episodes of a group
    GroupsPerStep, QueueCapacity, MaxPolicyLag, MaxSteps,
    MaxGroups       \* bound: groups the plan factory can prepare

ASSUME ProviderConstants ==
    /\ GroupSize \in Nat /\ GroupSize >= 2
    /\ {GroupsPerStep, QueueCapacity, MaxSteps} \subseteq Nat \ {0}
    /\ MaxPolicyLag \in Nat /\ MaxGroups \in Nat

VARIABLES
    \* the learner's thread
    pc, step, held, trained, dropped,
    result,     \* of the call it waits for: "pending", "ok" or "raised"
    \* the provider
    retained,   \* [group id -> policy version, exclusion, delivered]
    next, committed,
    paused, closing, error, ready, timedOut,
    policy,     \* version of _policy
    pump,       \* the producer task
    lease,      \* policy version of the group it works on
    changed,
    op,         \* the operation that holds _control_lock, and where it is
    late,       \* a request made after a call timed out
    closeAt,
    \* coordinator stream
    streamPaused, stopped,
    \* the injected controller: what it does and which version its weights are
    cstate, cversion

learner == <<pc, step, held, trained, dropped, result>>
mailbox == <<retained, next, committed>>
flags == <<paused, closing, error, ready, timedOut>>
producer == <<pump, lease, changed>>
stream == <<streamPaused, stopped>>
controller == <<cstate, cversion>>
vars == <<learner, mailbox, flags, policy, producer, op, late, closeAt, stream, controller>>

Kinds == {"pause", "activate", "resume"}
Free == [kind |-> "none", at |-> "none", late |-> FALSE]
Bound == QueueCapacity + GroupsPerStep
Active == pump \in {"planning", "executing"}

\* start: the controller loads the initial policy, the stream opens, the pump is created.
Init ==
    /\ pc = "collect" /\ step = 0 /\ held = {} /\ trained = {} /\ dropped = {} /\ result = "ok"
    /\ retained = [g \in {} |-> 0] /\ next = 0 /\ committed = 0
    /\ paused = FALSE /\ closing = FALSE /\ error = FALSE /\ ready = FALSE /\ timedOut = FALSE
    /\ policy = 0 /\ pump = "waiting" /\ lease = 0 /\ changed = TRUE
    /\ op = Free /\ late = "none" /\ closeAt = "none"
    /\ streamPaused = FALSE /\ stopped = FALSE
    /\ cstate = "running" /\ cversion = 0

-----------------------------------------------------------------------------
(* The producer task: _produce *)

PumpWakes ==
    /\ pump = "waiting" /\ changed
    /\ changed' = FALSE
    /\ pump' = "loop"
    /\ UNCHANGED <<learner, mailbox, flags, policy, lease, op, late, closeAt, stream, controller>>

Admission == ~paused /\ ~closing /\ Cardinality(DOMAIN retained) < Bound

\* The policy is leased before the plans are prepared.
PumpBegins ==
    /\ pump = "loop" /\ Admission /\ next < MaxGroups
    /\ pump' = "planning" /\ lease' = policy
    /\ UNCHANGED <<learner, mailbox, flags, policy, changed, op, late, closeAt, stream, controller>>

\* Mutant: the producer polls for room and does not look at the closing flag.
PumpPolls == pump = "loop" /\ ~Admission /\ UNCHANGED vars
PumpSleeps ==
    /\ pump = "loop" /\ ~(Admission /\ next < MaxGroups)
    /\ pump' = IF closing THEN "ended" ELSE "waiting"
    /\ UNCHANGED <<learner, mailbox, flags, policy, lease, changed, op, late, closeAt, stream,
                   controller>>

\* Any exception of the producer ends it.
PumpFails ==
    /\ Active
    /\ pump' = "ended" /\ error' = TRUE /\ paused' = TRUE
    /\ UNCHANGED <<learner, mailbox, closing, ready, timedOut, policy, lease, changed, op, late,
                   closeAt, stream, controller>>

\* The registration is accepted and the stream takes the group.
PumpExecutes ==
    /\ pump = "planning" /\ lease = policy /\ ~streamPaused
    /\ pump' = "executing" /\ next' = next + 1
    /\ UNCHANGED <<learner, retained, committed, flags, policy, lease, changed, op, late, closeAt,
                   stream, controller>>

Verdicts == {"eligible", "ineligible", "unproven"}

\* GroupAssembler.complete: a training group needs every sample eligible.
Eligible(samples) == \A i \in DOMAIN samples : samples[i] = "eligible"

\* All siblings completed.  An episode whose cleanup, delivery or verification is not
\* proved stops the stream, and the provider pauses itself.
PumpCompletes ==
    /\ pump = "executing"
    /\ \E samples \in [1..GroupSize -> Verdicts] :
          LET stops == stopped \/ \E i \in 1..GroupSize : samples[i] = "unproven"
          IN  /\ stopped => ~Eligible(samples)
              /\ retained' = [g \in DOMAIN retained \cup {next - 1} |->
                                IF g = next - 1
                                THEN [version |-> lease, excluded |-> ~Eligible(samples),
                                      clean |-> \A i \in 1..GroupSize : samples[i] = "eligible",
                                      delivered |-> FALSE]
                                ELSE retained[g]]
              /\ stopped' = stops
              /\ paused' = (paused \/ stops)
    /\ pump' = "loop"
    /\ UNCHANGED <<learner, next, committed, closing, error, ready, timedOut, policy, lease,
                   changed, op, late, closeAt, streamPaused, controller>>

-----------------------------------------------------------------------------
(* The learner *)

\* The rest of a call that returned to the learner.
LearnerOnly ==
    UNCHANGED <<mailbox, flags, policy, producer, op, late, closeAt, stream, controller>>

Undelivered == {g \in DOMAIN retained : ~retained[g].delivered}

\* The ids of a commit must be the oldest groups, all of them delivered.
OldestPrefix(ids) ==
    /\ ids \subseteq DOMAIN retained
    /\ \A g \in ids : retained[g].delivered
    /\ \A g \in DOMAIN retained \ ids, h \in ids : h < g

\* The learner trains on groups that are not excluded and fresh enough.
Taken(g) == ~retained[g].excluded /\ step - retained[g].version <= MaxPolicyLag

Remove(ids) == [g \in DOMAIN retained \ ids |-> retained[g]]
Highwater(ids) == 1 + CHOOSE g \in ids : \A h \in ids : h <= g

\* get hands out the oldest undelivered packet.
TakeGroup ==
    /\ pc = "collect" /\ Cardinality(held) < GroupsPerStep
    /\ \E g \in Undelivered :
          /\ \A h \in Undelivered : g <= h
          /\ Taken(g)
          /\ retained' = [retained EXCEPT ![g].delivered = TRUE]
          /\ held' = held \cup {g}
    /\ UNCHANGED <<pc, step, trained, dropped, result, next, committed, flags, policy, producer,
                   op, late, closeAt, stream, controller>>

\* An excluded or stale group is dropped at once; the provider refuses the commit unless
\* it names the oldest groups.
DropGroup ==
    /\ pc = "collect" /\ Cardinality(held) < GroupsPerStep
    /\ \E g \in Undelivered :
          /\ \A h \in Undelivered : g <= h
          /\ ~Taken(g)
          /\ LET accepted == \A h \in DOMAIN retained : g <= h
             IN  /\ retained' = IF accepted THEN Remove({g})
                                ELSE [retained EXCEPT ![g].delivered = TRUE]
                 /\ committed' = IF accepted THEN g + 1 ELSE committed
                 /\ changed' = (changed \/ accepted)
                 /\ dropped' = IF accepted THEN dropped \cup {g} ELSE dropped
                 /\ pc' = IF accepted THEN pc ELSE "refused"
    /\ UNCHANGED <<step, held, trained, result, next, flags, policy, pump, lease, op, late,
                   closeAt, stream, controller>>

\* No eligible group arrives before the deadline, the producer has failed, or a commit was
\* refused: run_training closes the provider.
GiveUp ==
    /\ pc = "refused" \/ (pc = "collect" /\ Cardinality(held) < GroupsPerStep /\ Undelivered = {})
    /\ pc' = "close"
    /\ UNCHANGED <<step, held, trained, dropped, result>> /\ LearnerOnly

\* A control call: its coroutine runs on the event loop.
Submit(here, there, kind) ==
    /\ pc = here /\ op = Free
    /\ pc' = there /\ result' = "pending"
    /\ op' = [kind |-> kind, at |-> "begin", late |-> FALSE]
    /\ UNCHANGED <<step, held, trained, dropped, mailbox, flags, policy, producer, late, closeAt,
                   stream, controller>>

CallPause == Cardinality(held) = GroupsPerStep /\ Submit("collect", "training", "pause")
CallSnapshot == Submit("snapshot", "publish", "pause")
CallActivate == Submit("activate", "activated", "activate")
CallResume == Submit("resume", "resumed", "resume")

\* The optimizer step and the commit of its groups.
Train ==
    /\ pc = "training" /\ result = "ok"
    /\ step' = step + 1 /\ trained' = trained \cup held
    /\ IF OldestPrefix(held) /\ \A g \in held : ~retained[g].excluded
       THEN /\ retained' = Remove(held) /\ committed' = Highwater(held) /\ changed' = TRUE
            /\ pc' = "snapshot"
       ELSE pc' = "refused" /\ UNCHANGED <<retained, committed, changed>>
    /\ held' = {}
    /\ UNCHANGED <<dropped, result, next, flags, policy, pump, lease, op, late, closeAt, stream,
                   controller>>

\* Publishing and checkpointing, the end of an activation, the next turn of the loop.
Proceed ==
    /\ result = "ok"
    /\ \/ pc = "publish" /\ pc' = "activate"
       \/ pc = "activated" /\ pc' = "resume"
       \/ pc = "resumed" /\ pc' = IF step < MaxSteps THEN "collect" ELSE "close"
    /\ UNCHANGED <<step, held, trained, dropped, result>> /\ LearnerOnly

\* The call raised: run_training closes the provider.
CallRaises ==
    /\ result = "raised" /\ pc' = "close" /\ result' = "ok"
    /\ UNCHANGED <<step, held, trained, dropped>> /\ LearnerOnly

\* _call: the waiter gives up while the operation goes on.
TimesOut ==
    /\ result = "pending"
    /\ timedOut' = TRUE /\ paused' = TRUE /\ ready' = FALSE /\ error' = TRUE
    /\ pc' = "close" /\ result' = "ok"
    /\ UNCHANGED <<step, held, trained, dropped, mailbox, closing, policy, producer, op, late,
                   closeAt, stream, controller>>

\* Another request the learner makes before it closes is queued behind the operation.
LateRequest ==
    /\ timedOut /\ late = "none" /\ closeAt = "none"
    /\ late' \in Kinds
    /\ UNCHANGED <<learner, mailbox, flags, policy, producer, op, closeAt, stream, controller>>

-----------------------------------------------------------------------------
(* The operations on the event loop *)

At(kind, where) == op.kind = kind /\ op.at = where
Goto(where) == op' = [op EXCEPT !.at = where]
\* The operation ends; its waiter, if there still is one, gets the result.
End(outcome) ==
    /\ op' = Free
    /\ result' = IF result = "pending" /\ ~op.late THEN outcome ELSE result
    /\ UNCHANGED <<pc, step, held, trained, dropped, late, closeAt>>
Elsewhere == UNCHANGED <<learner, late, closeAt>>

LateStarts ==
    /\ late \in Kinds /\ op = Free
    /\ op' = [kind |-> late, at |-> "begin", late |-> TRUE]
    /\ late' = "taken"
    /\ UNCHANGED <<learner, mailbox, flags, policy, producer, closeAt, stream, controller>>

PauseBegins ==
    /\ At("pause", "begin")
    /\ ready' = FALSE /\ paused' = TRUE
    /\ Goto("drain") /\ Elsewhere
    /\ UNCHANGED <<mailbox, closing, error, timedOut, policy, producer, stream, controller>>

\* Mutant: the pause does not wait for the group being sampled.
GroupEndedAlways == TRUE
GroupEnded == ~Active

\* The group has ended; the stream is paused and the controller asked to drain.
PauseDrained ==
    /\ At("pause", "drain") /\ GroupEnded
    /\ streamPaused' = TRUE
    /\ Goto("proof") /\ Elsewhere
    /\ UNCHANGED <<mailbox, flags, policy, producer, stopped, controller>>

\* The controller proves its drain; the snapshot is taken unless something is unresolved.
PauseProved ==
    /\ At("pause", "proof")
    /\ cstate' = "paused"
    /\ IF error \/ stopped \/ timedOut THEN End("raised") ELSE Goto("proved") /\ Elsewhere
    /\ UNCHANGED <<mailbox, flags, policy, producer, stream, cversion>>

PauseReturns ==
    /\ At("pause", "proved")
    /\ ready' = TRUE
    /\ End("ok")
    /\ UNCHANGED <<mailbox, paused, closing, error, timedOut, policy, producer, stream, controller>>

\* The controller raises or does not prove the drain (pause), or refuses (resume).
ControlFails ==
    /\ At("pause", "proof") \/ At("resume", "call")
    /\ End("raised")
    /\ UNCHANGED <<mailbox, flags, policy, producer, stream, controller>>

\* Mutant: a drain receipt is enough.
ActivationAllowedReady == ready
ActivationAllowed == ready /\ ~closing /\ paused /\ ~Active /\ streamPaused /\ ~error /\ ~stopped

ActivateBegins ==
    /\ At("activate", "begin")
    /\ ready' = FALSE
    /\ IF ActivationAllowed
       THEN policy' = policy + 1 /\ Goto("load") /\ Elsewhere
       ELSE End("raised") /\ UNCHANGED policy
    /\ UNCHANGED <<mailbox, paused, closing, error, timedOut, producer, stream, controller>>

ActivateLoads ==
    /\ At("activate", "load")
    /\ cstate' = "loading"
    /\ Goto("loading") /\ Elsewhere
    /\ UNCHANGED <<mailbox, flags, policy, producer, stream, cversion>>

\* The controller acknowledges; nobody may be waiting for it any more.
ActivateEnds ==
    /\ At("activate", "loading")
    /\ cstate' = "paused" /\ cversion' = policy
    /\ IF timedOut
       THEN policy' = policy - 1 /\ error' = TRUE /\ End("raised")
       ELSE End("ok") /\ UNCHANGED <<policy, error>>
    /\ UNCHANGED <<mailbox, paused, closing, ready, timedOut, producer, stream>>

\* The acknowledgement fails: the weights may be the new ones or not.
ActivateFails ==
    /\ At("activate", "loading")
    /\ cstate' = "paused" /\ cversion' \in {policy - 1, policy}
    /\ policy' = policy - 1 /\ error' = TRUE /\ End("raised")
    /\ UNCHANGED <<mailbox, paused, closing, ready, timedOut, producer, stream>>

ResumptionAllowed == ~closing /\ ~error /\ ~timedOut

ResumeBegins ==
    /\ At("resume", "begin")
    /\ IF ResumptionAllowed THEN Goto("call") /\ Elsewhere ELSE End("raised")
    /\ UNCHANGED <<mailbox, flags, policy, producer, stream, controller>>

\* The controller resumed.
ResumeAcknowledged ==
    /\ At("resume", "call")
    /\ cstate' = "running"
    /\ IF timedOut THEN End("raised") ELSE Goto("acknowledged") /\ Elsewhere
    /\ UNCHANGED <<mailbox, flags, policy, producer, stream, cversion>>

\* resume_stream refuses a stopped stream; then admission opens.
ResumeReturns ==
    /\ At("resume", "acknowledged")
    /\ IF stopped
       THEN End("raised") /\ UNCHANGED <<streamPaused, ready, paused, changed>>
       ELSE /\ streamPaused' = FALSE /\ ready' = FALSE /\ paused' = FALSE /\ changed' = TRUE
            /\ End("ok")
    /\ UNCHANGED <<mailbox, closing, error, timedOut, policy, pump, lease, stopped, controller>>

-----------------------------------------------------------------------------
(* close *)

CallClose ==
    /\ pc = "close" /\ closeAt = "none"
    /\ pc' = "closing" /\ closeAt' = "pump"
    /\ closing' = TRUE /\ paused' = TRUE /\ changed' = TRUE
    /\ UNCHANGED <<step, held, trained, dropped, result, mailbox, error, ready, timedOut, policy,
                   pump, lease, op, late, stream, controller>>

\* Operations whose waiter is gone are waited for.
OutstandingEnded == op = Free /\ late \notin Kinds

CloseAdvances ==
    /\ \/ closeAt = "pump" /\ pump = "ended" /\ closeAt' = "operations" /\ UNCHANGED <<pc, cstate>>
       \/ closeAt = "operations" /\ OutstandingEnded /\ closeAt' = "controller" /\ UNCHANGED <<pc, cstate>>
       \/ closeAt = "controller" /\ closeAt' = "closed" /\ pc' = "closed" /\ cstate' = "closed"
    /\ UNCHANGED <<step, held, trained, dropped, result, mailbox, flags, policy, producer, op,
                   late, stream, cversion>>

-----------------------------------------------------------------------------
PumpStep == PumpWakes \/ PumpBegins \/ PumpSleeps \/ PumpExecutes \/ PumpCompletes \/ PumpFails

OpStep ==
    \/ PauseBegins \/ PauseDrained \/ PauseProved \/ PauseReturns \/ ControlFails
    \/ ActivateBegins \/ ActivateLoads \/ ActivateEnds \/ ActivateFails
    \/ ResumeBegins \/ ResumeAcknowledged \/ ResumeReturns \/ LateStarts

LearnerStep ==
    \/ TakeGroup \/ DropGroup \/ GiveUp \/ CallPause \/ CallSnapshot \/ CallActivate \/ CallResume
    \/ Train \/ Proceed \/ CallRaises \/ CallClose

Done == pc = "closed" /\ UNCHANGED vars

Next ==
    PumpStep \/ OpStep \/ LearnerStep \/ TimesOut \/ LateRequest \/ CloseAdvances \/ Done

\* Episodes and controller calls end, the event loop runs what is ready, the learner goes
\* on.  No timeout has to happen.
Fairness == WF_vars(PumpStep) /\ WF_vars(OpStep) /\ WF_vars(LearnerStep) /\ WF_vars(CloseAdvances)

Spec == Init /\ [][Next]_vars /\ Fairness

-----------------------------------------------------------------------------
(* Properties *)

\* While a group is planned and sampled, the controller serves, with the weights of the
\* policy the group was leased under: no pause, activation, timeout or failure in between
\* changes what the group is sampled from (_produce, _pause_drained, _activate, _resume).
LeaseHeld == Active => cstate = "running" /\ cversion = lease /\ policy = lease

\* A waiter that gave up authorizes nothing: requests made after it neither load a policy
\* nor reopen admission, whichever operation they were queued behind, and no operation is
\* inside a controller that has been closed (_call, _activate_drained, _resume, _close).
TimedOutCallsContained ==
    /\ op.late => op.at \in {"begin", "drain", "proof"}
    /\ closeAt = "closed" => op = Free

\* Admission and the controller follow the learner's authority only.
AuthorityHeld == LeaseHeld /\ TimedOutCallsContained

\* The snapshot a pause returns can be restored: no cursor gap, within the mailbox bound,
\* every group of a policy that exists, nothing in doubt (_snapshot against __init__).
SnapshotRestorable ==
    At("pause", "proved") =>
        /\ DOMAIN retained = committed..(next - 1)
        /\ Cardinality(DOMAIN retained) <= Bound
        /\ \A g \in DOMAIN retained : retained[g].version <= policy
        /\ ~Active /\ ~stopped

\* Every group leaves the mailbox once, as optimizer input or dropped; what the optimizer
\* uses was eligible in every sample and is no staler than the configured lag.
OptimizerInputsAccounted ==
    /\ trained \cap dropped = {}
    /\ trained \cup dropped = 0..(committed - 1)
    /\ held \subseteq DOMAIN retained
    /\ \A g \in held : retained[g].clean /\ step - retained[g].version <= MaxPolicyLag
    /\ Cardinality(trained) = GroupsPerStep * step

\* The mailbox loses and repeats nothing, in the optimizer and over a restart.
MailboxAccounted == SnapshotRestorable /\ OptimizerInputsAccounted

\* close ends, whatever was under way: an operation nobody waits for, a group, a failure.
CloseEnds == pc = "close" ~> pc = "closed"

\* The provider accepts the commits the learner makes: "commit requires a unique delivered
\* oldest group prefix" (benchmark_training.py 448) is an assertion of the protocol.
CommitsAccepted == pc # "refused"
=============================================================================
