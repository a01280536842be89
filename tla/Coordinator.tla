---------------------------- MODULE Coordinator ----------------------------
(***************************************************************************)
(* One batch run of rollout_manager/coordinator.py: Coordinator.run.       *)
(* Episodes (plans) are admitted against executor capacities, executed by  *)
(* backend tasks, and their reservations are released only with a proof of *)
(* cleanup; anything else is quarantined and stops admission.              *)
(*                                                                         *)
(* The coordinator is one asyncio task: between two awaits no other task   *)
(* runs, so backend tasks finish only while pc is at one of the            *)
(* AwaitPoints.  Time passes, and other threads cancel the token, anytime. *)
(***************************************************************************)
EXTENDS Integers, Sequences, FiniteSets

CONSTANTS
    N,              \* number of episode plans, in submission order
    GroupOf,        \* [Plan -> group]: (benchmark, group_id, pass_index)
    BackendOf,      \* [Plan -> backend object registered for the benchmark]
    ExecutorOf,     \* [Plan -> executor charged by the plan]
    StagePlans,     \* plans whose resources are accounted "backend-stage"
    Quantity,       \* the quantities of ResourceRequirements
    Need,           \* [Plan -> [Quantity -> Nat]]
    Capacity,       \* [limited executors -> [Quantity -> Nat]]
    MaxWorkers, MaxGroups,
    Policy,         \* "native-groups" or "terminal-waves"
    EventsMayFail   \* TRUE iff appending to the event log may raise

Plan == 1..N
Group == {GroupOf[p] : p \in Plan}
Backend == {BackendOf[p] : p \in Plan}
Executor == {ExecutorOf[p] : p \in Plan}
Native == Policy = "native-groups"
Waves == Policy = "terminal-waves"
Members(g) == {p \in Plan : GroupOf[p] = g}

\* The plans of S that come first in submission order: one, unless S is empty.
First(S) == {p \in S : \A r \in S : p <= r}

\* What a plan adds to executor e: nothing when its backend accounts by stage.
Charge(p, e, q) == IF p \notin StagePlans /\ ExecutorOf[p] = e THEN Need[p][q] ELSE 0

\* The units the plans of S take of quantity q on executor e, and how many.
Units(S, e, q) == UNION {{p} \X (1..Charge(p, e, q)) : p \in S}
Total(S, e, q) == Cardinality(Units(S, e, q))

ASSUME ConstantTypes ==
    /\ N \in Nat /\ MaxWorkers \in Nat \ {0} /\ MaxGroups \in Nat \ {0}
    /\ GroupOf \in [Plan -> Group]
    /\ BackendOf \in [Plan -> Backend]
    /\ ExecutorOf \in [Plan -> Executor]
    /\ StagePlans \subseteq Plan
    /\ Need \in [Plan -> [Quantity -> Nat]]
    /\ Capacity \in [DOMAIN Capacity -> [Quantity -> Nat]]
    /\ Policy \in {"native-groups", "terminal-waves"}
    /\ EventsMayFail \in BOOLEAN

\* The checks of __init__ and of run before anything is started; a batch that
\* fails one of them raises ValueError and never reaches the states below.
Accepted ==
    /\ Waves => MaxGroups = 1
    /\ \A p, r \in StagePlans : ExecutorOf[p] = ExecutorOf[r] => BackendOf[p] = BackendOf[r]
    /\ \A p, r \in Plan : GroupOf[p] = GroupOf[r] => BackendOf[p] = BackendOf[r]
    /\ \A p \in Plan : \A e \in DOMAIN Capacity : \A q \in Quantity :
          Charge(p, e, q) <= Capacity[e][q]
    /\ Waves => \A g \in Group :
          /\ Cardinality(Members(g)) <= MaxWorkers
          /\ \A e \in DOMAIN Capacity : \A q \in Quantity :
                Total(Members(g), e, q) <= Capacity[e][q]

ASSUME BatchAccepted == Accepted

VARIABLES
    pc,           \* where the coordinator task is
    token,        \* the CancellationToken is cancelled
    stopped,      \* stopped is not None
    deadline,     \* drain_deadline: "none", "set" or "expired"
    pending,      \* plans not yet admitted
    active,       \* plans with a task in the active dictionary
    worker,       \* what each plan's backend task is doing or has returned
    done,         \* completed tasks of the last asyncio.wait, still to process
    finishing,    \* the plan whose result completed the wave being closed
    result,       \* the results dictionary
    reserved, peak, quarantined,
    held,         \* held_groups
    blocked,      \* blocked_executors of the current scan
    cursor,       \* next plan of the current scan
    draining,     \* draining_tasks: plans, and backends whose close timed out
    started,      \* backends started, in order
    closing,      \* how many of them still have to be closed
    closeFailed   \* lifecycle_failures holds a backend_close failure

vars == <<pc, token, stopped, deadline, pending, active, worker, done, finishing,
          result, reserved, peak, quarantined, held, blocked, cursor, draining,
          started, closing, closeFailed>>

signals == <<token, stopped, deadline>>
book == <<pending, active, worker, done, finishing, result>>
resources == <<reserved, peak, quarantined>>
lifecycle == <<draining, started, closing, closeFailed>>
scanning == <<blocked, cursor>>

\* How a backend task can end.  "safe": cleanup proved, nothing uncertain;
\* "halting": safe, but an infrastructure failure, a backend that did not admit,
\* or a verifier asking for review; "unsafe": cleanup or the model request is
\* not proved (an exception or cancellation inside execute included).
Outcome == {"safe", "halting", "unsafe"}
\* Mutant: an uncertain request or unproved cleanup passes as safe.
SafeAnyOutcome(r) == r \in Outcome
Safe(r) == r \in {"safe", "halting"}

AwaitPoints == {"starting", "admitting", "wait", "finishing", "closing"}

Init ==
    /\ pc = "start"
    /\ token \in BOOLEAN            \* the caller may pass a cancelled token
    /\ stopped = FALSE
    /\ deadline = "none"
    /\ pending = Plan /\ active = {} /\ done = {} /\ finishing = 0
    /\ worker = [p \in Plan |-> "idle"]
    /\ result = [p \in Plan |-> "none"]
    /\ reserved = [e \in Executor |-> [q \in Quantity |-> 0]]
    /\ peak = [e \in Executor |-> [q \in Quantity |-> 0]]
    /\ quarantined = [e \in Executor |-> [q \in Quantity |-> 0]]
    /\ held = {} /\ blocked = {} /\ cursor = 1
    /\ draining = {}
    /\ started = <<>> /\ closing = 0 /\ closeFailed = FALSE

\* The coordinator goes on to another point of its code and changes nothing else.
Move(here, there) ==
    /\ pc = here /\ pc' = there
    /\ UNCHANGED <<signals, book, resources, held, scanning, lifecycle>>

-----------------------------------------------------------------------------
(* Resource accounting *)

\* Mutants: room for the episode on an empty executor only; an off-by-one.
FitsAlone(p) ==
    p \notin StagePlans /\ ExecutorOf[p] \in DOMAIN Capacity =>
        \A q \in Quantity : Need[p][q] <= Capacity[ExecutorOf[p]][q]
FitsStrictly(p) ==
    p \notin StagePlans /\ ExecutorOf[p] \in DOMAIN Capacity =>
        \A q \in Quantity :
            reserved[ExecutorOf[p]][q] + Need[p][q] < Capacity[ExecutorOf[p]][q]

\* _fits: a limited executor has room for one more episode.
Fits(p) ==
    p \notin StagePlans /\ ExecutorOf[p] \in DOMAIN Capacity =>
        \A q \in Quantity :
            reserved[ExecutorOf[p]][q] + Need[p][q] <= Capacity[ExecutorOf[p]][q]

\* _charge(+1) of every plan of S, keeping the peak.
ChargeAll(S) ==
    /\ reserved' = [e \in Executor |-> [q \in Quantity |-> reserved[e][q] + Total(S, e, q)]]
    /\ peak' = [e \in Executor |-> [q \in Quantity |->
                   LET now == reserved[e][q] + Total(S, e, q)
                   IN  IF now > peak[e][q] THEN now ELSE peak[e][q]]]

\* _charge(-1) of every plan of S.
ReleaseAll(S) ==
    /\ reserved' = [e \in Executor |-> [q \in Quantity |-> reserved[e][q] - Total(S, e, q)]]
    /\ UNCHANGED <<peak, quarantined>>

\* _quarantine of every plan of S: the reservation itself is kept.
QuarantineAll(S) ==
    /\ quarantined' = [e \in Executor |-> [q \in Quantity |-> quarantined[e][q] + Total(S, e, q)]]
    /\ UNCHANGED <<reserved, peak>>

-----------------------------------------------------------------------------
(* Starting the backends *)

NotStarted == {p \in Plan : \A i \in DOMAIN started : started[i] # BackendOf[p]}

\* Backends start in the order of their first plan, the token checked before each.
BeginStart ==
    /\ pc = "start" /\ ~token
    /\ \E p \in First(NotStarted) : started' = Append(started, BackendOf[p])
    /\ pc' = "starting"
    /\ UNCHANGED <<signals, book, resources, held, scanning, draining, closing,
                   closeFailed>>

StartLoop ==
    /\ pc = "start" /\ (token \/ NotStarted = {})
    /\ stopped' = (NotStarted # {})     \* the break at a cancelled token
    /\ pc' = "loop"
    /\ UNCHANGED <<token, deadline, book, resources, held, scanning, lifecycle>>

StartReturns == Move("starting", "start")

\* start raises: the run is over, the failing backend is closed like the others.
StartFails ==
    /\ pc = "starting"
    /\ stopped' = TRUE
    /\ pc' = "finally"
    /\ UNCHANGED <<token, deadline, book, resources, held, scanning, lifecycle>>

-----------------------------------------------------------------------------
(* The admission loop *)

\* Mutant: the deadline is armed anew by every turn of the loop.
ArmDeadlineAnew == IF token THEN "set" ELSE deadline
\* drain_deadline is armed by the first turn that sees the token cancelled.
ArmDeadline == IF token /\ deadline = "none" THEN "set" ELSE deadline

\* Where the turn goes on: to admission unless stopped, one wave at a time.
AfterTop(stop) ==
    IF stop THEN "check"
    ELSE IF Native THEN "scan"
    ELSE IF held = {} /\ pending # {} THEN "admitting" ELSE "check"

LoopTop ==
    /\ pc = "loop" /\ pending \cup active # {}
    /\ stopped' = (stopped \/ token)
    /\ deadline' = ArmDeadline
    /\ pc' = AfterTop(stopped \/ token)
    /\ cursor' = 1 /\ blocked' = {}
    /\ UNCHANGED <<token, book, resources, held, lifecycle>>

LoopEnd == pending \cup active = {} /\ Move("loop", "finally")

\* The wave admit_group is asked to admit: the group of the first pending plan.
NextGroup == {GroupOf[p] : p \in First(pending)}

\* Mutant: the token is not read again after admit_group.
WaveStillWantedAlways == TRUE
\* The token is read again after the await of admit_group.
WaveStillWanted == ~token

\* admit_group returned and nobody cancelled meanwhile: the whole wave starts.
AdmitWave ==
    /\ pc = "admitting" /\ WaveStillWanted
    /\ \E g \in NextGroup :
          /\ held' = held \cup {g}
          /\ ChargeAll(Members(g))
          /\ pending' = pending \ Members(g)
          /\ active' = active \cup Members(g)
          /\ worker' = [p \in Plan |-> IF p \in Members(g) THEN "running" ELSE worker[p]]
    /\ pc' = "check"
    /\ UNCHANGED <<signals, done, finishing, result, quarantined, scanning, lifecycle>>

\* Logging episode_admitted raises at plan k of the wave: k is charged and out of
\* pending but has no task; the plans before it are running.
AdmitWaveEventFails ==
    /\ EventsMayFail
    /\ pc = "admitting" /\ WaveStillWanted
    /\ \E g \in NextGroup : \E k \in Members(g) :
          /\ held' = held \cup {g}
          /\ ChargeAll({p \in Members(g) : p <= k})
          /\ pending' = pending \ {p \in Members(g) : p <= k}
          /\ active' = active \cup {p \in Members(g) : p < k}
          /\ worker' = [p \in Plan |-> IF p \in Members(g) /\ p < k THEN "running" ELSE worker[p]]
    /\ stopped' = TRUE
    /\ pc' = "finally"
    /\ UNCHANGED <<token, deadline, done, finishing, result, quarantined, scanning,
                   lifecycle>>

\* admit_group raised, or the token was cancelled while it ran.
AdmitWaveStopped ==
    /\ pc = "admitting"
    /\ stopped' = TRUE
    /\ pc' = "check"
    /\ UNCHANGED <<token, deadline, book, resources, held, scanning, lifecycle>>

ScanEnd == (cursor > N \/ Cardinality(active) >= MaxWorkers) /\ Move("scan", "check")

ScanGuard == pc = "scan" /\ cursor <= N /\ Cardinality(active) < MaxWorkers

GroupFull(p) == GroupOf[p] \notin held /\ Cardinality(held) >= MaxGroups

\* Not pending, a new group beyond max_groups, or behind a blocked executor.
ScanSkip ==
    /\ ScanGuard
    /\ cursor \notin pending \/ GroupFull(cursor) \/ ExecutorOf[cursor] \in blocked
    /\ cursor' = cursor + 1
    /\ UNCHANGED <<pc, signals, book, resources, held, blocked, lifecycle>>

ScanCandidate ==
    /\ ScanGuard
    /\ cursor \in pending /\ ~GroupFull(cursor) /\ ExecutorOf[cursor] \notin blocked

ScanBlock ==
    /\ ScanCandidate /\ ~Fits(cursor)
    /\ blocked' = blocked \cup {ExecutorOf[cursor]}
    /\ cursor' = cursor + 1
    /\ UNCHANGED <<pc, signals, book, resources, held, lifecycle>>

ScanAdmit ==
    /\ ScanCandidate /\ Fits(cursor)
    /\ ChargeAll({cursor})
    /\ held' = held \cup {GroupOf[cursor]}
    /\ pending' = pending \ {cursor}
    /\ active' = active \cup {cursor}
    /\ worker' = [worker EXCEPT ![cursor] = "running"]
    /\ cursor' = cursor + 1
    /\ UNCHANGED <<pc, signals, done, finishing, result, quarantined, blocked,
                   lifecycle>>

ScanAdmitEventFails ==
    /\ EventsMayFail
    /\ ScanCandidate /\ Fits(cursor)
    /\ ChargeAll({cursor})
    /\ held' = held \cup {GroupOf[cursor]}
    /\ pending' = pending \ {cursor}
    /\ stopped' = TRUE
    /\ pc' = "finally"
    /\ UNCHANGED <<token, deadline, active, worker, done, finishing, result,
                   quarantined, scanning, lifecycle>>

-----------------------------------------------------------------------------
(* Waiting, draining *)

CheckIdle == active = {} /\ Move("check", "finally")

CheckWait == active # {} /\ deadline # "expired" /\ Move("check", "wait")

\* Mutant: a lost task is reported as never admitted.
WithUnresolvedAsNotAdmitted(S) ==
    [p \in Plan |-> IF p \in S THEN "not_admitted" ELSE result[p]]
\* _unresolved results for the plans of S.
WithUnresolved(S) == [p \in Plan |-> IF p \in S THEN "unresolved" ELSE result[p]]

\* Mutant: under terminal-waves too only the active episodes are quarantined.
DrainQuarantineActive == active
\* What the expired deadline quarantines.
DrainQuarantine == IF Native THEN active ELSE {p \in Plan : GroupOf[p] \in held}

\* The drain deadline has passed: every active plan is unresolved, and what may
\* still be in use is quarantined (whole waves under terminal-waves).
DrainTimeout ==
    /\ pc = "check" /\ active # {} /\ deadline = "expired"
    /\ QuarantineAll(DrainQuarantine)
    /\ result' = WithUnresolved(active)
    /\ draining' = draining \cup active
    /\ active' = {}
    /\ pc' = "finally"
    /\ UNCHANGED <<signals, pending, worker, done, finishing, held, scanning, started,
                   closing, closeFailed>>

\* Logging episode_drain_unproven raises at plan k: the tasks before k drain, k
\* and every other task are still active for the finally block.
DrainEventFails ==
    /\ EventsMayFail
    /\ pc = "check" /\ active # {} /\ deadline = "expired"
    /\ \E S \in SUBSET active : \E k \in active \ S :
          /\ IF Native THEN QuarantineAll(S \cup {k}) ELSE UNCHANGED resources
          /\ result' = WithUnresolved(S \cup {k})
          /\ draining' = draining \cup S
    /\ stopped' = TRUE
    /\ pc' = "finally"
    /\ UNCHANGED <<token, deadline, pending, active, worker, done, finishing, held,
                   scanning, started, closing, closeFailed>>

\* The active tasks that asyncio.wait reports done.
Finished == {p \in active : worker[p] \in Outcome}

WaitReturns ==
    /\ pc = "wait"
    /\ done' = Finished
    /\ pc' = "process"
    /\ UNCHANGED <<signals, pending, active, worker, finishing, result, resources, held,
                   scanning, lifecycle>>

-----------------------------------------------------------------------------
(* Processing finished episodes *)

GroupCompleteWith(p) ==
    \A r \in Members(GroupOf[p]) : r = p \/ (result[r] # "none")

\* One completed task of the last wait, up to the closure of its wave.
Process(p) ==
    /\ pc = "process" /\ p \in done
    /\ done' = done \ {p}
    /\ active' = active \ {p}
    /\ result' = [result EXCEPT ![p] = worker[p]]
    /\ IF Waves THEN UNCHANGED resources
       ELSE IF Safe(worker[p]) THEN ReleaseAll({p}) ELSE QuarantineAll({p})
    /\ stopped' = (stopped \/ worker[p] # "safe")
    /\ token' = (token \/ ~Safe(worker[p]))
    /\ IF ~GroupCompleteWith(p) THEN UNCHANGED <<pc, held, finishing>>
       ELSE IF Waves THEN pc' = "finishing" /\ finishing' = p /\ UNCHANGED held
       ELSE held' = held \ {GroupOf[p]} /\ UNCHANGED <<pc, finishing>>
    /\ UNCHANGED <<deadline, pending, worker, scanning, lifecycle>>

\* Logging resources_quarantined raises, or episode_finished does, which a wave
\* logs after its closure only.
ProcessEventFails(p) ==
    /\ EventsMayFail
    /\ pc = "process" /\ p \in done
    /\ ~(Waves /\ Safe(worker[p]) /\ GroupCompleteWith(p))
    /\ active' = active \ {p}
    /\ result' = [result EXCEPT ![p] = worker[p]]
    /\ IF Waves THEN UNCHANGED resources
       ELSE IF Safe(worker[p]) THEN ReleaseAll({p}) ELSE QuarantineAll({p})
    /\ stopped' = TRUE
    /\ token' = (token \/ ~Safe(worker[p]))
    /\ \/ held' = held /\ ~(Safe(worker[p]) /\ Native /\ GroupCompleteWith(p))
       \/ held' = held \ {GroupOf[p]} /\ Native /\ GroupCompleteWith(p)
    /\ done' = {}
    /\ pc' = "finally"
    /\ UNCHANGED <<deadline, pending, worker, finishing, scanning, lifecycle>>

ProcessEnd == done = {} /\ Move("process", "loop")

\* The wave's results and its closure evidence prove cleanup.
WaveSafe(closureProved) ==
    closureProved /\ \A r \in Members(GroupOf[finishing]) : Safe(result[r])

\* finish_group returned; closureProved is FALSE when the closure it returned is
\* uncertain, when it raised, or when the coordinator's task was cancelled there.
FinishWave(closureProved) ==
    /\ pc = "finishing"
    /\ IF WaveSafe(closureProved) THEN ReleaseAll(Members(GroupOf[finishing]))
                                  ELSE QuarantineAll(Members(GroupOf[finishing]))
    /\ stopped' = (stopped \/ ~WaveSafe(closureProved))
    /\ token' = (token \/ ~WaveSafe(closureProved))
    /\ held' = held \ {GroupOf[finishing]}
    /\ finishing' = 0
    /\ pc' = "process"
    /\ UNCHANGED <<deadline, pending, active, worker, done, result, scanning,
                   lifecycle>>

\* Logging group_finished raises, the wave settled but still held, or
\* episode_finished does just after.
FinishWaveEventFails(closureProved) ==
    /\ EventsMayFail
    /\ pc = "finishing"
    /\ IF WaveSafe(closureProved) THEN ReleaseAll(Members(GroupOf[finishing]))
                                  ELSE QuarantineAll(Members(GroupOf[finishing]))
    /\ stopped' = TRUE
    /\ token' = (token \/ ~WaveSafe(closureProved))
    /\ held' \in {held, held \ {GroupOf[finishing]}}
    /\ finishing' = 0 /\ done' = {}
    /\ pc' = "finally"
    /\ UNCHANGED <<deadline, pending, active, worker, result, scanning, lifecycle>>

-----------------------------------------------------------------------------
(* The finally block *)

\* Mutant: the backends are closed under tasks that are still draining.
ToCloseAlways(tasks) == Len(started)
\* The backends the finally block closes, given the draining tasks.
ToClose(tasks) == IF tasks = {} THEN Len(started) ELSE 0

\* Tasks still active here were cut off by an exception: nothing proves that
\* they stopped.  Backends are closed only when no task is left draining.
Finally ==
    /\ pc = "finally"
    /\ token' = (token \/ active # {})
    /\ result' = WithUnresolved(active)
    /\ QuarantineAll(active)
    /\ draining' = draining \cup active
    /\ closing' = ToClose(draining')
    /\ pc' = "close"
    /\ UNCHANGED <<stopped, deadline, pending, active, worker, done, finishing, held,
                   scanning, started, closeFailed>>

\* Backends are closed in the reverse of the order they were started in.
BeginClose == closing > 0 /\ Move("close", "closing")

CloseReturns(ok) ==
    /\ pc = "closing"
    /\ closing' = closing - 1
    /\ closeFailed' = (closeFailed \/ ~ok)
    /\ stopped' = (stopped \/ ~ok)
    /\ pc' = "close"
    /\ UNCHANGED <<token, deadline, book, resources, held, scanning, draining, started>>

\* close did not end within drain_timeout: its task is left draining.
CloseTimeout ==
    /\ pc = "closing"
    /\ draining' = draining \cup {started[closing]}
    /\ closing' = closing - 1
    /\ closeFailed' = TRUE
    /\ stopped' = TRUE
    /\ pc' = "close"
    /\ UNCHANGED <<token, deadline, book, resources, held, scanning, started>>

\* Pending plans are reported not admitted; a plan without any result makes
\* the ordered list raise KeyError out of the finally block.
Report ==
    /\ pc = "close" /\ closing = 0
    /\ stopped' = (stopped \/ token)
    /\ result' = [p \in Plan |-> IF p \in pending THEN "not_admitted" ELSE result[p]]
    /\ pc' = IF \E p \in Plan : result'[p] = "none" THEN "raised" ELSE "returned"
    /\ UNCHANGED <<token, deadline, pending, active, worker, done, finishing, resources,
                   held, scanning, lifecycle>>

\* Logging episode_not_admitted or writing the results raises.
ReportEventFails ==
    /\ EventsMayFail
    /\ pc = "close" /\ closing = 0
    /\ stopped' = (stopped \/ token)
    /\ pc' = "raised"
    /\ UNCHANGED <<token, deadline, book, resources, held, scanning, lifecycle>>

-----------------------------------------------------------------------------
(* The environment: backend tasks, cancellation, time *)

\* The backend's execute ends, also after the coordinator gave up on it.
WorkerEnds(p, outcome) ==
    /\ pc \in AwaitPoints \cup {"returned", "raised"}
    /\ worker[p] = "running"
    /\ worker' = [worker EXCEPT ![p] = outcome]
    /\ UNCHANGED <<pc, signals, pending, active, done, finishing, result, resources,
                   held, scanning, lifecycle>>

\* The owner of the token, or a native thread that shares it, cancels it.
TokenCancelled ==
    /\ pc \notin {"returned", "raised"} /\ ~token
    /\ token' = TRUE
    /\ UNCHANGED <<pc, stopped, deadline, book, resources, held, scanning, lifecycle>>

\* The coordinator's own task is cancelled at an await: fatal while a backend is
\* started or a wave is admitted, only a cancelled token while it waits or closes
\* (and FinishWave(FALSE) while a wave is finished).
TaskCancelled ==
    /\ pc \in AwaitPoints \ {"finishing"}
    /\ token' = TRUE
    /\ stopped' = (stopped \/ pc \in {"starting", "admitting"})
    /\ pc' = CASE pc \in {"starting", "admitting"} -> "finally"
               [] pc = "wait" -> "loop"
               [] pc = "closing" -> "closing"
    /\ UNCHANGED <<deadline, book, resources, held, scanning, lifecycle>>

DeadlineExpires ==
    /\ pc \notin {"returned", "raised"} /\ deadline = "set"
    /\ deadline' = "expired"
    /\ UNCHANGED <<pc, token, stopped, book, resources, held, scanning, lifecycle>>

\* The run has returned or raised and no backend task is left.
Terminated ==
    /\ pc \in {"returned", "raised"}
    /\ \A p \in Plan : worker[p] # "running"
    /\ UNCHANGED vars

-----------------------------------------------------------------------------
\* Steps of the coordinator's own code, and of the hooks it awaits.
Step ==
    \/ BeginStart \/ StartLoop \/ LoopTop \/ LoopEnd
    \/ ScanEnd \/ ScanSkip \/ ScanBlock \/ ScanAdmit
    \/ CheckIdle \/ CheckWait \/ DrainTimeout \/ WaitReturns
    \/ (\E p \in Plan : Process(p)) \/ ProcessEnd
    \/ Finally \/ BeginClose \/ Report

Hook ==
    \/ StartReturns \/ StartFails \/ AdmitWave \/ AdmitWaveStopped
    \/ \E ok \in BOOLEAN : FinishWave(ok) \/ CloseReturns(ok)
    \/ CloseTimeout

EventFailure ==
    \/ AdmitWaveEventFails \/ ScanAdmitEventFails \/ DrainEventFails \/ ReportEventFails
    \/ (\E p \in Plan : ProcessEventFails(p))
    \/ \E ok \in BOOLEAN : FinishWaveEventFails(ok)

Cancellation == TokenCancelled \/ TaskCancelled

WorkerStep == \E p \in Plan : \E outcome \in Outcome : WorkerEnds(p, outcome)

Next == Step \/ Hook \/ EventFailure \/ Cancellation \/ WorkerStep
        \/ DeadlineExpires \/ Terminated

\* The event loop runs a ready coroutine, the clock advances, and the hooks a
\* backend offers end or raise; episodes themselves may hang.
Fairness == WF_vars(Step) /\ WF_vars(Hook) /\ WF_vars(DeadlineExpires)

Spec == Init /\ [][Next]_vars /\ Fairness

VARIABLE failed     \* history: an append to the event log has raised

\* The same run, remembering whether its log ever failed.
LoggedInit == Init /\ failed = FALSE

LoggedNext ==
    \/ (Step \/ Hook \/ Cancellation \/ WorkerStep \/ DeadlineExpires \/ Terminated) /\ UNCHANGED failed
    \/ EventFailure /\ failed' = TRUE

LoggedSpec == LoggedInit /\ [][LoggedNext]_<<vars, failed>>

-----------------------------------------------------------------------------
(* Properties *)

ResultValue == Outcome \cup {"none", "unresolved", "not_admitted"}

\* Types of the run's state, and of what a control point relies on: the tasks to
\* process have ended, a wave is being finished, a backend is left to close.
TypeOK ==
    /\ pc \in AwaitPoints \cup {"start", "loop", "scan", "check", "process", "finally",
                                "close", "returned", "raised"}
    /\ token \in BOOLEAN /\ stopped \in BOOLEAN /\ closeFailed \in BOOLEAN
    /\ deadline \in {"none", "set", "expired"}
    /\ pending \subseteq Plan /\ active \subseteq Plan
    /\ done \subseteq {p \in active : worker[p] \in Outcome}
    /\ done # {} => pc \in {"process", "finishing"}
    /\ finishing \in Plan \cup {0} /\ (pc = "finishing" => finishing # 0)
    /\ worker \in [Plan -> Outcome \cup {"idle", "running"}]
    /\ result \in [Plan -> ResultValue]
    /\ reserved \in [Executor -> [Quantity -> Int]]
    /\ peak \in [Executor -> [Quantity -> Int]]
    /\ quarantined \in [Executor -> [Quantity -> Int]]
    /\ held \subseteq Group /\ blocked \subseteq Executor
    /\ cursor \in 1..N + 1
    /\ draining \subseteq Plan \cup Backend
    /\ started \in Seq(Backend) /\ closing \in 0..Len(started)
    /\ pc = "closing" => closing > 0

\* No executor was ever reserved beyond its capacity (peak_reserved included),
\* whatever mixture of releases, quarantines and waves led there.
CapacityRespected ==
    \A e \in Executor \cap DOMAIN Capacity : \A q \in Quantity :
        reserved[e][q] <= peak[e][q] /\ peak[e][q] <= Capacity[e][q]

\* What a running or unproven episode may still occupy is still reserved, even
\* after the drain deadline, a failed wave closure or the end of the run.
NothingUnprovenReleased ==
    \A e \in Executor : \A q \in Quantity :
        reserved[e][q] >= Total({p \in Plan : worker[p] \in {"running", "unsafe"}}, e, q)

\* A backend is closed only after every episode task ended, and a wave is
\* finished only after every member's task ended.
NoCloseUnderWorkers ==
    /\ pc = "closing" => \A p \in Plan : worker[p] # "running"
    /\ pc = "finishing" => \A p \in Members(GroupOf[finishing]) : worker[p] # "running"

\* The evidence a returned run reports is the one its tasks produced: a proved
\* result only where the task returned it, "not admitted" exactly for plans
\* whose task never existed, "unresolved" for the rest.
EvidenceFaithful ==
    pc = "returned" =>
        \A p \in Plan :
            /\ result[p] # "none"
            /\ result[p] \in Outcome => result[p] = worker[p]
            /\ result[p] = "not_admitted" <=> worker[p] = "idle"

\* A plan is left out only by a stopped run: resource and group limits alone
\* never leave a plan unadmitted.
LeftOutOnlyWhenStopped ==
    pc = "returned" /\ (\E p \in Plan : result[p] = "not_admitted") => stopped

\* When run returns and its log never failed, exactly what is not proved free is both
\* reserved and quarantined: nothing leaks and nothing is quarantined twice.
QuarantineExact ==
    pc = "returned" /\ ~failed => reserved = quarantined

\* No episode starts once admission stopped, or once the token is cancelled
\* except by a scan that had already begun; a cancellation that arrives while a
\* wave is being admitted keeps the wave from starting.
NoStartAfterStop ==
    [][stopped \/ (token /\ pc # "scan") =>
         \A p \in Plan : worker[p] = "idle" => worker'[p] = "idle"]_vars

Ended == pc \in {"returned", "raised"}

\* A cancelled run ends even when episodes hang: the drain deadline cuts them off.
CancelledRunEnds == token ~> Ended

-----------------------------------------------------------------------------
(* The inductive invariant behind the safety properties *)

\* Inside the admission loop, before the finally block.
Looping == pc \notin {"finally", "close", "closing", "returned", "raised"}

\* What each control point knows.
Control ==
    /\ pc \in {"admitting", "finishing"} => Waves
    /\ pc = "scan" => Native
    /\ pc = "admitting" => held = {}
    /\ pc \in {"start", "starting", "scan", "admitting"} => ~stopped
    /\ closing > 0 => /\ pc \in {"close", "closing"}
                      /\ \A p \in Plan : worker[p] # "running"

\* Every running task is active or draining; inside the loop a recorded result is
\* the one its task returned, pending and active plans have none, and a wave is
\* pending as a whole.
Evidence ==
    /\ \A p \in Plan : worker[p] = "running" => p \in active \cup draining
    /\ Looping =>
          /\ \A p \in Plan : result[p] # "none" => result[p] \in Outcome /\ result[p] = worker[p]
          /\ \A p \in pending \cup active : result[p] = "none"
          /\ Waves => /\ \A p \in active : GroupOf[p] \in held
                      /\ \A p \in pending : Members(GroupOf[p]) \subseteq pending
    /\ pc = "finishing" => /\ GroupOf[finishing] \in held
                           /\ \A r \in Members(GroupOf[finishing]) : result[r] # "none"

\* The reservations are those of the plans of C: all that may be in use, and
\* under terminal-waves exactly the held waves as long as nothing stopped.
AccountedBy(C) ==
    /\ C \subseteq Plan \ pending
    /\ \A e \in Executor : \A q \in Quantity : reserved[e][q] = Total(C, e, q)
    /\ active \subseteq C
    /\ \A p \in Plan : worker[p] \in {"running", "unsafe"} => p \in C
    /\ Waves /\ Looping => \A p \in Plan : GroupOf[p] \in held => p \in C
    /\ Waves /\ ~stopped => \A p \in C : GroupOf[p] \in held

Accounting == \E C \in SUBSET Plan : AccountedBy(C)

IndInv == TypeOK /\ Control /\ Evidence /\ Accounting /\ CapacityRespected

\* What a run whose log never failed still has to give back or to quarantine.
Unsettled ==
    IF pc \in {"close", "closing", "returned", "raised"} THEN {}
    ELSE IF Waves /\ Looping THEN {p \in Plan : GroupOf[p] \in held} ELSE active

\* C is reserved, its part Q is quarantined, and the rest is unsettled.
BalancedBy(C, Q) ==
    /\ Q \subseteq C /\ C \subseteq Plan \ pending /\ C \ Q = Unsettled
    /\ \A e \in Executor : \A q \in Quantity :
          reserved[e][q] = Total(C, e, q) /\ quarantined[e][q] = Total(Q, e, q)

\* The books balance, and a held wave waits for a member or is being closed.
Balanced ==
    /\ \E C, Q \in SUBSET Plan : BalancedBy(C, Q)
    /\ Waves /\ Looping => \A g \in held :
          \/ pc = "finishing" /\ g = GroupOf[finishing]
          \/ \E p \in Members(g) : p \in active
    /\ pc \in {"start", "starting"} => held = {}
=============================================================================
