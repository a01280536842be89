------------------------- MODULE CoordinatorStream -------------------------
(***************************************************************************)
(* A coordinator stream (rollout_manager/coordinator.py, open_stream to    *)
(* close_stream): whole groups are submitted while the backends stay open. *)
(*                                                                         *)
(* Every episode and every group is a task of the event loop.  They share  *)
(* one condition variable; asleep are the tasks inside its wait().  A      *)
(* cancelled token wakes nobody by itself.  Resources are one quantity of  *)
(* one executor; Coordinator has the accounting per executor and quantity. *)
(***************************************************************************)
EXTENDS Integers, FiniteSets

CONSTANTS
    Groups,         \* 1..n: groups in the order of their sequence numbers
    PlansOf,        \* [group -> its plans, a set of integers in sample order]
    Settings,       \* what a stream may be opened with, see setting
    Need,           \* [plan -> Nat], 0 when the backend accounts by stage
    Capacity, MaxWorkers, MaxGroups, PendingLimit

Plans == UNION {PlansOf[g] : g \in Groups}

\* What open_stream and execute_stream_group accept.
ASSUME StreamAccepted ==
    /\ Groups \subseteq Nat /\ Plans \subseteq Nat /\ IsFiniteSet(Plans)
    /\ Settings \subseteq [waves : SUBSET Groups, failing : BOOLEAN]
    /\ \A g, h \in Groups : g # h => PlansOf[g] \cap PlansOf[h] = {}
    /\ Capacity \in Nat /\ \A p \in Plans : Need[p] \in 0..Capacity
    /\ {MaxWorkers, MaxGroups, PendingLimit} \subseteq Nat \ {0}

VARIABLES
    setting,     \* fixed when the stream opens: the groups admitted in waves (policy or
                 \* backend hooks ask for it), and whether the event log may raise
    control,     \* what the owner of the stream does
    token,       \* the stream token is cancelled
    sequence,    \* the newest sequence number accepted
    group,       \* [group -> where its task is]
    wave,        \* [group -> plans of its present wave]
    closure,     \* [group -> finish_group proved the wave closed]
    task,        \* [plan -> where its task is]
    result,      \* [plan -> how it ended]
    asleep,      \* tasks inside _stream_condition.wait()
    reserved, quarantined

vars == <<setting, control, token, sequence, group, wave, closure, task, result, asleep, reserved, quarantined>>
book == <<reserved, quarantined>>

WaveGroups == setting.waves
EventsMayFail == setting.failing
GroupOf(p) == CHOOSE g \in Groups : p \in PlansOf[g]
Waved(p) == GroupOf(p) \in WaveGroups
\* What a set of plans takes: the number of its units.
Units(S) == Cardinality(UNION {{p} \X (1..Need[p]) : p \in S})
Live == {g \in Groups : group[g] \notin {"new", "done", "raised"}}
Pending == Cardinality(UNION {PlansOf[g] : g \in Live})
Inside == {g \in Live : group[g] # "queued"}
Slots == {p \in Plans : task[p] \in {"check", "running"}}

Init ==
    /\ setting \in Settings
    /\ control = "starting" /\ token \in BOOLEAN /\ sequence = -1
    /\ group = [g \in Groups |-> "new"]
    /\ wave = [g \in Groups |-> {}] /\ closure = [g \in Groups |-> TRUE]
    /\ task = [p \in Plans |-> "none"] /\ result = [p \in Plans |-> "none"]
    /\ asleep = {} /\ reserved = 0 /\ quarantined = 0

-----------------------------------------------------------------------------
(* The owner: open, pause, resume, close *)

Control(here, there) ==
    /\ control = here /\ control' = there
    /\ UNCHANGED <<setting, token, sequence, group, wave, closure, task, result, asleep, book>>

Opened == Control("starting", "open")
\* A backend's start raises: the stream is closed.
OpenFails == Control("starting", "closing")

\* pause_stream: later submissions are refused, waiting tasks look again.
NotifyAll == asleep' = {}
BeginPause(there) ==
    /\ control \in {"open", "paused"} /\ control' = there
    /\ NotifyAll
    /\ UNCHANGED <<setting, token, sequence, group, wave, closure, task, result, book>>

\* Mutant: only the groups inside the semaphore are waited for.
TasksEndedInside == Inside = {}
TasksEnded == Live = {}

PauseReturns == TasksEnded /\ Control("pausing", "paused")
ResumeStream == ~token /\ Control("paused", "open")
\* close_stream pauses first; a backend that fails to close is reported.
CloseReturns == TasksEnded /\ (Control("closing", "closed") \/ Control("closing", "close_failed"))

\* The owner's task is cancelled, or its token: nobody is notified.
Cancel ==
    /\ ~token /\ token' = TRUE
    /\ UNCHANGED <<setting, control, sequence, group, wave, closure, task, result, asleep, book>>

-----------------------------------------------------------------------------
(* A group task *)

\* execute_stream_group: a new sequence number and enough input credit.
Submit(g) ==
    /\ control = "open" /\ group[g] = "new" /\ g > sequence
    /\ Pending + Cardinality(PlansOf[g]) <= PendingLimit
    /\ sequence' = g /\ group' = [group EXCEPT ![g] = "queued"]
    /\ UNCHANGED <<setting, control, token, wave, closure, task, result, asleep, book>>

\* The group semaphore; without waves all episodes become tasks at once.
Enter(g) ==
    /\ group[g] = "queued" /\ Cardinality(Inside) < MaxGroups
    /\ group' = [group EXCEPT ![g] = IF g \in WaveGroups THEN "top" ELSE "collect"]
    /\ wave' = [wave EXCEPT ![g] = IF g \in WaveGroups THEN {} ELSE PlansOf[g]]
    /\ task' = [p \in Plans |-> IF p \in wave'[g] THEN "slot" ELSE task[p]]
    /\ UNCHANGED <<setting, control, token, sequence, closure, result, asleep, book>>

\* Mutant: the wave loop starts over from the first plan.
RestAll(g) == PlansOf[g]
Rest(g) == {p \in PlansOf[g] : result[p] = "none"}
\* A wave is the longest prefix of the next MaxWorkers plans that fits an empty executor.
Prefixes(g) ==
    {S \in SUBSET Rest(g) : /\ S # {} /\ Cardinality(S) <= MaxWorkers /\ Units(S) <= Capacity
                            /\ \A p \in Rest(g) \ S, r \in S : r < p}
NextWaves(g) == {S \in Prefixes(g) : \A T \in Prefixes(g) : T \subseteq S}

\* The top of the wave loop: done, stopped, or another wave.
WaveTop(g) ==
    /\ group[g] = "top"
    /\ group' = [group EXCEPT ![g] = IF token \/ Rest(g) = {} THEN "return" ELSE "reserve"]
    /\ result' = [p \in Plans |-> IF token /\ p \in Rest(g) THEN "not_admitted" ELSE result[p]]
    /\ \E S \in IF token \/ Rest(g) = {} THEN {{}} ELSE NextWaves(g) : wave' = [wave EXCEPT ![g] = S]
    /\ UNCHANGED <<setting, control, token, sequence, closure, task, asleep, book>>

\* Under the condition: go back to the top when stopped, sleep while the wave does not
\* fit, or charge all of it.
WaveReserve(g) ==
    /\ group[g] = "reserve" /\ <<"group", g>> \notin asleep
    /\ IF token
       THEN group' = [group EXCEPT ![g] = "top"] /\ UNCHANGED <<asleep, reserved>>
       ELSE IF reserved + Units(wave[g]) > Capacity
            THEN asleep' = asleep \cup {<<"group", g>>} /\ UNCHANGED <<group, reserved>>
            ELSE /\ reserved' = reserved + Units(wave[g])
                 /\ group' = [group EXCEPT ![g] = "admit"] /\ UNCHANGED asleep
    /\ UNCHANGED <<setting, control, token, sequence, wave, closure, task, result, quarantined>>

AdmitGroup(g) ==
    /\ group[g] = "admit"
    /\ group' = [group EXCEPT ![g] = "collect"]
    /\ task' = [p \in Plans |-> IF p \in wave[g] THEN "slot" ELSE task[p]]
    /\ UNCHANGED <<setting, control, token, sequence, wave, closure, result, asleep, book>>

\* admit_group raises: nothing is known of the wave, and the stream stops.
AdmitGroupFails(g) ==
    /\ group[g] = "admit"
    /\ group' = [group EXCEPT ![g] = "settle"] /\ closure' = [closure EXCEPT ![g] = FALSE]
    /\ result' = [p \in Plans |-> IF p \in wave[g] THEN "unsafe" ELSE result[p]]
    /\ token' = TRUE
    /\ UNCHANGED <<setting, control, sequence, wave, task, asleep, book>>

\* collect: gather waits for every episode; one that raised counts as unresolved.
Collected(g) ==
    /\ group[g] = "collect" /\ \A p \in wave[g] : task[p] = "ended"
    /\ group' = [group EXCEPT ![g] = IF g \in WaveGroups THEN "finish" ELSE "return"]
    /\ result' = [p \in Plans |-> IF p \in wave[g] /\ result[p] = "raised" THEN "unsafe" ELSE result[p]]
    /\ token' = (token \/ \E p \in wave[g] : result[p] = "raised")
    /\ UNCHANGED <<setting, control, sequence, wave, closure, task, asleep, book>>

\* finish_group returns its closure, or raises: then the closure is uncertain.
FinishGroup(g, proved) ==
    /\ group[g] = "finish"
    /\ group' = [group EXCEPT ![g] = "settle"] /\ closure' = [closure EXCEPT ![g] = proved]
    /\ UNCHANGED <<setting, control, token, sequence, wave, task, result, asleep, book>>

WaveSafe(g) == closure[g] /\ \A p \in wave[g] : result[p] # "unsafe"

\* The wave is released or quarantined as a whole; without proof all its results are void
\* and the stream stops.
Settle(g) ==
    /\ group[g] = "settle"
    /\ IF WaveSafe(g)
       THEN reserved' = reserved - Units(wave[g]) /\ UNCHANGED <<quarantined, token, result>>
       ELSE /\ quarantined' = quarantined + Units(wave[g]) /\ token' = TRUE
            /\ result' = [p \in Plans |-> IF p \in wave[g] THEN "unsafe" ELSE result[p]]
            /\ UNCHANGED reserved
    /\ NotifyAll
    /\ group' = [group EXCEPT ![g] = "top"]
    /\ UNCHANGED <<setting, control, sequence, wave, closure, task>>

GroupReturns(g) ==
    /\ group[g] = "return" /\ group' = [group EXCEPT ![g] = "done"]
    /\ UNCHANGED <<setting, control, token, sequence, wave, closure, task, result, asleep, book>>

\* Appending group_finished or writing a result raises: the submitter gets the exception.
GroupEventFails(g) ==
    /\ EventsMayFail /\ (group[g] = "return" \/ (group[g] = "top" /\ wave[g] # {}))
    /\ group' = [group EXCEPT ![g] = "raised"]
    /\ UNCHANGED <<setting, control, token, sequence, wave, closure, task, result, asleep, book>>

-----------------------------------------------------------------------------
(* An episode task *)

\* One of the worker slots, kept until the episode has ended.
TakeSlot(p) ==
    /\ task[p] = "slot" /\ Cardinality(Slots) < MaxWorkers
    /\ task' = [task EXCEPT ![p] = "check"]
    /\ UNCHANGED <<setting, control, token, sequence, group, wave, closure, result, asleep, book>>

Fits(p) == Waved(p) \/ reserved + Need[p] <= Capacity
End(p, r) == task' = [task EXCEPT ![p] = "ended"] /\ result' = [result EXCEPT ![p] = r]

Sleep(p) ==
    /\ task[p] = "check" /\ <<"plan", p>> \notin asleep /\ ~Fits(p) /\ ~token
    /\ asleep' = asleep \cup {<<"plan", p>>}
    /\ UNCHANGED <<setting, control, token, sequence, group, wave, closure, task, result, book>>

NotAdmitted(p) ==
    /\ task[p] = "check" /\ <<"plan", p>> \notin asleep /\ token
    /\ End(p, "not_admitted")
    /\ UNCHANGED <<setting, control, token, sequence, group, wave, closure, asleep, book>>

\* The reservation is charged, unless the wave owns it; then the admission is recorded.
\* When that raises, the episode ends with its reservation and nobody is notified.
Admit(p, recorded) ==
    /\ task[p] = "check" /\ <<"plan", p>> \notin asleep /\ Fits(p) /\ ~token
    /\ recorded \/ EventsMayFail
    /\ reserved' = IF Waved(p) THEN reserved ELSE reserved + Need[p]
    /\ IF recorded THEN task' = [task EXCEPT ![p] = "running"] /\ UNCHANGED result ELSE End(p, "raised")
    /\ UNCHANGED <<setting, control, token, sequence, group, wave, closure, asleep, quarantined>>

\* An episode of its own is released with proof and quarantined without.
Settled(p, outcome) ==
    IF Waved(p) THEN UNCHANGED book
    ELSE IF outcome = "unsafe" THEN quarantined' = quarantined + Need[p] /\ UNCHANGED reserved
         ELSE reserved' = reserved - Need[p] /\ UNCHANGED quarantined

\* The backend's execute has ended.  "halting" is safe but stops the stream, like "unsafe".
\* Appending episode_finished may raise after all of it.
Ends(p, outcome) ==
    /\ task[p] = "running"
    /\ Settled(p, outcome)
    /\ token' = (token \/ outcome # "safe")
    /\ NotifyAll
    /\ \E r \in {outcome} \cup (IF EventsMayFail THEN {"raised"} ELSE {}) : End(p, r)
    /\ UNCHANGED <<setting, control, sequence, group, wave, closure>>

-----------------------------------------------------------------------------
Owner ==
    \/ Opened \/ OpenFails \/ BeginPause("pausing") \/ BeginPause("closing")
    \/ PauseReturns \/ ResumeStream \/ CloseReturns

GroupStep(g) ==
    \/ Enter(g) \/ WaveTop(g) \/ WaveReserve(g) \/ AdmitGroup(g) \/ AdmitGroupFails(g)
    \/ Collected(g) \/ FinishGroup(g, TRUE) \/ FinishGroup(g, FALSE) \/ Settle(g)
    \/ GroupReturns(g) \/ GroupEventFails(g)

EpisodeStep(p) ==
    \/ TakeSlot(p) \/ Sleep(p) \/ NotAdmitted(p) \/ Admit(p, TRUE) \/ Admit(p, FALSE)
    \/ \E outcome \in {"safe", "halting", "unsafe"} : Ends(p, outcome)

Done == control \in {"closed", "close_failed"} /\ UNCHANGED vars

Next ==
    \/ Owner \/ Cancel \/ Done
    \/ \E g \in Groups : Submit(g) \/ GroupStep(g)
    \/ \E p \in Plans : EpisodeStep(p)

\* Ready tasks run; hooks and episodes of a backend end.  Nobody has to submit, to cancel
\* or to pause.
Fairness ==
    /\ WF_vars(PauseReturns) /\ WF_vars(CloseReturns)
    /\ \A g \in Groups : WF_vars(GroupStep(g))
    /\ \A p \in Plans : WF_vars(EpisodeStep(p))

Spec == Init /\ [][Next]_vars /\ Fairness

-----------------------------------------------------------------------------
(* Properties *)

\* Plans that hold a reservation: running on their own, part of a wave that is charged or
\* was not proved closed, or without proof of their cleanup.
Holders ==
    {p \in Plans : ~Waved(p) /\ (task[p] = "running" \/ result[p] = "unsafe")}
        \cup {p \in Plans : Waved(p) /\ result[p] = "unsafe"}
        \cup UNION {wave[g] : g \in {h \in WaveGroups :
                         ~closure[h] \/ group[h] \in {"admit", "collect", "finish", "settle"}}}

\* Episodes and waves that interleave on the condition never exceed the executor, and the
\* reservations are exactly those of running, charged and unproven work: nothing is
\* released twice, too early or not at all (execute, group, _charge, _quarantine).
StreamReservationsExact == reserved <= Capacity /\ reserved = Units(Holders)

\* A pause that has returned proves that nothing is left: no episode runs or waits, no wave
\* is open, what is still reserved is quarantined (pause_stream).
PauseProves ==
    control \in {"paused", "closed", "close_failed"} =>
        /\ \A p \in Plans : task[p] \in {"none", "ended"}
        /\ asleep = {} /\ reserved = quarantined

\* As long as the event log works the stream's accounts are exact, and a pause closes them.
StreamSound == ~EventsMayFail => StreamReservationsExact /\ PauseProves

\* Every submitted group comes back, whatever is cancelled and whoever waits for whom.
GroupsReturn == \A g \in Groups : group[g] = "queued" ~> group[g] \in {"done", "raised"}

\* pause_stream awaits "actual admitted episode completion": once no admitted episode runs
\* any more, it returns.
PauseAwaitsEpisodes == control = "pausing" ~> control # "pausing"
=============================================================================
