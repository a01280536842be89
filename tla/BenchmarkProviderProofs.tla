----------------------- MODULE BenchmarkProviderProofs -----------------------
(***************************************************************************)
(* Proofs about BenchmarkProvider for groups, queues, lags and numbers of  *)
(* steps of any size: a group is sampled under the policy it was leased    *)
(* with, a timed-out call authorizes nothing, and the mailbox loses and    *)
(* repeats no group.                                                       *)
(***************************************************************************)
EXTENDS BenchmarkProvider, FiniteSetTheorems, TLAPS

-----------------------------------------------------------------------------
(* The invariant *)

Calls == {"training", "publish", "activated", "resumed"}
Collecting == pc \in {"collect", "snapshot", "activate", "resume"} \cup Calls
Closing == pc \in {"closing", "closed"}
Entry == [version : Nat, excluded : BOOLEAN, clean : BOOLEAN, delivered : BOOLEAN]

\* Where an operation can be.
Operations ==
    {Free} \cup [kind : {"pause"}, at : {"begin", "drain", "proof", "proved"}, late : BOOLEAN]
           \cup [kind : {"activate"}, at : {"begin", "load", "loading"}, late : BOOLEAN]
           \cup [kind : {"resume"}, at : {"begin", "call", "acknowledged"}, late : BOOLEAN]

\* The flags are left out: they are only read as conditions.
TypeOK ==
    /\ pc \in {"collect", "snapshot", "activate", "resume", "refused", "close", "closing", "closed"} \cup Calls
    /\ step \in Nat /\ held \subseteq Nat /\ trained \subseteq Nat /\ dropped \subseteq Nat
    /\ result \in {"pending", "ok", "raised"}
    /\ retained \in [DOMAIN retained -> Entry] /\ next \in Nat /\ committed \in Nat
    /\ policy \in Nat /\ pump \in {"waiting", "loop", "planning", "executing", "ended"} /\ lease \in Nat
    /\ op \in Operations /\ late \in {"none", "taken"} \cup Kinds
    /\ closeAt \in {"none", "pump", "operations", "controller", "closed"}
    /\ cstate \in {"running", "paused", "loading", "closed"} /\ cversion \in Nat

\* The learner's call of an operation.
Waits(kind) ==
    /\ result = "pending"
    /\ \/ pc \in {"training", "publish"} /\ kind = "pause"
       \/ pc = "activated" /\ kind = "activate"
       \/ pc = "resumed" /\ kind = "resume"

\* Every operation has its waiter, unless one timed out: then the learner only closes.
Owned ==
    /\ op # Free => timedOut \/ (~op.late /\ Waits(op.kind))
    /\ result = "pending" => op # Free /\ ~op.late /\ Waits(op.kind)
    /\ result = "raised" => pc \in Calls
    /\ timedOut => error /\ pc \in {"close", "closing", "closed"} /\ result = "ok"
    /\ op.late => timedOut /\ op.at \in {"begin", "drain", "proof"}
    /\ late # "none" => timedOut
    /\ Closing <=> closeAt # "none"
    /\ closeAt # "none" => closing
    /\ closeAt \in {"operations", "controller", "closed"} => pump = "ended"
    /\ closeAt \in {"controller", "closed"} => op = Free /\ late \notin Kinds

\* Between a pause that was proved and the resumption.
Quiet ==
    \/ pc = "training" /\ result = "ok"
    \/ pc \in {"snapshot", "publish", "activate", "activated", "resume"}
    \/ pc = "resumed" /\ result = "pending"

\* No group is sampled there, nor while an operation is past its drain.
Still ==
    /\ Quiet \/ (op.kind = "resume" /\ ~op.late) => paused /\ ~Active
    /\ op.at \in {"proof", "proved", "load", "loading", "call", "acknowledged"} => paused /\ ~Active
    /\ op.at = "drain" => paused
    /\ At("pause", "proved") => ~stopped

Loading == op.kind = "activate" /\ op.at \in {"load", "loading"}

\* Where groups are sampled or admitted the controller serves the provider's policy.
Serving ==
    /\ Loading => policy = cversion + 1 /\ \A g \in DOMAIN retained : retained[g].version <= cversion
    /\ ~Loading /\ ~error => cversion = policy
    /\ op.at \in {"call", "acknowledged"} => cversion = policy
    /\ op.at = "acknowledged" => cstate = "running"
    /\ Active \/ (~paused /\ ~closing) => cstate = "running" /\ cversion = policy
    /\ Active => lease = policy
    /\ \A g \in DOMAIN retained : retained[g].version <= policy

\* The mailbox is the groups from committed to hi, of which the learner holds those below m;
\* a group that was started and did not arrive is being executed or was lost with the producer.
Mail(hi, m) ==
    /\ hi \in Nat /\ committed <= hi /\ DOMAIN retained = committed..(hi - 1)
    /\ hi = next \/ (hi = next - 1 /\ (pump = "executing" \/ (pump = "ended" /\ error)))
    /\ pump = "executing" => hi = next - 1
    /\ At("pause", "proved") => hi = next
    /\ hi - committed <= Bound /\ (Active => hi - committed < Bound)
    /\ m \in committed..hi
    /\ Collecting => held = committed..(m - 1) /\ \A g \in committed..(hi - 1) : retained[g].delivered <=> g < m

Mailbox == \E hi, m \in Nat : Mail(hi, m)

\* What left the mailbox was trained on or dropped, once.
Accounted ==
    /\ trained \cap dropped = {} /\ trained \cup dropped = 0..(committed - 1)
    /\ held \subseteq DOMAIN retained
    /\ \A g \in DOMAIN retained : retained[g].excluded = ~retained[g].clean
    /\ \A g \in held : retained[g].clean /\ step - retained[g].version <= MaxPolicyLag
    /\ pc = "training" => Cardinality(held) = GroupsPerStep
    /\ Cardinality(trained) = GroupsPerStep * step

IndInv == TypeOK /\ Owned /\ Still /\ Serving /\ Mailbox /\ Accounted

-----------------------------------------------------------------------------
(* The operation that holds the lock *)

\* No operation is the one without a kind.
LEMMA FreeFacts ==
    /\ Free \in Operations /\ Free.kind = "none" /\ Free.at = "none" /\ Free.late = FALSE
    /\ \A o \in Operations : (o = Free <=> o.kind = "none") /\ o.late \in BOOLEAN
    /\ \A o \in Operations : o.at = "none" => o = Free
<1>1. Free \in Operations /\ Free.kind = "none" /\ Free.at = "none" /\ Free.late = FALSE
    BY DEF Free, Operations
<1>2. ASSUME NEW o \in Operations PROVE (o = Free <=> o.kind = "none") /\ o.late \in BOOLEAN /\ (o.at = "none" => o = Free)
    BY <1>1 DEF Operations
<1> QED BY <1>1, <1>2

\* Where each kind of operation can be.
LEMMA OpPlaces ==
    ASSUME NEW o \in Operations
    PROVE  /\ o.kind = "pause" => o.at \in {"begin", "drain", "proof", "proved"}
           /\ o.kind = "activate" => o.at \in {"begin", "load", "loading"}
           /\ o.kind = "resume" => o.at \in {"begin", "call", "acknowledged"}
           /\ o.kind \in {"none", "pause", "activate", "resume"}
BY DEF Operations, Free

\* An operation goes on to another place of its own.
LEMMA GotoFacts ==
    ASSUME NEW w, op \in Operations, op # Free, Goto(w),
           \/ op.kind = "pause" /\ w \in {"begin", "drain", "proof", "proved"}
           \/ op.kind = "activate" /\ w \in {"begin", "load", "loading"}
           \/ op.kind = "resume" /\ w \in {"begin", "call", "acknowledged"}
    PROVE  op' \in Operations /\ op'.kind = op.kind /\ op'.at = w /\ op'.late = op.late
BY DEF Operations, Goto

\* A new operation.
LEMMA BeginFacts ==
    ASSUME NEW k \in Kinds, NEW b \in BOOLEAN
    PROVE  LET o == [kind |-> k, at |-> "begin", late |-> b] IN
           o \in Operations /\ o.kind = k /\ o.at = "begin" /\ o.late = b /\ o # Free
<1> DEFINE o == [kind |-> k, at |-> "begin", late |-> b]
<1>1. o \in Operations /\ o.kind = k /\ o.at = "begin" /\ o.late = b
    BY DEF Operations, Kinds
<1>2. k # "none"
    BY DEF Kinds
<1> QED BY <1>1, <1>2, FreeFacts

\* An operation ends: a waiter that is still there gets the outcome.
LEMMA EndFacts ==
    ASSUME TypeOK, Owned, op # Free, NEW outcome \in {"ok", "raised"}, End(outcome)
    PROVE  /\ op' = Free /\ op' \in Operations /\ op'.kind = "none" /\ op'.at = "none" /\ op'.late = FALSE
           /\ result' \in {"ok", "raised"} /\ result' = IF result = "pending" THEN outcome ELSE result
           /\ timedOut => result' = result
           /\ UNCHANGED <<pc, step, held, trained, dropped, late, closeAt>>
BY FreeFacts DEF End, Owned, TypeOK

-----------------------------------------------------------------------------
(* Types *)

\* Every action keeps the types of the provider's, the learner's and the controller's state.
LEMMA TypeNext == ASSUME IndInv, [Next]_vars PROVE TypeOK'
<1> USE DEF learner, mailbox, flags, producer, stream, controller, LearnerOnly, Elsewhere
<1>t. TypeOK /\ Owned
    BY DEF IndInv
<1>g. DOMAIN retained \subseteq Nat
    <2>1. PICK hi, m \in Nat : Mail(hi, m)
        BY DEF IndInv, Mailbox
    <2> QED BY <1>t, <2>1 DEF Mail, TypeOK
<1>1. CASE UNCHANGED vars
    BY <1>1, <1>t DEF TypeOK, vars
<1>2. CASE PumpWakes \/ PumpBegins \/ PumpSleeps \/ PumpFails \/ PumpExecutes
    <2>1. CASE PumpWakes
        BY <2>1, <1>t DEF TypeOK, PumpWakes
    <2>2. CASE PumpBegins
        BY <2>2, <1>t DEF TypeOK, PumpBegins
    <2>3. CASE PumpSleeps
        BY <2>3, <1>t DEF TypeOK, PumpSleeps
    <2>4. CASE PumpFails
        BY <2>4, <1>t DEF TypeOK, PumpFails
    <2>5. CASE PumpExecutes
        BY <2>5, <1>t DEF TypeOK, PumpExecutes
    <2> QED BY <1>2, <2>1, <2>2, <2>3, <2>4, <2>5
<1>3. CASE PumpCompletes
    <2>1. PICK samples \in [1..GroupSize -> Verdicts] :
            /\ retained' = [g \in DOMAIN retained \cup {next - 1} |->
                              IF g = next - 1
                              THEN [version |-> lease, excluded |-> ~Eligible(samples),
                                    clean |-> \A i \in 1..GroupSize : samples[i] = "eligible",
                                    delivered |-> FALSE]
                              ELSE retained[g]]
            /\ stopped' = (stopped \/ \E i \in 1..GroupSize : samples[i] = "unproven")
            /\ paused' = (paused \/ (stopped \/ \E i \in 1..GroupSize : samples[i] = "unproven"))
        BY <1>3 DEF PumpCompletes
    <2> DEFINE e == [version |-> lease, excluded |-> ~Eligible(samples),
                     clean |-> \A i \in 1..GroupSize : samples[i] = "eligible", delivered |-> FALSE]
    <2>2. e \in Entry
        BY <1>t DEF TypeOK, Entry, Eligible
    <2> HIDE DEF e
    <2>3. retained' \in [DOMAIN retained' -> Entry]
        <3>1. retained' = [g \in DOMAIN retained \cup {next - 1} |-> IF g = next - 1 THEN e ELSE retained[g]]
            BY <2>1 DEF e
        <3> QED BY <1>t, <2>2, <3>1 DEF TypeOK
    <2>4. /\ pump' = "loop"
          /\ UNCHANGED <<learner, next, committed, policy, lease, op, late, closeAt, controller>>
        BY <1>3 DEF PumpCompletes
    <2>5. UNCHANGED <<pc, step, held, trained, dropped, result, cstate, cversion>>
        BY <2>4 DEF learner, controller
    <2> QED BY <1>t, <2>3, <2>4, <2>5 DEF TypeOK
<1>4. CASE TakeGroup
    <2>1. PICK g \in DOMAIN retained : retained' = [retained EXCEPT ![g].delivered = TRUE] /\ held' = held \cup {g}
        BY <1>4 DEF TakeGroup, Undelivered
    <2>2. retained' \in [DOMAIN retained' -> Entry] /\ held' \subseteq Nat
        BY <1>g, <1>t, <2>1 DEF TypeOK, Entry
    <2> QED BY <1>4, <1>t, <2>2 DEF TypeOK, TakeGroup
<1>5. CASE DropGroup
    <2>1. PICK g \in DOMAIN retained : LET accepted == \A h \in DOMAIN retained : g <= h
             IN  /\ retained' = IF accepted THEN Remove({g})
                                ELSE [retained EXCEPT ![g].delivered = TRUE]
                 /\ committed' = IF accepted THEN g + 1 ELSE committed
                 /\ changed' = (changed \/ accepted)
                 /\ dropped' = IF accepted THEN dropped \cup {g} ELSE dropped
                 /\ pc' = IF accepted THEN pc ELSE "refused"
        BY <1>5 DEF DropGroup, Undelivered
    <2>2. g \in Nat
        BY <1>g
    <2>3. retained' \in [DOMAIN retained' -> Entry]
        <3>1. retained' = Remove({g}) \/ retained' = [retained EXCEPT ![g].delivered = TRUE]
            BY <2>1
        <3>2. retained \in [DOMAIN retained -> Entry]
            BY <1>t DEF TypeOK
        <3>3. CASE retained' = Remove({g})
            BY <3>2, <3>3 DEF Remove
        <3>4. CASE retained' = [retained EXCEPT ![g].delivered = TRUE]
            BY <3>2, <3>4 DEF Entry
        <3> QED BY <3>1, <3>3, <3>4
    <2> QED BY <1>5, <1>t, <2>1, <2>2, <2>3 DEF TypeOK, DropGroup
<1>6. CASE GiveUp \/ Proceed \/ CallRaises \/ TimesOut \/ LateRequest
    <2>1. CASE GiveUp
        BY <2>1, <1>t DEF TypeOK, Calls, GiveUp
    <2>2. CASE Proceed
        BY <2>2, <1>t DEF TypeOK, Calls, Proceed
    <2>3. CASE CallRaises
        BY <2>3, <1>t DEF TypeOK, Calls, CallRaises
    <2>4. CASE TimesOut
        BY <2>4, <1>t DEF TypeOK, Calls, TimesOut
    <2>5. CASE LateRequest
        BY <2>5, <1>t DEF TypeOK, Calls, LateRequest
    <2> QED BY <1>6, <2>1, <2>2, <2>3, <2>4, <2>5
<1>7. CASE CallPause \/ CallSnapshot \/ CallActivate \/ CallResume
    <2>1. PICK k \in Kinds : op' = [kind |-> k, at |-> "begin", late |-> FALSE]
        BY <1>7 DEF CallPause, CallSnapshot, CallActivate, CallResume, Submit, Kinds
    <2>2. op' \in Operations
        BY <2>1, BeginFacts
    <2> QED BY <1>7, <1>t, <2>2 DEF TypeOK, CallPause, CallSnapshot, CallActivate, CallResume, Submit, Calls
<1>8. CASE Train
    <2>1. \/ retained' = Remove(held) /\ committed' = Highwater(held) /\ changed' = TRUE /\ pc' = "snapshot"
             /\ OldestPrefix(held)
          \/ pc' = "refused" /\ UNCHANGED <<retained, committed, changed>>
        BY <1>8 DEF Train
    <2>2. retained' \in [DOMAIN retained' -> Entry]
        BY <1>t, <2>1 DEF TypeOK, Remove
    <2>3. committed' \in Nat
        <3> SUFFICES ASSUME committed' = Highwater(held) PROVE committed' \in Nat
            BY <1>t, <2>1 DEF TypeOK
        <3>1. PICK hi, m \in Nat : Mail(hi, m)
            BY DEF IndInv, Mailbox
        <3>2. held = committed..(m - 1) /\ Cardinality(held) = GroupsPerStep /\ committed \in Nat
            BY <1>8, <1>t, <3>1 DEF Train, Mail, Collecting, Calls, IndInv, Accounted, TypeOK
        <3>3. committed <= m - 1
            BY <3>1, <3>2, FS_EmptySet, ProviderConstants
        <3>4. (m - 1) \in held /\ \A h \in held : h <= m - 1
            BY <3>1, <3>2, <3>3
        <3>5. Highwater(held) \in Nat
            <4>1. \E g \in held : \A h \in held : h <= g
                BY <3>4
            <4> QED BY <1>t, <4>1 DEF Highwater, TypeOK
        <3> QED BY <3>5
    <2> QED BY <1>8, <1>t, <2>1, <2>2, <2>3 DEF TypeOK, Train
<1>9. CASE LateStarts
    <2>1. op' \in Operations
        BY <1>9, BeginFacts DEF LateStarts
    <2> QED BY <1>9, <1>t, <2>1 DEF TypeOK, LateStarts
<1>10. CASE PauseBegins \/ PauseDrained \/ ActivateLoads
    <2>1. op' \in Operations
        BY <1>10, <1>t, FreeFacts, GotoFacts DEF PauseBegins, PauseDrained, ActivateLoads, At, TypeOK
    <2>2. CASE PauseBegins
        BY <2>2, <1>t, <2>1 DEF TypeOK, PauseBegins
    <2>3. CASE PauseDrained
        BY <2>3, <1>t, <2>1 DEF TypeOK, PauseDrained
    <2>4. CASE ActivateLoads
        BY <2>4, <1>t, <2>1 DEF TypeOK, ActivateLoads
    <2> QED BY <1>10, <2>2, <2>3, <2>4
<1>11. CASE PauseProved \/ PauseReturns \/ ControlFails \/ ResumeBegins \/ ResumeAcknowledged \/ ResumeReturns
    <2>1. op # Free
        BY <1>11, FreeFacts DEF PauseProved, PauseReturns, ControlFails, ResumeBegins, ResumeAcknowledged, ResumeReturns, At
    <2>2. op' \in Operations /\ result' \in {"pending", "ok", "raised"}
        BY <1>11, <1>t, <2>1, GotoFacts, EndFacts
        DEF PauseProved, PauseReturns, ControlFails, ResumeBegins, ResumeAcknowledged, ResumeReturns, At, TypeOK
    <2>3. UNCHANGED <<pc, step, held, trained, dropped, late, closeAt>>
        BY <1>11 DEF PauseProved, PauseReturns, ControlFails, ResumeBegins, ResumeAcknowledged, ResumeReturns, End
    <2>4. CASE PauseProved
        BY <2>4, <1>t, <2>2, <2>3 DEF TypeOK, PauseProved
    <2>5. CASE PauseReturns
        BY <2>5, <1>t, <2>2, <2>3 DEF TypeOK, PauseReturns
    <2>6. CASE ControlFails
        BY <2>6, <1>t, <2>2, <2>3 DEF TypeOK, ControlFails
    <2>7. CASE ResumeBegins
        BY <2>7, <1>t, <2>2, <2>3 DEF TypeOK, ResumeBegins
    <2>8. CASE ResumeAcknowledged
        BY <2>8, <1>t, <2>2, <2>3 DEF TypeOK, ResumeAcknowledged
    <2>9. CASE ResumeReturns
        BY <2>9, <1>t, <2>2, <2>3 DEF TypeOK, ResumeReturns
    <2> QED BY <1>11, <2>4, <2>5, <2>6, <2>7, <2>8, <2>9
<1>12. CASE ActivateBegins \/ ActivateEnds \/ ActivateFails
    <2>1. op # Free
        BY <1>12, FreeFacts DEF ActivateBegins, ActivateEnds, ActivateFails, At
    <2>2. op' \in Operations /\ result' \in {"pending", "ok", "raised"}
        BY <1>12, <1>t, <2>1, GotoFacts, EndFacts DEF ActivateBegins, ActivateEnds, ActivateFails, At, TypeOK
    <2>3. UNCHANGED <<pc, step, held, trained, dropped, late, closeAt>>
        BY <1>12 DEF ActivateBegins, ActivateEnds, ActivateFails, End
    <2>4. (ActivateEnds \/ ActivateFails) => policy - 1 \in Nat
        BY <1>t DEF ActivateEnds, ActivateFails, At, IndInv, Serving, Loading, TypeOK
    <2>5. CASE ActivateBegins
        BY <2>5, <1>t, <2>2, <2>3, <2>4 DEF TypeOK, ActivateBegins
    <2>6. CASE ActivateEnds
        BY <2>6, <1>t, <2>2, <2>3, <2>4 DEF TypeOK, ActivateEnds
    <2>7. CASE ActivateFails
        BY <2>7, <1>t, <2>2, <2>3, <2>4 DEF TypeOK, ActivateFails
    <2> QED BY <1>12, <2>5, <2>6, <2>7
<1>13. CASE CallClose \/ CloseAdvances \/ Done
    <2>1. CASE CallClose
        BY <2>1, <1>t DEF TypeOK, vars, CallClose
    <2>2. CASE CloseAdvances
        BY <2>2, <1>t DEF TypeOK, vars, CloseAdvances
    <2>3. CASE Done
        BY <2>3, <1>t DEF TypeOK, vars, Done
    <2> QED BY <1>13, <2>1, <2>2, <2>3
<1> QED BY <1>1, <1>2, <1>3, <1>4, <1>5, <1>6, <1>7, <1>8, <1>9, <1>10, <1>11, <1>12, <1>13
    DEF Next, PumpStep, OpStep, LearnerStep

-----------------------------------------------------------------------------
(* Operations and the rest of the state *)

\* What a control call does: it begins an operation of its kind.
LEMMA SubmitFacts ==
    ASSUME CallPause \/ CallSnapshot \/ CallActivate \/ CallResume
    PROVE  /\ op = Free /\ op'.at = "begin" /\ op'.late = FALSE /\ result' = "pending"
           /\ \/ op'.kind = "pause" /\ pc = "collect" /\ pc' = "training" /\ Cardinality(held) = GroupsPerStep
              \/ op'.kind = "pause" /\ pc = "snapshot" /\ pc' = "publish"
              \/ op'.kind = "activate" /\ pc = "activate" /\ pc' = "activated"
              \/ op'.kind = "resume" /\ pc = "resume" /\ pc' = "resumed"
           /\ UNCHANGED <<step, held, trained, dropped, mailbox, flags, policy, producer, late, closeAt, stream, controller>>
<1>1. ASSUME NEW here, NEW there, NEW k, Submit(here, there, k)
      PROVE  /\ op = Free /\ op'.at = "begin" /\ op'.late = FALSE /\ result' = "pending"
             /\ op'.kind = k /\ pc = here /\ pc' = there
             /\ UNCHANGED <<step, held, trained, dropped, mailbox, flags, policy, producer, late, closeAt, stream, controller>>
    BY <1>1 DEF Submit
<1>2. CASE CallPause
    <2>1. Submit("collect", "training", "pause") /\ Cardinality(held) = GroupsPerStep
        BY <1>2 DEF CallPause
    <2> QED BY <1>1, <2>1
<1>3. CASE CallSnapshot
    BY <1>1, <1>3 DEF CallSnapshot
<1>4. CASE CallActivate
    BY <1>1, <1>4 DEF CallActivate
<1>5. CASE CallResume
    BY <1>1, <1>5 DEF CallResume
<1> QED BY <1>2, <1>3, <1>4, <1>5

\* What an operation leaves alone.
LEMMA OpFrame ==
    ASSUME OpStep
    PROVE  /\ UNCHANGED <<pc, step, held, trained, dropped, retained, next, committed, pump, lease, timedOut,
                          closing, closeAt, stopped>>
           /\ error => error'
<1> USE DEF learner, mailbox, flags, producer, stream, controller, Elsewhere, End
<1>1. CASE PauseBegins \/ PauseDrained \/ PauseProved \/ PauseReturns \/ ControlFails
    BY <1>1 DEF PauseBegins, PauseDrained, PauseProved, PauseReturns, ControlFails
<1>2. CASE ActivateBegins \/ ActivateLoads \/ ActivateEnds \/ ActivateFails
    BY <1>2 DEF ActivateBegins, ActivateLoads, ActivateEnds, ActivateFails
<1>3. CASE ResumeBegins \/ ResumeAcknowledged \/ ResumeReturns \/ LateStarts
    BY <1>3 DEF ResumeBegins, ResumeAcknowledged, ResumeReturns, LateStarts
<1> QED BY <1>1, <1>2, <1>3 DEF OpStep

\* What getting a group, dropping one and committing the trained ones leave alone.
LEMMA GetFrame ==
    ASSUME TakeGroup \/ DropGroup \/ Train
    PROVE  /\ UNCHANGED <<result, next, paused, closing, error, ready, timedOut, policy, pump, lease, op, late, closeAt,
                          stream, controller>>
           /\ \/ pc = "collect" /\ pc' \in {"collect", "refused"}
              \/ pc = "training" /\ result = "ok" /\ pc' \in {"snapshot", "refused"}
<1> USE DEF flags, producer
<1>1. CASE TakeGroup
    BY <1>1 DEF TakeGroup
<1>2. CASE DropGroup
    BY <1>2 DEF DropGroup
<1>3. CASE Train
    BY <1>3 DEF Train
<1> QED BY <1>1, <1>2, <1>3


-----------------------------------------------------------------------------
(* Who waits for an operation *)

\* Every operation keeps its waiter until it ends or the waiter gives up.
LEMMA OwnedNext == ASSUME IndInv, [Next]_vars PROVE Owned'
<1> USE DEF learner, mailbox, flags, producer, stream, controller, LearnerOnly, Elsewhere
<1>t. TypeOK /\ Owned /\ op \in Operations /\ op' \in Operations
    BY TypeNext DEF IndInv, TypeOK
<1>f. (op = Free <=> op.kind = "none") /\ (op' = Free <=> op'.kind = "none")
    BY <1>t, FreeFacts
<1>1. CASE UNCHANGED vars \/ Done
    BY <1>1, <1>t DEF Owned, Waits, Closing, vars, Done
<1>2. CASE PumpStep
    BY <1>2, <1>t DEF Owned, Waits, Closing, PumpStep, PumpWakes, PumpBegins, PumpSleeps, PumpFails, PumpExecutes,
        PumpCompletes, Active
<1>3. CASE TakeGroup \/ DropGroup
    <2>1. /\ UNCHANGED <<op, result, timedOut, error, late, closeAt, closing, pump>>
          /\ pc = "collect" /\ pc' \in {"collect", "refused"}
        <3>1. CASE TakeGroup
            BY <3>1 DEF TakeGroup
        <3>2. CASE DropGroup
            BY <3>2 DEF DropGroup
        <3> QED BY <1>3, <3>1, <3>2
    <2>2. result = "ok"
        BY <1>t, <2>1 DEF Owned, Waits, TypeOK, Calls
    <2> QED BY <1>t, <2>1, <2>2 DEF Owned, Waits, Closing
<1>4. CASE GiveUp \/ Train \/ Proceed
    BY <1>4, <1>t DEF Owned, Waits, Closing, Calls, GiveUp, Train, Proceed
<1>5. CASE CallRaises \/ LateRequest
    <2>1. CASE CallRaises
        <3>1. /\ UNCHANGED <<op, timedOut, error, late, closeAt, closing, pump>>
              /\ result = "raised" /\ pc' = "close" /\ result' = "ok"
            BY <2>1 DEF CallRaises
        <3>2. ~timedOut /\ op = Free /\ pc \in Calls
            BY <1>t, <3>1 DEF Owned, Waits
        <3> QED BY <1>t, <3>1, <3>2, FreeFacts DEF Owned, Waits, Closing, Calls
    <2>2. CASE LateRequest
        <3>1. /\ UNCHANGED <<op, pc, result, timedOut, error, closeAt, closing, pump>>
              /\ timedOut /\ closeAt = "none"
            BY <2>2 DEF LateRequest
        <3> QED BY <1>t, <3>1 DEF Owned, Waits, Closing
    <2> QED BY <1>5, <2>1, <2>2
<1>6. CASE TimesOut
    BY <1>6, <1>t DEF Owned, Waits, Closing, TimesOut, TypeOK
<1>7. CASE CallPause \/ CallSnapshot \/ CallActivate \/ CallResume
    <2>1. op' # Free
        BY <1>7, <1>f, SubmitFacts
    <2>2. /\ op = Free /\ op'.late = FALSE /\ result' = "pending" /\ pc \notin {"close", "closing", "closed"}
          /\ \/ op'.kind = "pause" /\ pc' \in {"training", "publish"}
             \/ op'.kind = "activate" /\ pc' = "activated"
             \/ op'.kind = "resume" /\ pc' = "resumed"
          /\ UNCHANGED <<timedOut, error, closing, late, closeAt, pump>>
        BY <1>7, SubmitFacts
    <2> QED BY <1>t, <2>1, <2>2 DEF Owned, Waits, Closing
<1>8. CASE LateStarts
    <2>1. op'.kind = late /\ op'.at = "begin" /\ op'.late = TRUE /\ op' # Free
        BY <1>8, BeginFacts DEF LateStarts
    <2>2. late \in Kinds /\ op = Free /\ late' = "taken" /\ UNCHANGED <<pc, result, timedOut, error, closeAt, closing, pump>>
        BY <1>8 DEF LateStarts
    <2>3. late # "none" /\ "taken" \notin Kinds
        BY <2>2 DEF Kinds
    <2> QED BY <1>t, <2>1, <2>2, <2>3 DEF Owned, Waits, Closing
<1>9. CASE PauseBegins \/ PauseDrained \/ ActivateLoads
    <2>1. /\ op # Free /\ op'.kind = op.kind /\ op'.late = op.late
          /\ \/ op'.at \in {"drain", "proof"}
             \/ op.at \notin {"begin", "drain", "proof"}
        BY <1>9, <1>t, FreeFacts, GotoFacts DEF PauseBegins, PauseDrained, ActivateLoads, At
    <2>2. UNCHANGED <<pc, result, late, timedOut, error, closeAt, closing, pump>>
        BY <1>9 DEF PauseBegins, PauseDrained, ActivateLoads
    <2> QED BY <1>t, <1>f, <2>1, <2>2 DEF Owned, Waits, Closing
<1>10. ASSUME op # Free, NEW outcome \in {"ok", "raised"}, End(outcome), UNCHANGED <<timedOut, closing, pump>>, error => error'
       PROVE  Owned'
    <2>1. /\ op' = Free /\ op'.kind = "none" /\ op'.late = FALSE /\ result' \in {"ok", "raised"}
          /\ timedOut => result' = result
          /\ result' = "raised" => result \in {"pending", "raised"}
          /\ UNCHANGED <<pc, late, closeAt>>
        BY <1>10, <1>t, EndFacts
    <2> QED BY <1>10, <1>t, <2>1 DEF Owned, Waits, Closing, Calls
<1>11. ASSUME op # Free, NEW w, op'.kind = op.kind, op'.late = op.late, op'.at = w,
              UNCHANGED <<pc, result, late, closeAt, timedOut, closing, pump>>, error => error',
              op.late => w \in {"begin", "drain", "proof"}
       PROVE  Owned'
    BY <1>11, <1>t, <1>f DEF Owned, Waits, Closing
<1>12. CASE PauseProved
    <2>1. op # Free /\ op.kind = "pause" /\ UNCHANGED <<timedOut, closing, pump, error>>
        BY <1>12, FreeFacts DEF PauseProved, At
    <2>2. CASE error \/ stopped \/ timedOut
        BY <1>10, <1>12, <2>1, <2>2 DEF PauseProved
    <2>3. CASE ~(error \/ stopped \/ timedOut)
        <3>1. Goto("proved") /\ UNCHANGED <<pc, result, late, closeAt>> /\ ~op.late
            BY <1>12, <1>t, <2>3 DEF PauseProved, Owned
        <3>2. op'.kind = op.kind /\ op'.late = op.late /\ op'.at = "proved"
            BY <1>t, <2>1, <3>1, GotoFacts
        <3> QED BY <1>11, <2>1, <3>1, <3>2
    <2> QED BY <2>2, <2>3
<1>13. CASE PauseReturns \/ ControlFails \/ ActivateEnds \/ ActivateFails \/ ResumeReturns
    <2>1. op # Free /\ UNCHANGED <<timedOut, closing, pump>> /\ (error => error')
        BY <1>13, FreeFacts DEF PauseReturns, ControlFails, ActivateEnds, ActivateFails, ResumeReturns, At
    <2>2. \E outcome \in {"ok", "raised"} : End(outcome)
        BY <1>13 DEF PauseReturns, ControlFails, ActivateEnds, ActivateFails, ResumeReturns
    <2> QED BY <1>10, <2>1, <2>2
<1>14. CASE ActivateBegins \/ ResumeBegins \/ ResumeAcknowledged
    <2>1. op # Free /\ UNCHANGED <<timedOut, closing, pump, error>>
        BY <1>14, FreeFacts DEF ActivateBegins, ResumeBegins, ResumeAcknowledged, At
    <2>2. CASE End("raised")
        BY <1>10, <2>1, <2>2
    <2>3. CASE ~End("raised")
        <3>1. /\ \/ op.kind = "activate" /\ Goto("load") /\ ~error
                 \/ op.kind = "resume" /\ Goto("call") /\ ~error
                 \/ op.kind = "resume" /\ Goto("acknowledged") /\ ~timedOut
              /\ UNCHANGED <<pc, result, late, closeAt>>
            BY <1>14, <2>3 DEF ActivateBegins, ResumeBegins, ResumeAcknowledged, At, ActivationAllowed, ResumptionAllowed
        <3>2. ~op.late
            BY <1>t, <3>1 DEF Owned
        <3>3. op'.kind = op.kind /\ op'.late = op.late
            BY <1>t, <2>1, <3>1, GotoFacts
        <3> QED BY <1>11, <2>1, <3>1, <3>2, <3>3
    <2> QED BY <2>2, <2>3
<1>15. CASE CallClose
    BY <1>15, <1>t DEF Owned, Waits, Closing, Calls, CallClose
<1>16. CASE CloseAdvances
    BY <1>16, <1>t DEF Owned, Waits, Closing, Calls, CloseAdvances, OutstandingEnded
<1> QED BY <1>1, <1>2, <1>3, <1>4, <1>5, <1>6, <1>7, <1>8, <1>9, <1>12, <1>13, <1>14, <1>15, <1>16
    DEF Next, OpStep, LearnerStep

\* The place of an operation changes what may be going on only when it drains.
LEMMA StillNext == ASSUME IndInv, [Next]_vars PROVE Still'
<1> USE DEF learner, mailbox, flags, producer, stream, controller, LearnerOnly, Elsewhere
<1>t. TypeOK /\ Owned /\ Still /\ op \in Operations /\ op' \in Operations
    BY TypeNext DEF IndInv, TypeOK
<1>1. CASE UNCHANGED vars \/ Done
    BY <1>1, <1>t DEF Still, Quiet, Active, At, vars, Done
<1>2. CASE PumpStep
    <2>1. UNCHANGED <<op, pc, result>>
        BY <1>2 DEF PumpStep, PumpWakes, PumpBegins, PumpSleeps, PumpFails, PumpExecutes, PumpCompletes
    <2>2. (paused => paused') /\ (Active' => Active \/ ~paused) /\ (Active \/ UNCHANGED stopped)
        <3>1. CASE PumpCompletes
            BY <3>1 DEF PumpCompletes, Active
        <3>2. CASE ~PumpCompletes
            BY <1>2, <3>2 DEF PumpStep, PumpWakes, PumpBegins, PumpSleeps, PumpFails, PumpExecutes, Active, Admission
        <3> QED BY <3>1, <3>2
    <2> QED BY <1>t, <2>1, <2>2 DEF Still, Quiet, At
<1>3. CASE TakeGroup \/ DropGroup \/ Train
    BY <1>3, <1>t, GetFrame DEF Still, Quiet, Active, At
<1>4. CASE GiveUp \/ Proceed \/ CallRaises \/ TimesOut \/ LateRequest
    BY <1>4, <1>t DEF Still, Quiet, Active, At, GiveUp, Proceed, CallRaises, TimesOut, LateRequest
<1>5. CASE CallPause \/ CallSnapshot \/ CallActivate \/ CallResume
    BY <1>5, <1>t, SubmitFacts DEF Still, Quiet, Active, At
<1>6. CASE LateStarts
    <2>1. op'.at = "begin" /\ op'.late = TRUE /\ UNCHANGED <<pc, result, paused, pump, stopped>>
        BY <1>6 DEF LateStarts
    <2> QED BY <1>t, <2>1 DEF Still, Quiet, Active, At
<1>7. CASE PauseBegins \/ PauseDrained \/ ActivateLoads
    <2>1. CASE PauseBegins
        <3>1. op'.kind = "pause" /\ op'.at = "drain" /\ paused' /\ UNCHANGED <<pc, result, pump, stopped>>
            BY <2>1, <1>t, FreeFacts, GotoFacts DEF PauseBegins, At
        <3> QED BY <1>t, <3>1 DEF Still, Quiet, Active, At
    <2>2. CASE PauseDrained
        <3>1. op'.kind = "pause" /\ op'.at = "proof" /\ op.at = "drain" /\ ~Active /\ UNCHANGED <<pc, result, paused, pump, stopped>>
            BY <2>2, <1>t, FreeFacts, GotoFacts DEF PauseDrained, At, GroupEnded
        <3> QED BY <1>t, <3>1 DEF Still, Quiet, Active, At
    <2>3. CASE ActivateLoads
        <3>1. op'.kind = "activate" /\ op.at = "load" /\ UNCHANGED <<pc, result, paused, pump, stopped>>
            BY <2>3, <1>t, FreeFacts, GotoFacts DEF ActivateLoads, At
        <3> QED BY <1>t, <3>1 DEF Still, Quiet, Active, At
    <2> QED BY <1>7, <2>1, <2>2, <2>3
<1>8. ASSUME op # Free, NEW outcome \in {"ok", "raised"}, End(outcome), UNCHANGED <<paused, pump, stopped>>,
             pc = "training" /\ result = "pending" /\ outcome = "ok" => paused /\ ~Active
      PROVE  Still'
    <2>1. /\ op'.kind = "none" /\ op'.at = "none" /\ UNCHANGED pc /\ result' # "pending"
          /\ result' = IF result = "pending" THEN outcome ELSE result
        BY <1>8, <1>t, EndFacts
    <2> QED BY <1>8, <1>t, <2>1 DEF Still, Quiet, Active, At
<1>9. CASE PauseProved
    <2>1. op # Free /\ op.kind = "pause" /\ op.at = "proof" /\ UNCHANGED <<paused, pump, stopped>>
        BY <1>9, FreeFacts DEF PauseProved, At
    <2>2. CASE error \/ stopped \/ timedOut
        BY <1>8, <1>9, <2>1, <2>2 DEF PauseProved
    <2>3. CASE ~(error \/ stopped \/ timedOut)
        <3>1. Goto("proved") /\ UNCHANGED <<pc, result>>
            BY <1>9, <2>3 DEF PauseProved
        <3>2. op'.kind = "pause" /\ op'.at = "proved"
            BY <1>t, <2>1, <3>1, GotoFacts
        <3> QED BY <1>t, <2>1, <2>3, <3>1, <3>2 DEF Still, Quiet, Active, At
    <2> QED BY <2>2, <2>3
<1>10. CASE PauseReturns \/ ControlFails \/ ActivateEnds \/ ActivateFails
    <2>1. op # Free /\ UNCHANGED <<paused, pump, stopped>>
        BY <1>10, FreeFacts DEF PauseReturns, ControlFails, ActivateEnds, ActivateFails, At
    <2>2. CASE PauseReturns
        BY <1>8, <1>t, <2>1, <2>2 DEF PauseReturns, At, Still
    <2>3. CASE ControlFails \/ ActivateFails
        BY <1>8, <2>1, <2>3 DEF ControlFails, ActivateFails
    <2>4. CASE ActivateEnds
        BY <1>8, <1>t, <2>1, <2>4 DEF ActivateEnds, At, Still
    <2> QED BY <1>10, <2>2, <2>3, <2>4
<1>11. CASE ActivateBegins \/ ResumeBegins \/ ResumeAcknowledged
    <2>1. op # Free /\ UNCHANGED <<paused, pump, stopped>>
        BY <1>11, FreeFacts DEF ActivateBegins, ResumeBegins, ResumeAcknowledged, At
    <2>2. CASE End("raised")
        BY <1>8, <2>1, <2>2
    <2>3. CASE ~End("raised")
        <3>1. /\ \/ op.kind = "activate" /\ Goto("load") /\ paused /\ ~Active
                 \/ op.kind = "resume" /\ Goto("call") /\ ~error
                 \/ op.kind = "resume" /\ Goto("acknowledged") /\ op.at = "call"
              /\ UNCHANGED <<pc, result>>
            BY <1>11, <2>3 DEF ActivateBegins, ResumeBegins, ResumeAcknowledged, At, ActivationAllowed, ResumptionAllowed
        <3>2. paused /\ ~Active
            BY <1>t, <3>1 DEF Owned, Still
        <3>3. op'.kind = op.kind /\ op'.late = op.late /\ op'.at \in {"load", "call", "acknowledged"}
            BY <1>t, <2>1, <3>1, GotoFacts
        <3> QED BY <1>t, <2>1, <3>1, <3>2, <3>3 DEF Still, Quiet, Active, At
    <2> QED BY <2>2, <2>3
<1>12. CASE ResumeReturns
    <2>1. op # Free /\ op.kind = "resume" /\ UNCHANGED <<pump, stopped>>
        BY <1>12, FreeFacts DEF ResumeReturns, At
    <2>2. CASE stopped
        <3>1. End("raised") /\ UNCHANGED paused
            BY <1>12, <2>2 DEF ResumeReturns
        <3> QED BY <1>8, <2>1, <3>1
    <2>3. CASE ~stopped
        <3>1. End("ok")
            BY <1>12, <2>3 DEF ResumeReturns
        <3>2. op'.kind = "none" /\ op'.at = "none" /\ UNCHANGED pc /\ result' # "pending"
            BY <1>t, <2>1, <3>1, EndFacts
        <3>3. pc \in {"resumed", "close", "closing", "closed"}
            BY <1>t, <2>1 DEF Owned, Waits
        <3> QED BY <3>2, <3>3 DEF Still, Quiet, At
    <2> QED BY <2>2, <2>3
<1>13. CASE CallClose \/ CloseAdvances
    BY <1>13, <1>t DEF Still, Quiet, Active, At, CallClose, CloseAdvances
<1> QED BY <1>1, <1>2, <1>3, <1>4, <1>5, <1>6, <1>7, <1>9, <1>10, <1>11, <1>12, <1>13
    DEF Next, OpStep, LearnerStep

-----------------------------------------------------------------------------
(* The controller and the policy *)

\* Admission opens only where the controller serves the provider's policy.
LEMMA ServingNext == ASSUME IndInv, [Next]_vars PROVE Serving'
<1> USE DEF learner, mailbox, flags, producer, stream, controller, LearnerOnly, Elsewhere
<1>t. /\ TypeOK /\ Owned /\ Still /\ Serving /\ op \in Operations /\ op' \in Operations
      /\ policy \in Nat /\ cversion \in Nat /\ \A g \in DOMAIN retained : retained[g].version \in Nat
    BY TypeNext DEF IndInv, TypeOK, Entry
<1>v. ASSUME DOMAIN retained' \subseteq DOMAIN retained,
             \A g \in DOMAIN retained' : retained'[g].version = retained[g].version,
             NEW n \in Nat, \A g \in DOMAIN retained : retained[g].version <= n
      PROVE  \A g \in DOMAIN retained' : retained'[g].version <= n
    BY <1>v
<1>1. CASE UNCHANGED vars \/ Done
    BY <1>1, <1>t DEF Serving, Loading, Active, vars, Done
<1>2. CASE PumpStep
    <2>1. CASE PumpWakes \/ PumpBegins \/ PumpSleeps
        BY <2>1, <1>t DEF Serving, Loading, Active, PumpWakes, PumpBegins, PumpSleeps, Admission
    <2>2. CASE PumpFails
        BY <2>2, <1>t DEF Serving, Loading, Active, PumpFails
    <2>3. CASE PumpExecutes
        BY <2>3, <1>t DEF Serving, Loading, Active, PumpExecutes
    <2>4. CASE PumpCompletes
        <3>1. /\ UNCHANGED <<policy, error, closing, op, cstate, cversion>>
              /\ pump = "executing" /\ pump' = "loop" /\ (paused => paused')
            BY <2>4 DEF PumpCompletes
        <3>2. Active /\ ~Loading /\ ~Active' /\ lease = policy
            BY <1>t, <3>1 DEF Active, Still, Serving, Loading
        <3>3. PICK e : e.version = lease /\ retained' = [g \in DOMAIN retained \cup {next - 1} |-> IF g = next - 1 THEN e ELSE retained[g]]
            BY <2>4 DEF PumpCompletes
        <3>4. \A g \in DOMAIN retained' : retained'[g].version <= policy
            BY <1>t, <3>2, <3>3 DEF Serving
        <3> QED BY <1>t, <3>1, <3>2, <3>4 DEF Serving, Loading
    <2> QED BY <1>2, <2>1, <2>2, <2>3, <2>4 DEF PumpStep
<1>3. CASE TakeGroup \/ DropGroup \/ Train
    <2> DEFINE Kept(r) == DOMAIN r \subseteq DOMAIN retained /\ \A g \in DOMAIN r : r[g].version = retained[g].version
    <2>1. Kept(retained')
        <3>1. \/ \E g \in DOMAIN retained : retained' = [retained EXCEPT ![g].delivered = TRUE]
              \/ \E ids : retained' = Remove(ids)
              \/ UNCHANGED retained
            <4>1. CASE TakeGroup
                BY <4>1 DEF TakeGroup, Undelivered
            <4>2. CASE DropGroup
                BY <4>2 DEF DropGroup, Undelivered
            <4>3. CASE Train
                BY <4>3 DEF Train
            <4> QED BY <1>3, <4>1, <4>2, <4>3
        <3>2. ASSUME NEW ids, retained' = Remove(ids) PROVE Kept(retained')
            BY <3>2 DEF Remove
        <3>3. ASSUME NEW g \in DOMAIN retained, retained' = [retained EXCEPT ![g].delivered = TRUE] PROVE Kept(retained')
            BY <3>3, <1>t DEF TypeOK, Entry
        <3> QED BY <3>1, <3>2, <3>3
    <2>2. UNCHANGED <<paused, closing, error, policy, pump, lease, op, cstate, cversion>>
        BY <1>3, GetFrame
    <2> QED BY <1>t, <1>v, <2>1, <2>2 DEF Serving, Loading, Active
<1>4. CASE GiveUp \/ Proceed \/ CallRaises \/ TimesOut \/ LateRequest
    BY <1>4, <1>t DEF Serving, Loading, Active, GiveUp, Proceed, CallRaises, TimesOut, LateRequest
<1>5. CASE CallPause \/ CallSnapshot \/ CallActivate \/ CallResume
    <2>1. /\ op'.at = "begin" /\ op.kind = "none"
          /\ UNCHANGED <<retained, paused, closing, error, policy, pump, lease, cstate, cversion>>
        BY <1>5, SubmitFacts, FreeFacts
    <2> QED BY <1>t, <2>1 DEF Serving, Loading, Active
<1>6. CASE LateStarts
    <2>1. /\ op'.at = "begin" /\ op.kind = "none"
          /\ UNCHANGED <<retained, paused, closing, error, policy, pump, lease, cstate, cversion>>
        BY <1>6, FreeFacts DEF LateStarts
    <2> QED BY <1>t, <2>1 DEF Serving, Loading, Active
<1>7. CASE PauseBegins \/ PauseDrained
    <2>1. op.kind = "pause" /\ op'.kind = "pause" /\ op'.at \in {"drain", "proof"} /\ (paused => paused')
          /\ UNCHANGED <<retained, closing, error, policy, pump, lease, cstate, cversion>>
        BY <1>7, <1>t, FreeFacts, GotoFacts DEF PauseBegins, PauseDrained, At
    <2> QED BY <1>t, <2>1 DEF Serving, Loading, Active
<1>8. CASE ActivateLoads
    <2>1. /\ op.kind = "activate" /\ op'.kind = "activate" /\ op.at = "load" /\ op'.at = "loading"
          /\ UNCHANGED <<retained, paused, closing, error, policy, pump, lease, cversion>>
        BY <1>8, <1>t, FreeFacts, GotoFacts DEF ActivateLoads, At
    <2>2. paused /\ ~Active
        BY <1>t, <2>1 DEF Still
    <2> QED BY <1>t, <2>1, <2>2 DEF Serving, Loading, Active
<1>9. CASE PauseReturns \/ ControlFails
    <2>1. /\ op.kind # "activate" /\ op'.kind = "none" /\ op'.at = "none"
          /\ UNCHANGED <<retained, paused, closing, error, policy, pump, lease, cstate, cversion>>
        BY <1>9, <1>t, FreeFacts, EndFacts DEF PauseReturns, ControlFails, At
    <2> QED BY <1>t, <2>1 DEF Serving, Loading, Active
<1>10. CASE PauseProved
    <2>1. /\ op # Free /\ op.kind = "pause" /\ op.at = "proof"
          /\ UNCHANGED <<retained, paused, closing, error, policy, pump, lease, cversion>>
        BY <1>10, FreeFacts DEF PauseProved, At
    <2>2. op'.at \in {"none", "proved"}
        BY <1>10, <1>t, <2>1, EndFacts, GotoFacts DEF PauseProved
    <2>3. paused /\ ~Active
        BY <1>t, <2>1 DEF Still
    <2> QED BY <1>t, <2>1, <2>2, <2>3 DEF Serving, Loading, Active
<1>11. CASE ActivateBegins
    <2>1. /\ op # Free /\ op.kind = "activate" /\ op.at = "begin"
          /\ UNCHANGED <<retained, paused, closing, error, pump, lease, cstate, cversion>>
        BY <1>11, FreeFacts DEF ActivateBegins, At
    <2>2. CASE ActivationAllowed
        <3>1. policy' = policy + 1 /\ op'.kind = "activate" /\ op'.at = "load"
            BY <1>11, <1>t, <2>1, <2>2, GotoFacts DEF ActivateBegins
        <3>2. paused /\ ~Active /\ cversion = policy
            BY <1>t, <2>1, <2>2 DEF ActivationAllowed, Serving, Loading
        <3>3. \A g \in DOMAIN retained : retained[g].version <= policy'
            BY <1>t, <3>1 DEF Serving
        <3> QED BY <1>t, <2>1, <3>1, <3>2, <3>3 DEF Serving, Loading, Active
    <2>3. CASE ~ActivationAllowed
        <3>1. policy' = policy /\ op'.kind = "none" /\ op'.at = "none"
            BY <1>11, <1>t, <2>1, <2>3, EndFacts DEF ActivateBegins
        <3> QED BY <1>t, <2>1, <3>1 DEF Serving, Loading, Active
    <2> QED BY <2>2, <2>3
<1>12. CASE ActivateEnds \/ ActivateFails
    <2>1. /\ op # Free /\ op.kind = "activate" /\ op.at = "loading"
          /\ UNCHANGED <<retained, paused, closing, pump>>
        BY <1>12, FreeFacts DEF ActivateEnds, ActivateFails, At
    <2>2. op'.kind = "none" /\ op'.at = "none"
        BY <1>12, <1>t, <2>1, EndFacts DEF ActivateEnds, ActivateFails
    <2>3. paused /\ ~Active
        BY <1>t, <2>1 DEF Still
    <2>4. \/ error' /\ policy' = policy - 1
          \/ policy' = policy /\ cversion' = policy
        BY <1>12 DEF ActivateEnds, ActivateFails
    <2>5. policy = cversion + 1 /\ \A g \in DOMAIN retained : retained[g].version <= cversion
        BY <1>t, <2>1 DEF Serving, Loading
    <2>6. \A g \in DOMAIN retained : retained[g].version <= policy'
        BY <1>t, <2>4, <2>5
    <2> QED BY <2>1, <2>2, <2>3, <2>4, <2>6 DEF Serving, Loading, Active
<1>13. CASE ResumeBegins
    <2>1. /\ op # Free /\ op.kind = "resume" /\ op.at = "begin"
          /\ UNCHANGED <<retained, paused, closing, error, policy, pump, lease, cstate, cversion>>
        BY <1>13, FreeFacts DEF ResumeBegins, At
    <2>2. op'.at = "none" \/ (op'.at = "call" /\ ~error)
        BY <1>13, <1>t, <2>1, EndFacts, GotoFacts DEF ResumeBegins, ResumptionAllowed
    <2> QED BY <1>t, <2>1, <2>2 DEF Serving, Loading, Active
<1>14. CASE ResumeAcknowledged
    <2>1. /\ op # Free /\ op.kind = "resume" /\ op.at = "call" /\ cstate' = "running"
          /\ UNCHANGED <<retained, paused, closing, error, policy, pump, lease, cversion>>
        BY <1>14, FreeFacts DEF ResumeAcknowledged, At
    <2>2. op'.at \in {"none", "acknowledged"}
        BY <1>14, <1>t, <2>1, EndFacts, GotoFacts DEF ResumeAcknowledged
    <2> QED BY <1>t, <2>1, <2>2 DEF Serving, Loading, Active
<1>15. CASE ResumeReturns
    <2>1. /\ op # Free /\ op.kind = "resume" /\ op.at = "acknowledged"
          /\ UNCHANGED <<retained, closing, error, policy, pump, lease, cstate, cversion>>
        BY <1>15, FreeFacts DEF ResumeReturns, At
    <2>2. op'.kind = "none" /\ op'.at = "none"
        BY <1>15, <1>t, <2>1, EndFacts DEF ResumeReturns
    <2> QED BY <1>t, <2>1, <2>2 DEF Serving, Loading, Active
<1>16. CASE CallClose
    BY <1>16, <1>t DEF Serving, Loading, Active, CallClose
<1>17. CASE CloseAdvances
    <2>1. UNCHANGED <<retained, paused, closing, error, policy, pump, lease, op, cversion>>
        BY <1>17 DEF CloseAdvances
    <2>2. UNCHANGED cstate \/ closeAt = "controller"
        BY <1>17 DEF CloseAdvances
    <2>3. closeAt = "controller" => closing /\ pump = "ended" /\ op = Free
        BY <1>t DEF Owned
    <2> QED BY <1>t, <2>1, <2>2, <2>3, FreeFacts DEF Serving, Loading, Active
<1> QED BY <1>1, <1>2, <1>3, <1>4, <1>5, <1>6, <1>7, <1>8, <1>9, <1>10, <1>11, <1>12, <1>13, <1>14, <1>15, <1>16, <1>17
    DEF Next, OpStep, LearnerStep

-----------------------------------------------------------------------------
(* The mailbox *)

\* The groups the learner holds are the oldest ones and all delivered, so the commit of an
\* optimizer step is accepted and moves the cursor over exactly them.
LEMMA TrainCommits ==
    ASSUME IndInv, Train, NEW hi \in Nat, NEW m \in Nat, Mail(hi, m)
    PROVE  /\ held = committed..(m - 1) /\ committed < m /\ held' = {} /\ pc' = "snapshot"
           /\ retained' = [g \in m..(hi - 1) |-> retained[g]] /\ committed' = m
           /\ step' = step + 1 /\ trained' = trained \cup held /\ UNCHANGED <<dropped, next, pump, op, error>>
<1>1. held = committed..(m - 1) /\ Cardinality(held) = GroupsPerStep /\ committed \in Nat /\ m <= hi
      /\ DOMAIN retained = committed..(hi - 1) /\ \A g \in committed..(hi - 1) : retained[g].delivered <=> g < m
    BY DEF Train, Mail, Collecting, Calls, IndInv, Accounted, TypeOK
<1>2. committed <= m - 1
    BY <1>1, FS_EmptySet, ProviderConstants
<1>3. OldestPrefix(held)
    BY <1>1, <1>2 DEF OldestPrefix
<1>4. \A g \in held : ~retained[g].excluded
    <2>1. \A g \in held : g \in DOMAIN retained /\ retained[g].clean /\ retained[g].excluded = ~retained[g].clean
        BY DEF IndInv, Accounted
    <2> QED BY <2>1
<1>5. retained' = Remove(held) /\ committed' = Highwater(held) /\ pc' = "snapshot"
    BY <1>3, <1>4 DEF Train
<1>6. Highwater(held) = m
    <2>1. (m - 1) \in held /\ \A h \in held : h <= m - 1
        BY <1>1, <1>2
    <2>2. \A g \in held : (\A h \in held : h <= g) => g = m - 1
        BY <1>1, <2>1
    <2> DEFINE top == CHOOSE g \in held : \A h \in held : h <= g
    <2>3. top \in held /\ \A h \in held : h <= top
        <3>1. \E g \in held : \A h \in held : h <= g
            BY <2>1
        <3> QED BY <3>1
    <2>4. top = m - 1
        BY <2>2, <2>3
    <2>5. Highwater(held) = 1 + top
        BY DEF Highwater
    <2> HIDE DEF top
    <2> QED BY <2>4, <2>5
<1>7. DOMAIN retained \ held = m..(hi - 1)
    BY <1>1, <1>2
<1>8. retained' = [g \in m..(hi - 1) |-> retained[g]]
    BY <1>5, <1>7 DEF Remove
<1>9. step' = step + 1 /\ trained' = trained \cup held /\ held' = {} /\ UNCHANGED <<dropped, next, pump, op, error>>
    BY DEF Train, flags
<1> QED BY <1>1, <1>2, <1>5, <1>6, <1>8, <1>9

\* The oldest group that was not handed out is the first one the learner does not hold.
LEMMA OldestIsNext ==
    ASSUME IndInv, pc = "collect", NEW hi \in Nat, NEW m \in Nat, Mail(hi, m),
           NEW g \in Undelivered, \A h \in Undelivered : g <= h
    PROVE  g = m /\ m < hi /\ g \in DOMAIN retained
<1>1. /\ DOMAIN retained = committed..(hi - 1) /\ committed \in Nat /\ m \in committed..hi
      /\ \A h \in committed..(hi - 1) : retained[h].delivered <=> h < m
    BY DEF Mail, Collecting, IndInv, TypeOK
<1>2. g \in committed..(hi - 1) /\ ~retained[g].delivered
    BY <1>1 DEF Undelivered
<1>3. g >= m /\ m < hi
    BY <1>1, <1>2
<1>4. m \in Undelivered
    BY <1>1, <1>3 DEF Undelivered
<1> QED BY <1>1, <1>2, <1>3, <1>4

\* A drop that is accepted removes the oldest group, and the learner holds none.
LEMMA DropFacts ==
    ASSUME IndInv, DropGroup, NEW hi \in Nat, NEW m \in Nat, Mail(hi, m)
    PROVE  /\ m < hi /\ UNCHANGED <<held, trained, step, next, pump, op, error, result>>
           /\ \/ /\ m = committed /\ committed' = m + 1 /\ dropped' = dropped \cup {m} /\ pc' = pc
                 /\ retained' = [g \in (m + 1)..(hi - 1) |-> retained[g]]
              \/ /\ UNCHANGED <<committed, dropped>> /\ pc' = "refused"
                 /\ retained' = [retained EXCEPT ![m].delivered = TRUE]
<1> DEFINE accepted(g) == \A h \in DOMAIN retained : g <= h
<1>1. PICK g \in Undelivered :
        /\ \A h \in Undelivered : g <= h
        /\ retained' = IF accepted(g) THEN Remove({g}) ELSE [retained EXCEPT ![g].delivered = TRUE]
        /\ committed' = IF accepted(g) THEN g + 1 ELSE committed
        /\ dropped' = IF accepted(g) THEN dropped \cup {g} ELSE dropped
        /\ pc' = IF accepted(g) THEN pc ELSE "refused"
    BY DEF DropGroup
<1>2. pc = "collect" /\ UNCHANGED <<held, trained, step, next, pump, op, error, result>>
    BY DEF DropGroup, flags
<1>3. g = m /\ m < hi
    BY <1>1, <1>2, OldestIsNext
<1>4. DOMAIN retained = committed..(hi - 1) /\ committed \in Nat /\ m \in committed..hi
    BY DEF Mail, IndInv, TypeOK
<1>5. CASE accepted(g)
    <2>1. m = committed
        BY <1>3, <1>4, <1>5
    <2>2. DOMAIN retained \ {g} = (m + 1)..(hi - 1)
        BY <1>3, <1>4, <2>1
    <2>3. retained' = [x \in (m + 1)..(hi - 1) |-> retained[x]]
        BY <1>1, <1>5, <2>2 DEF Remove
    <2> QED BY <1>1, <1>2, <1>3, <1>5, <2>1, <2>3
<1>6. CASE ~accepted(g)
    BY <1>1, <1>2, <1>3, <1>6
<1> QED BY <1>5, <1>6

\* Every action keeps the mailbox a run of consecutive groups.
LEMMA MailboxNext == ASSUME IndInv, [Next]_vars PROVE Mailbox'
<1> USE DEF learner, mailbox, flags, producer, stream, controller, LearnerOnly, Elsewhere
<1>t. /\ TypeOK /\ Owned /\ Still /\ op \in Operations /\ op' \in Operations
      /\ committed \in Nat /\ next \in Nat /\ Bound \in Nat
    BY TypeNext, ProviderConstants DEF IndInv, TypeOK, Bound
<1>m. PICK hi, m \in Nat : Mail(hi, m)
    BY DEF IndInv, Mailbox
<1> SUFFICES \E h, n \in Nat : Mail(h, n)'
    BY DEF Mailbox
<1>1. CASE UNCHANGED vars \/ Done
    BY <1>1, <1>m DEF Mail, Collecting, Active, At, vars, Done
<1>2. CASE PumpWakes \/ PumpBegins \/ PumpSleeps
    <2>1. UNCHANGED <<retained, next, committed, op, pc, held>> /\ pump \in {"waiting", "loop"} /\ pump' # "executing"
        BY <1>2 DEF PumpWakes, PumpBegins, PumpSleeps
    <2>2. hi = next
        BY <1>m, <2>1 DEF Mail
    <2>3. Active' => hi - committed < Bound
        <3>1. Active' => Cardinality(committed..(hi - 1)) < Bound
            BY <1>2, <1>m DEF PumpWakes, PumpBegins, PumpSleeps, Active, Admission, Mail
        <3>2. Cardinality(committed..(hi - 1)) = hi - committed
            <4>1. committed \in Int /\ hi - 1 \in Int /\ committed <= hi
                BY <1>t, <1>m DEF Mail
            <4>2. Cardinality(committed..(hi - 1)) = IF committed > hi - 1 THEN 0 ELSE (hi - 1) - committed + 1
                BY <4>1, FS_Interval
            <4> QED BY <4>1, <4>2
        <3> QED BY <3>1, <3>2
    <2> QED BY <1>m, <2>1, <2>2, <2>3 DEF Mail, Collecting, At
<1>3. CASE PumpFails \/ PumpExecutes
    <2>1. UNCHANGED <<retained, committed, op, pc, held>> /\ Active
        BY <1>3 DEF PumpFails, PumpExecutes, Active
    <2>2. ~At("pause", "proved")
        BY <1>t, <2>1 DEF Still, At
    <2>3. CASE PumpFails
        BY <1>m, <2>1, <2>2, <2>3 DEF Mail, Collecting, At, PumpFails, Active
    <2>4. CASE PumpExecutes
        BY <1>t, <1>m, <2>1, <2>2, <2>4 DEF Mail, Collecting, At, PumpExecutes, Active
    <2> QED BY <1>3, <2>3, <2>4
<1>4. CASE PumpCompletes
    <2>1. UNCHANGED <<next, committed, op, pc, held>> /\ pump = "executing" /\ pump' = "loop"
        BY <1>4 DEF PumpCompletes
    <2>2. PICK e : e.delivered = FALSE /\ retained' = [g \in DOMAIN retained \cup {next - 1} |-> IF g = next - 1 THEN e ELSE retained[g]]
        BY <1>4 DEF PumpCompletes
    <2>3. hi = next - 1 /\ hi - committed < Bound /\ committed <= hi /\ m \in committed..hi /\ DOMAIN retained = committed..(hi - 1)
        BY <1>m, <2>1 DEF Mail, Active
    <2>4. DOMAIN retained' = committed..hi
        BY <1>t, <2>2, <2>3
    <2>5. Collecting => \A g \in committed..hi : retained'[g].delivered <=> g < m
        BY <1>t, <1>m, <2>2, <2>3 DEF Mail
    <2>6. hi + 1 \in Nat /\ m \in committed..(hi + 1) /\ hi + 1 = next /\ hi + 1 - committed <= Bound /\ (hi + 1) - 1 = hi
        BY <1>t, <2>3
    <2>7. Mail(hi + 1, m)'
        BY <1>t, <1>m, <2>1, <2>3, <2>4, <2>5, <2>6 DEF Mail, Collecting, At, Active
    <2> QED BY <2>6, <2>7
<1>5. CASE TakeGroup
    <2>1. PICK g \in Undelivered : (\A h \in Undelivered : g <= h) /\ retained' = [retained EXCEPT ![g].delivered = TRUE] /\ held' = held \cup {g}
        BY <1>5 DEF TakeGroup
    <2>2. UNCHANGED <<pc, next, committed, pump, op, error>> /\ pc = "collect"
        BY <1>5 DEF TakeGroup
    <2>3. g = m /\ m < hi /\ g \in DOMAIN retained
        BY <1>m, <2>1, <2>2, OldestIsNext
    <2>4. /\ DOMAIN retained = committed..(hi - 1) /\ held = committed..(m - 1) /\ m \in committed..hi
          /\ \A x \in committed..(hi - 1) : retained[x].delivered <=> x < m
        BY <1>m, <2>2 DEF Mail, Collecting
    <2>5. DOMAIN retained' = committed..(hi - 1) /\ \A x \in committed..(hi - 1) : retained'[x].delivered <=> x < m + 1
        BY SMTT(40), <1>t, <2>1, <2>3, <2>4 DEF TypeOK, Entry
    <2>6. m + 1 \in Nat /\ m + 1 \in committed..hi /\ held' = committed..m /\ (m + 1) - 1 = m
        BY <1>t, <2>1, <2>3, <2>4
    <2>7. Mail(hi, m + 1)'
        BY <1>t, <1>m, <2>2, <2>5, <2>6 DEF Mail, At, Active
    <2> QED BY <2>6, <2>7
<1>6. CASE DropGroup
    <2>1. m < hi /\ UNCHANGED <<held, next, pump, op, error>>
        BY <1>6, <1>m, DropFacts
    <2>2. CASE m = committed /\ committed' = m + 1 /\ pc' = pc /\ retained' = [g \in (m + 1)..(hi - 1) |-> retained[g]]
        <3>1. pc = "collect"
            BY <1>6 DEF DropGroup
        <3>2. held = committed..(m - 1) /\ \A x \in committed..(hi - 1) : retained[x].delivered <=> x < m
            BY <1>m, <3>1 DEF Mail, Collecting
        <3>3. held = (m + 1)..m /\ (m + 1) - 1 = m /\ m + 1 \in (m + 1)..hi /\ m + 1 \in Nat
            BY <1>t, <2>1, <2>2, <3>2
        <3>4. DOMAIN retained' = (m + 1)..(hi - 1) /\ \A x \in (m + 1)..(hi - 1) : retained'[x].delivered <=> x < m + 1
            BY <1>t, <2>2, <3>2
        <3>5. hi - (m + 1) <= Bound /\ (Active => hi - (m + 1) < Bound) /\ m + 1 <= hi
            BY <1>t, <1>m, <2>1, <2>2 DEF Mail
        <3>6. Mail(hi, m + 1)'
            BY <1>m, <2>1, <2>2, <3>3, <3>4, <3>5 DEF Mail, At, Active
        <3> QED BY <3>3, <3>6
    <2>3. CASE UNCHANGED committed /\ pc' = "refused" /\ retained' = [retained EXCEPT ![m].delivered = TRUE]
        <3>1. ~Collecting' /\ DOMAIN retained' = DOMAIN retained
            BY <2>3 DEF Collecting, Calls
        <3>2. Mail(hi, m)'
            BY <1>m, <2>1, <2>3, <3>1 DEF Mail, At, Active
        <3> QED BY <3>2
    <2> QED BY <1>6, <1>m, <2>2, <2>3, DropFacts
<1>7. CASE Train
    <2>1. /\ committed < m /\ held' = {} /\ pc' = "snapshot" /\ committed' = m
          /\ retained' = [g \in m..(hi - 1) |-> retained[g]] /\ UNCHANGED <<next, pump, op, error>>
        BY <1>7, <1>m, TrainCommits
    <2>2. pc = "training"
        BY <1>7 DEF Train
    <2>3. \A x \in committed..(hi - 1) : retained[x].delivered <=> x < m
        BY <1>m, <2>2 DEF Mail, Collecting, Calls
    <2>4. m..(m - 1) = {} /\ m \in m..hi /\ \A x \in m..(hi - 1) : retained'[x].delivered <=> x < m
        BY <1>t, <1>m, <2>1, <2>3 DEF Mail
    <2>5. hi - m <= Bound /\ (Active => hi - m < Bound) /\ m <= hi
        BY <1>t, <1>m, <2>1 DEF Mail
    <2>6. Mail(hi, m)'
        BY <1>m, <2>1, <2>4, <2>5 DEF Mail, At, Active
    <2> QED BY <2>6
<1>8. CASE GiveUp \/ Proceed \/ CallRaises \/ TimesOut \/ LateRequest \/ CallClose \/ CloseAdvances
    <2>1. UNCHANGED <<retained, next, committed, held, pump, op>> /\ (error => error')
        BY <1>8 DEF GiveUp, Proceed, CallRaises, TimesOut, LateRequest, CallClose, CloseAdvances
    <2>2. Collecting' => Collecting
        BY <1>8, <1>t DEF GiveUp, Proceed, CallRaises, TimesOut, LateRequest, CallClose, CloseAdvances, Collecting, Calls
    <2>3. Mail(hi, m)'
        BY <1>m, <2>1, <2>2 DEF Mail, At, Active
    <2> QED BY <2>3
<1>9. CASE CallPause \/ CallSnapshot \/ CallActivate \/ CallResume
    <2>1. UNCHANGED <<retained, next, committed, held, pump, error>> /\ op'.at = "begin" /\ Collecting
        BY <1>9, SubmitFacts DEF Collecting, Calls
    <2>2. Mail(hi, m)'
        BY <1>m, <2>1 DEF Mail, At, Active
    <2> QED BY <2>2
<1>10. CASE OpStep
    <2>1. UNCHANGED <<retained, next, committed, held, pump, pc>> /\ (error => error')
        BY <1>10, OpFrame
    <2>2. At("pause", "proved")' => ~Active /\ ~error
        <3>1. CASE PauseProved
            <4>1. op # Free /\ op.kind = "pause" /\ op.at = "proof"
                BY <3>1, FreeFacts DEF PauseProved, At
            <4>2. op' = Free \/ ~error
                BY <3>1 DEF PauseProved, End
            <4> QED BY <1>t, <4>1, <4>2, FreeFacts DEF Still, At
        <3>2. CASE ~PauseProved
            <4>1. op'.at # "proved"
                <5>1. CASE LateStarts
                    BY <5>1 DEF LateStarts
                <5>2. CASE ~LateStarts
                    <6>1. op # Free
                        BY <1>10, <3>2, <5>2, FreeFacts DEF OpStep, At, PauseBegins, PauseDrained, PauseReturns, ControlFails,
                            ActivateBegins, ActivateLoads, ActivateEnds, ActivateFails, ResumeBegins, ResumeAcknowledged, ResumeReturns
                    <6>2. op' = Free \/ \E w \in {"drain", "proof", "load", "loading", "call", "acknowledged"} : Goto(w)
                        BY <1>10, <3>2, <5>2 DEF OpStep, End, PauseBegins, PauseDrained, PauseReturns, ControlFails,
                            ActivateBegins, ActivateLoads, ActivateEnds, ActivateFails, ResumeBegins, ResumeAcknowledged, ResumeReturns
                    <6>3. ASSUME NEW w \in {"drain", "proof", "load", "loading", "call", "acknowledged"}, Goto(w) PROVE op'.at = w
                        BY <1>t, <6>1, <6>3 DEF Goto, Operations
                    <6> QED BY <6>2, <6>3, FreeFacts
                <5> QED BY <5>1, <5>2
            <4> QED BY <4>1 DEF At
        <3> QED BY <3>1, <3>2
    <2>3. At("pause", "proved")' => hi = next
        BY <1>m, <2>2 DEF Mail, Active
    <2>4. Collecting' <=> Collecting
        BY <2>1 DEF Collecting
    <2>5. Mail(hi, m)'
        BY <1>m, <2>1, <2>3, <2>4 DEF Mail, Active
    <2> QED BY <2>5
<1> QED BY <1>1, <1>2, <1>3, <1>4, <1>5, <1>6, <1>7, <1>8, <1>9, <1>10
    DEF Next, PumpStep, LearnerStep

-----------------------------------------------------------------------------
(* The optimizer's input *)

\* Every group leaves the mailbox once; what the learner holds stays fit for the optimizer.
LEMMA AccountedNext == ASSUME IndInv, [Next]_vars PROVE Accounted'
<1> USE DEF learner, mailbox, flags, producer, stream, controller, LearnerOnly, Elsewhere
<1>t. TypeOK /\ Accounted /\ committed \in Nat /\ next \in Nat /\ step \in Nat /\ GroupsPerStep \in Nat
    BY ProviderConstants DEF IndInv, TypeOK
<1>m. PICK hi, m \in Nat : Mail(hi, m)
    BY DEF IndInv, Mailbox
<1>1. CASE UNCHANGED vars \/ Done
    BY <1>1, <1>t DEF Accounted, vars, Done
<1>2. CASE PumpWakes \/ PumpBegins \/ PumpSleeps \/ PumpFails \/ PumpExecutes
    BY <1>2, <1>t DEF Accounted, PumpWakes, PumpBegins, PumpSleeps, PumpFails, PumpExecutes
<1>3. CASE PumpCompletes
    <2>1. UNCHANGED <<pc, step, held, trained, dropped, committed>> /\ pump = "executing"
        BY <1>3 DEF PumpCompletes
    <2>2. PICK e : e.excluded = ~e.clean /\ retained' = [g \in DOMAIN retained \cup {next - 1} |-> IF g = next - 1 THEN e ELSE retained[g]]
        <3>1. PICK samples \in [1..GroupSize -> Verdicts] :
                retained' = [g \in DOMAIN retained \cup {next - 1} |->
                              IF g = next - 1
                              THEN [version |-> lease, excluded |-> ~Eligible(samples),
                                    clean |-> \A i \in 1..GroupSize : samples[i] = "eligible",
                                    delivered |-> FALSE]
                              ELSE retained[g]]
            BY <1>3 DEF PumpCompletes
        <3> DEFINE e == [version |-> lease, excluded |-> ~Eligible(samples),
                         clean |-> \A i \in 1..GroupSize : samples[i] = "eligible", delivered |-> FALSE]
        <3>2. e.excluded = ~e.clean
            BY DEF Eligible
        <3>3. retained' = [g \in DOMAIN retained \cup {next - 1} |-> IF g = next - 1 THEN e ELSE retained[g]]
            BY <3>1
        <3> QED BY <3>2, <3>3
    <2>3. DOMAIN retained = committed..(hi - 1) /\ hi = next - 1
        BY <1>m, <2>1 DEF Mail
    <2>4. next - 1 \notin DOMAIN retained
        BY <1>t, <2>3
    <2>5. DOMAIN retained' = DOMAIN retained \cup {next - 1} /\ \A g \in DOMAIN retained : retained'[g] = retained[g]
        BY <2>2, <2>4
    <2>6. retained'[next - 1] = e
        BY <2>2
    <2> QED BY <1>t, <2>1, <2>2, <2>5, <2>6 DEF Accounted
<1>4. CASE TakeGroup
    <2>1. PICK g \in Undelivered : Taken(g) /\ retained' = [retained EXCEPT ![g].delivered = TRUE] /\ held' = held \cup {g}
        BY <1>4 DEF TakeGroup
    <2>2. UNCHANGED <<pc, step, trained, dropped, committed>> /\ pc = "collect"
        BY <1>4 DEF TakeGroup
    <2>3. g \in DOMAIN retained /\ retained[g].clean /\ step - retained[g].version <= MaxPolicyLag
        <3>1. g \in DOMAIN retained /\ ~retained[g].excluded /\ step - retained[g].version <= MaxPolicyLag
            BY <2>1 DEF Taken, Undelivered
        <3>2. retained[g].excluded = ~retained[g].clean /\ retained[g].clean \in BOOLEAN
            BY <1>t, <3>1 DEF Accounted, TypeOK, Entry
        <3> QED BY <3>1, <3>2
    <2>4. DOMAIN retained' = DOMAIN retained /\ \A x \in DOMAIN retained : /\ retained'[x].clean = retained[x].clean
            /\ retained'[x].excluded = retained[x].excluded /\ retained'[x].version = retained[x].version
        BY <1>t, <2>1 DEF TypeOK, Entry
    <2>5. held' \subseteq DOMAIN retained' /\ \A x \in held' : retained'[x].clean /\ step - retained'[x].version <= MaxPolicyLag
        BY <1>t, <2>1, <2>3, <2>4 DEF Accounted
    <2> QED BY <1>t, <2>2, <2>4, <2>5 DEF Accounted
<1>5. CASE DropGroup
    <2>1. UNCHANGED <<held, trained, step>> /\ m < hi /\ pc = "collect" /\ pc' \in {"collect", "refused"}
        BY <1>5, <1>m, DropFacts, GetFrame DEF DropGroup
    <2>2. CASE m = committed /\ committed' = m + 1 /\ dropped' = dropped \cup {m} /\ retained' = [g \in (m + 1)..(hi - 1) |-> retained[g]]
        <3>1. held = {}
            BY <1>t, <1>m, <2>1, <2>2 DEF Mail, Collecting
        <3>2. DOMAIN retained = committed..(hi - 1)
            BY <1>m DEF Mail
        <3>3. \A g \in DOMAIN retained' : g \in DOMAIN retained /\ retained'[g] = retained[g]
            BY <1>t, <2>2, <3>2
        <3>4. trained \cap dropped' = {} /\ trained \cup dropped' = 0..(committed' - 1)
            BY <1>t, <2>2 DEF Accounted
        <3> QED BY <1>t, <2>1, <3>1, <3>3, <3>4 DEF Accounted
    <2>3. CASE UNCHANGED <<committed, dropped>> /\ retained' = [retained EXCEPT ![m].delivered = TRUE]
        <3>1. DOMAIN retained' = DOMAIN retained /\ \A x \in DOMAIN retained : /\ retained'[x].clean = retained[x].clean
                /\ retained'[x].excluded = retained[x].excluded /\ retained'[x].version = retained[x].version
            BY <1>t, <2>3 DEF TypeOK, Entry
        <3> QED BY <1>t, <2>1, <2>3, <3>1 DEF Accounted
    <2> QED BY <1>5, <1>m, <2>2, <2>3, DropFacts
<1>6. CASE Train
    <2>1. /\ held = committed..(m - 1) /\ committed < m /\ held' = {} /\ pc' = "snapshot"
          /\ retained' = [g \in m..(hi - 1) |-> retained[g]] /\ committed' = m
          /\ step' = step + 1 /\ trained' = trained \cup held /\ UNCHANGED dropped
        BY <1>6, <1>m, TrainCommits
    <2>2. DOMAIN retained = committed..(hi - 1)
        BY <1>m DEF Mail
    <2>3. \A g \in DOMAIN retained' : g \in DOMAIN retained /\ retained'[g] = retained[g]
        BY <1>t, <2>1, <2>2
    <2>4. trained' \cap dropped' = {} /\ trained' \cup dropped' = 0..(committed' - 1)
        BY <1>t, <2>1 DEF Accounted
    <2>5. Cardinality(trained') = GroupsPerStep * step'
        <3>1. trained \subseteq 0..(committed - 1) /\ IsFiniteSet(0..(committed - 1)) /\ IsFiniteSet(committed..(m - 1))
            BY <1>t, FS_Interval DEF Accounted
        <3>2. IsFiniteSet(trained) /\ IsFiniteSet(held)
            BY <2>1, <3>1, FS_Subset
        <3>3. trained \cap held = {}
            BY <1>t, <2>1, <3>1
        <3>4. Cardinality(trained \cup held) = Cardinality(trained) + Cardinality(held) - Cardinality(trained \cap held)
            BY <3>2, FS_Union
        <3>5. Cardinality(trained) = GroupsPerStep * step /\ Cardinality(held) = GroupsPerStep
            BY <1>6, <1>t DEF Accounted, Train
        <3>6. Cardinality(trained \cap held) = 0
            BY <3>3, FS_EmptySet
        <3>7. GroupsPerStep * (step + 1) = GroupsPerStep * step + GroupsPerStep /\ GroupsPerStep * step \in Nat
            BY <1>t
        <3> QED BY <1>t, <2>1, <3>4, <3>5, <3>6, <3>7
    <2> QED BY <1>t, <2>1, <2>3, <2>4, <2>5 DEF Accounted
<1>7. CASE GiveUp \/ Proceed \/ CallRaises \/ TimesOut \/ LateRequest \/ CallClose \/ CloseAdvances
    BY <1>7, <1>t DEF Accounted, GiveUp, Proceed, CallRaises, TimesOut, LateRequest, CallClose, CloseAdvances
<1>8. CASE CallPause \/ CallSnapshot \/ CallActivate \/ CallResume
    BY <1>8, <1>t, SubmitFacts DEF Accounted
<1>9. CASE OpStep
    BY <1>9, <1>t, OpFrame DEF Accounted
<1> QED BY <1>1, <1>2, <1>3, <1>4, <1>5, <1>6, <1>7, <1>8, <1>9
    DEF Next, PumpStep, LearnerStep

-----------------------------------------------------------------------------
(* The theorems *)

\* A provider that has just started: nothing sampled, nothing retained.
LEMMA InitInv == ASSUME Init PROVE IndInv
<1> USE DEF Init
<1>1. DOMAIN retained = {} /\ retained \in [{} -> Entry]
    BY SMT
<1>2. TypeOK
    BY <1>1, FreeFacts DEF TypeOK
<1>3. Owned /\ Still
    BY FreeFacts DEF Owned, Still, Waits, Closing, Quiet, Active, At
<1>4. Serving
    BY <1>1, FreeFacts DEF Serving, Loading, Active
<1>5. Mailbox
    <2>1. Bound \in Nat /\ 0 <= Bound
        BY ProviderConstants DEF Bound
    <2>2. 0..(0 - 1) = {} /\ 0 \in 0..0
        OBVIOUS
    <2>3. Mail(0, 0)
        BY <1>1, <2>1, <2>2, FreeFacts DEF Mail, At, Active
    <2> QED BY <2>3 DEF Mailbox
<1>6. Accounted
    <2>1. 0..(0 - 1) = {} /\ Cardinality({}) = 0 /\ GroupsPerStep * 0 = 0
        BY FS_EmptySet, ProviderConstants
    <2> QED BY <1>1, <2>1 DEF Accounted
<1> QED BY <1>2, <1>3, <1>4, <1>5, <1>6 DEF IndInv

\* The invariant implies both properties.
LEMMA InvImplies == ASSUME IndInv PROVE AuthorityHeld /\ MailboxAccounted
<1>1. LeaseHeld
    BY DEF IndInv, Serving, LeaseHeld
<1>2. TimedOutCallsContained
    BY DEF IndInv, Owned, TimedOutCallsContained
<1>3. OptimizerInputsAccounted
    BY DEF IndInv, Accounted, OptimizerInputsAccounted
<1>4. SnapshotRestorable
    <2> SUFFICES ASSUME At("pause", "proved")
                 PROVE  /\ DOMAIN retained = committed..(next - 1) /\ Cardinality(DOMAIN retained) <= Bound
                        /\ \A g \in DOMAIN retained : retained[g].version <= policy
                        /\ ~Active /\ ~stopped
        BY DEF SnapshotRestorable
    <2>1. PICK hi, m \in Nat : Mail(hi, m)
        BY DEF IndInv, Mailbox
    <2>2. hi = next /\ DOMAIN retained = committed..(hi - 1) /\ hi - committed <= Bound /\ committed <= hi
        BY <2>1 DEF Mail
    <2>3. Cardinality(committed..(hi - 1)) = hi - committed
        <3>1. committed \in Int /\ hi - 1 \in Int
            BY <2>1 DEF IndInv, TypeOK
        <3>2. Cardinality(committed..(hi - 1)) = IF committed > hi - 1 THEN 0 ELSE (hi - 1) - committed + 1
            BY <3>1, FS_Interval
        <3> QED BY <2>2, <3>1, <3>2
    <2>4. ~Active /\ ~stopped /\ \A g \in DOMAIN retained : retained[g].version <= policy
        BY DEF IndInv, Still, Serving, At
    <2> QED BY <2>2, <2>3, <2>4
<1> QED BY <1>1, <1>2, <1>3, <1>4 DEF AuthorityHeld, MailboxAccounted

\* The invariant holds throughout, for any group size, queue, lag and number of steps.
THEOREM ProviderInvariant == Spec => []IndInv
<1>1. Init => IndInv
    BY InitInv
<1>2. IndInv /\ [Next]_vars => IndInv'
    <2> SUFFICES ASSUME IndInv, [Next]_vars PROVE IndInv'
        OBVIOUS
    <2>1. TypeOK' /\ Owned' /\ Still' /\ Serving' /\ Mailbox' /\ Accounted'
        BY TypeNext, OwnedNext, StillNext, ServingNext, MailboxNext, AccountedNext
    <2> QED BY <2>1 DEF IndInv
<1> QED BY <1>1, <1>2, PTL DEF Spec

\* A group is planned and sampled with the controller serving the very policy it was leased
\* under, and a call whose waiter gave up authorizes nothing (_produce, _call, _activate,
\* _resume, _close).
THEOREM AuthorityKept == Spec => []AuthorityHeld
<1>1. IndInv => AuthorityHeld
    BY InvImplies
<1> QED BY <1>1, ProviderInvariant, PTL

\* Every group leaves the mailbox once, for the optimizer or dropped; what the optimizer is
\* given is clean and fresh, and the snapshot of a proved pause can be restored (_commit,
\* _snapshot, GroupAssembler.complete).
THEOREM MailboxSound == Spec => []MailboxAccounted
<1>1. IndInv => MailboxAccounted
    BY InvImplies
<1> QED BY <1>1, ProviderInvariant, PTL

=============================================================================
