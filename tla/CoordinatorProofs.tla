------------------------- MODULE CoordinatorProofs -------------------------
(***************************************************************************)
(* Proofs about Coordinator for every batch, capacity and policy.          *)
(***************************************************************************)
EXTENDS Coordinator, FiniteSetTheorems, TLAPS

(* What a set of plans takes of an executor: Total is additive and monotone. *)

\* A plan takes a natural number of units.
LEMMA ChargeNat ==
    ASSUME NEW p \in Plan, NEW e, NEW q \in Quantity
    PROVE  Charge(p, e, q) \in Nat
BY ConstantTypes DEF Charge

\* Units of a set of plans are finitely many.
LEMMA UnitsFinite ==
    ASSUME NEW S \in SUBSET Plan, NEW e, NEW q \in Quantity
    PROVE  IsFiniteSet(Units(S, e, q))
<1> DEFINE block(p) == {p} \X (1..Charge(p, e, q))
           f == [p \in S |-> block(p)]
           T == {block(p) : p \in S}
<1>1. IsFiniteSet(S)
    <2>1. N \in Int /\ 1 \in Int
        BY ConstantTypes
    <2>2. IsFiniteSet(Plan)
        BY <2>1, FS_Interval DEF Plan
    <2> QED BY <2>2, FS_Subset
<1>2. f \in Surjection(S, T)
    BY DEF Surjection
<1>3. IsFiniteSet(T)
    <2> HIDE DEF f, T
    <2> QED BY <1>1, <1>2, FS_Surjection
<1>4. ASSUME NEW p \in S PROVE IsFiniteSet(block(p))
    <2>1. IsFiniteSet({p})
        BY FS_Singleton
    <2>2. IsFiniteSet(1..Charge(p, e, q))
        BY ChargeNat, FS_Interval
    <2> QED BY <2>1, <2>2, FS_Product
<1>5. \A B \in T : IsFiniteSet(B)
    BY <1>4
<1>6. IsFiniteSet(UNION T)
    <2> HIDE DEF T
    <2> QED BY <1>3, <1>5, FS_UNION
<1> QED BY <1>6 DEF Units

\* The units of a set of plans are a natural number.
LEMMA TotalNat ==
    ASSUME NEW S \in SUBSET Plan, NEW e, NEW q \in Quantity
    PROVE  Total(S, e, q) \in Nat
BY UnitsFinite, FS_CardinalityType DEF Total

\* No plan takes nothing.
LEMMA TotalEmpty ==
    ASSUME NEW e, NEW q \in Quantity
    PROVE  Total({}, e, q) = 0
<1>1. Units({}, e, q) = {}
    BY DEF Units
<1> QED BY <1>1, FS_EmptySet DEF Total

\* One plan takes its charge.
LEMMA TotalOne ==
    ASSUME NEW p \in Plan, NEW e, NEW q \in Quantity
    PROVE  Total({p}, e, q) = Charge(p, e, q)
<1> DEFINE I == 1..Charge(p, e, q)
<1>1. Units({p}, e, q) = {p} \X I
    BY DEF Units
<1>2. Charge(p, e, q) \in Nat
    BY ChargeNat
<1>3. IsFiniteSet(I) /\ Cardinality(I) = Charge(p, e, q)
    BY <1>2, FS_Interval
<1> HIDE DEF I
<1>4. IsFiniteSet({p}) /\ Cardinality({p}) = 1
    BY FS_Singleton
<1>5. Cardinality({p} \X I) = Cardinality({p}) * Cardinality(I)
    BY <1>3, <1>4, FS_Product
<1>6. Total({p}, e, q) = Cardinality({p} \X I)
    BY <1>1 DEF Total
<1> QED BY <1>2, <1>3, <1>4, <1>5, <1>6

\* Disjoint sets of plans take disjoint units.
LEMMA TotalUnion ==
    ASSUME NEW S \in SUBSET Plan, NEW R \in SUBSET Plan, S \cap R = {},
           NEW e, NEW q \in Quantity
    PROVE  Total(S \cup R, e, q) = Total(S, e, q) + Total(R, e, q)
<1>1. Units(S \cup R, e, q) = Units(S, e, q) \cup Units(R, e, q)
    BY DEF Units
<1>2. Units(S, e, q) \cap Units(R, e, q) = {}
    BY DEF Units
<1>3. IsFiniteSet(Units(S, e, q)) /\ IsFiniteSet(Units(R, e, q))
    BY UnitsFinite
<1>4. Cardinality(Units(S, e, q) \cup Units(R, e, q)) =
        Cardinality(Units(S, e, q)) + Cardinality(Units(R, e, q)) - Cardinality({})
    BY <1>2, <1>3, FS_Union
<1>5. Total(S \cup R, e, q) = Total(S, e, q) + Total(R, e, q) - Cardinality({})
    BY <1>1, <1>4 DEF Total
<1>6. Cardinality({}) = 0
    BY FS_EmptySet
<1>7. Total(S, e, q) \in Nat /\ Total(R, e, q) \in Nat
    BY TotalNat
<1> QED BY <1>5, <1>6, <1>7

\* Taking away a part takes its units away, and a part takes no more.
LEMMA TotalPart ==
    ASSUME NEW S \in SUBSET Plan, NEW R \in SUBSET S, NEW e, NEW q \in Quantity
    PROVE  /\ Total(S \ R, e, q) = Total(S, e, q) - Total(R, e, q)
           /\ Total(R, e, q) <= Total(S, e, q)
<1>1. (S \ R) \cup R = S /\ (S \ R) \cap R = {}
    OBVIOUS
<1>2. S \ R \in SUBSET Plan /\ R \in SUBSET Plan
    OBVIOUS
<1>3. Total((S \ R) \cup R, e, q) = Total(S \ R, e, q) + Total(R, e, q)
    BY <1>1, <1>2, TotalUnion
<1>4. Total(S \ R, e, q) \in Nat /\ Total(R, e, q) \in Nat /\ Total(S, e, q) \in Nat
    BY <1>2, TotalNat
<1> QED BY <1>1, <1>3, <1>4

-----------------------------------------------------------------------------
(* Type correctness *)

Account == [Executor -> [Quantity -> Int]]

\* The three ways to change the account keep its type.
LEMMA AccountTyped ==
    ASSUME reserved \in Account, peak \in Account, quarantined \in Account,
           NEW S \in SUBSET Plan
    PROVE  /\ ChargeAll(S) => reserved' \in Account /\ peak' \in Account
           /\ ReleaseAll(S) => reserved' \in Account /\ peak' \in Account /\ quarantined' \in Account
           /\ QuarantineAll(S) => reserved' \in Account /\ peak' \in Account /\ quarantined' \in Account
<1>1. \A e \in Executor : \A q \in Quantity : Total(S, e, q) \in Int
    BY TotalNat
<1> QED BY <1>1 DEF Account, ChargeAll, ReleaseAll, QuarantineAll

\* The members of a group are plans.
LEMMA MembersPlan == \A g : Members(g) \in SUBSET Plan
BY DEF Members

\* The initial state is well typed.
LEMMA TypeInit == Init => TypeOK
<1> SUFFICES ASSUME Init PROVE TypeOK
    OBVIOUS
<1>1. /\ pending \subseteq Plan /\ active \subseteq Plan /\ done = {}
      /\ finishing \in Plan \cup {0} /\ pc = "start"
    BY DEF Init
<1>2. /\ worker \in [Plan -> Outcome \cup {"idle", "running"}]
      /\ result \in [Plan -> ResultValue]
    BY DEF Init, ResultValue
<1>3. reserved \in Account /\ peak \in Account /\ quarantined \in Account
    BY DEF Init, Account
<1>4. cursor \in 1..N + 1
    BY ConstantTypes DEF Init
<1>5. started \in Seq(Backend) /\ closing \in 0..Len(started)
    BY DEF Init
<1> QED BY <1>1, <1>2, <1>3, <1>4, <1>5 DEF Init, TypeOK, Account

\* Every action keeps the types.
LEMMA TypeNext == TypeOK /\ [Next]_vars => TypeOK'
<1> SUFFICES ASSUME TypeOK, [Next]_vars PROVE TypeOK'
    OBVIOUS
<1> USE DEF TypeOK, signals, book, resources, lifecycle, scanning, Move
<1>a. reserved \in Account /\ peak \in Account /\ quarantined \in Account
    BY DEF Account
<1>0. CASE UNCHANGED vars
    BY <1>0 DEF vars
<1>1. CASE BeginStart
    BY <1>1, ConstantTypes DEF BeginStart, First, NotStarted, AwaitPoints
<1>2. CASE StartLoop
    BY <1>2 DEF StartLoop
<1>3. CASE LoopTop
    BY <1>3, ConstantTypes DEF LoopTop, AfterTop, ArmDeadline, AwaitPoints
<1>4. CASE LoopEnd \/ StartReturns \/ StartFails \/ AdmitWaveStopped \/ ScanEnd
        \/ CheckIdle \/ CheckWait \/ ProcessEnd \/ BeginClose \/ TokenCancelled
        \/ DeadlineExpires \/ Terminated \/ ReportEventFails
    <2>1. CASE LoopEnd
        BY <2>1 DEF LoopEnd, AwaitPoints
    <2>2. CASE StartReturns
        BY <2>2 DEF StartReturns, AwaitPoints
    <2>3. CASE StartFails
        BY <2>3 DEF StartFails, AwaitPoints
    <2>4. CASE AdmitWaveStopped
        BY <2>4 DEF AdmitWaveStopped, AwaitPoints
    <2>5. CASE ScanEnd
        BY <2>5 DEF ScanEnd, AwaitPoints
    <2>6. CASE CheckIdle
        BY <2>6 DEF CheckIdle, AwaitPoints
    <2>7. CASE CheckWait
        BY <2>7 DEF CheckWait, AwaitPoints
    <2>8. CASE ProcessEnd
        BY <2>8 DEF ProcessEnd, AwaitPoints
    <2>9. CASE BeginClose
        BY <2>9 DEF BeginClose, AwaitPoints
    <2>10. CASE TokenCancelled
        BY <2>10 DEF TokenCancelled, AwaitPoints
    <2>11. CASE DeadlineExpires
        BY <2>11 DEF DeadlineExpires, AwaitPoints
    <2>12. CASE Terminated
        BY <2>12 DEF Terminated, AwaitPoints, vars
    <2>13. CASE ReportEventFails
        BY <2>13 DEF ReportEventFails, AwaitPoints
    <2> QED BY <1>4, <2>1, <2>2, <2>3, <2>4, <2>5, <2>6, <2>7, <2>8, <2>9, <2>10, <2>11, <2>12, <2>13
<1>5. ASSUME ScanGuard
      PROVE  /\ cursor \in Plan /\ {cursor} \in SUBSET Plan /\ cursor + 1 \in 1..N + 1
             /\ GroupOf[cursor] \in Group /\ ExecutorOf[cursor] \in Executor
    <2>1. cursor \in Plan /\ cursor + 1 \in 1..N + 1
        BY <1>5, ConstantTypes DEF ScanGuard, Plan
    <2> QED BY <2>1 DEF Group, Executor
<1>51. CASE ScanSkip
    BY <1>5, <1>51 DEF ScanSkip, ScanGuard
<1>52. CASE ScanBlock
    BY <1>5, <1>52 DEF ScanBlock, ScanCandidate, ScanGuard
<1>6. CASE ScanAdmit
    <2>1. ScanGuard /\ pc = "scan" /\ done = {}
        BY <1>6 DEF ScanAdmit, ScanCandidate, ScanGuard
    <2>2. reserved' \in Account /\ peak' \in Account
        BY <1>6, <1>a, <1>5, <2>1, AccountTyped DEF ScanAdmit
    <2>3. /\ held' \subseteq Group /\ pending' \subseteq Plan /\ active' \subseteq Plan
          /\ cursor' \in 1..N + 1 /\ done' = {}
        BY <1>5, <1>6, <2>1 DEF ScanAdmit
    <2>4. worker' \in [Plan -> Outcome \cup {"idle", "running"}]
        BY <1>5, <1>6, <2>1 DEF ScanAdmit
    <2> QED BY <1>6, <2>1, <2>2, <2>3, <2>4 DEF ScanAdmit, Account
<1>7. CASE ScanAdmitEventFails
    <2>1. ScanGuard /\ pc = "scan" /\ done = {}
        BY <1>7 DEF ScanAdmitEventFails, ScanCandidate, ScanGuard
    <2>2. reserved' \in Account /\ peak' \in Account
        BY <1>7, <1>a, <1>5, <2>1, AccountTyped DEF ScanAdmitEventFails
    <2>3. held' \subseteq Group /\ pending' \subseteq Plan /\ done' = {}
        BY <1>5, <1>7, <2>1 DEF ScanAdmitEventFails
    <2> QED BY <1>7, <2>1, <2>2, <2>3 DEF ScanAdmitEventFails, Account
<1>8. CASE AdmitWave
    <2>1. PICK g \in NextGroup :
            /\ held' = held \cup {g}
            /\ ChargeAll(Members(g))
            /\ pending' = pending \ Members(g)
            /\ active' = active \cup Members(g)
            /\ worker' = [p \in Plan |-> IF p \in Members(g) THEN "running" ELSE worker[p]]
        BY <1>8 DEF AdmitWave
    <2>2. reserved' \in Account /\ peak' \in Account
        BY <1>a, <2>1, MembersPlan, AccountTyped
    <2>3. g \in Group
        BY DEF NextGroup, First, Group
    <2> QED BY <1>8, <2>1, <2>2, <2>3, MembersPlan DEF AdmitWave, Account
<1>9. CASE AdmitWaveEventFails
    <2>0. PICK g \in NextGroup : \E k \in Members(g) :
            /\ held' = held \cup {g}
            /\ ChargeAll({p \in Members(g) : p <= k})
            /\ pending' = pending \ {p \in Members(g) : p <= k}
            /\ active' = active \cup {p \in Members(g) : p < k}
            /\ worker' = [p \in Plan |-> IF p \in Members(g) /\ p < k THEN "running" ELSE worker[p]]
        BY <1>9 DEF AdmitWaveEventFails
    <2>1. PICK k \in Members(g) :
            /\ held' = held \cup {g}
            /\ ChargeAll({p \in Members(g) : p <= k})
            /\ pending' = pending \ {p \in Members(g) : p <= k}
            /\ active' = active \cup {p \in Members(g) : p < k}
            /\ worker' = [p \in Plan |-> IF p \in Members(g) /\ p < k THEN "running" ELSE worker[p]]
        BY <2>0
    <2>2. {p \in Members(g) : p <= k} \in SUBSET Plan
        BY MembersPlan
    <2>3. reserved' \in Account /\ peak' \in Account
        BY <1>a, <2>1, <2>2, AccountTyped
    <2>4. g \in Group
        BY DEF NextGroup, First, Group
    <2> QED BY <1>9, <2>1, <2>3, <2>4, MembersPlan DEF AdmitWaveEventFails, Account
<1>10. CASE DrainTimeout
    <2>1. DrainQuarantine \in SUBSET Plan
        BY DEF DrainQuarantine
    <2>2. reserved' \in Account /\ peak' \in Account /\ quarantined' \in Account
        BY <1>10, <1>a, <2>1, AccountTyped DEF DrainTimeout
    <2> QED BY <1>10, <2>2 DEF DrainTimeout, WithUnresolved, ResultValue, Account
<1>11. CASE DrainEventFails
    <2>1. PICK S \in SUBSET active : \E k \in active \ S :
            /\ IF Native THEN QuarantineAll(S \cup {k}) ELSE UNCHANGED resources
            /\ result' = WithUnresolved(S \cup {k})
            /\ draining' = draining \cup S
        BY <1>11 DEF DrainEventFails
    <2>2. PICK k \in active \ S :
            /\ IF Native THEN QuarantineAll(S \cup {k}) ELSE UNCHANGED resources
            /\ result' = WithUnresolved(S \cup {k})
            /\ draining' = draining \cup S
        BY <2>1
    <2>3. S \cup {k} \in SUBSET Plan
        OBVIOUS
    <2>4. reserved' \in Account /\ peak' \in Account /\ quarantined' \in Account
        BY <1>a, <2>2, <2>3, AccountTyped
    <2> QED BY <1>11, <2>2, <2>4 DEF DrainEventFails, WithUnresolved, ResultValue, Account
<1>12. CASE WaitReturns
    BY <1>12 DEF WaitReturns, Finished
<1>13. ASSUME NEW p \in Plan, Process(p) PROVE TypeOK'
    <2>1. {p} \in SUBSET Plan
        OBVIOUS
    <2>2. reserved' \in Account /\ peak' \in Account /\ quarantined' \in Account
        BY <1>13, <1>a, <2>1, AccountTyped DEF Process
    <2>3. result' \in [Plan -> ResultValue]
        BY <1>13 DEF Process, ResultValue
    <2>4. /\ done' \subseteq {r \in active' : worker'[r] \in Outcome}
          /\ active' \subseteq Plan
        BY <1>13 DEF Process
    <2>5. /\ held' \subseteq Group /\ finishing' \in Plan \cup {0}
          /\ pc' \in {"process", "finishing"} /\ (pc' = "finishing" => finishing' # 0)
        <3>1. p # 0
            BY ConstantTypes DEF Plan
        <3> QED BY <1>13, <3>1 DEF Process
    <2>6. token' \in BOOLEAN /\ stopped' \in BOOLEAN
        BY <1>13 DEF Process
    <2> QED BY <1>13, <2>2, <2>3, <2>4, <2>5, <2>6 DEF Process, Account, AwaitPoints
<1>14. ASSUME NEW p \in Plan, ProcessEventFails(p) PROVE TypeOK'
    <2>1. {p} \in SUBSET Plan
        OBVIOUS
    <2>2. reserved' \in Account /\ peak' \in Account /\ quarantined' \in Account
        BY <1>14, <1>a, <2>1, AccountTyped DEF ProcessEventFails
    <2> QED BY <1>14, <2>2 DEF ProcessEventFails, ResultValue, Account, Outcome
<1>15. ASSUME NEW ok \in BOOLEAN, FinishWave(ok) \/ FinishWaveEventFails(ok) PROVE TypeOK'
    <2>1. reserved' \in Account /\ peak' \in Account /\ quarantined' \in Account
        BY <1>15, <1>a, MembersPlan, AccountTyped DEF FinishWave, FinishWaveEventFails
    <2> QED BY <1>15, <2>1 DEF FinishWave, FinishWaveEventFails, Account
<1>17. CASE Finally
    <2>1. reserved' \in Account /\ peak' \in Account /\ quarantined' \in Account
        BY <1>17, <1>a, AccountTyped DEF Finally
    <2>2. Len(started) \in Nat
        OBVIOUS
    <2> QED BY <1>17, <2>1, <2>2 DEF Finally, WithUnresolved, ResultValue, ToClose, Account
<1>18. ASSUME NEW ok \in BOOLEAN, CloseReturns(ok) PROVE TypeOK'
    BY <1>18 DEF CloseReturns
<1>19. CASE CloseTimeout
    BY <1>19 DEF CloseTimeout
<1>20. CASE Report
    BY <1>20 DEF Report, ResultValue
<1>21. ASSUME NEW p \in Plan, NEW outcome \in Outcome, WorkerEnds(p, outcome) PROVE TypeOK'
    BY <1>21 DEF WorkerEnds
<1>22. CASE TaskCancelled
    BY <1>22 DEF TaskCancelled, AwaitPoints
<1> QED
    BY <1>0, <1>1, <1>2, <1>3, <1>4, <1>51, <1>52, <1>6, <1>7, <1>8, <1>9, <1>10, <1>11, <1>12, <1>13,
       <1>14, <1>15, <1>17, <1>18, <1>19, <1>20, <1>21, <1>22
    DEF Next, Step, Hook, EventFailure, Cancellation, WorkerStep

-----------------------------------------------------------------------------
(* The inductive invariant *)

\* Charging plans that are not counted yet, releasing some that are.
LEMMA ChargeCounted ==
    ASSUME NEW C \in SUBSET Plan, NEW R \in SUBSET Plan, C \cap R = {},
           \A e \in Executor : \A q \in Quantity : reserved[e][q] = Total(C, e, q),
           ChargeAll(R)
    PROVE  \A e \in Executor : \A q \in Quantity : reserved'[e][q] = Total(C \cup R, e, q)
<1> SUFFICES ASSUME NEW e \in Executor, NEW q \in Quantity
             PROVE  reserved'[e][q] = Total(C \cup R, e, q)
    OBVIOUS
<1>1. reserved'[e][q] = reserved[e][q] + Total(R, e, q)
    BY DEF ChargeAll
<1>2. Total(C \cup R, e, q) = Total(C, e, q) + Total(R, e, q)
    BY TotalUnion
<1> QED BY <1>1, <1>2

\* Releasing plans that are counted leaves the account of the others.
LEMMA ReleaseCounted ==
    ASSUME NEW C \in SUBSET Plan, NEW R \in SUBSET C,
           \A e \in Executor : \A q \in Quantity : reserved[e][q] = Total(C, e, q),
           ReleaseAll(R)
    PROVE  \A e \in Executor : \A q \in Quantity : reserved'[e][q] = Total(C \ R, e, q)
<1> SUFFICES ASSUME NEW e \in Executor, NEW q \in Quantity
             PROVE  reserved'[e][q] = Total(C \ R, e, q)
    OBVIOUS
<1>1. reserved'[e][q] = reserved[e][q] - Total(R, e, q)
    BY DEF ReleaseAll
<1>2. Total(C \ R, e, q) = Total(C, e, q) - Total(R, e, q)
    BY TotalPart
<1> QED BY <1>1, <1>2

\* Every action keeps what the control points know.
LEMMA ControlNext == IndInv /\ [Next]_vars => Control'
<1> SUFFICES ASSUME IndInv, [Next]_vars PROVE Control'
    OBVIOUS
<1> USE DEF IndInv, TypeOK, signals, book, resources, lifecycle, scanning, Move
<1>1. CASE UNCHANGED vars \/ BeginStart \/ StartLoop \/ LoopEnd \/ ScanEnd \/ ScanSkip
    BY <1>1 DEF vars, BeginStart, First, StartLoop, LoopEnd, ScanEnd, ScanSkip,
        ScanGuard, Control
<1>2. CASE ScanBlock \/ ScanAdmit \/ CheckIdle \/ CheckWait \/ DrainTimeout \/
        WaitReturns
    BY <1>2 DEF ScanBlock, ScanCandidate, ScanGuard, ScanAdmit, Native, Waves,
        CheckIdle, CheckWait, DrainTimeout, WithUnresolved, WaitReturns, Finished,
        Control
<1>3. CASE ProcessEnd \/ BeginClose \/ Report \/ StartReturns \/ StartFails \/ AdmitWave
    BY <1>3 DEF ProcessEnd, BeginClose, Report, StartReturns, StartFails, AdmitWave,
        Control
<1>4. CASE AdmitWaveStopped \/ CloseTimeout \/ AdmitWaveEventFails \/
        ScanAdmitEventFails \/ DrainEventFails \/ ReportEventFails
    BY <1>4 DEF AdmitWaveStopped, CloseTimeout, AdmitWaveEventFails,
        ScanAdmitEventFails, ScanCandidate, ScanGuard, DrainEventFails, WithUnresolved,
        ReportEventFails, Control
<1>5. CASE TokenCancelled \/ TaskCancelled \/ DeadlineExpires \/ Terminated
    BY <1>5 DEF TokenCancelled, TaskCancelled, AwaitPoints, DeadlineExpires, Terminated,
        vars, Control
<1>6. CASE LoopTop
    <2>1. Native \/ Waves
        BY ConstantTypes DEF Native, Waves
    <2> QED BY <1>6, <2>1 DEF LoopTop, AfterTop, Control
<1>7. ASSUME NEW p \in Plan, Process(p) PROVE Control'
    BY <1>7 DEF Process, GroupCompleteWith, Control
<1>8. CASE Finally
    <2>1. draining' = {} => \A p \in Plan : worker[p] # "running"
        BY <1>8 DEF Finally, Evidence
    <2> QED BY <1>8, <2>1 DEF Finally, ToClose, Control
<1>9. ASSUME NEW ok \in BOOLEAN, FinishWave(ok) PROVE Control'
    BY <1>9 DEF FinishWave, WaveSafe, Control
<1>10. ASSUME NEW ok \in BOOLEAN, CloseReturns(ok) PROVE Control'
    BY <1>10 DEF CloseReturns, Control
<1>11. ASSUME NEW p \in Plan, ProcessEventFails(p) PROVE Control'
    BY <1>11 DEF ProcessEventFails, Control
<1>12. ASSUME NEW ok \in BOOLEAN, FinishWaveEventFails(ok) PROVE Control'
    BY <1>12 DEF FinishWaveEventFails, WaveSafe, Control
<1>13. ASSUME NEW p \in Plan, NEW outcome \in Outcome, WorkerEnds(p, outcome) PROVE Control'
    BY <1>13 DEF WorkerEnds, AwaitPoints, Control
<1> QED
    BY <1>1, <1>2, <1>3, <1>4, <1>5, <1>6, <1>7, <1>8, <1>9, <1>10, <1>11, <1>12, <1>13
    DEF Next, Step, Hook, EventFailure, Cancellation, WorkerStep

\* Every action keeps the correspondence of tasks, results and dictionaries.
LEMMA EvidenceNext == IndInv /\ [Next]_vars => Evidence'
<1> SUFFICES ASSUME IndInv, [Next]_vars PROVE Evidence'
    OBVIOUS
<1> USE DEF IndInv, TypeOK, signals, book, resources, lifecycle, scanning, Move
<1>1. CASE UNCHANGED vars \/ BeginStart \/ StartLoop \/ LoopTop \/ LoopEnd \/ ScanEnd
    BY <1>1 DEF vars, BeginStart, First, StartLoop, LoopTop, AfterTop, ArmDeadline,
        Native, Waves, LoopEnd, ScanEnd, Control, Evidence, Looping
<1>2. CASE ScanSkip \/ ScanBlock \/ ScanAdmit \/ CheckIdle \/ CheckWait \/ DrainTimeout
    BY <1>2 DEF ScanSkip, ScanGuard, ScanBlock, ScanCandidate, ScanAdmit, Native, Waves,
        CheckIdle, CheckWait, DrainTimeout, WithUnresolved, Control, Evidence, Looping
<1>3. CASE WaitReturns \/ ProcessEnd \/ Finally \/ BeginClose \/ Report \/ StartReturns
    BY <1>3 DEF WaitReturns, Finished, ProcessEnd, Finally, ToClose, WithUnresolved,
        BeginClose, Report, StartReturns, Control, Evidence, Looping
<1>4. CASE StartFails \/ AdmitWaveStopped \/ CloseTimeout \/ AdmitWaveEventFails \/
        ScanAdmitEventFails \/ DrainEventFails
    BY <1>4 DEF StartFails, AdmitWaveStopped, CloseTimeout, AdmitWaveEventFails,
        ScanAdmitEventFails, ScanCandidate, ScanGuard, DrainEventFails, WithUnresolved,
        Control, Evidence, Looping
<1>5. CASE ReportEventFails \/ TokenCancelled \/ TaskCancelled \/ DeadlineExpires \/
        Terminated
    BY <1>5 DEF ReportEventFails, TokenCancelled, TaskCancelled, AwaitPoints,
        DeadlineExpires, Terminated, vars, Control, Evidence, Looping
<1>6. ASSUME NEW p \in Plan, Process(p) PROVE Evidence'
    <2>1. /\ pc = "process" /\ Looping /\ p \in done /\ p \in active /\ worker[p] \in Outcome
          /\ active' = active \ {p} /\ result' = [result EXCEPT ![p] = worker[p]]
          /\ UNCHANGED <<worker, pending, draining>>
        BY <1>6 DEF Process, Looping
    <2>2. \A r \in Plan : result'[r] = IF r = p THEN worker[p] ELSE result[r]
        BY <2>1
    <2>3. p \notin pending
        BY <2>1 DEF Accounting, AccountedBy
    <2>4. worker[p] # "running" /\ worker[p] # "none"
        BY <2>1 DEF Outcome
    <2>5. Waves => /\ held' = held
                   /\ pc' = "finishing" => finishing' = p /\ GroupCompleteWith(p)
        BY <1>6 DEF Process
    <2>6. pc' = "finishing" => Waves
        BY <1>6, <2>1 DEF Process
    <2>7. pc' = "finishing" => \A r \in Members(GroupOf[finishing']) : result'[r] # "none"
        BY <2>2, <2>4, <2>5, <2>6 DEF GroupCompleteWith, Members
    <2>8. Waves => GroupOf[p] \in held
        BY <2>1 DEF Evidence
    <2> QED BY <2>1, <2>2, <2>3, <2>4, <2>5, <2>6, <2>7, <2>8 DEF Evidence
<1>7. CASE AdmitWave
    <2>1. PICK g \in NextGroup :
            /\ held' = held \cup {g}
            /\ pending' = pending \ Members(g)
            /\ active' = active \cup Members(g)
            /\ worker' = [p \in Plan |-> IF p \in Members(g) THEN "running" ELSE worker[p]]
        BY <1>7 DEF AdmitWave
    <2>2. /\ pc = "admitting" /\ pc' = "check" /\ UNCHANGED <<result, draining>>
        BY <1>7 DEF AdmitWave
    <2>3. Looping /\ Looping' /\ Waves
        BY <2>2 DEF Looping, Control
    <2>4. Members(g) \subseteq pending
        BY <2>3 DEF Evidence, NextGroup, First
    <2>5. \A p \in pending' : Members(GroupOf[p]) \subseteq pending'
        BY <2>1, <2>3 DEF Evidence, Members
    <2> QED BY <2>1, <2>2, <2>3, <2>4, <2>5 DEF Evidence, Members
<1>8. ASSUME NEW ok \in BOOLEAN, FinishWave(ok) PROVE Evidence'
    <2>1. pc = "finishing" /\ Looping /\ held' = held \ {GroupOf[finishing]} /\ pc' = "process"
        BY <1>8 DEF FinishWave, Looping
    <2>2. \A p \in active : GroupOf[p] # GroupOf[finishing]
        BY <2>1 DEF Evidence, Members
    <2> QED BY <1>8, <2>1, <2>2 DEF FinishWave, Evidence, Looping
<1>9. ASSUME NEW ok \in BOOLEAN, CloseReturns(ok) PROVE Evidence'
    BY <1>9 DEF CloseReturns, Control, Evidence, Looping
<1>10. ASSUME NEW p \in Plan, ProcessEventFails(p) PROVE Evidence'
    <2>1. worker[p] # "running"
        BY <1>10 DEF ProcessEventFails, Outcome
    <2> QED BY <1>10, <2>1 DEF ProcessEventFails, Evidence, Looping
<1>11. ASSUME NEW ok \in BOOLEAN, FinishWaveEventFails(ok) PROVE Evidence'
    BY <1>11 DEF FinishWaveEventFails, WaveSafe, Control, Evidence, Looping
<1>12. ASSUME NEW p \in Plan, NEW outcome \in Outcome, WorkerEnds(p, outcome) PROVE Evidence'
    <2>1. worker[p] = "running" /\ worker' = [worker EXCEPT ![p] = outcome]
        BY <1>12 DEF WorkerEnds
    <2>2. Looping => result[p] = "none"
        BY <2>1 DEF Evidence, Outcome
    <2>3. \A r \in Plan : worker'[r] = IF r = p THEN outcome ELSE worker[r]
        BY <2>1
    <2>4. outcome # "running"
        BY DEF Outcome
    <2>5. UNCHANGED <<pc, pending, active, draining, result, held, finishing>>
        BY <1>12 DEF WorkerEnds
    <2> QED BY <2>2, <2>3, <2>4, <2>5 DEF Evidence, Looping
<1> QED
    BY <1>1, <1>2, <1>3, <1>4, <1>5, <1>6, <1>7, <1>8, <1>9, <1>10, <1>11, <1>12
    DEF Next, Step, Hook, EventFailure, Cancellation, WorkerStep

\* Every action keeps the reservations equal to those of a set of plans: the
\* set grows by an admission and shrinks by a proved release.
LEMMA AccountingNext == IndInv /\ [Next]_vars => Accounting'
<1> SUFFICES ASSUME IndInv, [Next]_vars PROVE Accounting'
    OBVIOUS
<1> USE DEF signals, book, resources, lifecycle, scanning, Move
<1>t. TypeOK /\ Control /\ Evidence /\ Accounting
    BY DEF IndInv
<1>c. PICK C \in SUBSET Plan : AccountedBy(C)
    BY <1>t DEF Accounting
<1>1. CASE UNCHANGED vars \/ BeginStart \/ StartLoop \/ LoopTop \/ LoopEnd \/ ScanEnd
    <2>1. AccountedBy(C)'
        BY <1>t, <1>c, <1>1 DEF vars, BeginStart, First, StartLoop, LoopTop, AfterTop,
            ArmDeadline, Native, Waves, LoopEnd, ScanEnd, QuarantineAll, Control,
            AccountedBy, Looping
    <2> QED BY <2>1 DEF Accounting
<1>2. CASE ScanSkip \/ ScanBlock \/ CheckIdle \/ CheckWait \/ DrainTimeout \/
        WaitReturns
    <2>1. AccountedBy(C)'
        BY <1>t, <1>c, <1>2 DEF ScanSkip, ScanGuard, ScanBlock, ScanCandidate,
            CheckIdle, CheckWait, DrainTimeout, WithUnresolved, WaitReturns, Finished,
            QuarantineAll, Control, AccountedBy, Looping
    <2> QED BY <2>1 DEF Accounting
<1>3. CASE ProcessEnd \/ Finally \/ BeginClose \/ Report \/ StartReturns \/ StartFails
    <2>1. AccountedBy(C)'
        BY <1>t, <1>c, <1>3 DEF ProcessEnd, Finally, ToClose, WithUnresolved,
            BeginClose, Report, StartReturns, StartFails, QuarantineAll, Control,
            AccountedBy, Looping
    <2> QED BY <2>1 DEF Accounting
<1>4. CASE AdmitWaveStopped \/ CloseTimeout \/ DrainEventFails \/ ReportEventFails \/
        TokenCancelled \/ TaskCancelled
    <2>1. AccountedBy(C)'
        BY <1>t, <1>c, <1>4 DEF AdmitWaveStopped, CloseTimeout, DrainEventFails,
            WithUnresolved, ReportEventFails, TokenCancelled, TaskCancelled,
            AwaitPoints, QuarantineAll, Control, AccountedBy, Looping
    <2> QED BY <2>1 DEF Accounting
<1>5. CASE DeadlineExpires \/ Terminated
    <2>1. AccountedBy(C)'
        BY <1>t, <1>c, <1>5 DEF DeadlineExpires, Terminated, vars, QuarantineAll,
            Control, AccountedBy, Looping
    <2> QED BY <2>1 DEF Accounting
<1>6. CASE ScanAdmit
    <2>0. ~Waves
        BY <1>t, <1>6 DEF ScanAdmit, ScanCandidate, ScanGuard, Control, Native, Waves
    <2>1. cursor \in pending /\ cursor \in Plan /\ ChargeAll({cursor})
        BY <1>t, <1>6 DEF ScanAdmit, ScanCandidate, ScanGuard, TypeOK
    <2>2. {cursor} \in SUBSET Plan /\ C \cap {cursor} = {} /\ C \cup {cursor} \in SUBSET Plan
        BY <1>c, <2>1 DEF AccountedBy
    <2>3. \A e \in Executor : \A q \in Quantity :
             reserved'[e][q] = Total(C \cup {cursor}, e, q)
        BY <1>c, <2>1, <2>2, ChargeCounted DEF AccountedBy
    <2>4. \A p \in Plan : worker'[p] # worker[p] => p = cursor
        BY <1>t, <1>6 DEF ScanAdmit, TypeOK
    <2>5. pending' = pending \ {cursor} /\ active' \subseteq active \cup {cursor}
        BY <1>6 DEF ScanAdmit
    <2>6. PICK D \in SUBSET Plan : D = C \cup {cursor}
        BY <2>2
    <2>7. AccountedBy(D)'
        BY <1>c, <2>0, <2>2, <2>3, <2>4, <2>5, <2>6 DEF AccountedBy
    <2> QED BY <2>7 DEF Accounting
<1>7. ASSUME NEW p \in Plan, Process(p) PROVE Accounting'
    <2>1. /\ p \in active /\ p \in C /\ active' = active \ {p} /\ UNCHANGED <<worker, pending>>
          /\ worker[p] \in Outcome /\ pc = "process" /\ (stopped => stopped')
        BY <1>t, <1>c, <1>7 DEF Process, AccountedBy, TypeOK
    <2>2. Waves => held' = held
        BY <1>7 DEF Process, Native, Waves
    <2>3. CASE UNCHANGED reserved
        <3>1. AccountedBy(C)'
            BY <1>c, <2>1, <2>2, <2>3 DEF AccountedBy, Looping
        <3> QED BY <3>1 DEF Accounting
    <2>4. CASE ~Waves /\ Safe(worker[p]) /\ ReleaseAll({p})
        <3>0. {p} \in SUBSET C
            BY <2>1
        <3>1. \A e \in Executor : \A q \in Quantity : reserved'[e][q] = Total(C \ {p}, e, q)
            BY <1>c, <2>4, <3>0, ReleaseCounted DEF AccountedBy
        <3>2. worker[p] \notin {"running", "unsafe"}
            BY <2>4 DEF Safe
        <3>3. AccountedBy(C \ {p})'
            BY <1>c, <2>1, <2>4, <3>1, <3>2 DEF AccountedBy
        <3> QED BY <3>3 DEF Accounting
    <2> QED BY <1>7, <2>3, <2>4 DEF Process, QuarantineAll
<1>8. CASE AdmitWave
    <2>1. PICK g \in NextGroup :
            /\ held' = held \cup {g}
            /\ ChargeAll(Members(g))
            /\ pending' = pending \ Members(g)
            /\ active' = active \cup Members(g)
            /\ worker' = [p \in Plan |-> IF p \in Members(g) THEN "running" ELSE worker[p]]
        BY <1>8 DEF AdmitWave
    <2>2. Waves /\ ~stopped /\ held = {} /\ C = {}
        BY <1>t, <1>c, <1>8 DEF AdmitWave, Control, AccountedBy
    <2>3. \A e \in Executor : \A q \in Quantity : reserved'[e][q] = Total(Members(g), e, q)
        <3> SUFFICES ASSUME NEW e \in Executor, NEW q \in Quantity
                     PROVE  reserved'[e][q] = Total(Members(g), e, q)
            OBVIOUS
        <3>1. reserved'[e][q] = reserved[e][q] + Total(Members(g), e, q)
            BY <2>1 DEF ChargeAll
        <3>2. reserved[e][q] = 0 /\ Total(Members(g), e, q) \in Nat
            BY <1>c, <2>2, TotalEmpty, TotalNat, MembersPlan DEF AccountedBy
        <3> QED BY <3>1, <3>2
    <2>4. AccountedBy(Members(g))'
        BY <1>c, <2>1, <2>2, <2>3 DEF AccountedBy, Members
    <2> QED BY <2>4, MembersPlan DEF Accounting
<1>9. ASSUME NEW ok \in BOOLEAN, FinishWave(ok) PROVE Accounting'
    <2> DEFINE W == Members(GroupOf[finishing])
    <2>1. /\ pc = "finishing" /\ Looping /\ Waves /\ UNCHANGED <<pending, active, worker>>
          /\ stopped => stopped'
        BY <1>t, <1>9 DEF FinishWave, Control, Looping
    <2>2. /\ held' \subseteq held /\ held \ {GroupOf[finishing]} \subseteq held'
          /\ Looping' => GroupOf[finishing] \notin held'
        BY <1>9 DEF FinishWave, Looping
    <2>3. CASE WaveSafe(ok)
        <3>1. W \in SUBSET C
            BY <1>t, <1>c, <2>1 DEF Evidence, AccountedBy, Members
        <3>2. ReleaseAll(W)
            BY <1>9, <2>3 DEF FinishWave
        <3>3. \A e \in Executor : \A q \in Quantity : reserved'[e][q] = Total(C \ W, e, q)
            <4> HIDE DEF W
            <4> QED BY <1>c, <3>1, <3>2, ReleaseCounted DEF AccountedBy
        <3>4. \A p \in W : p \notin active /\ worker[p] \notin {"running", "unsafe"}
            BY <1>t, <2>1, <2>3 DEF Evidence, WaveSafe, Safe, Members
        <3>5. \A p \in Plan : p \notin W <=> GroupOf[p] # GroupOf[finishing]
            BY DEF Members
        <3>6. PICK D \in SUBSET Plan : D = C \ W
            OBVIOUS
        <3>7. AccountedBy(D)'
            <4> HIDE DEF W
            <4>1. C \ W \subseteq Plan \ pending' /\ active' \subseteq C \ W
                BY <1>c, <2>1, <3>4 DEF AccountedBy
            <4>2. \A p \in Plan : worker'[p] \in {"running", "unsafe"} => p \in C \ W
                BY <1>c, <2>1, <3>4 DEF AccountedBy
            <4>3. Looping' => \A p \in Plan : GroupOf[p] \in held' => p \in C \ W
                BY <1>c, <2>1, <2>2, <3>5 DEF AccountedBy
            <4>4. ~stopped' => \A p \in C \ W : GroupOf[p] \in held'
                BY <1>c, <2>1, <2>2, <3>5 DEF AccountedBy
            <4> QED BY <3>3, <3>6, <4>1, <4>2, <4>3, <4>4 DEF AccountedBy
        <3> QED BY <3>7 DEF Accounting
    <2>4. CASE ~WaveSafe(ok)
        <3>1. UNCHANGED reserved /\ stopped'
            BY <1>9, <2>4 DEF FinishWave, QuarantineAll
        <3>2. AccountedBy(C)'
            BY <1>c, <2>1, <2>2, <3>1 DEF AccountedBy
        <3> QED BY <3>2 DEF Accounting
    <2> QED BY <2>3, <2>4
<1>10. ASSUME NEW ok \in BOOLEAN, CloseReturns(ok) PROVE Accounting'
    <2>1. AccountedBy(C)'
        BY <1>t, <1>c, <1>10 DEF CloseReturns, QuarantineAll, Control, AccountedBy, Looping
    <2> QED BY <2>1 DEF Accounting
<1>11. CASE AdmitWaveEventFails
    <2>1. PICK g \in NextGroup : \E k \in Members(g) :
            /\ held' = held \cup {g}
            /\ ChargeAll({p \in Members(g) : p <= k})
            /\ pending' = pending \ {p \in Members(g) : p <= k}
            /\ active' = active \cup {p \in Members(g) : p < k}
            /\ worker' = [p \in Plan |-> IF p \in Members(g) /\ p < k THEN "running" ELSE worker[p]]
        BY <1>11 DEF AdmitWaveEventFails
    <2>2. PICK k \in Members(g) :
            /\ held' = held \cup {g}
            /\ ChargeAll({p \in Members(g) : p <= k})
            /\ pending' = pending \ {p \in Members(g) : p <= k}
            /\ active' = active \cup {p \in Members(g) : p < k}
            /\ worker' = [p \in Plan |-> IF p \in Members(g) /\ p < k THEN "running" ELSE worker[p]]
        BY <2>1
    <2> DEFINE B == {p \in Members(g) : p <= k}
    <2>3. Waves /\ ~stopped /\ held = {} /\ C = {} /\ stopped' /\ ~Looping'
        BY <1>t, <1>c, <1>11 DEF AdmitWaveEventFails, Control, AccountedBy, Looping
    <2>4. B \in SUBSET Plan
        BY MembersPlan
    <2>5. \A e \in Executor : \A q \in Quantity : reserved'[e][q] = Total(B, e, q)
        <3> SUFFICES ASSUME NEW e \in Executor, NEW q \in Quantity
                     PROVE  reserved'[e][q] = Total(B, e, q)
            OBVIOUS
        <3> HIDE DEF B
        <3>1. reserved'[e][q] = reserved[e][q] + Total(B, e, q)
            BY <2>2 DEF ChargeAll, B
        <3>2. reserved[e][q] = 0 /\ Total(B, e, q) \in Nat
            BY <1>c, <2>3, <2>4, TotalEmpty, TotalNat DEF AccountedBy
        <3> QED BY <3>1, <3>2
    <2>6. \A p \in Members(g) : p < k => p <= k
        BY MembersPlan DEF Plan
    <2>7. \A p \in Plan : worker[p] \notin {"running", "unsafe"}
        BY <1>c, <2>3 DEF AccountedBy
    <2>8. AccountedBy(B)'
        BY <1>c, <2>2, <2>3, <2>4, <2>5, <2>6, <2>7 DEF AccountedBy
    <2> QED BY <2>4, <2>8 DEF Accounting
<1>12. CASE ScanAdmitEventFails
    <2>0. ~Waves
        BY <1>t, <1>12 DEF ScanAdmitEventFails, ScanCandidate, ScanGuard, Control, Native, Waves
    <2>1. cursor \in pending /\ cursor \in Plan /\ ChargeAll({cursor})
        BY <1>t, <1>12 DEF ScanAdmitEventFails, ScanCandidate, ScanGuard, TypeOK
    <2>2. {cursor} \in SUBSET Plan /\ C \cap {cursor} = {} /\ C \cup {cursor} \in SUBSET Plan
        BY <1>c, <2>1 DEF AccountedBy
    <2>3. \A e \in Executor : \A q \in Quantity :
             reserved'[e][q] = Total(C \cup {cursor}, e, q)
        BY <1>c, <2>1, <2>2, ChargeCounted DEF AccountedBy
    <2>4. \A p \in Plan : worker'[p] # worker[p] => p = cursor
        BY <1>t, <1>12 DEF ScanAdmitEventFails, TypeOK
    <2>5. pending' = pending \ {cursor} /\ active' \subseteq active \cup {cursor}
        BY <1>12 DEF ScanAdmitEventFails
    <2>6. PICK D \in SUBSET Plan : D = C \cup {cursor}
        BY <2>2
    <2>7. AccountedBy(D)'
        BY <1>c, <2>0, <2>2, <2>3, <2>4, <2>5, <2>6 DEF AccountedBy
    <2> QED BY <2>7 DEF Accounting
<1>13. ASSUME NEW p \in Plan, ProcessEventFails(p) PROVE Accounting'
    <2>1. /\ p \in active /\ p \in C /\ active' = active \ {p} /\ UNCHANGED <<worker, pending>>
          /\ worker[p] \in Outcome /\ pc = "process" /\ (stopped => stopped')
        BY <1>t, <1>c, <1>13 DEF ProcessEventFails, AccountedBy, TypeOK
    <2>2. Waves => held' = held
        BY <1>13 DEF ProcessEventFails, Native, Waves
    <2>3. CASE UNCHANGED reserved
        <3>1. AccountedBy(C)'
            BY <1>c, <2>1, <2>2, <2>3 DEF AccountedBy, Looping
        <3> QED BY <3>1 DEF Accounting
    <2>4. CASE ~Waves /\ Safe(worker[p]) /\ ReleaseAll({p})
        <3>0. {p} \in SUBSET C
            BY <2>1
        <3>1. \A e \in Executor : \A q \in Quantity : reserved'[e][q] = Total(C \ {p}, e, q)
            BY <1>c, <2>4, <3>0, ReleaseCounted DEF AccountedBy
        <3>2. worker[p] \notin {"running", "unsafe"}
            BY <2>4 DEF Safe
        <3>3. AccountedBy(C \ {p})'
            BY <1>c, <2>1, <2>4, <3>1, <3>2 DEF AccountedBy
        <3> QED BY <3>3 DEF Accounting
    <2> QED BY <1>13, <2>3, <2>4 DEF ProcessEventFails, QuarantineAll
<1>14. ASSUME NEW ok \in BOOLEAN, FinishWaveEventFails(ok) PROVE Accounting'
    <2> DEFINE W == Members(GroupOf[finishing])
    <2>1. /\ pc = "finishing" /\ Looping /\ Waves /\ UNCHANGED <<pending, active, worker>>
          /\ stopped => stopped'
        BY <1>t, <1>14 DEF FinishWaveEventFails, Control, Looping
    <2>2. /\ held' \subseteq held /\ held \ {GroupOf[finishing]} \subseteq held'
          /\ Looping' => GroupOf[finishing] \notin held'
        BY <1>14 DEF FinishWaveEventFails, Looping
    <2>3. CASE WaveSafe(ok)
        <3>1. W \in SUBSET C
            BY <1>t, <1>c, <2>1 DEF Evidence, AccountedBy, Members
        <3>2. ReleaseAll(W)
            BY <1>14, <2>3 DEF FinishWaveEventFails
        <3>3. \A e \in Executor : \A q \in Quantity : reserved'[e][q] = Total(C \ W, e, q)
            <4> HIDE DEF W
            <4> QED BY <1>c, <3>1, <3>2, ReleaseCounted DEF AccountedBy
        <3>4. \A p \in W : p \notin active /\ worker[p] \notin {"running", "unsafe"}
            BY <1>t, <2>1, <2>3 DEF Evidence, WaveSafe, Safe, Members
        <3>5. \A p \in Plan : p \notin W <=> GroupOf[p] # GroupOf[finishing]
            BY DEF Members
        <3>6. PICK D \in SUBSET Plan : D = C \ W
            OBVIOUS
        <3>7. AccountedBy(D)'
            <4> HIDE DEF W
            <4>1. C \ W \subseteq Plan \ pending' /\ active' \subseteq C \ W
                BY <1>c, <2>1, <3>4 DEF AccountedBy
            <4>2. \A p \in Plan : worker'[p] \in {"running", "unsafe"} => p \in C \ W
                BY <1>c, <2>1, <3>4 DEF AccountedBy
            <4>3. Looping' => \A p \in Plan : GroupOf[p] \in held' => p \in C \ W
                BY <1>c, <2>1, <2>2, <3>5 DEF AccountedBy
            <4>4. ~stopped' => \A p \in C \ W : GroupOf[p] \in held'
                BY <1>c, <2>1, <2>2, <3>5 DEF AccountedBy
            <4> QED BY <3>3, <3>6, <4>1, <4>2, <4>3, <4>4 DEF AccountedBy
        <3> QED BY <3>7 DEF Accounting
    <2>4. CASE ~WaveSafe(ok)
        <3>1. UNCHANGED reserved /\ stopped'
            BY <1>14, <2>4 DEF FinishWaveEventFails, QuarantineAll
        <3>2. AccountedBy(C)'
            BY <1>c, <2>1, <2>2, <3>1 DEF AccountedBy
        <3> QED BY <3>2 DEF Accounting
    <2> QED BY <2>3, <2>4
<1>15. ASSUME NEW p \in Plan, NEW outcome \in Outcome, WorkerEnds(p, outcome) PROVE Accounting'
    <2>1. worker[p] = "running" /\ p \in C
        BY <1>c, <1>15 DEF WorkerEnds, AccountedBy
    <2>2. \A r \in Plan : r # p => worker'[r] = worker[r]
        BY <1>t, <1>15 DEF WorkerEnds, TypeOK
    <2>3. AccountedBy(C)'
        BY <1>c, <1>15, <2>1, <2>2 DEF WorkerEnds, AccountedBy, Looping
    <2> QED BY <2>3 DEF Accounting
<1> QED
    BY <1>1, <1>2, <1>3, <1>4, <1>5, <1>6, <1>7, <1>8, <1>9, <1>10, <1>11, <1>12, <1>13,
       <1>14, <1>15
    DEF Next, Step, Hook, EventFailure, Cancellation, WorkerStep

\* Releasing and quarantining never raise a reservation.
LEMMA CapacityKept ==
    ASSUME TypeOK, CapacityRespected, NEW S \in SUBSET Plan,
           ReleaseAll(S) \/ QuarantineAll(S)
    PROVE  CapacityRespected'
<1>1. \A e \in Executor : \A q \in Quantity : Total(S, e, q) \in Nat
    BY TotalNat
<1>2. \A e \in Executor : \A q \in Quantity :
        reserved[e][q] \in Int /\ peak[e][q] \in Int
    BY DEF TypeOK
<1>3. peak' = peak /\ \A e \in Executor : \A q \in Quantity : reserved'[e][q] <= reserved[e][q]
    BY <1>1, <1>2 DEF ReleaseAll, QuarantineAll
<1>4. \A e \in Executor : \A q \in Quantity : reserved'[e][q] \in Int
    BY <1>1, <1>2 DEF ReleaseAll, QuarantineAll
<1>5. \A e \in Executor \cap DOMAIN Capacity : \A q \in Quantity : Capacity[e][q] \in Int
    BY ConstantTypes
<1> QED BY <1>2, <1>3, <1>4, <1>5 DEF CapacityRespected

\* Charging within the capacities.
LEMMA CapacityCharged ==
    ASSUME TypeOK, CapacityRespected, NEW S \in SUBSET Plan, ChargeAll(S),
           \A e \in Executor \cap DOMAIN Capacity : \A q \in Quantity :
               reserved[e][q] + Total(S, e, q) <= Capacity[e][q]
    PROVE  CapacityRespected'
<1>1. \A e \in Executor : \A q \in Quantity : Total(S, e, q) \in Nat
    BY TotalNat
<1>2. \A e \in Executor : \A q \in Quantity :
        reserved[e][q] \in Int /\ peak[e][q] \in Int
    BY DEF TypeOK
<1>3. \A e \in Executor : \A q \in Quantity :
        /\ reserved'[e][q] = reserved[e][q] + Total(S, e, q)
        /\ peak'[e][q] = IF reserved[e][q] + Total(S, e, q) > peak[e][q]
                         THEN reserved[e][q] + Total(S, e, q) ELSE peak[e][q]
    BY DEF ChargeAll
<1> QED BY <1>1, <1>2, <1>3 DEF CapacityRespected

\* Every action keeps reservations and peaks within the capacities.
LEMMA CapacityNext == IndInv /\ [Next]_vars => CapacityRespected'
<1> SUFFICES ASSUME IndInv, [Next]_vars PROVE CapacityRespected'
    OBVIOUS
<1> USE DEF signals, book, resources, lifecycle, scanning, Move
<1>t. TypeOK /\ Control /\ Accounting /\ CapacityRespected
    BY DEF IndInv
<1>c. PICK C \in SUBSET Plan : AccountedBy(C)
    BY <1>t DEF Accounting
<1>1. CASE UNCHANGED vars \/ BeginStart \/ StartLoop \/ LoopTop \/ LoopEnd \/ ScanEnd
    BY <1>t, <1>1 DEF vars, BeginStart, First, StartLoop, LoopTop, AfterTop,
        ArmDeadline, Native, Waves, LoopEnd, ScanEnd, CapacityRespected
<1>2. CASE ScanSkip \/ ScanBlock \/ CheckIdle \/ CheckWait \/ WaitReturns \/ ProcessEnd
    BY <1>t, <1>2 DEF ScanSkip, ScanGuard, ScanBlock, ScanCandidate, CheckIdle,
        CheckWait, WaitReturns, Finished, ProcessEnd, CapacityRespected
<1>3. CASE BeginClose \/ Report \/ StartReturns \/ StartFails \/ AdmitWaveStopped \/
        CloseTimeout
    BY <1>t, <1>3 DEF BeginClose, Report, StartReturns, StartFails, AdmitWaveStopped,
        CloseTimeout, CapacityRespected
<1>4. CASE ReportEventFails \/ TokenCancelled \/ TaskCancelled \/ DeadlineExpires \/
        Terminated
    BY <1>t, <1>4 DEF ReportEventFails, TokenCancelled, TaskCancelled, AwaitPoints,
        DeadlineExpires, Terminated, vars, CapacityRespected
<1>5. CASE ScanAdmit
    <2>1. cursor \in Plan /\ {cursor} \in SUBSET Plan /\ Fits(cursor) /\ ChargeAll({cursor})
        BY <1>t, <1>5 DEF ScanAdmit, ScanCandidate, ScanGuard, TypeOK
    <2>2. ASSUME NEW e \in Executor \cap DOMAIN Capacity, NEW q \in Quantity
          PROVE  reserved[e][q] + Total({cursor}, e, q) <= Capacity[e][q]
        <3>1. Total({cursor}, e, q) = Charge(cursor, e, q)
            BY <2>1, TotalOne
        <3>2. CASE cursor \notin StagePlans /\ ExecutorOf[cursor] = e
            BY <2>1, <3>1, <3>2 DEF Fits, Charge
        <3>3. CASE ~(cursor \notin StagePlans /\ ExecutorOf[cursor] = e)
            <4>1. Total({cursor}, e, q) = 0
                BY <3>1, <3>3 DEF Charge
            <4>2. reserved[e][q] \in Int /\ peak[e][q] \in Int /\ Capacity[e][q] \in Int
                BY <1>t, ConstantTypes DEF TypeOK
            <4> QED BY <1>t, <4>1, <4>2 DEF CapacityRespected
        <3> QED BY <3>2, <3>3
    <2> QED BY <1>t, <2>1, <2>2, CapacityCharged
<1>6. CASE DrainTimeout
    <2>1. DrainQuarantine \in SUBSET Plan /\ QuarantineAll(DrainQuarantine)
        BY <1>t, <1>6 DEF DrainTimeout, DrainQuarantine, TypeOK
    <2> QED BY <1>t, <2>1, CapacityKept
<1>7. ASSUME NEW p \in Plan, Process(p) PROVE CapacityRespected'
    <2>1. CASE Waves
        BY <1>t, <1>7, <2>1 DEF Process, CapacityRespected
    <2>2. CASE ~Waves
        <3>1. {p} \in SUBSET Plan /\ (ReleaseAll({p}) \/ QuarantineAll({p}))
            BY <1>7, <2>2 DEF Process
        <3> QED BY <1>t, <3>1, CapacityKept
    <2> QED BY <2>1, <2>2
<1>8. CASE Finally
    <2>1. active \in SUBSET Plan /\ QuarantineAll(active)
        BY <1>t, <1>8 DEF Finally, DrainQuarantine, TypeOK
    <2> QED BY <1>t, <2>1, CapacityKept
<1>9. CASE AdmitWave
    <2>1. PICK g \in NextGroup : ChargeAll(Members(g))
        BY <1>9 DEF AdmitWave
    <2>2. Members(g) \in SUBSET Members(g)
        OBVIOUS
    <2>3. C = {}
        BY <1>t, <1>c, <1>9 DEF AdmitWave, Control, AccountedBy
    <2>4. ASSUME NEW e \in Executor \cap DOMAIN Capacity, NEW q \in Quantity
          PROVE  reserved[e][q] + Total(Members(g), e, q) <= Capacity[e][q]
        <3>1. reserved[e][q] = 0
            BY <1>c, <2>3, TotalEmpty DEF AccountedBy
        <3>2. Total(Members(g), e, q) \in Nat /\ Total(Members(g), e, q) \in Nat
            BY <2>2, TotalNat, MembersPlan
        <3>3. Total(Members(g), e, q) <= Total(Members(g), e, q)
            BY <2>2, MembersPlan, TotalPart
        <3>4. g \in Group /\ Waves
            BY <1>t, <1>9 DEF AdmitWave, Control, NextGroup, First, Group, TypeOK
        <3>5. Total(Members(g), e, q) <= Capacity[e][q]
            BY <3>4, BatchAccepted DEF Accepted
        <3>6. Capacity[e][q] \in Int
            BY ConstantTypes
        <3> QED BY <3>1, <3>2, <3>3, <3>5, <3>6
    <2> QED BY <1>t, <2>1, <2>2, <2>4, MembersPlan, CapacityCharged
<1>10. ASSUME NEW ok \in BOOLEAN, FinishWave(ok) PROVE CapacityRespected'
    BY <1>t, <1>10, MembersPlan, CapacityKept DEF FinishWave
<1>11. ASSUME NEW ok \in BOOLEAN, CloseReturns(ok) PROVE CapacityRespected'
    BY <1>t, <1>11 DEF CloseReturns, CapacityRespected
<1>12. CASE AdmitWaveEventFails
    <2>0. PICK g \in NextGroup : \E k \in Members(g) : ChargeAll({p \in Members(g) : p <= k})
        BY <1>12 DEF AdmitWaveEventFails
    <2>1. PICK B \in SUBSET Members(g) : ChargeAll(B)
        BY <2>0
    <2>2. B \in SUBSET Members(g) /\ B \in SUBSET Plan
        BY MembersPlan
    <2>3. C = {}
        BY <1>t, <1>c, <1>12 DEF AdmitWaveEventFails, Control, AccountedBy
    <2>4. ASSUME NEW e \in Executor \cap DOMAIN Capacity, NEW q \in Quantity
          PROVE  reserved[e][q] + Total(B, e, q) <= Capacity[e][q]
        <3>1. reserved[e][q] = 0
            BY <1>c, <2>3, TotalEmpty DEF AccountedBy
        <3>2. Total(B, e, q) \in Nat /\ Total(Members(g), e, q) \in Nat
            BY <2>2, TotalNat, MembersPlan
        <3>3. Total(B, e, q) <= Total(Members(g), e, q)
            BY <2>2, MembersPlan, TotalPart
        <3>4. g \in Group /\ Waves
            BY <1>t, <1>12 DEF AdmitWaveEventFails, Control, NextGroup, First, Group, TypeOK
        <3>5. Total(Members(g), e, q) <= Capacity[e][q]
            BY <3>4, BatchAccepted DEF Accepted
        <3>6. Capacity[e][q] \in Int
            BY ConstantTypes
        <3> QED BY <3>1, <3>2, <3>3, <3>5, <3>6
    <2> QED BY <1>t, <2>1, <2>2, <2>4, MembersPlan, CapacityCharged
<1>13. CASE ScanAdmitEventFails
    <2>1. cursor \in Plan /\ {cursor} \in SUBSET Plan /\ Fits(cursor) /\ ChargeAll({cursor})
        BY <1>t, <1>13 DEF ScanAdmitEventFails, ScanCandidate, ScanGuard, TypeOK
    <2>2. ASSUME NEW e \in Executor \cap DOMAIN Capacity, NEW q \in Quantity
          PROVE  reserved[e][q] + Total({cursor}, e, q) <= Capacity[e][q]
        <3>1. Total({cursor}, e, q) = Charge(cursor, e, q)
            BY <2>1, TotalOne
        <3>2. CASE cursor \notin StagePlans /\ ExecutorOf[cursor] = e
            BY <2>1, <3>1, <3>2 DEF Fits, Charge
        <3>3. CASE ~(cursor \notin StagePlans /\ ExecutorOf[cursor] = e)
            <4>1. Total({cursor}, e, q) = 0
                BY <3>1, <3>3 DEF Charge
            <4>2. reserved[e][q] \in Int /\ peak[e][q] \in Int /\ Capacity[e][q] \in Int
                BY <1>t, ConstantTypes DEF TypeOK
            <4> QED BY <1>t, <4>1, <4>2 DEF CapacityRespected
        <3> QED BY <3>2, <3>3
    <2> QED BY <1>t, <2>1, <2>2, CapacityCharged
<1>14. CASE DrainEventFails
    <2>1. PICK S \in SUBSET active : \E k \in active \ S :
            IF Native THEN QuarantineAll(S \cup {k}) ELSE UNCHANGED resources
        BY <1>14 DEF DrainEventFails
    <2>2. PICK k \in active \ S :
            IF Native THEN QuarantineAll(S \cup {k}) ELSE UNCHANGED resources
        BY <2>1
    <2>3. S \cup {k} \in SUBSET Plan
        BY <1>t DEF TypeOK
    <2>4. CASE Native
        BY <1>t, <2>2, <2>3, <2>4, CapacityKept
    <2>5. CASE ~Native
        BY <1>t, <2>2, <2>5 DEF CapacityRespected
    <2> QED BY <2>4, <2>5
<1>15. ASSUME NEW p \in Plan, ProcessEventFails(p) PROVE CapacityRespected'
    <2>1. CASE Waves
        BY <1>t, <1>15, <2>1 DEF ProcessEventFails, CapacityRespected
    <2>2. CASE ~Waves
        <3>1. {p} \in SUBSET Plan /\ (ReleaseAll({p}) \/ QuarantineAll({p}))
            BY <1>15, <2>2 DEF ProcessEventFails
        <3> QED BY <1>t, <3>1, CapacityKept
    <2> QED BY <2>1, <2>2
<1>16. ASSUME NEW ok \in BOOLEAN, FinishWaveEventFails(ok) PROVE CapacityRespected'
    BY <1>t, <1>16, MembersPlan, CapacityKept DEF FinishWaveEventFails
<1>17. ASSUME NEW p \in Plan, NEW outcome \in Outcome, WorkerEnds(p, outcome) PROVE CapacityRespected'
    BY <1>t, <1>17 DEF WorkerEnds, AwaitPoints, CapacityRespected
<1> QED
    BY <1>1, <1>2, <1>3, <1>4, <1>5, <1>6, <1>7, <1>8, <1>9, <1>10, <1>11, <1>12, <1>13,
       <1>14, <1>15, <1>16, <1>17
    DEF Next, Step, Hook, EventFailure, Cancellation, WorkerStep

-----------------------------------------------------------------------------
(* Theorems *)

\* The initial state satisfies the inductive invariant.
LEMMA IndInit == Init => IndInv
<1> SUFFICES ASSUME Init PROVE IndInv
    OBVIOUS
<1>1. TypeOK
    BY TypeInit
<1>2. Control /\ Evidence
    BY DEF Init, Control, Evidence, Looping, Members
<1>3. AccountedBy({})
    <2>1. \A e \in Executor : \A q \in Quantity : reserved[e][q] = Total({}, e, q)
        BY TotalEmpty DEF Init
    <2>2. Looping => \A p \in Plan : GroupOf[p] \notin held
        BY DEF Init
    <2> QED BY <2>1, <2>2 DEF Init, AccountedBy
<1>4. CapacityRespected
    BY ConstantTypes DEF Init, CapacityRespected
<1> QED BY <1>1, <1>2, <1>3, <1>4 DEF IndInv, Accounting

\* Every reachable state of every accepted batch satisfies the invariant.
THEOREM Invariant == Spec => []IndInv
<1>1. IndInv /\ [Next]_vars => IndInv'
    <2>1. IndInv => TypeOK
        BY DEF IndInv
    <2> QED BY <2>1, TypeNext, ControlNext, EvidenceNext, AccountingNext, CapacityNext DEF IndInv
<1> QED BY <1>1, IndInit, PTL DEF Spec

\* The types of the run's state are kept by every action.
THEOREM TypeCorrect == Spec => []TypeOK
<1>1. IndInv => TypeOK
    BY DEF IndInv
<1> QED BY <1>1, Invariant, PTL

\* Whatever the capacities and the order in which episodes end, no executor is
\* ever charged beyond its capacity, under both admission policies.
THEOREM CapacitySafe == Spec => []CapacityRespected
<1>1. IndInv => CapacityRespected
    BY DEF IndInv
<1> QED BY <1>1, Invariant, PTL

\* What a running or unproven episode may occupy stays reserved forever, past the
\* drain deadline, failed wave closures and event-log failures.
THEOREM UnprovenStaysReserved == Spec => []NothingUnprovenReleased
<1>1. IndInv => NothingUnprovenReleased
    <2> SUFFICES ASSUME IndInv, NEW e \in Executor, NEW q \in Quantity
                 PROVE  reserved[e][q] >=
                          Total({p \in Plan : worker[p] \in {"running", "unsafe"}}, e, q)
        BY DEF NothingUnprovenReleased
    <2> DEFINE B == {p \in Plan : worker[p] \in {"running", "unsafe"}}
    <2>1. PICK C \in SUBSET Plan : AccountedBy(C)
        BY DEF IndInv, Accounting
    <2>2. B \in SUBSET C
        BY <2>1 DEF AccountedBy
    <2>3. reserved[e][q] = Total(C, e, q)
        BY <2>1 DEF AccountedBy
    <2> HIDE DEF B
    <2>4. Total(B, e, q) <= Total(C, e, q)
        BY <2>2, TotalPart
    <2>5. Total(B, e, q) \in Nat /\ Total(C, e, q) \in Nat
        BY <2>2, TotalNat
    <2> QED BY <2>3, <2>4, <2>5 DEF B
<1> QED BY <1>1, Invariant, PTL

\* No backend is closed, and no wave is finished, under a running episode task.
THEOREM CloseAfterDrain == Spec => []NoCloseUnderWorkers
<1>1. IndInv => NoCloseUnderWorkers
    <2> SUFFICES ASSUME IndInv PROVE NoCloseUnderWorkers
        OBVIOUS
    <2>1. pc = "closing" => \A p \in Plan : worker[p] # "running"
        BY DEF IndInv, Control, TypeOK
    <2>2. pc = "finishing" => \A p \in Members(GroupOf[finishing]) : worker[p] # "running"
        BY DEF IndInv, Evidence, Looping, Members, Outcome
    <2> QED BY <2>1, <2>2 DEF NoCloseUnderWorkers
<1> QED BY <1>1, Invariant, PTL

-----------------------------------------------------------------------------
(* Evidence, admission and stopping *)

\* Before the run returned, every plan is pending, was given to a task, or was lost between the
\* two by a failing event; a recorded result is the one its task returned.
Faithful ==
    /\ \A p \in Plan : result[p] \in Outcome => result[p] = worker[p]
    /\ \A p \in Plan : result[p] = "unresolved" => worker[p] # "idle"
    /\ \A p \in active : worker[p] # "idle"
    /\ \A p \in pending : worker[p] = "idle"
    /\ \A p \in Plan : worker[p] = "idle" => p \in pending \/ result[p] = "none"
    /\ ~Ended => \A p \in Plan : result[p] # "not_admitted"
    /\ pc = "returned" => \A p \in Plan : result[p] # "none" /\ (result[p] = "not_admitted" <=> p \in pending)

\* A held group waits for one of its plans: its closure frees the place otherwise.
HeldForSome(g) ==
    \/ pc = "finishing" /\ g = GroupOf[finishing]
    \/ \E p \in Members(g) : p \in active \/ (Native /\ p \in pending)

\* Until the run stops, nothing but its running plans keeps a plan from being admitted: the
\* reservations are those of the active plans, and an empty scan passed over plans of new
\* groups only.
Served ==
    /\ deadline # "none" => stopped
    /\ Looping => \A p \in Plan : p \in pending \cup active \/ result[p] # "none"
    /\ Looping /\ ~stopped =>
          /\ \A g \in held : HeldForSome(g)
          /\ Native => \A e \in Executor : \A q \in Quantity : reserved[e][q] = Total(active, e, q)
    /\ pc = "scan" /\ active = {} => blocked = {} /\ \A p \in pending : p < cursor => GroupFull(p)
    /\ pc = "check" /\ active = {} /\ ~stopped => pending = {}
    /\ pc \in {"finally", "close", "closing", "returned"} /\ pending # {} => stopped

\* Every action keeps the correspondence of plans, tasks and results, past the loop too.
LEMMA FaithfulNext == IndInv /\ Faithful /\ [Next]_vars => Faithful'
<1> SUFFICES ASSUME IndInv, Faithful, [Next]_vars PROVE Faithful'
    OBVIOUS
<1> USE DEF signals, book, resources, lifecycle, scanning, Move
<1>t. TypeOK /\ Evidence /\ Control
    BY DEF IndInv
<1>p. /\ pending \cap active = {}
      /\ pending \subseteq Plan /\ active \subseteq Plan /\ worker \in [Plan -> Outcome \cup {"idle", "running"}]
      /\ result \in [Plan -> ResultValue] /\ done \subseteq {p \in active : worker[p] \in Outcome}
    BY DEF IndInv, TypeOK, Accounting, AccountedBy
<1>o. "idle" \notin Outcome /\ "running" \notin Outcome /\ "none" \notin Outcome /\ "unresolved" \notin Outcome
      /\ "not_admitted" \notin Outcome
    BY DEF Outcome
<1>1. CASE UNCHANGED <<pending, active, worker, result>> /\ ~Ended /\ ~Ended'
    BY <1>1 DEF Faithful, Ended
<1>2. CASE UNCHANGED vars \/ Terminated
    BY <1>2 DEF Faithful, Ended, vars, Terminated
<1>3. CASE \/ BeginStart \/ StartLoop \/ LoopTop \/ LoopEnd \/ ScanEnd \/ ScanSkip \/ ScanBlock \/ CheckIdle
           \/ CheckWait \/ WaitReturns \/ ProcessEnd \/ BeginClose \/ StartReturns \/ StartFails
           \/ AdmitWaveStopped \/ CloseTimeout
    <2>1. ~Ended /\ ~Ended' /\ UNCHANGED <<pending, active, worker, result>>
        BY <1>3 DEF Ended, BeginStart, StartLoop, LoopTop, AfterTop, LoopEnd, ScanEnd, ScanSkip, ScanGuard, ScanBlock,
            ScanCandidate, CheckIdle, CheckWait, WaitReturns, ProcessEnd, BeginClose, StartReturns, StartFails,
            AdmitWaveStopped, CloseTimeout
    <2> QED BY <1>1, <2>1
<1>4. CASE TokenCancelled \/ TaskCancelled \/ DeadlineExpires
    <2>1. ~Ended /\ ~Ended' /\ UNCHANGED <<pending, active, worker, result>>
        BY <1>4 DEF Ended, TokenCancelled, TaskCancelled, DeadlineExpires, AwaitPoints
    <2> QED BY <1>1, <2>1
<1>5. ASSUME NEW ok \in BOOLEAN, FinishWave(ok) \/ CloseReturns(ok) \/ FinishWaveEventFails(ok) PROVE Faithful'
    <2>1. ~Ended /\ ~Ended' /\ UNCHANGED <<pending, active, worker, result>>
        BY <1>5 DEF Ended, FinishWave, CloseReturns, FinishWaveEventFails
    <2> QED BY <1>1, <2>1
<1>6. ASSUME NEW S \in SUBSET Plan, S \subseteq pending, ~Ended, ~Ended', Looping, result' = result,
             worker' = [p \in Plan |-> IF p \in S THEN "running" ELSE worker[p]],
             NEW L \in SUBSET pending, pending' = pending \ (S \cup L), active' = active \cup S
      PROVE  Faithful'
    <2>1. \A p \in Plan : worker'[p] = IF p \in S THEN "running" ELSE worker[p]
        BY <1>6
    <2>2. \A p \in pending : result[p] = "none"
        BY <1>6, <1>t DEF Evidence
    <2>3. \A p \in Plan : result[p] \in Outcome => result[p] = worker'[p]
        BY <1>6, <1>o, <2>1, <2>2 DEF Faithful
    <2>4. \A p \in Plan : worker'[p] = "idle" => p \in pending' \/ result[p] = "none"
        BY <1>6, <2>1, <2>2 DEF Faithful
    <2> QED BY <1>6, <1>p, <2>1, <2>3, <2>4 DEF Faithful, Ended
<1>7. CASE ScanAdmit
    <2>1. /\ pc = "scan" /\ pc' = "scan" /\ cursor \in pending /\ result' = result /\ worker' = [worker EXCEPT ![cursor] = "running"]
          /\ pending' = pending \ {cursor} /\ active' = active \cup {cursor}
        BY <1>7 DEF ScanAdmit, ScanCandidate, ScanGuard
    <2>2. worker' = [p \in Plan |-> IF p \in {cursor} THEN "running" ELSE worker[p]]
        BY <1>p, <2>1
    <2>3. Looping /\ ~Ended /\ ~Ended' /\ pending' = pending \ ({cursor} \cup {})
        BY <2>1 DEF Looping, Ended
    <2> QED BY <1>6, <1>p, <2>1, <2>2, <2>3
<1>8. CASE ScanAdmitEventFails
    <2>1. /\ pc = "scan" /\ pc' = "finally" /\ cursor \in pending /\ UNCHANGED <<result, worker, active>>
          /\ pending' = pending \ {cursor}
        BY <1>8 DEF ScanAdmitEventFails, ScanCandidate, ScanGuard
    <2>2. worker' = [p \in Plan |-> IF p \in {} THEN "running" ELSE worker[p]]
        BY <1>p, <2>1
    <2>3. Looping /\ ~Ended /\ ~Ended' /\ pending' = pending \ ({} \cup {cursor}) /\ active' = active \cup {}
        BY <2>1 DEF Looping, Ended
    <2> QED BY <1>6, <1>p, <2>1, <2>2, <2>3
<1>9. CASE AdmitWave
    <2>1. pc = "admitting" /\ pc' = "check" /\ result' = result
        BY <1>9 DEF AdmitWave
    <2>2. PICK g \in NextGroup :
            /\ pending' = pending \ Members(g)
            /\ active' = active \cup Members(g)
            /\ worker' = [p \in Plan |-> IF p \in Members(g) THEN "running" ELSE worker[p]]
        BY <1>9 DEF AdmitWave
    <2>3. Looping /\ ~Ended /\ ~Ended' /\ Waves
        BY <1>t, <2>1 DEF Looping, Ended, Control
    <2>4. Members(g) \subseteq pending
        BY <1>t, <2>3 DEF Evidence, NextGroup, First
    <2>5. pending' = pending \ (Members(g) \cup {})
        BY <2>2
    <2> QED BY <1>6, <1>p, <2>1, <2>2, <2>3, <2>4, <2>5
<1>10. CASE AdmitWaveEventFails
    <2>1. pc = "admitting" /\ pc' = "finally" /\ result' = result
        BY <1>10 DEF AdmitWaveEventFails
    <2>2. PICK g \in NextGroup : \E k \in Members(g) :
            /\ pending' = pending \ {p \in Members(g) : p <= k}
            /\ active' = active \cup {p \in Members(g) : p < k}
            /\ worker' = [p \in Plan |-> IF p \in Members(g) /\ p < k THEN "running" ELSE worker[p]]
        BY <1>10 DEF AdmitWaveEventFails
    <2>7. PICK k \in Members(g) :
            /\ pending' = pending \ {p \in Members(g) : p <= k}
            /\ active' = active \cup {p \in Members(g) : p < k}
            /\ worker' = [p \in Plan |-> IF p \in Members(g) /\ p < k THEN "running" ELSE worker[p]]
        BY <2>2
    <2>3. Looping /\ ~Ended /\ ~Ended' /\ Waves
        BY <1>t, <2>1 DEF Looping, Ended, Control
    <2>4. Members(g) \subseteq pending
        BY <1>t, <2>3 DEF Evidence, NextGroup, First
    <2> DEFINE S == {p \in Members(g) : p < k}
               L == {p \in Members(g) : p <= k}
    <2>5. S \subseteq L /\ S \subseteq pending /\ L \subseteq pending
        <3>1. \A p \in Members(g) : p \in Nat /\ k \in Nat
            BY ConstantTypes DEF Members, Plan
        <3> QED BY <2>4, <3>1
    <2>6. /\ worker' = [p \in Plan |-> IF p \in S THEN "running" ELSE worker[p]]
          /\ pending' = pending \ (S \cup L) /\ active' = active \cup S
        BY <2>5, <2>7
    <2> HIDE DEF S, L
    <2> QED BY <1>6, <1>p, <2>1, <2>3, <2>5, <2>6
<1>11. ASSUME NEW S \in SUBSET active, result' = WithUnresolved(S), UNCHANGED <<worker, pending>>, active' \subseteq active,
              ~Ended, ~Ended'
       PROVE  Faithful'
    <2>1. \A p \in Plan : result'[p] = IF p \in S THEN "unresolved" ELSE result[p]
        BY <1>11 DEF WithUnresolved
    <2>2. \A p \in S : worker[p] # "idle" /\ p \notin pending
        BY <1>p DEF Faithful
    <2> QED BY <1>11, <1>o, <1>p, <2>1, <2>2 DEF Faithful, Ended
<1>12. CASE DrainTimeout \/ Finally
    <2>1. result' = WithUnresolved(active) /\ UNCHANGED <<worker, pending>> /\ active' \subseteq active /\ ~Ended /\ ~Ended'
        BY <1>12 DEF DrainTimeout, Finally, Ended
    <2> QED BY <1>11, <2>1
<1>13. CASE DrainEventFails
    <2>1. PICK S \in SUBSET active, k \in active : result' = WithUnresolved(S \cup {k})
        BY <1>13 DEF DrainEventFails
    <2>2. UNCHANGED <<worker, pending>> /\ active' \subseteq active /\ ~Ended /\ ~Ended'
        BY <1>13 DEF DrainEventFails, Ended
    <2>3. S \cup {k} \in SUBSET active
        OBVIOUS
    <2> QED BY <1>11, <2>1, <2>2, <2>3
<1>14. ASSUME NEW p \in Plan, Process(p) \/ ProcessEventFails(p) PROVE Faithful'
    <2>1. /\ p \in done /\ active' = active \ {p} /\ result' = [result EXCEPT ![p] = worker[p]]
          /\ UNCHANGED <<worker, pending>> /\ ~Ended /\ ~Ended'
        BY <1>14 DEF Process, ProcessEventFails, Ended
    <2>2. p \in active /\ worker[p] \in Outcome /\ p \notin pending
        BY <1>p, <2>1
    <2>3. \A r \in Plan : result'[r] = IF r = p THEN worker[p] ELSE result[r]
        BY <1>p, <2>1
    <2> QED BY <1>o, <2>1, <2>2, <2>3 DEF Faithful, Ended
<1>15. CASE Report
    <2>1. /\ \A p \in Plan : result'[p] = IF p \in pending THEN "not_admitted" ELSE result[p]
          /\ pc' = IF \E p \in Plan : result'[p] = "none" THEN "raised" ELSE "returned"
          /\ UNCHANGED <<worker, pending, active>> /\ ~Ended
        BY <1>15 DEF Report, Ended
    <2>2. Ended'
        BY <2>1 DEF Ended
    <2> QED BY <1>o, <1>p, <2>1, <2>2 DEF Faithful
<1>16. CASE ReportEventFails
    <2>1. UNCHANGED <<pending, active, worker, result>> /\ ~Ended /\ pc' = "raised" /\ Ended'
        BY <1>16 DEF ReportEventFails, Ended
    <2> QED BY <2>1 DEF Faithful
<1>17. ASSUME NEW p \in Plan, NEW outcome \in Outcome, WorkerEnds(p, outcome) PROVE Faithful'
    <2>1. worker[p] = "running" /\ \A r \in Plan : worker'[r] = IF r = p THEN outcome ELSE worker[r]
        BY <1>17, <1>p DEF WorkerEnds
    <2>2. UNCHANGED <<pending, active, result, pc>> /\ (Ended' <=> Ended)
        BY <1>17 DEF WorkerEnds, Ended
    <2>3. result[p] \notin Outcome /\ p \notin pending
        BY <1>o, <2>1 DEF Faithful
    <2> QED BY <1>o, <1>p, <2>1, <2>2, <2>3 DEF Faithful
<1> QED
    BY <1>2, <1>3, <1>4, <1>5, <1>7, <1>8, <1>9, <1>10, <1>12, <1>13, <1>14, <1>15, <1>16, <1>17
    DEF Next, Step, Hook, EventFailure, Cancellation, WorkerStep

\* A plan of the batch fits an executor on which nothing is reserved.
LEMMA FitsEmpty ==
    ASSUME NEW p \in Plan, \A e \in Executor : \A q \in Quantity : reserved[e][q] = Total({}, e, q)
    PROVE  Fits(p)
<1> SUFFICES ASSUME p \notin StagePlans, ExecutorOf[p] \in DOMAIN Capacity, NEW q \in Quantity
             PROVE  reserved[ExecutorOf[p]][q] + Need[p][q] <= Capacity[ExecutorOf[p]][q]
    BY DEF Fits
<1>1. reserved[ExecutorOf[p]][q] = 0
    BY TotalEmpty, ConstantTypes DEF Executor
<1>2. Charge(p, ExecutorOf[p], q) = Need[p][q] /\ Need[p][q] \in Nat
    BY ConstantTypes DEF Charge
<1>3. Need[p][q] <= Capacity[ExecutorOf[p]][q]
    BY <1>2, BatchAccepted DEF Accepted
<1> QED BY <1>1, <1>2, <1>3

\* Every action keeps it true that only running plans keep others from being admitted.
LEMMA ServedNext == IndInv /\ Faithful /\ Served /\ [Next]_vars => Served'
<1> SUFFICES ASSUME IndInv, Faithful, Served, [Next]_vars PROVE Served'
    OBVIOUS
<1> USE DEF signals, book, resources, lifecycle, scanning, Move
<1>t. TypeOK /\ Evidence /\ Control
    BY DEF IndInv
<1>p. /\ pending \cap active = {}
      /\ pending \subseteq Plan /\ active \subseteq Plan /\ worker \in [Plan -> Outcome \cup {"idle", "running"}]
      /\ result \in [Plan -> ResultValue] /\ done \subseteq {p \in active : worker[p] \in Outcome}
      /\ cursor \in 1..N + 1 /\ N \in Nat /\ Plan = 1..N /\ held \subseteq Group
    BY ConstantTypes DEF IndInv, TypeOK, Accounting, AccountedBy, Plan
<1>q. ASSUME UNCHANGED <<pending, active, result, held, reserved>>, stopped => stopped', Looping' => Looping,
             pc = "finishing" => pc' = "finishing" /\ finishing' = finishing, deadline' # "none" => stopped',
             pc' = "scan" /\ active' = {} => blocked' = {} /\ \A p \in pending : p < cursor' => GroupFull(p),
             pc' = "check" /\ active' = {} /\ ~stopped' => pending' = {},
             pc' \in {"finally", "close", "closing", "returned"} /\ pending' # {} => stopped'
      PROVE  Served'
    <2>1. \A g : HeldForSome(g) => HeldForSome(g)'
        BY <1>q DEF HeldForSome
    <2>2. \A p : GroupFull(p)' <=> GroupFull(p)
        BY <1>q DEF GroupFull
    <2> QED BY <1>q, <2>1, <2>2 DEF Served
<1>1. CASE UNCHANGED vars \/ Terminated
    BY <1>1 DEF Served, HeldForSome, GroupFull, Looping, vars, Terminated
<1>2. CASE BeginStart \/ StartReturns \/ StartLoop \/ StartFails
    BY <1>2, <1>q, <1>t DEF BeginStart, StartReturns, StartLoop, StartFails, Control, Looping, Served
<1>3. CASE LoopTop
    <2>1. /\ pc = "loop" /\ stopped' = (stopped \/ token) /\ deadline' = ArmDeadline
          /\ pc' = AfterTop(stopped \/ token) /\ cursor' = 1 /\ blocked' = {}
          /\ UNCHANGED <<pending, active, result, held, reserved>>
        BY <1>3 DEF LoopTop
    <2>2. deadline' # "none" => stopped'
        BY <2>1 DEF ArmDeadline, Served
    <2>3. pc' \in {"check", "scan", "admitting"} /\ Looping /\ Looping'
        BY <2>1 DEF AfterTop, Looping
    <2>4. \A p \in pending : ~(p < 1)
        BY <1>p
    <2>5. pc' = "check" /\ active' = {} /\ ~stopped' => pending' = {}
        <3> SUFFICES ASSUME pc' = "check", active = {}, ~stopped, ~token PROVE pending = {}
            BY <2>1
        <3>1. ~Native /\ ~(held = {} /\ pending # {})
            BY <2>1 DEF AfterTop
        <3>2. held = {}
            BY <2>1, <2>3, <3>1 DEF Served, HeldForSome
        <3> QED BY <3>1, <3>2
    <2> QED BY <1>q, <2>1, <2>2, <2>3, <2>4, <2>5
<1>4. CASE LoopEnd \/ CheckWait \/ WaitReturns \/ ProcessEnd \/ BeginClose \/ CheckIdle
    BY <1>4, <1>q DEF LoopEnd, CheckWait, WaitReturns, ProcessEnd, BeginClose, CheckIdle, Looping, Served
<1>5. CASE AdmitWaveStopped \/ CloseTimeout \/ ReportEventFails \/ TokenCancelled \/ DeadlineExpires
    BY <1>5, <1>q DEF AdmitWaveStopped, CloseTimeout, ReportEventFails, TokenCancelled, DeadlineExpires, Looping, Served
<1>6. CASE TaskCancelled
    BY <1>6, <1>q DEF TaskCancelled, AwaitPoints, Looping, Served
<1>7. ASSUME NEW ok \in BOOLEAN, CloseReturns(ok) PROVE Served'
    BY <1>7, <1>q DEF CloseReturns, Looping, Served
<1>8. ASSUME pc = "scan", active = {} PROVE \A p \in pending : Fits(p)
    <2>1. Looping /\ ~stopped /\ Native
        BY <1>8, <1>t DEF Looping, Control
    <2>2. \A e \in Executor : \A q \in Quantity : reserved[e][q] = Total({}, e, q)
        BY <1>8, <2>1 DEF Served
    <2> QED BY <1>p, <2>2, FitsEmpty
<1>9. CASE ScanSkip \/ ScanBlock
    <2>1. /\ pc = "scan" /\ pc' = "scan" /\ cursor' = cursor + 1
          /\ UNCHANGED <<pending, active, result, held, reserved, stopped, deadline>>
          /\ \/ blocked' = blocked /\ (cursor \notin pending \/ GroupFull(cursor) \/ ExecutorOf[cursor] \in blocked)
             \/ cursor \in pending /\ ~Fits(cursor)
        BY <1>9 DEF ScanSkip, ScanBlock, ScanCandidate, ScanGuard
    <2>2. Looping /\ Looping'
        BY <2>1 DEF Looping
    <2>3. ASSUME active = {} PROVE blocked' = {} /\ \A p \in pending : p < cursor' => GroupFull(p)
        <3>1. blocked = {} /\ \A p \in pending : p < cursor => GroupFull(p)
            BY <2>1, <2>3 DEF Served
        <3>2. blocked' = blocked /\ (cursor \notin pending \/ GroupFull(cursor))
            BY <1>8, <2>1, <2>3, <3>1
        <3>3. \A p \in pending : p < cursor' => p < cursor \/ p = cursor
            BY <1>p, <2>1
        <3> QED BY <3>1, <3>2, <3>3
    <2> QED BY <1>q, <2>1, <2>2, <2>3 DEF Served
<1>10. CASE ScanEnd
    <2>1. /\ pc = "scan" /\ pc' = "check" /\ (cursor > N \/ Cardinality(active) >= MaxWorkers)
          /\ UNCHANGED <<pending, active, result, held, reserved, stopped, deadline>>
        BY <1>10 DEF ScanEnd
    <2>2. Looping /\ Looping' /\ ~stopped /\ Native
        BY <1>t, <2>1 DEF Looping, Control
    <2>3. ASSUME active = {} PROVE pending = {}
        <3>1. cursor > N
            <4>1. Cardinality(active) = 0 /\ MaxWorkers \in Nat \ {0}
                BY <2>3, FS_EmptySet, ConstantTypes
            <4> QED BY <2>1, <4>1
        <3>2. \A p \in pending : GroupFull(p)
            <4>1. \A p \in pending : p < cursor
                BY <1>p, <3>1
            <4> QED BY <2>1, <2>3, <4>1 DEF Served
        <3>3. ASSUME pending # {} PROVE FALSE
            <4>1. Cardinality(held) >= MaxGroups /\ MaxGroups \in Nat \ {0}
                BY <3>2, <3>3, ConstantTypes DEF GroupFull
            <4>2. held # {}
                <5>1. Cardinality({}) = 0
                    BY FS_EmptySet
                <5> QED BY <4>1, <5>1
            <4>3. PICK g \in held : HeldForSome(g)
                BY <2>2, <4>2 DEF Served
            <4>4. PICK p \in Members(g) : p \in pending
                BY <2>1, <2>3, <4>3 DEF HeldForSome
            <4>5. GroupOf[p] = g
                BY <4>4 DEF Members
            <4> QED BY <3>2, <4>3, <4>4, <4>5 DEF GroupFull
        <3> QED BY <3>3
    <2> QED BY <1>q, <2>1, <2>2, <2>3 DEF Served
<1>11. CASE ScanAdmit
    <2>1. /\ pc = "scan" /\ pc' = "scan" /\ cursor \in pending /\ held' = held \cup {GroupOf[cursor]}
          /\ pending' = pending \ {cursor} /\ active' = active \cup {cursor} /\ ChargeAll({cursor})
          /\ UNCHANGED <<result, stopped, deadline>>
        BY <1>11 DEF ScanAdmit, ScanCandidate, ScanGuard
    <2>2. Looping /\ Looping' /\ ~stopped /\ Native
        BY <1>t, <2>1 DEF Looping, Control
    <2>3. \A e \in Executor : \A q \in Quantity : reserved'[e][q] = Total(active', e, q)
        <3>1. active \in SUBSET Plan /\ {cursor} \in SUBSET Plan /\ active \cap {cursor} = {}
            BY <1>p, <2>1
        <3>2. \A e \in Executor : \A q \in Quantity : reserved[e][q] = Total(active, e, q)
            BY <2>2 DEF Served
        <3>3. ChargeAll({cursor})
            BY <2>1
        <3>4. \A e \in Executor : \A q \in Quantity : reserved'[e][q] = Total(active \cup {cursor}, e, q)
            BY <3>1, <3>2, <3>3, ChargeCounted
        <3> QED BY <2>1, <3>4
    <2>4. \A g \in held' : HeldForSome(g)'
        <3> SUFFICES ASSUME NEW g \in held' PROVE \E p \in Members(g) : p \in active' \/ (Native /\ p \in pending')
            BY DEF HeldForSome
        <3>1. CASE g = GroupOf[cursor]
            <4>1. cursor \in Members(g) /\ cursor \in active'
                BY <1>p, <2>1, <3>1 DEF Members
            <4> QED BY <4>1
        <3>2. CASE g \in held
            <4>1. PICK p \in Members(g) : p \in active \/ p \in pending
                BY <2>1, <2>2, <3>2 DEF Served, HeldForSome
            <4> QED BY <2>1, <2>2, <4>1
        <3> QED BY <2>1, <3>1, <3>2
    <2>5. \A p \in Plan : p \in pending' \cup active' \/ result'[p] # "none"
        BY <2>1, <2>2 DEF Served
    <2>6. active' # {}
        BY <2>1
    <2> QED BY <2>1, <2>2, <2>3, <2>4, <2>5, <2>6 DEF Served
<1>12. CASE ScanAdmitEventFails \/ AdmitWaveEventFails \/ DrainEventFails
    BY <1>12 DEF ScanAdmitEventFails, AdmitWaveEventFails, DrainEventFails, Served, Looping
<1>13. CASE DrainTimeout
    BY <1>13 DEF DrainTimeout, Served, Looping
<1>14. CASE AdmitWave
    <2>1. pc = "admitting" /\ pc' = "check" /\ UNCHANGED <<result, stopped, deadline>>
        BY <1>14 DEF AdmitWave
    <2>2. PICK g \in NextGroup :
            /\ held' = held \cup {g} /\ pending' = pending \ Members(g) /\ active' = active \cup Members(g)
        BY <1>14 DEF AdmitWave
    <2>3. Looping /\ Looping' /\ ~stopped /\ Waves /\ held = {}
        BY <1>t, <2>1 DEF Looping, Control
    <2>4. ~Native
        BY <2>3 DEF Native, Waves
    <2>5. PICK p \in pending : p \in Members(g)
        BY <1>p DEF NextGroup, First, Members
    <2>6. \A h \in held' : HeldForSome(h)'
        BY <2>2, <2>3, <2>5 DEF HeldForSome
    <2>7. \A r \in Plan : r \in pending' \cup active' \/ result'[r] # "none"
        BY <2>1, <2>2, <2>3 DEF Served
    <2>8. active' # {}
        BY <2>2, <2>5
    <2> QED BY <2>1, <2>3, <2>4, <2>6, <2>7, <2>8 DEF Served
<1>15. ASSUME NEW p \in Plan, Process(p) PROVE Served'
    <2>1. /\ pc = "process" /\ p \in done /\ active' = active \ {p} /\ result' = [result EXCEPT ![p] = worker[p]]
          /\ stopped' = (stopped \/ worker[p] # "safe") /\ UNCHANGED <<deadline, pending>>
          /\ pc' \in {"process", "finishing"}
        BY <1>15 DEF Process
    <2>2. p \in active /\ worker[p] \in Outcome /\ p \notin pending /\ Looping /\ Looping'
        BY <1>p, <2>1 DEF Looping
    <2>3. \A r \in Plan : result'[r] = IF r = p THEN worker[p] ELSE result[r]
        BY <1>p, <2>1
    <2>4. \A r \in Plan : r \in pending' \cup active' \/ result'[r] # "none"
        BY <2>1, <2>2, <2>3 DEF Served, Outcome
    <2>5. ASSUME ~stopped', Native
          PROVE  \A e \in Executor : \A q \in Quantity : reserved'[e][q] = Total(active', e, q)
        <3>1. ~stopped /\ Safe(worker[p]) /\ ~Waves
            BY <2>1, <2>5 DEF Safe, Native, Waves
        <3>2. ReleaseAll({p}) /\ {p} \in SUBSET active /\ active \in SUBSET Plan
            BY <1>15, <1>p, <2>2, <3>1 DEF Process
        <3>3. \A e \in Executor : \A q \in Quantity : reserved[e][q] = Total(active, e, q)
            BY <2>2, <2>5, <3>1 DEF Served
        <3> QED BY <2>1, <3>2, <3>3, ReleaseCounted
    <2>6. ASSUME ~stopped', NEW g \in held' PROVE HeldForSome(g)'
        <3>1. g \in held /\ ~stopped
            BY <1>15, <2>1, <2>6 DEF Process
        <3>2. CASE g # GroupOf[p]
            <4>1. PICK r \in Members(g) : r \in active \/ (Native /\ r \in pending)
                BY <2>1, <2>2, <3>1 DEF Served, HeldForSome
            <4>2. r # p
                BY <3>2, <4>1 DEF Members
            <4> QED BY <2>1, <4>1, <4>2 DEF HeldForSome
        <3>3. CASE g = GroupOf[p] /\ ~GroupCompleteWith(p)
            <4>1. PICK r \in Members(g) : r # p /\ result[r] = "none"
                BY <3>3 DEF GroupCompleteWith
            <4>2. r \in Plan /\ GroupOf[r] = g
                BY <4>1 DEF Members
            <4>3. r \in pending \cup active
                BY <2>2, <4>1, <4>2 DEF Served
            <4>4. Waves => r \notin pending
                <5>1. p \in Members(GroupOf[r])
                    BY <3>3, <4>2 DEF Members
                <5> QED BY <1>t, <2>2, <5>1 DEF Evidence
            <4>5. Native \/ Waves
                BY ConstantTypes DEF Native, Waves
            <4> QED BY <2>1, <4>1, <4>3, <4>4, <4>5 DEF HeldForSome
        <3>4. CASE g = GroupOf[p] /\ GroupCompleteWith(p)
            <4>1. pc' = "finishing" /\ finishing' = p
                BY <1>15, <2>6, <3>4 DEF Process
            <4> QED BY <3>4, <4>1 DEF HeldForSome
        <3> QED BY <3>2, <3>3, <3>4
    <2> QED BY <2>1, <2>2, <2>4, <2>5, <2>6 DEF Served
<1>16. ASSUME NEW p \in Plan, ProcessEventFails(p) PROVE Served'
    BY <1>16 DEF ProcessEventFails, Served, Looping
<1>17. ASSUME NEW ok \in BOOLEAN, FinishWave(ok) PROVE Served'
    <2>1. /\ pc = "finishing" /\ pc' = "process" /\ held' = held \ {GroupOf[finishing]}
          /\ UNCHANGED <<deadline, pending, active, result>> /\ (stopped => stopped')
        BY <1>17 DEF FinishWave
    <2>2. Looping /\ Looping' /\ Waves
        BY <1>t, <2>1 DEF Looping, Control
    <2>3. ~Native
        BY <2>2 DEF Native, Waves
    <2>4. \A g \in held' : ~stopped' => HeldForSome(g)'
        BY <2>1, <2>2 DEF Served, HeldForSome
    <2> QED BY <2>1, <2>2, <2>3, <2>4 DEF Served
<1>18. ASSUME NEW ok \in BOOLEAN, FinishWaveEventFails(ok) PROVE Served'
    BY <1>18 DEF FinishWaveEventFails, Served, Looping
<1>19. CASE Finally
    BY <1>19 DEF Finally, Served, Looping
<1>20. CASE Report
    <2>1. pc' \in {"raised", "returned"} /\ (stopped => stopped') /\ UNCHANGED <<deadline, pending>> /\ pc = "close"
        BY <1>20 DEF Report
    <2> QED BY <2>1 DEF Served, Looping
<1>21. ASSUME NEW p \in Plan, NEW outcome \in Outcome, WorkerEnds(p, outcome) PROVE Served'
    BY <1>21, <1>q DEF WorkerEnds, Looping, Served
<1> QED
    BY <1>1, <1>2, <1>3, <1>4, <1>5, <1>6, <1>7, <1>9, <1>10, <1>11, <1>12, <1>13, <1>14, <1>15, <1>16, <1>17,
       <1>18, <1>19, <1>20, <1>21
    DEF Next, Step, Hook, EventFailure, Cancellation, WorkerStep

\* A fresh batch has neither tasks nor results, and everything pending.
LEMMA FairInit == Init => Faithful /\ Served
<1> SUFFICES ASSUME Init PROVE Faithful /\ Served
    OBVIOUS
<1>1. Faithful
    BY DEF Init, Faithful, Ended, Outcome
<1>2. \A e \in Executor : \A q \in Quantity : reserved[e][q] = Total(active, e, q)
    BY TotalEmpty DEF Init
<1>3. Served
    BY <1>2 DEF Init, Served
<1> QED BY <1>1, <1>3

\* The evidence and the admission of every batch, beside its reservations.
THEOREM AdmissionInvariant == Spec => [](IndInv /\ Faithful /\ Served)
<1>1. IndInv /\ [Next]_vars => IndInv'
    <2>1. IndInv => TypeOK
        BY DEF IndInv
    <2> QED BY <2>1, TypeNext, ControlNext, EvidenceNext, AccountingNext, CapacityNext DEF IndInv
<1> QED BY <1>1, FaithfulNext, ServedNext, IndInit, FairInit, PTL DEF Spec

\* A batch that returns reports of each episode what its task returned, that it was never
\* admitted, or that nothing is known (Coordinator.run's results).
THEOREM EvidenceIsFaithful == Spec => []EvidenceFaithful
<1>1. IndInv /\ Faithful /\ Served => EvidenceFaithful
    BY DEF Faithful, EvidenceFaithful
<1> QED BY <1>1, AdmissionInvariant, PTL

\* Whatever the groups, the capacities and the order of completion, the admission loop leaves
\* an episode out only when the run was stopped.
THEOREM NothingLeftOut == Spec => []LeftOutOnlyWhenStopped
<1>1. IndInv /\ Faithful /\ Served => LeftOutOnlyWhenStopped
    BY DEF Faithful, Served, LeftOutOnlyWhenStopped
<1> QED BY <1>1, AdmissionInvariant, PTL

\* No action starts an episode once the run stopped, nor after a cancellation except in a scan
\* that had already begun.
LEMMA StartsOnlyWanted ==
    ASSUME IndInv, [Next]_vars, stopped \/ (token /\ pc # "scan"), NEW p \in Plan, worker[p] = "idle"
    PROVE  worker'[p] = "idle"
<1> USE DEF signals, book, resources, lifecycle, scanning, Move
<1>1. Control /\ worker \in [Plan -> Outcome \cup {"idle", "running"}]
    BY DEF IndInv, TypeOK
<1>2. ~ScanAdmit
    BY <1>1 DEF ScanAdmit, ScanCandidate, ScanGuard, Control
<1>3. ~AdmitWave /\ ~AdmitWaveEventFails
    BY <1>1 DEF AdmitWave, AdmitWaveEventFails, WaveStillWanted, Control
<1>4. ASSUME NEW r \in Plan, NEW outcome \in Outcome, WorkerEnds(r, outcome) PROVE worker'[p] = "idle"
    BY <1>1, <1>4 DEF WorkerEnds
<1>5. CASE UNCHANGED worker
    BY <1>5
<1>6. CASE Step
    BY <1>2, <1>5, <1>6 DEF Step, BeginStart, StartLoop, LoopTop, LoopEnd, ScanEnd, ScanSkip, ScanBlock, CheckIdle,
        CheckWait, DrainTimeout, WaitReturns, Process, ProcessEnd, Finally, BeginClose, Report
<1>7. CASE Hook
    BY <1>3, <1>5, <1>7 DEF Hook, StartReturns, StartFails, AdmitWaveStopped, FinishWave, CloseReturns, CloseTimeout
<1>8. CASE EventFailure
    BY <1>3, <1>5, <1>8 DEF EventFailure, ScanAdmitEventFails, DrainEventFails, ReportEventFails, ProcessEventFails,
        FinishWaveEventFails
<1>9. CASE Cancellation \/ DeadlineExpires \/ Terminated \/ UNCHANGED vars
    BY <1>5, <1>9 DEF Cancellation, TokenCancelled, TaskCancelled, DeadlineExpires, Terminated, vars
<1> QED BY <1>4, <1>6, <1>7, <1>8, <1>9 DEF Next, WorkerStep

\* A stop, or a cancellation that arrives while a wave is being admitted, keeps every later
\* episode from starting (the token is read again after admit_group).
THEOREM StopsStarting == Spec => NoStartAfterStop
<1> DEFINE Quiet == stopped \/ (token /\ pc # "scan") => \A p \in Plan : worker[p] = "idle" => worker'[p] = "idle"
<1>1. IndInv /\ [Next]_vars => [Quiet]_vars
    <2> SUFFICES ASSUME IndInv, [Next]_vars PROVE Quiet
        OBVIOUS
    <2> QED BY StartsOnlyWanted
<1> QED BY <1>1, Invariant, PTL DEF Spec, NoStartAfterStop

-----------------------------------------------------------------------------
(* Nothing leaks: what a run did not prove free is quarantined, once        *)

\* Quarantining plans that are not quarantined yet.
LEMMA QuarantineCounted ==
    ASSUME NEW Q \in SUBSET Plan, NEW R \in SUBSET Plan, Q \cap R = {},
           \A e \in Executor : \A q \in Quantity : quarantined[e][q] = Total(Q, e, q),
           QuarantineAll(R)
    PROVE  \A e \in Executor : \A q \in Quantity : quarantined'[e][q] = Total(Q \cup R, e, q)
<1> SUFFICES ASSUME NEW e \in Executor, NEW q \in Quantity
             PROVE  quarantined'[e][q] = Total(Q \cup R, e, q)
    OBVIOUS
<1>1. quarantined'[e][q] = quarantined[e][q] + Total(R, e, q)
    BY DEF QuarantineAll
<1>2. Total(Q \cup R, e, q) = Total(Q, e, q) + Total(R, e, q)
    BY TotalUnion
<1> QED BY <1>1, <1>2

\* The three ways the books change: an admission makes R unsettled, a release gives R back,
\* a quarantine settles R.
LEMMA ChargeBalances ==
    ASSUME NEW C \in SUBSET Plan, NEW Q \in SUBSET Plan, BalancedBy(C, Q),
           NEW R \in SUBSET pending, pending \subseteq Plan, ChargeAll(R), UNCHANGED quarantined,
           pending' = pending \ R, Unsettled' = Unsettled \cup R
    PROVE  \E D, P \in SUBSET Plan : BalancedBy(D, P)'
<1>1. R \in SUBSET Plan /\ C \cap R = {} /\ C \cup R \in SUBSET Plan
    BY DEF BalancedBy
<1>2. \A e \in Executor : \A q \in Quantity : reserved'[e][q] = Total(C \cup R, e, q)
    BY <1>1, ChargeCounted DEF BalancedBy
<1>3. PICK D \in SUBSET Plan : D = C \cup R
    BY <1>1
<1>4. Q \subseteq D /\ D \subseteq Plan \ pending' /\ D \ Q = Unsettled'
    BY <1>1, <1>3 DEF BalancedBy
<1>5. BalancedBy(D, Q)'
    BY <1>2, <1>3, <1>4 DEF BalancedBy
<1> QED BY <1>5

LEMMA ReleaseBalances ==
    ASSUME NEW C \in SUBSET Plan, NEW Q \in SUBSET Plan, BalancedBy(C, Q),
           NEW R \in SUBSET Unsettled, ReleaseAll(R), UNCHANGED pending, Unsettled' = Unsettled \ R
    PROVE  \E D, P \in SUBSET Plan : BalancedBy(D, P)'
<1>1. R \in SUBSET C /\ Q \cap R = {}
    BY DEF BalancedBy
<1>2. \A e \in Executor : \A q \in Quantity : reserved'[e][q] = Total(C \ R, e, q)
    BY <1>1, ReleaseCounted DEF BalancedBy
<1>3. PICK D \in SUBSET Plan : D = C \ R
    OBVIOUS
<1>4. Q \subseteq D /\ D \subseteq Plan \ pending' /\ D \ Q = Unsettled'
    BY <1>1, <1>3 DEF BalancedBy
<1>5. BalancedBy(D, Q)'
    BY <1>2, <1>3, <1>4 DEF BalancedBy, ReleaseAll
<1> QED BY <1>5

LEMMA QuarantineBalances ==
    ASSUME NEW C \in SUBSET Plan, NEW Q \in SUBSET Plan, BalancedBy(C, Q),
           NEW R \in SUBSET Unsettled, QuarantineAll(R), UNCHANGED pending, Unsettled' = Unsettled \ R
    PROVE  \E D, P \in SUBSET Plan : BalancedBy(D, P)'
<1>1. R \in SUBSET Plan /\ R \subseteq C /\ Q \cap R = {} /\ Q \cup R \in SUBSET Plan
    BY DEF BalancedBy
<1>2. \A e \in Executor : \A q \in Quantity : quarantined'[e][q] = Total(Q \cup R, e, q)
    BY <1>1, QuarantineCounted DEF BalancedBy
<1>3. PICK P \in SUBSET Plan : P = Q \cup R
    BY <1>1
<1>4. P \subseteq C /\ C \subseteq Plan \ pending' /\ C \ P = Unsettled'
    BY <1>1, <1>3 DEF BalancedBy
<1>5. BalancedBy(C, P)'
    BY <1>2, <1>3, <1>4 DEF BalancedBy, QuarantineAll
<1> QED BY <1>5

\* A step that leaves the books alone keeps them balanced.
LEMMA StillBalances ==
    ASSUME NEW C \in SUBSET Plan, NEW Q \in SUBSET Plan, BalancedBy(C, Q),
           UNCHANGED <<reserved, quarantined, pending>>, Unsettled' = Unsettled
    PROVE  \E D, P \in SUBSET Plan : BalancedBy(D, P)'
<1>1. BalancedBy(C, Q)'
    BY DEF BalancedBy
<1> QED BY <1>1

\* Every action but a failing append keeps the books balanced.
LEMMA BalancedNext ==
    IndInv /\ Faithful /\ Served /\ Balanced
        /\ (Step \/ Hook \/ Cancellation \/ WorkerStep \/ DeadlineExpires \/ Terminated \/ UNCHANGED vars)
    => Balanced'
<1> SUFFICES ASSUME IndInv, Faithful, Served, Balanced,
                    Step \/ Hook \/ Cancellation \/ WorkerStep \/ DeadlineExpires \/ Terminated
                        \/ UNCHANGED vars
             PROVE  Balanced'
    OBVIOUS
<1> USE DEF signals, book, resources, lifecycle, scanning, Move
<1>t. TypeOK /\ Control /\ Evidence
    BY DEF IndInv
<1>c. PICK C \in SUBSET Plan : \E Q \in SUBSET Plan : BalancedBy(C, Q)
    BY DEF Balanced
<1>q. PICK Q \in SUBSET Plan : BalancedBy(C, Q)
    BY <1>c
<1>p. pending \subseteq Plan /\ active \subseteq Plan
    BY <1>t DEF TypeOK
<1>h. Waves /\ Looping => \A g \in held : \/ pc = "finishing" /\ g = GroupOf[finishing]
                                          \/ \E p \in Members(g) : p \in active
    BY DEF Balanced
<1>i. Waves /\ Looping /\ active = {} /\ pc # "finishing" => held = {}
    BY <1>h
<1>s. pc \in {"start", "starting"} => held = {}
    BY DEF Balanced
<1>e. Waves /\ Looping /\ held = {} => active = {}
    BY <1>t DEF Evidence
<1>n. Native <=> ~Waves
    BY ConstantTypes DEF Native, Waves
\* the steps that leave the books, the groups and the tasks as they are
<1>1. ASSUME UNCHANGED <<reserved, quarantined, pending, active, held>>, Looping <=> Looping',
             Looping => finishing' = finishing /\ (pc' = "finishing" <=> pc = "finishing"),
             pc' \in {"start", "starting"} => pc \in {"start", "starting"},
             ~Looping => (pc = "finally" <=> pc' = "finally")
      PROVE  Balanced'
    <2>1. Unsettled' = Unsettled
        BY <1>1 DEF Unsettled, Looping
    <2>2. \E D, P \in SUBSET Plan : BalancedBy(D, P)'
        BY <1>1, <1>q, <2>1, StillBalances
    <2> QED BY <1>1, <1>h, <1>s, <2>2 DEF Balanced
\* and those that leave the loop with nothing held, or without tasks
<1>2. ASSUME UNCHANGED <<reserved, quarantined, pending, active, held>>, Looping, pc' = "finally",
             Waves => held = {}
      PROVE  Balanced'
    <2>1. Unsettled' = Unsettled
        BY <1>2, <1>e DEF Unsettled, Looping
    <2>2. \E D, P \in SUBSET Plan : BalancedBy(D, P)'
        BY <1>2, <1>q, <2>1, StillBalances
    <2> QED BY <1>2, <2>2 DEF Balanced, Looping
<1>3. CASE BeginStart \/ StartLoop \/ LoopTop \/ ScanEnd \/ ScanSkip \/ ScanBlock \/ CheckWait
    BY <1>3, <1>1 DEF BeginStart, StartLoop, LoopTop, AfterTop, ScanEnd, ScanSkip, ScanGuard,
        ScanBlock, ScanCandidate, CheckWait, Looping
<1>4. CASE WaitReturns \/ ProcessEnd \/ BeginClose \/ StartReturns \/ AdmitWaveStopped \/ CloseTimeout
    BY <1>4, <1>1 DEF WaitReturns, ProcessEnd, BeginClose, StartReturns, AdmitWaveStopped,
        CloseTimeout, Looping
<1>5. CASE Report \/ TokenCancelled \/ DeadlineExpires \/ Terminated \/ UNCHANGED vars \/ WorkerStep
    BY <1>5, <1>1 DEF Report, TokenCancelled, DeadlineExpires, Terminated, vars, WorkerStep,
        WorkerEnds, Looping
<1>6. ASSUME NEW ok \in BOOLEAN, CloseReturns(ok) PROVE Balanced'
    BY <1>6, <1>1 DEF CloseReturns, Looping
<1>7. CASE LoopEnd \/ CheckIdle
    BY <1>7, <1>2, <1>i DEF LoopEnd, CheckIdle, Looping
<1>8. CASE StartFails
    BY <1>8, <1>2, <1>s DEF StartFails, Looping
<1>9. CASE TaskCancelled
    <2>1. CASE pc \in {"starting", "admitting"}
        BY <1>9, <2>1, <1>2, <1>s, <1>t DEF TaskCancelled, Control, Looping
    <2>2. CASE pc \in {"wait", "closing"}
        BY <1>9, <2>2, <1>1 DEF TaskCancelled, Looping
    <2> QED BY <1>9, <2>1, <2>2 DEF TaskCancelled, AwaitPoints
<1>10. CASE ScanAdmit
    <2>1. /\ pc = "scan" /\ pc' = "scan" /\ ~Waves /\ cursor \in pending /\ ChargeAll({cursor})
          /\ pending' = pending \ {cursor} /\ active' = active \cup {cursor} /\ UNCHANGED quarantined
        BY <1>10, <1>t DEF ScanAdmit, ScanCandidate, ScanGuard, Control, Native, Waves
    <2>2. Unsettled' = Unsettled \cup {cursor} /\ {cursor} \in SUBSET pending
        BY <2>1 DEF Unsettled
    <2>3. PICK R \in SUBSET pending : R = {cursor}
        BY <2>2
    <2>4. \E D, P \in SUBSET Plan : BalancedBy(D, P)'
        BY <1>q, <1>p, <2>1, <2>2, <2>3, ChargeBalances
    <2> QED BY <2>1, <2>4 DEF Balanced
<1>11. CASE AdmitWave
    <2>1. PICK g \in NextGroup :
            /\ held' = held \cup {g}
            /\ ChargeAll(Members(g))
            /\ pending' = pending \ Members(g)
            /\ active' = active \cup Members(g)
        BY <1>11 DEF AdmitWave
    <2>2. /\ pc = "admitting" /\ pc' = "check" /\ Waves /\ held = {} /\ UNCHANGED quarantined
          /\ Looping /\ Looping'
        BY <1>11, <1>t DEF AdmitWave, Control, Looping
    <2>3. PICK p \in pending : GroupOf[p] = g
        BY DEF NextGroup, First
    <2>4. Members(g) \in SUBSET pending /\ p \in Members(g)
        BY <1>t, <1>p, <2>2, <2>3 DEF Evidence, Members
    <2>5. Unsettled' = Unsettled \cup Members(g)
        BY <2>1, <2>2 DEF Unsettled, Members
    <2>6. \E D, P \in SUBSET Plan : BalancedBy(D, P)'
        BY <1>q, <1>p, <2>1, <2>2, <2>4, <2>5, ChargeBalances
    <2> QED BY <2>1, <2>2, <2>4, <2>6 DEF Balanced
<1>12. CASE DrainTimeout
    <2>1. /\ pc = "check" /\ pc' = "finally" /\ active' = {} /\ UNCHANGED pending
          /\ QuarantineAll(DrainQuarantine)
        BY <1>12 DEF DrainTimeout
    <2>2. DrainQuarantine = Unsettled /\ Unsettled' = {}
        BY <1>n, <2>1 DEF DrainQuarantine, Unsettled, Looping
    <2>3. PICK R \in SUBSET Unsettled : R = Unsettled
        OBVIOUS
    <2>4. \E D, P \in SUBSET Plan : BalancedBy(D, P)'
        BY <1>q, <2>1, <2>2, <2>3, QuarantineBalances
    <2> QED BY <2>1, <2>4 DEF Balanced, Looping
<1>13. CASE Finally
    <2>1. pc = "finally" /\ pc' = "close" /\ UNCHANGED pending /\ QuarantineAll(active)
        BY <1>13 DEF Finally
    <2>2. active = Unsettled /\ Unsettled' = {}
        BY <2>1 DEF Unsettled, Looping
    <2>3. PICK R \in SUBSET Unsettled : R = Unsettled
        OBVIOUS
    <2>4. \E D, P \in SUBSET Plan : BalancedBy(D, P)'
        BY <1>q, <2>1, <2>2, <2>3, QuarantineBalances
    <2> QED BY <2>1, <2>4 DEF Balanced, Looping
<1>14. ASSUME NEW p \in Plan, Process(p) PROVE Balanced'
    <2>1. /\ pc = "process" /\ p \in active /\ active' = active \ {p} /\ UNCHANGED pending
          /\ pc' \in {"process", "finishing"} /\ Looping /\ Looping'
        BY <1>14, <1>t DEF Process, TypeOK, Looping
    <2>2. CASE Native
        <3>1. /\ IF Safe(worker[p]) THEN ReleaseAll({p}) ELSE QuarantineAll({p})
              /\ Unsettled = active /\ Unsettled' = active \ {p}
            BY <1>14, <1>n, <2>1, <2>2 DEF Process, Unsettled
        <3>2. PICK R \in SUBSET Unsettled : R = {p}
            BY <2>1, <3>1
        <3>3. \E D, P \in SUBSET Plan : BalancedBy(D, P)'
            BY <1>q, <2>1, <3>1, <3>2, ReleaseBalances, QuarantineBalances
        <3> QED BY <1>n, <2>1, <2>2, <3>3 DEF Balanced
    <2>3. CASE Waves
        <3>1. /\ UNCHANGED <<reserved, quarantined, held>>
              /\ IF GroupCompleteWith(p) THEN pc' = "finishing" /\ finishing' = p ELSE pc' = "process"
            BY <1>14, <2>1, <2>3 DEF Process
        <3>2. Unsettled' = Unsettled
            BY <2>1, <2>3, <3>1 DEF Unsettled
        <3>3. \E D, P \in SUBSET Plan : BalancedBy(D, P)'
            BY <1>q, <2>1, <3>1, <3>2, StillBalances
        <3>4. ASSUME NEW g \in held
              PROVE  \/ pc' = "finishing" /\ g = GroupOf[finishing']
                     \/ \E r \in Members(g) : r \in active'
            <4>1. CASE g = GroupOf[p] /\ GroupCompleteWith(p)
                BY <4>1, <3>1
            <4>2. CASE g = GroupOf[p] /\ ~GroupCompleteWith(p)
                <5>1. PICK r \in Members(g) : r # p /\ result[r] = "none"
                    BY <4>2 DEF GroupCompleteWith
                <5>2. r \in pending \cup active
                    BY <2>1, <5>1, MembersPlan DEF Served
                <5>3. r \notin pending
                    <6>1. p \notin pending
                        BY <2>1 DEF Faithful
                    <6>2. p \in Members(GroupOf[r])
                        BY <4>2, <5>1 DEF Members
                    <6> QED BY <1>t, <2>1, <2>3, <6>1, <6>2 DEF Evidence
                <5> QED BY <2>1, <5>1, <5>2, <5>3
            <4>3. CASE g # GroupOf[p]
                <5>1. PICK r \in Members(g) : r \in active
                    BY <1>h, <2>1, <2>3
                <5>2. r # p
                    BY <4>3, <5>1 DEF Members
                <5> QED BY <2>1, <5>1, <5>2
            <4> QED BY <4>1, <4>2, <4>3
        <3> QED BY <2>1, <3>1, <3>3, <3>4 DEF Balanced
    <2> QED BY <1>n, <2>2, <2>3
<1>15. ASSUME NEW ok \in BOOLEAN, FinishWave(ok) PROVE Balanced'
    <2> DEFINE W == Members(GroupOf[finishing])
    <2>1. /\ pc = "finishing" /\ pc' = "process" /\ Looping /\ Looping' /\ Waves
          /\ UNCHANGED <<pending, active>> /\ held' = held \ {GroupOf[finishing]}
          /\ ReleaseAll(W) \/ QuarantineAll(W)
        BY <1>15, <1>t DEF FinishWave, Control, Looping
    <2>2. W \in SUBSET Unsettled /\ Unsettled' = Unsettled \ W
        BY <1>t, <2>1 DEF Unsettled, Members, Evidence
    <2>3. \E D, P \in SUBSET Plan : BalancedBy(D, P)'
        <3> HIDE DEF W
        <3> QED BY <1>q, <2>1, <2>2, ReleaseBalances, QuarantineBalances
    <2> QED BY <1>h, <2>1, <2>3 DEF Balanced
<1> QED
    BY <1>3, <1>4, <1>5, <1>6, <1>7, <1>8, <1>9, <1>10, <1>11, <1>12, <1>13, <1>14, <1>15
    DEF Step, Hook, Cancellation

\* A fresh batch has nothing reserved and nothing quarantined.
LEMMA BalancedInit == Init => Balanced
<1> SUFFICES ASSUME Init PROVE Balanced
    OBVIOUS
<1>1. \A e \in Executor : \A q \in Quantity :
         reserved[e][q] = Total({}, e, q) /\ quarantined[e][q] = Total({}, e, q)
    BY TotalEmpty DEF Init
<1>2. Unsettled = {}
    BY DEF Init, Unsettled
<1>3. BalancedBy({}, {})
    BY <1>1, <1>2 DEF BalancedBy
<1>4. \E C, Q \in SUBSET Plan : BalancedBy(C, Q)
    BY <1>3
<1> QED BY <1>4 DEF Balanced, Init

\* A batch that returns with its log intact has quarantined exactly what it still reserves:
\* every unit it charged was given back with a proof or is quarantined, and once only
\* (Coordinator.run: _charge, _quarantine, the drain deadline and the finally block).
THEOREM QuarantineIsExact == LoggedSpec => []QuarantineExact
<1> DEFINE Inv == IndInv /\ Faithful /\ Served
           All == Inv /\ failed \in BOOLEAN /\ (~failed => Balanced)
<1>1. LoggedInit => All
    BY IndInit, FairInit, BalancedInit DEF LoggedInit
<1>2. Inv /\ [Next]_vars => Inv'
    <2>1. IndInv => TypeOK
        BY DEF IndInv
    <2>2. IndInv /\ [Next]_vars => IndInv'
        BY <2>1, TypeNext, ControlNext, EvidenceNext, AccountingNext, CapacityNext DEF IndInv
    <2> QED BY <2>2, FaithfulNext, ServedNext
<1>3. All /\ [LoggedNext]_<<vars, failed>> => All'
    <2> SUFFICES ASSUME All, [LoggedNext]_<<vars, failed>> PROVE All'
        OBVIOUS
    <2>1. [Next]_vars
        BY DEF LoggedNext, Next
    <2>2. Inv'
        BY <1>2, <2>1
    <2>3. CASE EventFailure /\ failed' = TRUE
        BY <2>2, <2>3
    <2>4. CASE ~(EventFailure /\ failed' = TRUE)
        <3>1. /\ failed' = failed
              /\ Step \/ Hook \/ Cancellation \/ WorkerStep \/ DeadlineExpires \/ Terminated
                    \/ UNCHANGED vars
            BY <2>4 DEF LoggedNext
        <3>2. ~failed => Balanced'
            BY <3>1, BalancedNext
        <3> QED BY <2>2, <3>1, <3>2
    <2> QED BY <2>3, <2>4
<1>4. All => QuarantineExact
    <2> SUFFICES ASSUME IndInv, Balanced, pc = "returned" PROVE reserved = quarantined
        BY DEF QuarantineExact
    <2>1. PICK C \in SUBSET Plan : \E Q \in SUBSET Plan : BalancedBy(C, Q)
        BY DEF Balanced
    <2>2. PICK Q \in SUBSET Plan : BalancedBy(C, Q)
        BY <2>1
    <2>3. C = Q
        BY <2>2 DEF BalancedBy, Unsettled
    <2>4. \A e \in Executor : \A q \in Quantity : reserved[e][q] = quarantined[e][q]
        BY <2>2, <2>3 DEF BalancedBy
    <2>5. reserved \in [Executor -> [Quantity -> Int]] /\ quarantined \in [Executor -> [Quantity -> Int]]
        BY DEF IndInv, TypeOK
    <2>6. \A e \in Executor : reserved[e] = quarantined[e]
        BY <2>4, <2>5
    <2> QED BY <2>5, <2>6
<1> QED BY <1>1, <1>3, <1>4, PTL DEF LoggedSpec

=============================================================================
