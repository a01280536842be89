---------------------- MODULE CoordinatorStreamProofs ----------------------
(***************************************************************************)
(* Proof about CoordinatorStream for any groups, plans, charges and        *)
(* settings: while the event log works, the reservations are those of      *)
(* running, charged and unproven work, and a pause that returned leaves    *)
(* nothing but the quarantine.                                             *)
(***************************************************************************)
EXTENDS CoordinatorStream, FiniteSetTheorems, TLAPS

-----------------------------------------------------------------------------
(* What the constants are, and what a set of plans takes *)

\* A plan belongs to one group.
LEMMA OneGroup == \A g \in Groups : \A p \in PlansOf[g] : p \in Plans /\ GroupOf(p) = g
<1> SUFFICES ASSUME NEW g \in Groups, NEW p \in PlansOf[g] PROVE p \in Plans /\ GroupOf(p) = g
    OBVIOUS
<1>1. p \in Plans
    BY DEF Plans
<1>2. \A h \in Groups : p \in PlansOf[h] => h = g
    BY StreamAccepted
<1>3. GroupOf(p) \in Groups /\ p \in PlansOf[GroupOf(p)]
    BY DEF GroupOf
<1> QED BY <1>1, <1>2, <1>3

\* Every plan belongs to its group.
LEMMA ItsGroup == \A p \in Plans : GroupOf(p) \in Groups /\ p \in PlansOf[GroupOf(p)]
<1> SUFFICES ASSUME NEW p \in Plans PROVE GroupOf(p) \in Groups /\ p \in PlansOf[GroupOf(p)]
    OBVIOUS
<1>1. PICK g \in Groups : p \in PlansOf[g]
    BY DEF Plans
<1> QED BY <1>1, OneGroup

\* A set of plans takes finitely many units.
LEMMA UnitsFinite ==
    ASSUME NEW S \in SUBSET Plans
    PROVE  IsFiniteSet(UNION {{p} \X (1..Need[p]) : p \in S})
<1> DEFINE block(p) == {p} \X (1..Need[p])
           f == [p \in S |-> block(p)]
           T == {block(p) : p \in S}
<1>1. IsFiniteSet(S)
    BY StreamAccepted, FS_Subset
<1>2. f \in Surjection(S, T)
    BY DEF Surjection
<1>3. IsFiniteSet(T)
    <2> HIDE DEF f, T
    <2> QED BY <1>1, <1>2, FS_Surjection
<1>4. ASSUME NEW p \in S PROVE IsFiniteSet(block(p))
    <2>1. IsFiniteSet({p})
        BY FS_Singleton
    <2>2. Need[p] \in Int /\ 1 \in Int
        BY StreamAccepted
    <2>3. IsFiniteSet(1..Need[p])
        BY <2>2, FS_Interval
    <2> QED BY <2>1, <2>3, FS_Product
<1>5. \A B \in T : IsFiniteSet(B)
    BY <1>4
<1> HIDE DEF T
<1>6. IsFiniteSet(UNION T)
    BY <1>3, <1>5, FS_UNION
<1> QED BY <1>6 DEF T

\* What a set of plans takes is a natural number.
LEMMA UnitsNat == ASSUME NEW S \in SUBSET Plans PROVE Units(S) \in Nat
BY UnitsFinite, FS_CardinalityType DEF Units

\* No plan takes nothing.
LEMMA UnitsNone == Units({}) = 0
<1>1. UNION {{p} \X (1..Need[p]) : p \in {}} = {}
    OBVIOUS
<1> QED BY <1>1, FS_EmptySet DEF Units

\* One plan takes its need.
LEMMA UnitsOne == ASSUME NEW p \in Plans PROVE Units({p}) = Need[p] /\ Need[p] \in Nat
<1> DEFINE I == 1..Need[p]
<1>1. UNION {{r} \X (1..Need[r]) : r \in {p}} = {p} \X I
    OBVIOUS
<1>2. Need[p] \in Nat
    BY StreamAccepted
<1>3. IsFiniteSet(I) /\ Cardinality(I) = Need[p]
    <2>1. 1 \in Int /\ Need[p] \in Int
        BY <1>2
    <2>2. IsFiniteSet(I) /\ Cardinality(I) = IF 1 > Need[p] THEN 0 ELSE Need[p] - 1 + 1
        BY <2>1, FS_Interval
    <2> QED BY <1>2, <2>2
<1>4. Units({p}) = Cardinality({p} \X I)
    BY <1>1 DEF Units
<1> HIDE DEF I
<1>5. IsFiniteSet({p}) /\ Cardinality({p}) = 1
    BY FS_Singleton
<1>6. Cardinality({p} \X I) = Cardinality({p}) * Cardinality(I)
    BY <1>3, <1>5, FS_Product
<1> QED BY <1>2, <1>3, <1>4, <1>5, <1>6

\* Disjoint sets of plans take disjoint units.
LEMMA UnitsUnion ==
    ASSUME NEW S \in SUBSET Plans, NEW R \in SUBSET Plans, S \cap R = {}
    PROVE  Units(S \cup R) = Units(S) + Units(R)
<1> DEFINE U(X) == UNION {{p} \X (1..Need[p]) : p \in X}
<1>1. U(S \cup R) = U(S) \cup U(R)
    OBVIOUS
<1>2. U(S) \cap U(R) = {}
    OBVIOUS
<1>3. IsFiniteSet(U(S)) /\ IsFiniteSet(U(R))
    BY UnitsFinite
<1>4. Units(S) = Cardinality(U(S)) /\ Units(R) = Cardinality(U(R))
          /\ Units(S \cup R) = Cardinality(U(S \cup R))
    BY DEF Units
<1> HIDE DEF U
<1>5. Cardinality(U(S) \cup U(R)) = Cardinality(U(S)) + Cardinality(U(R)) - Cardinality({})
    BY <1>2, <1>3, FS_Union
<1>6. Cardinality({}) = 0
    BY FS_EmptySet
<1>7. Units(S) \in Nat /\ Units(R) \in Nat
    BY UnitsNat
<1>8. Units(S \cup R) = Units(S) + Units(R) - Cardinality({})
    BY <1>1, <1>4, <1>5, Zenon
<1> QED BY <1>6, <1>7, <1>8

\* Taking away a part takes its units away.
LEMMA UnitsPart ==
    ASSUME NEW S \in SUBSET Plans, NEW R \in SUBSET S
    PROVE  Units(S \ R) = Units(S) - Units(R) /\ Units(R) <= Units(S)
<1>1. (S \ R) \cup R = S /\ (S \ R) \cap R = {}
    OBVIOUS
<1>2. S \ R \in SUBSET Plans /\ R \in SUBSET Plans
    OBVIOUS
<1>3. Units((S \ R) \cup R) = Units(S \ R) + Units(R)
    BY <1>1, <1>2, UnitsUnion
<1>4. Units(S \ R) \in Nat /\ Units(R) \in Nat /\ Units(S) \in Nat
    BY <1>2, UnitsNat
<1>5. Units((S \ R) \cup R) = Units(S)
    BY <1>1, Zenon
<1> QED BY <1>3, <1>4, <1>5

-----------------------------------------------------------------------------
(* The invariant *)

Wavy == {"top", "reserve", "admit", "finish", "settle"}
Waiting == {"slot", "check", "running"}
TypeOK ==
    /\ setting \in Settings /\ token \in BOOLEAN
    /\ group \in [Groups -> Wavy \cup {"new", "queued", "collect", "return", "done", "raised"}]
    /\ wave \in [Groups -> SUBSET Plans] /\ closure \in [Groups -> BOOLEAN]
    /\ task \in [Plans -> Waiting \cup {"none", "ended"}]
    /\ result \in [Plans -> {"none", "not_admitted", "safe", "halting", "unsafe", "raised"}]
    /\ reserved \in Int /\ quarantined \in Int

\* Only groups admitted in waves have a wave that may stay unproven; then the stream has
\* stopped and no result of that wave counts.
WavesOK ==
    \A g \in Groups :
        /\ wave[g] \subseteq PlansOf[g]
        /\ g \notin WaveGroups => closure[g] /\ group[g] \notin Wavy
        /\ ~closure[g] => group[g] = "settle" \/ (token /\ group[g] \in {"top", "return", "done"})
        /\ ~closure[g] /\ group[g] # "settle" => \A p \in wave[g] : result[p] = "unsafe"

\* An episode that has not ended is in the wave its group collects, and has no result; a
\* wave is made of plans without result.
TasksOK ==
    \A g \in Groups : \A p \in PlansOf[g] :
        /\ result[p] # "raised"
        /\ group[g] \in {"new", "queued"} => result[p] = "none"
        /\ task[p] \in Waiting => group[g] = "collect" /\ p \in wave[g] /\ result[p] = "none"
        /\ group[g] \in {"reserve", "admit"} /\ p \in wave[g] => result[p] = "none"

\* A plan holds a reservation when it runs on its own, its wave is charged or was not proved
\* closed, or its cleanup is without proof: Holders, plan by plan.
Charged(g) == ~closure[g] \/ group[g] \in {"admit", "collect", "finish", "settle"}
Holds(p) ==
    \/ result[p] = "unsafe"
    \/ ~Waved(p) /\ task[p] = "running"
    \/ Waved(p) /\ p \in wave[GroupOf(p)] /\ Charged(GroupOf(p))
Holding == {p \in Plans : Holds(p)}

\* Quarantined: without proof, and not in a wave that is still to be settled.
Unsettled(p) == Waved(p) /\ p \in wave[GroupOf(p)] /\ group[GroupOf(p)] \in {"collect", "finish", "settle"}
Unproven == {p \in Plans : result[p] = "unsafe" /\ ~Unsettled(p)}

AccountsOK == reserved <= Capacity /\ reserved = Units(Holding) /\ quarantined = Units(Unproven)

\* Who sleeps waits for capacity.
SleepersOK ==
    \A x \in asleep : \/ \E g \in Groups : x = <<"group", g>> /\ group[g] = "reserve"
                      \/ \E p \in Plans : x = <<"plan", p>> /\ task[p] = "check"

\* A pause that returned found no group alive, and none comes while it lasts.
PausedOK == control \in {"paused", "closed", "close_failed"} => Live = {}

Sound == WavesOK /\ TasksOK /\ AccountsOK /\ SleepersOK /\ PausedOK
IndInv == TypeOK /\ (~EventsMayFail => Sound)
-----------------------------------------------------------------------------
(* Initial states and types *)

\* A stream starts without tasks and without reservations (open_stream).
LEMMA StreamInit == Init => IndInv
<1> SUFFICES ASSUME Init PROVE IndInv
    OBVIOUS
<1> USE DEF Init
<1>1. TypeOK
    BY DEF TypeOK
<1>2. WavesOK
    BY DEF WavesOK, Wavy
<1>3. TasksOK
    BY OneGroup DEF TasksOK, Waiting
<1>4. Holding = {} /\ Unproven = {}
    BY ItsGroup DEF Holding, Holds, Charged, Unproven, Unsettled
<1>5. AccountsOK
    BY <1>4, UnitsNone, StreamAccepted DEF AccountsOK
<1>6. SleepersOK /\ PausedOK
    BY DEF SleepersOK, PausedOK
<1> QED BY <1>1, <1>2, <1>3, <1>5, <1>6 DEF IndInv, Sound

\* Every step keeps the types.
LEMMA StreamTypes == ASSUME TypeOK, [Next]_vars PROVE TypeOK'
<1> USE DEF TypeOK, Wavy, Waiting, book
<1>1. CASE Owner \/ Cancel \/ Done \/ UNCHANGED vars
    BY <1>1 DEF Owner, Opened, OpenFails, BeginPause, PauseReturns, ResumeStream, CloseReturns,
        Control, Cancel, Done, vars
<1>2. ASSUME NEW g \in Groups, Submit(g) \/ GroupStep(g) PROVE TypeOK'
    <2>0. Units(wave[g]) \in Int
        BY UnitsNat
    <2>1. CASE Submit(g)
        BY <2>1 DEF Submit
    <2>2. CASE Enter(g)
        BY <2>2, OneGroup DEF Enter
    <2>3. CASE WaveTop(g)
        <3>1. PICK S \in IF token \/ Rest(g) = {} THEN {{}} ELSE NextWaves(g) : wave' = [wave EXCEPT ![g] = S]
            BY <2>3 DEF WaveTop
        <3>2. S \in SUBSET Plans
            BY <3>1, OneGroup DEF NextWaves, Prefixes, Rest
        <3> QED BY <2>3, <3>1, <3>2 DEF WaveTop
    <2>4. CASE WaveReserve(g)
        BY <2>0, <2>4 DEF WaveReserve
    <2>5. CASE AdmitGroup(g) \/ AdmitGroupFails(g) \/ Collected(g)
        BY <2>5 DEF AdmitGroup, AdmitGroupFails, Collected
    <2>6. CASE FinishGroup(g, TRUE) \/ FinishGroup(g, FALSE) \/ GroupReturns(g) \/ GroupEventFails(g)
        BY <2>6 DEF FinishGroup, GroupReturns, GroupEventFails
    <2>7. CASE Settle(g)
        <3>1. CASE WaveSafe(g)
            BY <2>0, <2>7, <3>1 DEF Settle
        <3>2. CASE ~WaveSafe(g)
            BY <2>0, <2>7, <3>2 DEF Settle
        <3> QED BY <3>1, <3>2
    <2> QED BY <1>2, <2>1, <2>2, <2>3, <2>4, <2>5, <2>6, <2>7 DEF GroupStep
<1>3. ASSUME NEW p \in Plans, EpisodeStep(p) PROVE TypeOK'
    <2>0. Need[p] \in Int
        BY StreamAccepted
    <2>1. CASE TakeSlot(p) \/ Sleep(p) \/ NotAdmitted(p)
        BY <2>1 DEF TakeSlot, Sleep, NotAdmitted, End
    <2>2. CASE Admit(p, TRUE) \/ Admit(p, FALSE)
        BY <2>0, <2>2 DEF Admit, End
    <2>3. ASSUME NEW outcome \in {"safe", "halting", "unsafe"}, Ends(p, outcome) PROVE TypeOK'
        BY <2>0, <2>3 DEF Ends, End, Settled
    <2> QED BY <1>3, <2>1, <2>2, <2>3 DEF EpisodeStep
<1> QED BY <1>1, <1>2, <1>3 DEF Next

-----------------------------------------------------------------------------
(* The accounts, step by step *)

\* Steps that leave groups, episodes and accounts alone; a token once cancelled stays so.
LEMMA QuietSteps ==
    ASSUME WavesOK, TasksOK, AccountsOK, token \in BOOLEAN, token => token',
           UNCHANGED <<setting, group, wave, closure, task, result, reserved, quarantined>>
    PROVE  WavesOK' /\ TasksOK' /\ AccountsOK'
<1>1. WavesOK'
    BY DEF WavesOK, WaveGroups
<1>2. TasksOK'
    BY DEF TasksOK
<1>3. Holding' = Holding /\ Unproven' = Unproven
    BY DEF Holding, Holds, Charged, Unproven, Unsettled, Waved, WaveGroups
<1>4. AccountsOK'
    BY <1>3 DEF AccountsOK
<1> QED BY <1>1, <1>2, <1>4

\* What the owner does, and a cancellation.
LEMMA OwnerSound == ASSUME TypeOK, Sound, Owner \/ Cancel PROVE Sound'
<1> USE DEF Sound, book
<1>1. CASE Owner
    <2> USE DEF Owner, Opened, OpenFails, BeginPause, PauseReturns, ResumeStream, CloseReturns, Control
    <2>1. UNCHANGED <<setting, token, group, wave, closure, task, result, reserved, quarantined>>
        BY <1>1
    <2>2. WavesOK' /\ TasksOK' /\ AccountsOK'
        BY <2>1, QuietSteps DEF TypeOK
    <2>3. SleepersOK'
        BY <1>1, <2>1 DEF SleepersOK, NotifyAll
    <2>4. PausedOK'
        BY <1>1, <2>1 DEF PausedOK, Live, TasksEnded
    <2> QED BY <2>2, <2>3, <2>4
<1>2. CASE Cancel
    <2>1. WavesOK' /\ TasksOK' /\ AccountsOK'
        BY <1>2, QuietSteps DEF Cancel, TypeOK
    <2>2. SleepersOK' /\ PausedOK'
        BY <1>2 DEF Cancel, SleepersOK, PausedOK, Live
    <2> QED BY <2>1, <2>2
<1> QED BY <1>1, <1>2
\* Accounts stand when the same plans hold and the same plans are unproven.
LEMMA AccountsKept ==
    ASSUME AccountsOK, Holding' = Holding, Unproven' = Unproven, UNCHANGED book
    PROVE  AccountsOK'
BY DEF AccountsOK, book

\* A submitted group is admitted only while the stream is open, and starts without results.
LEMMA SubmitSound == ASSUME TypeOK, Sound, NEW g \in Groups, Submit(g) PROVE Sound'
<1> USE DEF Submit, TypeOK, Sound
<1>1. WavesOK'
    BY DEF WavesOK, WaveGroups, Wavy
<1>2. TasksOK'
    BY DEF TasksOK
<1>3. AccountsOK'
    <2>1. closure[g]
        BY DEF WavesOK
    <2>2. Holding' = Holding /\ Unproven' = Unproven
        BY <2>1, ItsGroup DEF Holding, Holds, Charged, Unproven, Unsettled, Waved, WaveGroups
    <2> QED BY <2>2, AccountsKept
<1>4. SleepersOK' /\ PausedOK'
    BY DEF SleepersOK, PausedOK
<1> QED BY <1>1, <1>2, <1>3, <1>4

\* Entering the semaphore creates the episodes of a group without waves.
LEMMA EnterSound == ASSUME TypeOK, Sound, NEW g \in Groups, Enter(g) PROVE Sound'
<1> USE DEF Enter, TypeOK, Sound
<1>0. closure[g] /\ \A p \in PlansOf[g] : result[p] = "none" /\ task[p] \notin Waiting
    BY DEF WavesOK, TasksOK
<1>1. WavesOK'
    BY <1>0 DEF WavesOK, WaveGroups, Wavy
<1>2. TasksOK'
    BY <1>0, OneGroup DEF TasksOK, Waiting
<1>3. AccountsOK'
    <2>1. Holding' = Holding /\ Unproven' = Unproven
        BY <1>0, ItsGroup, OneGroup DEF Holding, Holds, Charged, Unproven, Unsettled, Waved, WaveGroups, Waiting
    <2> QED BY <2>1, AccountsKept
<1>4. SleepersOK'
    BY <1>0, OneGroup DEF SleepersOK, Waiting
<1>5. PausedOK'
    BY DEF PausedOK, Live
<1> QED BY <1>1, <1>2, <1>3, <1>4, <1>5

\* The next wave is made of plans without result; a group whose last wave is unproven gets
\* none, because the stream has stopped.
LEMMA WaveTopSound == ASSUME TypeOK, Sound, NEW g \in Groups, WaveTop(g) PROVE Sound'
<1> USE DEF TypeOK, Sound
<1>0. PICK S \in IF token \/ Rest(g) = {} THEN {{}} ELSE NextWaves(g) : wave' = [wave EXCEPT ![g] = S]
    BY DEF WaveTop
<1>1. S \subseteq Rest(g) /\ (token => S = {})
    BY <1>0 DEF NextWaves, Prefixes
<1>2. ~closure[g] => token /\ \A p \in wave[g] : result[p] = "unsafe"
    BY DEF WavesOK, WaveTop
<1>3. WavesOK'
    BY <1>0, <1>1, <1>2 DEF WavesOK, WaveGroups, Wavy, WaveTop, Rest
<1>4. TasksOK'
    BY <1>0, <1>1, OneGroup DEF TasksOK, Waiting, WaveTop, Rest
<1>5. AccountsOK'
    <2>1. Holding' = Holding
        BY <1>0, <1>1, <1>2, ItsGroup, OneGroup DEF Holding, Holds, Charged, Waved, WaveGroups, WaveTop, Rest
    <2>2. Unproven' = Unproven
        BY <1>0, <1>1, <1>2, ItsGroup, OneGroup DEF Unproven, Unsettled, Waved, WaveGroups, WaveTop, Rest
    <2> QED BY <2>1, <2>2, AccountsKept DEF WaveTop
<1>6. SleepersOK'
    BY DEF SleepersOK, WaveTop
<1>7. PausedOK'
    BY DEF PausedOK, Live, WaveTop
<1> QED BY <1>3, <1>4, <1>5, <1>6, <1>7

\* A wave is charged as a whole, when it fits and none of its plans holds anything.
LEMMA WaveReserveSound == ASSUME TypeOK, Sound, NEW g \in Groups, WaveReserve(g) PROVE Sound'
<1> USE DEF TypeOK, Sound
<1>0. /\ group[g] = "reserve" /\ closure[g] /\ g \in WaveGroups /\ wave[g] \subseteq PlansOf[g]
      /\ \A p \in wave[g] : result[p] = "none"
      /\ wave[g] \in SUBSET Plans
    BY DEF WavesOK, TasksOK, WaveReserve, Wavy
<1>1. WavesOK'
    BY <1>0 DEF WavesOK, WaveGroups, Wavy, WaveReserve
<1>2. TasksOK'
    BY <1>0 DEF TasksOK, Waiting, WaveReserve
<1>3. Unproven' = Unproven
    BY <1>0, ItsGroup DEF Unproven, Unsettled, Waved, WaveGroups, WaveReserve
<1>4. AccountsOK'
    <2>1. CASE group'[g] \in {"reserve", "top"} /\ UNCHANGED reserved
        <3>1. Holding' = Holding
            BY <1>0, <2>1, ItsGroup DEF Holding, Holds, Charged, Waved, WaveGroups, WaveReserve
        <3> QED BY <1>3, <2>1, <3>1 DEF AccountsOK, WaveReserve
    <2>2. CASE reserved' = reserved + Units(wave[g]) /\ reserved' <= Capacity /\ group'[g] = "admit"
        <3>1. Holding' = Holding \cup wave[g]
            BY <1>0, <2>2, ItsGroup, OneGroup DEF Holding, Holds, Charged, Waved, WaveGroups, WaveReserve
        <3>2. Holding \cap wave[g] = {} /\ Holding \in SUBSET Plans
            BY <1>0, OneGroup DEF Holding, Holds, Charged, Waved
        <3>3. Units(Holding \cup wave[g]) = Units(Holding) + Units(wave[g])
            BY <1>0, <3>2, UnitsUnion
        <3> QED BY <1>3, <2>2, <3>1, <3>3 DEF AccountsOK, WaveReserve
    <2>3. Units(wave[g]) \in Nat /\ Capacity \in Nat
        BY <1>0, UnitsNat, StreamAccepted
    <2> QED BY <1>0, <2>1, <2>2, <2>3 DEF WaveReserve
<1>5. SleepersOK'
    BY <1>0 DEF SleepersOK, WaveReserve
<1>6. PausedOK'
    BY <1>0 DEF PausedOK, Live, WaveReserve
<1> QED BY <1>1, <1>2, <1>4, <1>5, <1>6
\* admit_group creates the episodes of the wave, or raises and leaves it unproven.
LEMMA AdmitGroupSound ==
    ASSUME TypeOK, Sound, NEW g \in Groups, AdmitGroup(g) \/ AdmitGroupFails(g)
    PROVE  Sound'
<1> USE DEF TypeOK, Sound
<1>0. /\ group[g] = "admit" /\ closure[g] /\ g \in WaveGroups /\ wave[g] \subseteq PlansOf[g]
      /\ \A p \in PlansOf[g] : task[p] \notin Waiting
      /\ \A p \in wave[g] : result[p] = "none"
    BY DEF WavesOK, TasksOK, AdmitGroup, AdmitGroupFails, Wavy
<1>1. CASE AdmitGroup(g)
    <2> USE <1>1 DEF AdmitGroup
    <2>1. WavesOK'
        BY <1>0 DEF WavesOK, WaveGroups, Wavy
    <2>2. TasksOK'
        BY <1>0, OneGroup DEF TasksOK, Waiting
    <2>3. Holding' = Holding
        BY <1>0, ItsGroup, OneGroup DEF Holding, Holds, Charged, Waved, WaveGroups
    <2>4. Unproven' = Unproven
        BY <1>0, ItsGroup, OneGroup DEF Unproven, Unsettled, Waved, WaveGroups
    <2>5. AccountsOK'
        BY <2>3, <2>4, AccountsKept
    <2>6. SleepersOK'
        BY <1>0, OneGroup DEF SleepersOK, Waiting
    <2>7. PausedOK'
        BY DEF PausedOK, Live
    <2> QED BY <2>1, <2>2, <2>5, <2>6, <2>7
<1>2. CASE AdmitGroupFails(g)
    <2> USE <1>2 DEF AdmitGroupFails
    <2>1. WavesOK'
        BY <1>0, OneGroup DEF WavesOK, WaveGroups, Wavy
    <2>2. TasksOK'
        BY <1>0, OneGroup DEF TasksOK, Waiting
    <2>3. Holding' = Holding
        BY <1>0, ItsGroup, OneGroup DEF Holding, Holds, Charged, Waved, WaveGroups
    <2>4. Unproven' = Unproven
        BY <1>0, ItsGroup, OneGroup DEF Unproven, Unsettled, Waved, WaveGroups
    <2>5. AccountsOK'
        BY <2>3, <2>4, AccountsKept
    <2>6. SleepersOK'
        BY <1>0 DEF SleepersOK
    <2>7. PausedOK'
        BY DEF PausedOK, Live
    <2> QED BY <2>1, <2>2, <2>5, <2>6, <2>7
<1> QED BY <1>1, <1>2

\* collect: all episodes of the wave have ended, none of them by an exception.
LEMMA CollectedSound == ASSUME TypeOK, Sound, NEW g \in Groups, Collected(g) PROVE Sound'
<1> USE DEF TypeOK, Sound, Collected
<1>0. /\ group[g] = "collect" /\ closure[g] /\ wave[g] \subseteq PlansOf[g]
      /\ \A p \in PlansOf[g] : task[p] \notin Waiting
    BY DEF WavesOK, TasksOK, Waiting
<1>1. result' = result /\ token' = token
    <2>1. \A p \in Plans : result[p] # "raised"
        BY ItsGroup DEF TasksOK
    <2> QED BY <1>0, <2>1, OneGroup
<1>2. WavesOK'
    BY <1>0, <1>1 DEF WavesOK, WaveGroups, Wavy
<1>3. TasksOK'
    BY <1>0, <1>1 DEF TasksOK
<1>4. Holding' = Holding
    BY <1>0, <1>1, ItsGroup DEF Holding, Holds, Charged, Waved, WaveGroups
<1>5. Unproven' = Unproven
    BY <1>0, <1>1, ItsGroup DEF Unproven, Unsettled, Waved, WaveGroups
<1>6. AccountsOK'
    BY <1>4, <1>5, AccountsKept
<1>7. SleepersOK'
    BY DEF SleepersOK
<1>8. PausedOK'
    BY DEF PausedOK, Live
<1> QED BY <1>2, <1>3, <1>6, <1>7, <1>8

\* finish_group and the return of a group move no reservation.
LEMMA FinishSound ==
    ASSUME TypeOK, Sound, NEW g \in Groups, NEW proved \in BOOLEAN,
           FinishGroup(g, proved) \/ GroupReturns(g)
    PROVE  Sound'
<1> USE DEF TypeOK, Sound, FinishGroup, GroupReturns
<1>0. group[g] = "finish" => closure[g] /\ g \in WaveGroups
    BY DEF WavesOK, Wavy
<1>1. WavesOK'
    BY <1>0 DEF WavesOK, WaveGroups, Wavy
<1>2. TasksOK'
    BY DEF TasksOK
<1>3. Holding' = Holding
    BY <1>0, ItsGroup DEF Holding, Holds, Charged, Waved, WaveGroups
<1>4. Unproven' = Unproven
    BY ItsGroup DEF Unproven, Unsettled, Waved, WaveGroups
<1>5. AccountsOK'
    BY <1>3, <1>4, AccountsKept
<1>6. SleepersOK'
    BY DEF SleepersOK
<1>7. PausedOK'
    BY DEF PausedOK, Live
<1> QED BY <1>1, <1>2, <1>5, <1>6, <1>7

\* A wave that is proved closed is released, any other is quarantined with all its plans.
LEMMA SettleSound == ASSUME TypeOK, Sound, NEW g \in Groups, Settle(g) PROVE Sound'
<1> USE DEF TypeOK, Sound
<1>0. /\ group[g] = "settle" /\ g \in WaveGroups /\ wave[g] \subseteq PlansOf[g]
      /\ \A p \in PlansOf[g] : task[p] \notin Waiting
      /\ wave[g] \in SUBSET Plans /\ Capacity \in Nat
    BY StreamAccepted DEF WavesOK, TasksOK, Settle, Wavy
<1>1. Units(wave[g]) \in Nat /\ Holding \in SUBSET Plans /\ Unproven \in SUBSET Plans
    BY <1>0, UnitsNat DEF Holding, Unproven
<1>2. CASE WaveSafe(g)
    <2> USE <1>2
    <2>0. closure[g] /\ \A p \in wave[g] : result[p] # "unsafe"
        BY DEF WaveSafe
    <2>1. WavesOK'
        BY <1>0, <2>0 DEF WavesOK, WaveGroups, Wavy, Settle
    <2>2. TasksOK'
        BY <1>0 DEF TasksOK, Settle
    <2>3. Holding' = Holding \ wave[g] /\ wave[g] \subseteq Holding
        BY <1>0, <2>0, ItsGroup, OneGroup DEF Holding, Holds, Charged, Waved, WaveGroups, Settle
    <2>4. Unproven' = Unproven
        BY <1>0, <2>0, ItsGroup DEF Unproven, Unsettled, Waved, WaveGroups, Settle
    <2>5. Units(Holding \ wave[g]) = Units(Holding) - Units(wave[g])
        BY <1>1, <2>3, UnitsPart
    <2>6. AccountsOK'
        BY <1>0, <1>1, <2>3, <2>4, <2>5 DEF AccountsOK, Settle
    <2>7. SleepersOK' /\ PausedOK'
        BY <1>0 DEF SleepersOK, PausedOK, Live, Settle, NotifyAll
    <2> QED BY <2>1, <2>2, <2>6, <2>7
<1>3. CASE ~WaveSafe(g)
    <2> USE <1>3
    <2>1. WavesOK'
        BY <1>0, OneGroup DEF WavesOK, WaveGroups, Wavy, Settle
    <2>2. TasksOK'
        BY <1>0, OneGroup DEF TasksOK, Waiting, Settle
    <2>3. Holding' = Holding
        BY <1>0, ItsGroup, OneGroup DEF Holding, Holds, Charged, Waved, WaveGroups, Settle
    <2>4. Unproven' = Unproven \cup wave[g] /\ Unproven \cap wave[g] = {}
        BY <1>0, ItsGroup, OneGroup DEF Unproven, Unsettled, Waved, WaveGroups, Settle
    <2>5. Units(Unproven \cup wave[g]) = Units(Unproven) + Units(wave[g])
        BY <1>0, <1>1, <2>4, UnitsUnion
    <2>6. AccountsOK'
        BY <2>3, <2>4, <2>5 DEF AccountsOK, Settle
    <2>7. SleepersOK' /\ PausedOK'
        BY <1>0 DEF SleepersOK, PausedOK, Live, Settle, NotifyAll
    <2> QED BY <2>1, <2>2, <2>6, <2>7
<1> QED BY <1>2, <1>3
\* An episode that waits or runs is in the wave its group collects.
LEMMA EpisodeAlive ==
    ASSUME TypeOK, Sound, NEW p \in Plans, task[p] \in Waiting
    PROVE  /\ GroupOf(p) \in Groups /\ p \in PlansOf[GroupOf(p)] /\ p \in wave[GroupOf(p)]
           /\ group[GroupOf(p)] = "collect" /\ result[p] = "none"
           /\ control \notin {"paused", "closed", "close_failed"}
<1>1. GroupOf(p) \in Groups /\ p \in PlansOf[GroupOf(p)]
    BY ItsGroup
<1>2. p \in wave[GroupOf(p)] /\ group[GroupOf(p)] = "collect" /\ result[p] = "none"
    BY <1>1 DEF TasksOK, Sound
<1>3. GroupOf(p) \in Live
    BY <1>1, <1>2 DEF Live
<1> QED BY <1>1, <1>2, <1>3 DEF PausedOK, Sound

\* Steps of an episode that charge and settle nothing.
LEMMA WaitingSound ==
    ASSUME TypeOK, Sound, NEW p \in Plans, TakeSlot(p) \/ Sleep(p) \/ NotAdmitted(p)
    PROVE  Sound'
<1> USE DEF TypeOK, Sound, TakeSlot, Sleep, NotAdmitted, End
<1>0. task[p] \in Waiting /\ task[p] # "running"
    BY DEF Waiting
<1>1. /\ GroupOf(p) \in Groups /\ p \in PlansOf[GroupOf(p)] /\ p \in wave[GroupOf(p)]
      /\ group[GroupOf(p)] = "collect" /\ result[p] = "none"
      /\ control \notin {"paused", "closed", "close_failed"}
    BY <1>0, EpisodeAlive
<1>2. WavesOK'
    BY <1>1, OneGroup DEF WavesOK, WaveGroups, Wavy
<1>3. TasksOK'
    BY <1>1, OneGroup DEF TasksOK, Waiting
<1>4. Holding' = Holding /\ Unproven' = Unproven
    BY <1>0, <1>1 DEF Holding, Holds, Charged, Unproven, Unsettled, Waved, WaveGroups
<1>5. AccountsOK'
    BY <1>4, AccountsKept
<1>6. SleepersOK'
    BY DEF SleepersOK
<1>7. PausedOK'
    BY <1>1 DEF PausedOK
<1> QED BY <1>2, <1>3, <1>5, <1>6, <1>7

\* An admitted episode is charged, unless its wave was.
LEMMA AdmitSound == ASSUME TypeOK, Sound, NEW p \in Plans, Admit(p, TRUE) PROVE Sound'
<1> USE DEF TypeOK, Sound
<1>0. task[p] = "check" /\ task' = [task EXCEPT ![p] = "running"] /\ UNCHANGED <<result, quarantined>>
      /\ UNCHANGED <<setting, control, token, group, wave, closure, asleep>> /\ <<"plan", p>> \notin asleep
    BY DEF Admit
<1>1. /\ GroupOf(p) \in Groups /\ p \in PlansOf[GroupOf(p)] /\ p \in wave[GroupOf(p)]
      /\ group[GroupOf(p)] = "collect" /\ result[p] = "none"
      /\ control \notin {"paused", "closed", "close_failed"}
    BY <1>0, EpisodeAlive DEF Waiting
<1>2. WavesOK'
    BY <1>0 DEF WavesOK, WaveGroups, Wavy
<1>3. TasksOK'
    BY <1>0, <1>1, OneGroup DEF TasksOK, Waiting
<1>4. Unproven' = Unproven
    BY <1>0 DEF Unproven, Unsettled, Waved, WaveGroups
<1>5. AccountsOK'
    <2>1. CASE Waved(p)
        <3>1. Holding' = Holding
            BY <1>0, <2>1 DEF Holding, Holds, Charged, Waved, WaveGroups
        <3> QED BY <1>0, <1>4, <2>1, <3>1 DEF AccountsOK, Admit
    <2>2. CASE ~Waved(p)
        <3>1. Holding' = Holding \cup {p} /\ Holding \cap {p} = {} /\ Holding \in SUBSET Plans
            BY <1>0, <1>1, <2>2 DEF Holding, Holds, Charged, Waved, WaveGroups
        <3>2. Units(Holding \cup {p}) = Units(Holding) + Units({p})
            BY <3>1, UnitsUnion
        <3>3. Units({p}) = Need[p]
            BY UnitsOne
        <3>4. reserved' = reserved + Need[p] /\ reserved + Need[p] <= Capacity
            BY <2>2 DEF Admit, Fits
        <3> QED BY <1>0, <1>4, <3>1, <3>2, <3>3, <3>4 DEF AccountsOK
    <2> QED BY <2>1, <2>2
<1>6. SleepersOK'
    BY <1>0 DEF SleepersOK
<1>7. PausedOK'
    BY <1>0, <1>1 DEF PausedOK
<1> QED BY <1>2, <1>3, <1>5, <1>6, <1>7

\* An episode that ends is settled, unless its wave will be.
LEMMA EndsSound ==
    ASSUME TypeOK, Sound, ~EventsMayFail, NEW p \in Plans,
           NEW outcome \in {"safe", "halting", "unsafe"}, Ends(p, outcome)
    PROVE  Sound'
<1> USE DEF TypeOK, Sound
<1>0. /\ task[p] = "running" /\ task' = [task EXCEPT ![p] = "ended"]
      /\ result' = [result EXCEPT ![p] = outcome] /\ asleep' = {} /\ (token => token')
      /\ UNCHANGED <<setting, control, group, wave, closure>>
    BY DEF Ends, End, NotifyAll
<1>1. /\ GroupOf(p) \in Groups /\ p \in PlansOf[GroupOf(p)] /\ p \in wave[GroupOf(p)]
      /\ group[GroupOf(p)] = "collect" /\ result[p] = "none"
      /\ control \notin {"paused", "closed", "close_failed"}
    BY <1>0, EpisodeAlive DEF Waiting
<1>2. WavesOK'
    BY <1>0, <1>1, OneGroup DEF WavesOK, WaveGroups, Wavy
<1>3. TasksOK'
    BY <1>0, <1>1, OneGroup DEF TasksOK, Waiting
<1>4. AccountsOK'
    <2>0. Need[p] \in Nat /\ Units({p}) = Need[p] /\ Capacity \in Nat
        BY UnitsOne, StreamAccepted
    <2>1. CASE Waved(p)
        <3>1. Holding' = Holding /\ Unproven' = Unproven
            BY <1>0, <1>1, <2>1 DEF Holding, Holds, Charged, Unproven, Unsettled, Waved, WaveGroups
        <3>2. UNCHANGED book
            BY <2>1 DEF Ends, Settled
        <3> QED BY <3>1, <3>2, AccountsKept
    <2>2. CASE ~Waved(p) /\ outcome = "unsafe"
        <3>1. Holding' = Holding
            BY <1>0, <1>1, <2>2 DEF Holding, Holds, Charged, Waved, WaveGroups
        <3>2. Unproven' = Unproven \cup {p} /\ Unproven \cap {p} = {} /\ Unproven \in SUBSET Plans
            BY <1>0, <1>1, <2>2 DEF Unproven, Unsettled, Waved, WaveGroups
        <3>3. Units(Unproven \cup {p}) = Units(Unproven) + Units({p})
            BY <3>2, UnitsUnion
        <3>4. quarantined' = quarantined + Need[p] /\ reserved' = reserved
            BY <2>2 DEF Ends, Settled
        <3> QED BY <2>0, <3>1, <3>2, <3>3, <3>4 DEF AccountsOK
    <2>3. CASE ~Waved(p) /\ outcome # "unsafe"
        <3>1. Holding' = Holding \ {p} /\ {p} \subseteq Holding /\ Holding \in SUBSET Plans
            BY <1>0, <1>1, <2>3 DEF Holding, Holds, Charged, Waved, WaveGroups
        <3>2. Unproven' = Unproven
            BY <1>0, <1>1, <2>3 DEF Unproven, Unsettled, Waved, WaveGroups
        <3>3. Units(Holding \ {p}) = Units(Holding) - Units({p})
            BY <3>1, UnitsPart
        <3>4. reserved' = reserved - Need[p] /\ quarantined' = quarantined
            BY <2>3 DEF Ends, Settled
        <3> QED BY <2>0, <3>1, <3>2, <3>3, <3>4 DEF AccountsOK
    <2> QED BY <2>1, <2>2, <2>3
<1>5. SleepersOK' /\ PausedOK'
    BY <1>0, <1>1 DEF SleepersOK, PausedOK
<1> QED BY <1>2, <1>3, <1>4, <1>5

-----------------------------------------------------------------------------
(* The theorem *)

\* Every step keeps the accounts while the event log works.
LEMMA StreamStep == IndInv /\ [Next]_vars => IndInv'
<1> SUFFICES ASSUME IndInv, [Next]_vars PROVE IndInv'
    OBVIOUS
<1>1. TypeOK /\ TypeOK'
    BY StreamTypes DEF IndInv
<1>2. setting' = setting
    BY DEF Next, Owner, Opened, OpenFails, BeginPause, PauseReturns, ResumeStream, CloseReturns, Control,
        Cancel, Done, vars, Submit, GroupStep, Enter, WaveTop, WaveReserve, AdmitGroup, AdmitGroupFails,
        Collected, FinishGroup, Settle, GroupReturns, GroupEventFails, EpisodeStep, TakeSlot, Sleep,
        NotAdmitted, Admit, Ends
<1>3. SUFFICES ASSUME ~EventsMayFail PROVE Sound'
    BY <1>1, <1>2 DEF IndInv, EventsMayFail
<1>4. Sound
    BY <1>3 DEF IndInv
<1>5. CASE Owner \/ Cancel
    BY <1>1, <1>4, <1>5, OwnerSound
<1>6. CASE Done \/ UNCHANGED vars
    <2>1. UNCHANGED vars
        BY <1>6 DEF Done
    <2>2. WavesOK' /\ TasksOK' /\ AccountsOK'
        BY <1>1, <1>4, <2>1, QuietSteps DEF vars, TypeOK, Sound
    <2>3. SleepersOK' /\ PausedOK'
        BY <1>4, <2>1 DEF vars, Sound, SleepersOK, PausedOK, Live
    <2> QED BY <2>2, <2>3 DEF Sound
<1>7. ASSUME NEW g \in Groups, Submit(g) \/ GroupStep(g) PROVE Sound'
    <2>1. ~GroupEventFails(g)
        BY <1>3 DEF GroupEventFails
    <2> QED BY <1>1, <1>4, <1>7, <2>1, SubmitSound, EnterSound, WaveTopSound, WaveReserveSound,
            AdmitGroupSound, CollectedSound, FinishSound, SettleSound DEF GroupStep
<1>8. ASSUME NEW p \in Plans, EpisodeStep(p) PROVE Sound'
    <2>1. ~Admit(p, FALSE)
        BY <1>3 DEF Admit
    <2> QED BY <1>1, <1>3, <1>4, <1>8, <2>1, WaitingSound, AdmitSound, EndsSound DEF EpisodeStep
<1> QED BY <1>5, <1>6, <1>7, <1>8 DEF Next

\* The invariant says what StreamSound says: Holders are the plans that hold, and once no
\* group is alive only unproven plans do.
LEMMA SoundSays == IndInv => StreamSound
<1> SUFFICES ASSUME IndInv, ~EventsMayFail PROVE StreamReservationsExact /\ PauseProves
    BY DEF StreamSound
<1> USE DEF IndInv, Sound
<1>1. WaveGroups \subseteq Groups
    BY StreamAccepted DEF TypeOK, WaveGroups
<1>2. Holders = Holding
    <2>1. ASSUME NEW p \in Holders PROVE p \in Holding
        BY <1>1, <2>1, OneGroup DEF Holders, Holding, Holds, Charged, Waved, WavesOK
    <2>2. ASSUME NEW p \in Holding PROVE p \in Holders
        BY <1>1, <2>2, ItsGroup DEF Holders, Holding, Holds, Charged, Waved
    <2> QED BY <2>1, <2>2
<1>3. StreamReservationsExact
    BY <1>2 DEF StreamReservationsExact, AccountsOK
<1>4. ASSUME control \in {"paused", "closed", "close_failed"}
      PROVE  (\A p \in Plans : task[p] \in {"none", "ended"}) /\ asleep = {} /\ reserved = quarantined
    <2>1. \A g \in Groups : group[g] \in {"new", "done", "raised"}
        BY <1>4 DEF PausedOK, Live
    <2>2. \A p \in Plans : task[p] \in {"none", "ended"}
        BY <2>1, ItsGroup DEF TasksOK, TypeOK
    <2>3. asleep = {}
        BY <2>1, <2>2 DEF SleepersOK
    <2>4. Holding = Unproven
        BY <2>1, <2>2, ItsGroup DEF Holding, Holds, Charged, Unproven, Unsettled, WavesOK
    <2> QED BY <2>2, <2>3, <2>4 DEF AccountsOK
<1> QED BY <1>3, <1>4 DEF PauseProves

\* While the event log works, the reservations of a stream are those of running, charged and
\* unproven work and never exceed the executor, and a pause that has returned leaves nothing
\* but the quarantine (pause_stream, execute, group), for any groups, waves and needs.
THEOREM StreamIsSound == Spec => []StreamSound
<1>1. Init => IndInv
    BY StreamInit
<1>2. IndInv /\ [Next]_vars => IndInv'
    BY StreamStep
<1>3. IndInv => StreamSound
    BY SoundSays
<1> QED BY <1>1, <1>2, <1>3, PTL DEF Spec
=============================================================================
