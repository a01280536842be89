------------------------- MODULE BenchmarkSideProofs -------------------------
(***************************************************************************)
(* Proofs about components of the benchmark side. ArtifactTransfer, for    *)
(* every queue of artifacts, every number of chunks and every number of    *)
(* deaths of the receiver. SealedRun, for any number of learner attempts   *)
(* and supervisor restarts: one workflow per phase, one optimizer step on  *)
(* the group, and only episodes of the leased policy are trained on.       *)
(* NativeRequests, for any threads, episodes, turns, process deaths and    *)
(* faults: no request reaches the model twice, an episode reported certain *)
(* left nothing running, and the traces of an eligible one are those of    *)
(* its turns. RelayReadiness, for any times, restarts and policies: an     *)
(* admission rests on one fresh observation. TerminalTrial, for any        *)
(* trials, waves and turns: a cleanup reported verified is real and the    *)
(* verifier grades a settled container. NativeRunner, for any episodes,    *)
(* pools and budgets: a GPU or bytes given on are unused, and a cleanup    *)
(* reported verified left no process. InputCache, for any consumers, keys  *)
(* and sizes: storage in use is never freed and no limit is exceeded.      *)
(***************************************************************************)
EXTENDS ArtifactTransfer, SealedRun, NativeRequests, RelayReadiness, TerminalTrial,
        NativeRunner, InputCache, SequenceTheorems, FiniteSetTheorems, TLAPS

-----------------------------------------------------------------------------
(* ArtifactTransfer: the invariant *)

FileState == {"none", "whole", "torn"}

TransferTypeOK ==
    /\ published \subseteq Artifacts /\ delivered \subseteq Artifacts /\ incoming \subseteq Artifacts
    /\ chunk \in [Artifacts -> Seq({"whole", "torn"})]
    /\ blob \in [Artifacts -> FileState] /\ receipt \in [Artifacts -> FileState]
    /\ pump \in [step : {"idle", "start", "chunk", "commit", "ack"}, id : Nat, index : Nat]
    /\ pump.step # "idle" => pump.id \in Artifacts
    /\ deaths \in Nat

\* The page has seen every chunk up to the one it is at, in the receiver's answers.
ChunksSeen ==
    /\ pump.step = "chunk" => pump.index <= Len(chunk[pump.id])
    /\ pump.step \in {"commit", "ack"} => Chunks <= Len(chunk[pump.id])

\* What a receipt, torn or not, stands for: every chunk is there and none is torn.
Complete(a) == Chunks <= Len(chunk[a]) /\ \A k \in 1..Chunks : chunk[a][k] = "whole"
ReceiptsComplete == \A a \in Artifacts : receipt[a] # "none" => Complete(a)

\* The page acknowledges only under a receipt that can be read.
AckUnderReceipt == pump.step = "ack" => receipt[pump.id] = "whole"

TransferInv == TransferTypeOK /\ ChunksSeen /\ ReceiptsComplete /\ AckUnderReceipt /\ DeliveredIsExact

\* Initially nothing is queued and nothing received.
LEMMA TransferInitInv == TransferInit => TransferInv
BY ArtifactAssumption
   DEF TransferInit, PumpIdle, TransferInv, TransferTypeOK, FileState, ChunksSeen, ReceiptsComplete,
       Complete, AckUnderReceipt, DeliveredIsExact

\* A chunk file appended leaves the earlier ones alone.
LEMMA AppendKeeps ==
    ASSUME NEW s \in Seq({"whole", "torn"}), NEW c \in {"whole", "torn"}
    PROVE  /\ Append(s, c) \in Seq({"whole", "torn"}) /\ Len(Append(s, c)) = Len(s) + 1
           /\ \A k \in 1..Len(s) : Append(s, c)[k] = s[k]
OBVIOUS

\* No step of the page, of its peers or of a dying receiver breaks the invariant.
LEMMA TransferStepInv ==
    TransferInv /\ [TransferNext]_transferVars => TransferInv'
<1> USE ArtifactAssumption
<1> SUFFICES ASSUME TransferInv, [TransferNext]_transferVars PROVE TransferInv'
    OBVIOUS
<1> USE DEF TransferInv, TransferTypeOK, FileState
<1>b. ASSUME UNCHANGED <<chunk, receipt>> PROVE ReceiptsComplete'
    BY <1>b DEF ReceiptsComplete, Complete
<1>c. ASSUME UNCHANGED <<delivered, blob, receipt>> PROVE DeliveredIsExact'
    BY <1>c DEF DeliveredIsExact
<1>1. ASSUME NEW a \in Artifacts, PublishArtifact(a) PROVE TransferInv'
    BY <1>1, <1>b, <1>c DEF PublishArtifact, ChunksSeen, AckUnderReceipt
<1>2. CASE NextArtifact
    BY <1>2, <1>b, <1>c DEF NextArtifact, ChunksSeen, AckUnderReceipt
<1>3. CASE Start
    <2>1. pump.id \in Artifacts /\ chunk[pump.id] \in Seq({"whole", "torn"})
        BY <1>3 DEF Start
    <2>2. Len(chunk[pump.id]) \in Nat
        BY <2>1
    <2>3. pump' = [step |-> "chunk", id |-> pump.id, index |-> Len(chunk[pump.id])]
        BY <1>3 DEF Start
    <2>4. TransferTypeOK'
        BY <1>3, <2>1, <2>2, <2>3 DEF Start
    <2>5. ChunksSeen'
        BY <1>3, <2>2, <2>3 DEF Start, ChunksSeen
    <2> QED BY <1>3, <1>b, <1>c, <2>3, <2>4, <2>5 DEF Start, AckUnderReceipt
<1>a. ASSUME NEW c \in {"whole", "torn"}, pump.step # "idle",
             chunk' = [chunk EXCEPT ![pump.id] = Append(@, c)], UNCHANGED receipt
      PROVE  /\ chunk' \in [Artifacts -> Seq({"whole", "torn"})] /\ ReceiptsComplete'
             /\ Len(chunk'[pump.id]) = Len(chunk[pump.id]) + 1
    <2>1. chunk[pump.id] \in Seq({"whole", "torn"})
        BY <1>a
    <2>2. /\ Append(chunk[pump.id], c) \in Seq({"whole", "torn"})
          /\ Len(Append(chunk[pump.id], c)) = Len(chunk[pump.id]) + 1
          /\ \A k \in 1..Len(chunk[pump.id]) : Append(chunk[pump.id], c)[k] = chunk[pump.id][k]
        BY <2>1, AppendKeeps
    <2>3. ASSUME NEW a \in Artifacts, Complete(a) PROVE Complete(a)'
        <3>1. CASE a = pump.id
            <4>1. Chunks <= Len(chunk[a]) /\ Len(chunk[a]) \in Nat
                BY <2>3 DEF Complete
            <4>2. \A k \in 1..Chunks : k \in 1..Len(chunk[a])
                BY <4>1
            <4>3. chunk'[a] = Append(chunk[a], c)
                BY <3>1, <1>a
            <4> QED BY <2>2, <2>3, <3>1, <4>1, <4>2, <4>3 DEF Complete
        <3>2. CASE a # pump.id
            BY <1>a, <2>3, <3>2 DEF Complete
        <3> QED BY <3>1, <3>2
    <2>4. ReceiptsComplete'
        BY <1>a, <2>3 DEF ReceiptsComplete
    <2> QED BY <1>a, <2>2, <2>4
<1>4. CASE Chunk
    <2>1. pump.id \in Artifacts /\ chunk[pump.id] \in Seq({"whole", "torn"}) /\ pump.index \in Nat
        BY <1>4 DEF Chunk
    <2>2. Len(chunk[pump.id]) \in Nat
        BY <2>1
    <2>3. pump' = [step |-> "chunk", id |-> pump.id, index |-> pump.index + 1]
        BY <1>4 DEF Chunk
    <2>4. /\ chunk' \in [Artifacts -> Seq({"whole", "torn"})] /\ ReceiptsComplete'
          /\ pump.index + 1 <= Len(chunk'[pump.id])
        <3>1. CASE pump.index < Len(chunk[pump.id])
            <4>1. UNCHANGED <<chunk, receipt>>
                BY <1>4, <3>1 DEF Chunk
            <4> QED BY <4>1, <3>1, <1>b, <2>1, <2>2
        <3>2. CASE ~(pump.index < Len(chunk[pump.id]))
            <4>1. /\ chunk' = [chunk EXCEPT ![pump.id] = Append(@, "whole")] /\ UNCHANGED receipt
                  /\ pump.step # "idle"
                BY <1>4, <3>2 DEF Chunk
            <4>2. /\ chunk' \in [Artifacts -> Seq({"whole", "torn"})] /\ ReceiptsComplete'
                  /\ Len(chunk'[pump.id]) = Len(chunk[pump.id]) + 1
                BY <4>1, <1>a
            <4>3. pump.index <= Len(chunk[pump.id])
                BY <1>4 DEF Chunk, Accepted
            <4> QED BY <4>2, <4>3, <2>1, <2>2
        <3> QED BY <3>1, <3>2
    <2>5. TransferTypeOK'
        BY <1>4, <2>1, <2>3, <2>4 DEF Chunk
    <2>6. ChunksSeen' /\ AckUnderReceipt'
        BY <2>3, <2>4 DEF ChunksSeen, AckUnderReceipt
    <2> QED BY <1>4, <1>c, <2>4, <2>5, <2>6 DEF Chunk
<1>5. CASE ChunksSent
    <2>1. pump' = [step |-> "commit", id |-> pump.id, index |-> pump.index]
        BY <1>5 DEF ChunksSent
    <2>2. TransferTypeOK' /\ ChunksSeen' /\ AckUnderReceipt'
        BY <1>5, <2>1 DEF ChunksSent, ChunksSeen, AckUnderReceipt
    <2> QED BY <1>5, <1>b, <1>c, <2>2 DEF ChunksSent
<1>d. ASSUME pump.step = "commit", Matches(pump.id) PROVE pump.id \in Artifacts /\ Complete(pump.id)
    BY <1>d DEF ChunksSeen, Matches, Complete
<1>6. CASE Commit
    <2>1. pump' = [step |-> "ack", id |-> pump.id, index |-> pump.index] /\ pump.id \in Artifacts
        BY <1>6 DEF Commit
    <2>2. CASE receipt[pump.id] = "whole" /\ UNCHANGED <<blob, receipt>>
        <3>1. TransferTypeOK' /\ ChunksSeen' /\ AckUnderReceipt'
            BY <1>6, <2>1, <2>2 DEF Commit, ChunksSeen, AckUnderReceipt
        <3> QED BY <1>6, <1>b, <1>c, <2>2, <3>1 DEF Commit
    <2>3. CASE /\ receipt[pump.id] = "none" /\ Matches(pump.id)
               /\ blob' = [blob EXCEPT ![pump.id] = "whole"]
               /\ receipt' = [receipt EXCEPT ![pump.id] = "whole"]
        <3>1. TransferTypeOK' /\ ChunksSeen' /\ AckUnderReceipt'
            BY <1>6, <2>1, <2>3 DEF Commit, ChunksSeen, AckUnderReceipt
        <3>2. Complete(pump.id)
            BY <1>6, <2>3, <1>d DEF Commit
        <3>3. ReceiptsComplete'
            BY <1>6, <2>3, <3>2 DEF Commit, ReceiptsComplete, Complete
        <3>4. DeliveredIsExact'
            BY <1>6, <2>3 DEF Commit, DeliveredIsExact
        <3> QED BY <3>1, <3>3, <3>4
    <2> QED BY <1>6, <2>2, <2>3 DEF Commit, Matches
<1>7. CASE Acknowledge
    <2>1. pump.id \in Artifacts /\ receipt[pump.id] = "whole"
        BY <1>7 DEF Acknowledge, AckUnderReceipt
    <2>2. TransferTypeOK' /\ ChunksSeen' /\ AckUnderReceipt'
        BY <1>7, <2>1 DEF Acknowledge, PumpIdle, ChunksSeen, AckUnderReceipt
    <2>3. DeliveredIsExact'
        BY <1>7, <2>1 DEF Acknowledge, DeliveredIsExact
    <2> QED BY <1>7, <1>b, <2>2, <2>3 DEF Acknowledge
<1>8. CASE PumpFails
    <2>1. ChunksSeen' /\ AckUnderReceipt' /\ DeliveredIsExact'
        BY <1>8, <1>c DEF PumpFails, PumpIdle, ChunksSeen, AckUnderReceipt
    <2>2. chunk' \in [Artifacts -> Seq({"whole", "torn"})] /\ ReceiptsComplete'
        <3>1. CASE UNCHANGED chunk
            BY <1>8, <3>1, <1>b DEF PumpFails
        <3>2. CASE chunk' = [chunk EXCEPT ![pump.id] = Append(@, "whole")]
            BY <1>8, <3>2, <1>a DEF PumpFails
        <3> QED BY <1>8, <3>1, <3>2 DEF PumpFails
    <2>3. TransferTypeOK'
        BY <1>8, <2>2 DEF PumpFails, PumpIdle
    <2> QED BY <2>1, <2>2, <2>3
<1>9. CASE ReceiverDies
    <2>1. ChunksSeen' /\ AckUnderReceipt'
        BY <1>9 DEF ReceiverDies, PumpIdle, ChunksSeen, AckUnderReceipt
    <2>2. CASE UNCHANGED <<chunk, blob, receipt>>
        BY <1>9, <1>b, <1>c, <2>1, <2>2 DEF ReceiverDies, PumpIdle
    <2>3. CASE pump.step = "chunk" /\ chunk' = [chunk EXCEPT ![pump.id] = Append(@, "torn")] /\ UNCHANGED <<blob, receipt>>
        <3>1. chunk' \in [Artifacts -> Seq({"whole", "torn"})] /\ ReceiptsComplete'
            BY <2>3, <1>a
        <3> QED BY <1>9, <1>c, <2>1, <2>3, <3>1 DEF ReceiverDies, PumpIdle
    <2>4. CASE /\ pump.step = "commit" /\ receipt[pump.id] = "none" /\ Matches(pump.id)
               /\ blob' = [blob EXCEPT ![pump.id] = "whole"] /\ UNCHANGED chunk
               /\ receipt' \in {receipt, [receipt EXCEPT ![pump.id] = "torn"]}
        <3>1. pump.id \in Artifacts /\ Complete(pump.id)
            BY <2>4, <1>d
        <3>2. TransferTypeOK'
            BY <1>9, <2>4, <3>1 DEF ReceiverDies, PumpIdle
        <3>3. ReceiptsComplete'
            BY <2>4, <3>1 DEF ReceiptsComplete, Complete
        <3>4. DeliveredIsExact'
            BY <1>9, <2>4, <3>1 DEF ReceiverDies, DeliveredIsExact
        <3> QED BY <2>1, <3>2, <3>3, <3>4
    <2> QED BY <1>9, <2>2, <2>3, <2>4 DEF ReceiverDies
<1>10. CASE UNCHANGED transferVars
    BY <1>10, <1>b, <1>c DEF transferVars, ChunksSeen, AckUnderReceipt
<1> QED BY <1>1, <1>2, <1>3, <1>4, <1>5, <1>6, <1>7, <1>8, <1>9, <1>10 DEF TransferNext, Pump, Idling

\* The strengthening holds in every reachable state.
THEOREM TransferInvariant == TransferSpec => []TransferInv
<1>1. TransferInit => TransferInv
    BY TransferInitInv
<1>2. TransferInv /\ [TransferNext]_transferVars => TransferInv'
    BY TransferStepInv
<1> QED BY <1>1, <1>2, PTL DEF TransferSpec

\* Whatever calls are repeated and wherever the receiver dies, an artifact counts as
\* delivered only under a receipt, and a receipt, even a torn one, only stands beside the
\* whole file (artifacts.py commit, acknowledge), for any queue and any number of chunks.
THEOREM DeliveryExact == TransferSpec => []DeliveredIsExact
<1>1. TransferInv => DeliveredIsExact
    BY DEF TransferInv
<1> QED BY <1>1, TransferInvariant, PTL

\* A receipt proves that every chunk of the artifact is stored and none is torn, although
\* the chunk files are written one call at a time between which the receiver may die
\* (artifacts.py receive_chunk, commit).
THEOREM ReceiptMeansEveryChunk == TransferSpec => []ReceiptsComplete
<1>1. TransferInv => ReceiptsComplete
    BY DEF TransferInv
<1> QED BY <1>1, TransferInvariant, PTL


-----------------------------------------------------------------------------
(* SealedRun: the invariant *)

\* The states a process can be in.
WorkerStates == {"none", "prepared", "sampling", "sealed", "exited", "dead"}
Busy == {"importing", "imported", "paused", "trained", "activated", "evaluating"}

SealedTypeOK ==
    /\ sup.phase \in Phases /\ sup = [at |-> sup.at, phase |-> sup.phase]
    /\ control \in [Phases -> [Files -> {"none", "torn", "whole"}]]
    /\ worker \in [Phases -> WorkerStates] /\ output \in [Phases -> {"none", "open", "sealed"}]
    /\ clean \in [Phases -> BOOLEAN] /\ sampled \in [Phases -> SUBSET Phases] /\ launches \in [Phases -> Nat]
    /\ seals \subseteq [phase : Phases, clean : BOOLEAN]
    /\ learner \in [1..Attempts -> Busy \cup Ended] /\ actor.policy \in Phases
    /\ consumer \in 0..Attempts /\ steps \in Nat

\* The claim file is written before the one workflow of a phase is launched, and whoever
\* finds it does not launch another.
ClaimOK ==
    \A p \in Phases :
        /\ launches[p] <= 1 /\ (launches[p] = 1 => control[p]["claim"] # "none")
        /\ sup.at = "launch" /\ sup.phase = p => launches[p] = 0 /\ control[p]["claim"] # "none"
        /\ launches[p] = 0 <=> worker[p] = "none"

\* What a workflow has sampled and sealed: nothing changes once it is sealed, and what is
\* clean was sampled under the policy of the phase.
SealOK ==
    \A p \in Phases :
        /\ worker[p] \in {"none", "prepared"} => output[p] = "none" /\ clean[p] /\ sampled[p] = {}
        /\ worker[p] = "sampling" => output[p] = "open"
        /\ worker[p] \in {"sealed", "exited"} => output[p] = "sealed"
        /\ output[p] = "sealed" => sampled[p] # {} \/ ~clean[p]
        /\ clean[p] => sampled[p] \subseteq {p}
        /\ sup.at = "publish" /\ sup.phase = p => output[p] = "sealed"

DeliveredOK == \A s \in seals : output[s.phase] = "sealed" /\ (s.clean <=> clean[s.phase])

\* The clean seal of a phase has been delivered.
CleanSeal(p) == \E s \in seals : s.phase = p /\ s.clean

\* One learner at a time, one claim of the group, one step; a learner that got past the
\* import has a clean group.
LearnerOK ==
    /\ \A a, b \in 1..Attempts : learner[a] \in Busy /\ learner[b] \in Busy => a = b
    /\ consumer = 0 => \A a \in 1..Attempts : a # 1 => learner[a] = "off"
    /\ consumer # 0 => learner[1] = "closed_before_import"
    /\ steps <= 1
    /\ steps = 1 => /\ \A a \in 1..Attempts : learner[a] \notin {"importing", "imported", "paused"}
                    /\ consumer = 0 => learner[1] \notin {"off", "closed_before_import"}
                    /\ CleanSeal(0)
    /\ \A a \in 1..Attempts : /\ learner[a] \in Busy \ {"importing"} => CleanSeal(0)
                              /\ learner[a] = "done" => CleanSeal(1)

SealedInv == SealedTypeOK /\ ClaimOK /\ SealOK /\ DeliveredOK /\ LearnerOK

-----------------------------------------------------------------------------
(* The steps *)

\* A control file is written once, whole or torn.
WrittenOnce(f) == control' = control \/ \E v \in {"torn", "whole"} : control' = [control EXCEPT ![sup.phase][f] = v]

\* Writing one file leaves the others alone.
LEMMA WriteStep ==
    ASSUME SealedTypeOK, NEW f \in Files, WrittenOnce(f)
    PROVE  /\ control' \in [Phases -> [Files -> {"none", "torn", "whole"}]]
           /\ \A p \in Phases, g \in Files : g # f => control'[p][g] = control[p][g]
<1>1. CASE control' = control
    BY <1>1 DEF SealedTypeOK
<1>2. ASSUME NEW v \in {"torn", "whole"}, control' = [control EXCEPT ![sup.phase][f] = v]
      PROVE  /\ control' \in [Phases -> [Files -> {"none", "torn", "whole"}]]
             /\ \A p \in Phases, g \in Files : g # f => control'[p][g] = control[p][g]
    <2>1. /\ sup.phase \in Phases /\ control \in [Phases -> [Files -> {"none", "torn", "whole"}]]
          /\ \A p \in Phases : control[p] \in [Files -> {"none", "torn", "whole"}]
        BY DEF SealedTypeOK
    <2>2. \A p \in Phases : control'[p] = IF p = sup.phase THEN [control[p] EXCEPT ![f] = v] ELSE control[p]
        BY <1>2, <2>1
    <2>3. ASSUME NEW p \in Phases PROVE control'[p] \in [Files -> {"none", "torn", "whole"}]
        <3>1. control[p] \in [Files -> {"none", "torn", "whole"}]
            BY <2>1
        <3>2. [control[p] EXCEPT ![f] = v] \in [Files -> {"none", "torn", "whole"}]
            BY <3>1
        <3> QED BY <2>2, <3>1, <3>2
    <2>4. control' \in [Phases -> [Files -> {"none", "torn", "whole"}]]
        BY <1>2, <2>1, <2>3
    <2> QED BY <2>1, <2>2, <2>4
<1> QED BY <1>1, <1>2 DEF WrittenOnce

\* The supervisor.
LEMMA SupervisorInv ==
    ASSUME SealedInv, Supervisor
    PROVE  SealedInv'
<1> USE SealedAssumption DEF SealedInv, Goto, NextPhase, Write, Phases, Files, cpuSide, gpuSide
<1>a. UNCHANGED gpuSide /\ seals \subseteq seals'
    BY DEF Supervisor, SupervisorStarts, SupervisorDies, LeaseArrives, Decide, Guard, WriteConfig, Claim, Launch, WorkerExits, Publish, Finish
<1>b. LearnerOK'
    BY <1>a DEF LearnerOK, CleanSeal
<1>1. CASE SupervisorStarts
    <2>1. SealedTypeOK'
        BY <1>1 DEF SupervisorStarts, SealedTypeOK
    <2>2. ClaimOK'
        BY <1>1 DEF SupervisorStarts, SealedTypeOK, ClaimOK
    <2>3. SealOK'
        BY <1>1 DEF SupervisorStarts, SealedTypeOK, ClaimOK, SealOK, DeliveredOK
    <2>4. DeliveredOK'
        BY <1>1 DEF SupervisorStarts, SealedTypeOK, SealOK, DeliveredOK
    <2> QED BY <1>b, <2>1, <2>2, <2>3, <2>4
<1>2. CASE SupervisorDies
    <2>1. SealedTypeOK'
        BY <1>2 DEF SupervisorDies, SealedTypeOK
    <2>2. ClaimOK'
        BY <1>2 DEF SupervisorDies, SealedTypeOK, ClaimOK
    <2>3. SealOK'
        BY <1>2 DEF SupervisorDies, SealedTypeOK, ClaimOK, SealOK, DeliveredOK
    <2>4. DeliveredOK'
        BY <1>2 DEF SupervisorDies, SealedTypeOK, SealOK, DeliveredOK
    <2> QED BY <1>b, <2>1, <2>2, <2>3, <2>4
<1>3. CASE LeaseArrives
    <2>1. SealedTypeOK'
        <3>1. WrittenOnce("lease") /\ "lease" \in Files
            BY <1>3 DEF LeaseArrives, WrittenOnce
        <3>2. control' \in [Phases -> [Files -> {"none", "torn", "whole"}]]
            BY <3>1, WriteStep
        <3> QED BY <1>3, <3>2 DEF LeaseArrives, SealedTypeOK
    <2>2. ClaimOK'
        BY <1>3 DEF LeaseArrives, SealedTypeOK, ClaimOK
    <2>3. SealOK'
        BY <1>3 DEF LeaseArrives, SealedTypeOK, ClaimOK, SealOK, DeliveredOK
    <2>4. DeliveredOK'
        BY <1>3 DEF LeaseArrives, SealedTypeOK, SealOK, DeliveredOK
    <2> QED BY <1>b, <2>1, <2>2, <2>3, <2>4
<1>4. CASE Decide
    <2>1. SealedTypeOK'
        BY <1>4 DEF Decide, SealedTypeOK
    <2>2. ClaimOK'
        BY <1>4 DEF Decide, SealedTypeOK, ClaimOK
    <2>3. SealOK'
        BY <1>4 DEF Decide, SealedTypeOK, ClaimOK, SealOK, DeliveredOK
    <2>4. DeliveredOK'
        BY <1>4 DEF Decide, SealedTypeOK, SealOK, DeliveredOK
    <2> QED BY <1>b, <2>1, <2>2, <2>3, <2>4
<1>5. CASE Guard
    <2>1. SealedTypeOK'
        <3>1. WrittenOnce("guard") /\ "guard" \in Files
            BY <1>5 DEF Guard, WrittenOnce
        <3>2. control' \in [Phases -> [Files -> {"none", "torn", "whole"}]]
            BY <3>1, WriteStep
        <3> QED BY <1>5, <3>2 DEF Guard, SealedTypeOK
    <2>2. ClaimOK'
        BY <1>5 DEF Guard, SealedTypeOK, ClaimOK
    <2>3. SealOK'
        BY <1>5 DEF Guard, SealedTypeOK, ClaimOK, SealOK, DeliveredOK
    <2>4. DeliveredOK'
        BY <1>5 DEF Guard, SealedTypeOK, SealOK, DeliveredOK
    <2> QED BY <1>b, <2>1, <2>2, <2>3, <2>4
<1>6. CASE WriteConfig
    <2>1. SealedTypeOK'
        <3>1. WrittenOnce("config") /\ "config" \in Files
            BY <1>6 DEF WriteConfig, WrittenOnce
        <3>2. control' \in [Phases -> [Files -> {"none", "torn", "whole"}]]
            BY <3>1, WriteStep
        <3> QED BY <1>6, <3>2 DEF WriteConfig, SealedTypeOK
    <2>2. ClaimOK'
        <3>1. \A p \in Phases : control'[p]["claim"] = control[p]["claim"]
            BY <1>6, WriteStep DEF WriteConfig, WrittenOnce
        <3> QED BY <1>6, <3>1 DEF WriteConfig, SealedTypeOK, ClaimOK
    <2>3. SealOK'
        BY <1>6 DEF WriteConfig, SealedTypeOK, ClaimOK, SealOK, DeliveredOK
    <2>4. DeliveredOK'
        BY <1>6 DEF WriteConfig, SealedTypeOK, SealOK, DeliveredOK
    <2> QED BY <1>b, <2>1, <2>2, <2>3, <2>4
<1>7. CASE Claim
    <2>1. SealedTypeOK'
        <3>1. WrittenOnce("claim") /\ "claim" \in Files
            BY <1>7 DEF Claim, WrittenOnce
        <3>2. control' \in [Phases -> [Files -> {"none", "torn", "whole"}]]
            BY <3>1, WriteStep
        <3> QED BY <1>7, <3>2 DEF Claim, SealedTypeOK
    <2>2. ClaimOK'
        BY <1>7 DEF Claim, SealedTypeOK, ClaimOK
    <2>3. SealOK'
        BY <1>7 DEF Claim, SealedTypeOK, ClaimOK, SealOK, DeliveredOK
    <2>4. DeliveredOK'
        BY <1>7 DEF Claim, SealedTypeOK, SealOK, DeliveredOK
    <2> QED BY <1>b, <2>1, <2>2, <2>3, <2>4
<1>8. CASE Launch
    <2>1. SealedTypeOK'
        <3>1. launches' \in [Phases -> Nat] /\ worker' \in [Phases -> WorkerStates]
            BY <1>8 DEF Launch, SealedTypeOK, WorkerStates
        <3> QED BY <1>8, <3>1 DEF Launch, SealedTypeOK
    <2>2. ClaimOK'
        BY <1>8 DEF Launch, SealedTypeOK, ClaimOK
    <2>3. SealOK'
        BY <1>8 DEF Launch, SealedTypeOK, ClaimOK, SealOK, DeliveredOK
    <2>4. DeliveredOK'
        BY <1>8 DEF Launch, SealedTypeOK, SealOK, DeliveredOK
    <2> QED BY <1>b, <2>1, <2>2, <2>3, <2>4
<1>9. CASE WorkerExits
    <2>1. SealedTypeOK'
        BY <1>9 DEF WorkerExits, SealedTypeOK
    <2>2. ClaimOK'
        BY <1>9 DEF WorkerExits, SealedTypeOK, ClaimOK
    <2>3. SealOK'
        BY <1>9 DEF WorkerExits, SealedTypeOK, ClaimOK, SealOK, DeliveredOK
    <2>4. DeliveredOK'
        BY <1>9 DEF WorkerExits, SealedTypeOK, SealOK, DeliveredOK
    <2> QED BY <1>b, <2>1, <2>2, <2>3, <2>4
<1>10. CASE Publish
    <2>1. SealedTypeOK'
        BY <1>10 DEF Publish, SealedTypeOK
    <2>2. ClaimOK'
        BY <1>10 DEF Publish, SealedTypeOK, ClaimOK
    <2>3. SealOK'
        BY <1>10 DEF Publish, SealedTypeOK, ClaimOK, SealOK, DeliveredOK
    <2>4. DeliveredOK'
        BY <1>10 DEF Publish, SealedTypeOK, SealOK, DeliveredOK
    <2> QED BY <1>b, <2>1, <2>2, <2>3, <2>4
<1>11. CASE Finish
    <2>1. SealedTypeOK'
        <3>1. WrittenOnce("finished") /\ "finished" \in Files
            BY <1>11 DEF Finish, WrittenOnce
        <3>2. control' \in [Phases -> [Files -> {"none", "torn", "whole"}]]
            BY <3>1, WriteStep
        <3> QED BY <1>11, <3>2 DEF Finish, SealedTypeOK
    <2>2. ClaimOK'
        BY <1>11 DEF Finish, SealedTypeOK, ClaimOK
    <2>3. SealOK'
        BY <1>11 DEF Finish, SealedTypeOK, ClaimOK, SealOK, DeliveredOK
    <2>4. DeliveredOK'
        BY <1>11 DEF Finish, SealedTypeOK, SealOK, DeliveredOK
    <2> QED BY <1>b, <2>1, <2>2, <2>3, <2>4
<1> QED BY <1>1, <1>2, <1>3, <1>4, <1>5, <1>6, <1>7, <1>8, <1>9, <1>10, <1>11 DEF Supervisor

\* The workflows.
LEMMA WorkflowInv ==
    ASSUME SealedInv, NEW p \in Phases, Workflow(p)
    PROVE  SealedInv'
<1> USE SealedAssumption DEF SealedInv, Phases, Files, cpuSide, gpuSide, WorkerStates
<1>a. UNCHANGED gpuSide /\ seals \subseteq seals'
    BY DEF Workflow, WorkflowStarts, Sample, Excluded, Seal, WorkflowPublishes, WorkflowDies
<1>b. LearnerOK'
    BY <1>a DEF LearnerOK, CleanSeal
<1>1. CASE WorkflowStarts(p)
    <2>1. SealedTypeOK'
        BY <1>1 DEF WorkflowStarts, SealedTypeOK
    <2>2. ClaimOK'
        BY <1>1 DEF WorkflowStarts, SealedTypeOK, ClaimOK
    <2>3. SealOK'
        BY <1>1 DEF WorkflowStarts, SealedTypeOK, ClaimOK, SealOK, DeliveredOK
    <2>4. DeliveredOK'
        BY <1>1 DEF WorkflowStarts, SealedTypeOK, SealOK, DeliveredOK
    <2> QED BY <1>b, <2>1, <2>2, <2>3, <2>4
<1>2. CASE Sample(p)
    <2>1. SealedTypeOK'
        BY <1>2 DEF Sample, SealedTypeOK
    <2>2. ClaimOK'
        BY <1>2 DEF Sample, SealedTypeOK, ClaimOK
    <2>3. SealOK'
        <3>1. /\ worker[p] = "sampling" /\ UNCHANGED <<sup, worker, output>>
              /\ sampled' = [sampled EXCEPT ![p] = @ \cup {actor.policy}]
              /\ clean' = [clean EXCEPT ![p] = @ /\ actor.policy = p]
            BY <1>2 DEF Sample
        <3>2. \A q \in Phases : q # p => sampled'[q] = sampled[q] /\ (clean'[q] <=> clean[q])
            BY <3>1 DEF SealedTypeOK
        <3>3. /\ sampled'[p] = sampled[p] \cup {actor.policy} /\ sampled'[p] # {}
              /\ clean'[p] => clean[p] /\ actor.policy = p
            BY <3>1 DEF SealedTypeOK
        <3>4. clean'[p] => sampled'[p] \subseteq {p}
            BY <3>3 DEF SealOK
        <3> QED BY <3>1, <3>2, <3>3, <3>4 DEF SealOK
    <2>4. DeliveredOK'
        BY <1>2 DEF Sample, SealedTypeOK, SealOK, DeliveredOK
    <2> QED BY <1>b, <2>1, <2>2, <2>3, <2>4
<1>3. CASE Excluded(p)
    <2>1. SealedTypeOK'
        BY <1>3 DEF Excluded, SealedTypeOK
    <2>2. ClaimOK'
        BY <1>3 DEF Excluded, SealedTypeOK, ClaimOK
    <2>3. SealOK'
        BY <1>3 DEF Excluded, SealedTypeOK, ClaimOK, SealOK, DeliveredOK
    <2>4. DeliveredOK'
        BY <1>3 DEF Excluded, SealedTypeOK, SealOK, DeliveredOK
    <2> QED BY <1>b, <2>1, <2>2, <2>3, <2>4
<1>4. CASE Seal(p)
    <2>1. SealedTypeOK'
        BY <1>4 DEF Seal, SealedTypeOK
    <2>2. ClaimOK'
        BY <1>4 DEF Seal, SealedTypeOK, ClaimOK
    <2>3. SealOK'
        BY <1>4 DEF Seal, SealedTypeOK, ClaimOK, SealOK, DeliveredOK
    <2>4. DeliveredOK'
        BY <1>4 DEF Seal, SealedTypeOK, SealOK, DeliveredOK
    <2> QED BY <1>b, <2>1, <2>2, <2>3, <2>4
<1>5. CASE WorkflowPublishes(p)
    <2>1. SealedTypeOK'
        BY <1>5 DEF WorkflowPublishes, SealedTypeOK
    <2>2. ClaimOK'
        BY <1>5 DEF WorkflowPublishes, SealedTypeOK, ClaimOK
    <2>3. SealOK'
        BY <1>5 DEF WorkflowPublishes, SealedTypeOK, ClaimOK, SealOK, DeliveredOK
    <2>4. DeliveredOK'
        BY <1>5 DEF WorkflowPublishes, SealedTypeOK, SealOK, DeliveredOK
    <2> QED BY <1>b, <2>1, <2>2, <2>3, <2>4
<1>6. CASE WorkflowDies(p)
    <2>1. SealedTypeOK'
        BY <1>6 DEF WorkflowDies, SealedTypeOK
    <2>2. ClaimOK'
        BY <1>6 DEF WorkflowDies, SealedTypeOK, ClaimOK
    <2>3. SealOK'
        BY <1>6 DEF WorkflowDies, SealedTypeOK, ClaimOK, SealOK, DeliveredOK
    <2>4. DeliveredOK'
        BY <1>6 DEF WorkflowDies, SealedTypeOK, SealOK, DeliveredOK
    <2> QED BY <1>b, <2>1, <2>2, <2>3, <2>4
<1> QED BY <1>1, <1>2, <1>3, <1>4, <1>5, <1>6 DEF Workflow

\* The learners.
LEMMA LearnerInv ==
    ASSUME SealedInv, NEW a \in 1..Attempts, Learner(a)
    PROVE  SealedInv'
<1> USE SealedAssumption DEF SealedInv, Step, Phases, Busy, Ended, NoActor, Recoverable, cpuSide, gpuSide
<1>a. UNCHANGED <<seals, cpuSide>>
    BY DEF Learner, LearnerStarts, PublishLease, Import, ImportFails, Pause, Train, Activate, Resume, VerifyPostUpdate, LearnerDies
<1>b. ClaimOK' /\ SealOK' /\ DeliveredOK'
    BY <1>a DEF ClaimOK, SealOK, DeliveredOK
<1>1. CASE LearnerStarts(a)
    <2>1. SealedTypeOK'
        BY <1>1 DEF LearnerStarts, SealedTypeOK
    <2>2. LearnerOK'
        BY <1>1 DEF LearnerStarts, SealedTypeOK, DeliveredOK, LearnerOK, CleanSeal
    <2> QED BY <1>b, <2>1, <2>2
<1>2. CASE PublishLease(a)
    <2>1. SealedTypeOK'
        BY <1>2 DEF PublishLease, SealedTypeOK
    <2>2. LearnerOK'
        BY <1>2 DEF PublishLease, SealedTypeOK, DeliveredOK, LearnerOK, CleanSeal
    <2> QED BY <1>b, <2>1, <2>2
<1>3. CASE Import(a)
    <2>1. SealedTypeOK'
        <3>1. learner' \in [1..Attempts -> Busy \cup Ended]
            BY <1>3 DEF Import, SealedTypeOK
        <3> QED BY <1>3, <3>1 DEF Import, SealedTypeOK
    <2>2. LearnerOK'
        <3>1. PICK s \in seals :
                  /\ s.phase = 0
                  /\ IF s.clean THEN Step(a, "imported") ELSE Step(a, "failed")
            BY <1>3 DEF Import
        <3>2. learner[a] = "importing" /\ UNCHANGED <<seals, consumer, steps>>
            BY <1>3 DEF Import
        <3>3. CASE s.clean
            <4>1. CleanSeal(0) /\ learner' = [learner EXCEPT ![a] = "imported"]
                BY <3>1, <3>3 DEF CleanSeal
            <4> QED BY <3>2, <4>1 DEF SealedTypeOK, LearnerOK, CleanSeal
        <3>4. CASE ~s.clean
            <4>1. learner' = [learner EXCEPT ![a] = "failed"]
                BY <3>1, <3>4
            <4> QED BY <3>2, <4>1 DEF SealedTypeOK, LearnerOK, CleanSeal
        <3> QED BY <3>3, <3>4
    <2> QED BY <1>b, <2>1, <2>2
<1>4. CASE ImportFails(a)
    <2>1. SealedTypeOK'
        BY <1>4 DEF ImportFails, SealedTypeOK
    <2>2. LearnerOK'
        BY <1>4 DEF ImportFails, SealedTypeOK, DeliveredOK, LearnerOK, CleanSeal
    <2> QED BY <1>b, <2>1, <2>2
<1>5. CASE Pause(a)
    <2>1. SealedTypeOK'
        BY <1>5 DEF Pause, SealedTypeOK
    <2>2. LearnerOK'
        BY <1>5 DEF Pause, SealedTypeOK, DeliveredOK, LearnerOK, CleanSeal
    <2> QED BY <1>b, <2>1, <2>2
<1>6. CASE Train(a)
    <2>1. SealedTypeOK'
        BY <1>6 DEF Train, SealedTypeOK
    <2>2. LearnerOK'
        BY <1>6 DEF Train, SealedTypeOK, DeliveredOK, LearnerOK, CleanSeal
    <2> QED BY <1>b, <2>1, <2>2
<1>7. CASE Activate(a)
    <2>1. SealedTypeOK'
        BY <1>7 DEF Activate, SealedTypeOK
    <2>2. LearnerOK'
        BY <1>7 DEF Activate, SealedTypeOK, DeliveredOK, LearnerOK, CleanSeal
    <2> QED BY <1>b, <2>1, <2>2
<1>8. CASE Resume(a)
    <2>1. SealedTypeOK'
        BY <1>8 DEF Resume, SealedTypeOK
    <2>2. LearnerOK'
        BY <1>8 DEF Resume, SealedTypeOK, DeliveredOK, LearnerOK, CleanSeal
    <2> QED BY <1>b, <2>1, <2>2
<1>9. CASE VerifyPostUpdate(a)
    <2>1. SealedTypeOK'
        BY <1>9 DEF VerifyPostUpdate, SealedTypeOK
    <2>2. LearnerOK'
        BY <1>9 DEF VerifyPostUpdate, SealedTypeOK, DeliveredOK, LearnerOK, CleanSeal
    <2> QED BY <1>b, <2>1, <2>2
<1>10. CASE LearnerDies(a)
    <2>1. SealedTypeOK'
        BY <1>10 DEF LearnerDies, SealedTypeOK
    <2>2. LearnerOK'
        BY <1>10 DEF LearnerDies, SealedTypeOK, DeliveredOK, LearnerOK, CleanSeal
    <2> QED BY <1>b, <2>1, <2>2
<1> QED BY <1>1, <1>2, <1>3, <1>4, <1>5, <1>6, <1>7, <1>8, <1>9, <1>10 DEF Learner

-----------------------------------------------------------------------------
(* The theorems *)

\* Nothing is leased, launched or trained at first.
LEMMA SealedInitInv == SealedInit => SealedInv
<1> SUFFICES ASSUME SealedInit PROVE SealedInv
    OBVIOUS
<1> USE SealedAssumption DEF SealedInit, Phases, Files, NoActor
<1>1. SealedTypeOK
    BY DEF SealedTypeOK, WorkerStates, Busy, Ended
<1>2. ClaimOK /\ SealOK /\ DeliveredOK
    BY DEF ClaimOK, SealOK, DeliveredOK
<1>3. LearnerOK
    BY DEF LearnerOK, Busy
<1> QED BY <1>1, <1>2, <1>3 DEF SealedInv

\* The invariant holds wherever the supervisor, a workflow or a learner dies.
THEOREM SealedInvariant == SealedSpec => []SealedInv
<1>1. SealedInv /\ [SealedNext]_sealedVars => SealedInv'
    <2> SUFFICES ASSUME SealedInv, [SealedNext]_sealedVars PROVE SealedInv'
        OBVIOUS
    <2>1. CASE UNCHANGED sealedVars
        BY <2>1 DEF sealedVars, cpuSide, gpuSide, SealedInv, SealedTypeOK, ClaimOK, SealOK, DeliveredOK, LearnerOK, CleanSeal
    <2> QED BY <2>1, SupervisorInv, WorkflowInv, LearnerInv DEF SealedNext
<1> QED BY <1>1, SealedInitInv, PTL DEF SealedSpec

\* One workflow per phase, one optimizer step on the sealed group over the original learner
\* and every recovery, and only what was sampled under the leased policy is trained on or
\* reported (cpu_supervisor.py, preupdate_recovery.py).
THEOREM RunConsumedOnce == SealedSpec => []ConsumedOnce
<1>1. SealedInv => ConsumedOnce
    <2> SUFFICES ASSUME SealedInv PROVE ConsumedOnce
        OBVIOUS
    <2>1. \A p \in Phases : CleanSeal(p) => sampled[p] = {p}
        BY DEF SealedInv, SealedTypeOK, SealOK, DeliveredOK, CleanSeal
    <2> QED BY <2>1 DEF SealedInv, ClaimOK, LearnerOK, ConsumedOnce, Phases
<1> QED BY <1>1, SealedInvariant, PTL

-----------------------------------------------------------------------------
(* NativeRequests: the invariant *)

Unsent == {"state", "dispatching", "connect", "send", "undispatched"}
Uncertainty == {"connect", "send", "wait", "undispatched", "unknown"}
Episode ==
    [pc : Unsent \cup Uncertainty \cup {"claim", "evidence", "tools", "finish"}, job : Jobs, turn : 1..Turns,
     failure : {None} \cup [dispatched : BOOLEAN, received : BOOLEAN], completed : BOOLEAN,
     body : {None} \cup [id : Ids]]
States == {"claimed", "dispatching", "not_dispatched", "outcome_unknown", "response_received"}
Evidences == {"none", "validated", "rejected"}
Entry == [state : States, uncertain : BOOLEAN, evidence : Evidences]
Connection == [open : BOOLEAN, epoch : Nat, reply : {None} \cup [id : Ids, status : {200, 502}]]

RequestsTypeOK ==
    /\ training \in BOOLEAN
    /\ work \in [Threads -> {IdleThread} \cup Episode] /\ conn \in [Threads -> Connection]
    /\ binding \in [Jobs -> [bound : BOOLEAN, closed : BOOLEAN, traces : Seq(Ids)]]
    /\ ledger \in [Ids -> {None} \cup Entry]
    /\ result \in [Jobs -> {None} \cup [uncertain : BOOLEAN, eligible : BOOLEAN, traces : Seq(Ids)]]
    /\ handlers \subseteq [id : Ids, thread : Threads, epoch : Nat]
    /\ claims \subseteq Ids /\ used \subseteq Ids /\ generating \subseteq Ids /\ runs \in [Ids -> Nat]

ThreadBusy(t) == work[t].pc # "idle"

\* One thread per episode, and no result while it runs.
Apart ==
    /\ \A t \in Threads : ThreadBusy(t) => work[t].job \in started /\ result[work[t].job] = None
    /\ \A t, u \in Threads : ThreadBusy(t) /\ ThreadBusy(u) /\ work[t].job = work[u].job => t = u

\* The model was never given request i, nor can it be.
Untouched(i) == runs[i] = 0 /\ ~Outstanding(i)

\* An id is claimed once and sent once: a claimed id is with one thread, in one handler or
\* at the model.
Once ==
    /\ \A i \in Ids \ claims : Untouched(i)
    /\ \A t \in Threads : work[t].pc \in Unsent => Id(t) \in claims /\ Untouched(Id(t))
    /\ \A h, k \in handlers : h.id = k.id => h = k
    /\ \A h \in handlers : h.id \notin used => runs[h.id] = 0
    /\ \A i \in Ids : runs[i] <= 1 /\ (i \in used \cup generating => runs[i] = 1)

\* A handler that can still answer belongs to the request its thread waits for, and so does
\* the answer; a good answer means that the model is done with it.
Wire ==
    /\ \A h \in handlers : h.epoch <= conn[h.thread].epoch
    /\ \A h \in handlers : conn[h.thread].open /\ h.epoch = conn[h.thread].epoch =>
           /\ work[h.thread].pc = "wait" /\ h.id = Id(h.thread) /\ conn[h.thread].reply = None
    /\ \A t \in Threads : conn[t].reply # None =>
           /\ work[t].pc = "wait" /\ conn[t].reply.id = Id(t)
           /\ conn[t].reply.status = 200 => ~Outstanding(Id(t)) /\ runs[Id(t)] = 1

\* Whatever may still reach the model is uncertain in the ledger, and no episode was reported
\* certain with such a request.
Told ==
    /\ \A i \in Ids : Outstanding(i) => ledger[i] # None /\ ledger[i].uncertain
    /\ \A t \in Threads : work[t].pc \in Uncertainty => ledger[Id(t)] # None /\ ledger[Id(t)].uncertain
    /\ \A t \in Threads : work[t].pc = "evidence" => ledger[Id(t)] # None
    /\ \A j \in Jobs : result[j] # None /\ ~result[j].uncertain => \A n \in 1..Turns : ~Outstanding(<<j, n>>)

\* The first n turns of episode j, each given to the model once.
Traces(given, s, j, n) == Len(s) = n /\ \A m \in 1..n : s[m] = <<j, m>> /\ given[<<j, m>>] = 1

Traced ==
    training =>
      /\ \A t \in Threads : ThreadBusy(t) =>
           LET j == work[t].job IN
           /\ work[t].pc \notin {"tools", "finish"} => Traces(runs, binding[j].traces, j, work[t].turn - 1)
           /\ work[t].pc = "tools" => Traces(runs, binding[j].traces, j, work[t].turn)
           /\ work[t].pc # "finish" => ~work[t].completed
           /\ work[t].pc = "finish" /\ work[t].completed => Traces(runs, binding[j].traces, j, Turns)
           /\ work[t].pc = "evidence" => work[t].body # None /\ runs[work[t].body.id] = 1
      /\ \A j \in Jobs : result[j] # None /\ result[j].eligible => ~result[j].uncertain /\ Traces(runs, result[j].traces, j, Turns)

Reported == ~training => \A j \in Jobs : result[j] # None => ~result[j].eligible

RequestsInv == RequestsTypeOK /\ Apart /\ Once /\ Wire /\ Told /\ Traced /\ Reported

-----------------------------------------------------------------------------
(* Threads and their requests *)

Failures == {None} \cup [dispatched : BOOLEAN, received : BOOLEAN]
PCs == Unsent \cup Uncertainty \cup {"claim", "evidence", "tools", "finish"}

\* Thread t goes on with its episode at p; the other threads stand still.
Moved(t, p) ==
    /\ work' \in [Threads -> {IdleThread} \cup Episode]
    /\ \A u \in Threads : u # t => work'[u] = work[u]
    /\ work'[t] \in Episode /\ work'[t].pc = p /\ work'[t].job = work[t].job

\* A thread that is busy has an episode and a request id.
LEMMA BusyEpisode ==
    ASSUME RequestsTypeOK, NEW t \in Threads, ThreadBusy(t)
    PROVE  work[t] \in Episode /\ Id(t) \in Ids /\ work[t].job \in Jobs /\ work[t].turn \in 1..Turns
<1>1. work[t] \in Episode
    BY DEF RequestsTypeOK, ThreadBusy, IdleThread
<1> QED BY <1>1 DEF Episode, Id, Ids

\* Two busy threads have different request ids.
LEMMA IdsApart ==
    ASSUME RequestsTypeOK, Apart, NEW t \in Threads, NEW u \in Threads, ThreadBusy(t), ThreadBusy(u), Id(t) = Id(u)
    PROVE  t = u
<1>1. work[t].job = work[u].job
    BY DEF Id
<1> QED BY <1>1 DEF Apart

\* The program counter of an episode changes and nothing else of it.
LEMMA PcMoves ==
    ASSUME RequestsTypeOK, NEW t \in Threads, ThreadBusy(t), NEW p \in PCs, work' = [work EXCEPT ![t].pc = p]
    PROVE  /\ Moved(t, p) /\ Id(t)' = Id(t) /\ work'[t].turn = work[t].turn
           /\ work'[t].completed = work[t].completed /\ work'[t].body = work[t].body
<1>1. work[t] \in Episode
    BY BusyEpisode
<1>2. work'[t] = [work[t] EXCEPT !.pc = p] /\ \A u \in Threads : u # t => work'[u] = work[u]
    BY DEF RequestsTypeOK
<1>3. /\ work'[t] \in Episode /\ work'[t].pc = p /\ work'[t].job = work[t].job /\ work'[t].turn = work[t].turn
      /\ work'[t].completed = work[t].completed /\ work'[t].body = work[t].body
    BY <1>1, <1>2 DEF Episode, PCs
<1>4. work' \in [Threads -> {IdleThread} \cup Episode]
    BY <1>2, <1>3 DEF RequestsTypeOK
<1> QED BY <1>2, <1>3, <1>4 DEF Moved, Id

\* A failing turn ends its episode.
LEMMA FailMoves ==
    ASSUME RequestsTypeOK, NEW t \in Threads, ThreadBusy(t), NEW f \in Failures, Fails(t, f)
    PROVE  Moved(t, "finish") /\ Id(t)' = Id(t) /\ work'[t].completed = work[t].completed
<1>1. work[t] \in Episode
    BY BusyEpisode
<1>2. work'[t] = [work[t] EXCEPT !.pc = "finish", !.failure = f] /\ \A u \in Threads : u # t => work'[u] = work[u]
    BY DEF RequestsTypeOK, Fails
<1>3. /\ work'[t] \in Episode /\ work'[t].pc = "finish" /\ work'[t].job = work[t].job /\ work'[t].turn = work[t].turn
      /\ work'[t].completed = work[t].completed
    BY <1>1, <1>2 DEF Episode, Failures
<1>4. work' \in [Threads -> {IdleThread} \cup Episode]
    BY <1>2, <1>3 DEF RequestsTypeOK, Fails
<1> QED BY <1>2, <1>3, <1>4 DEF Moved, Id

\* The failures the code raises.
LEMMA FailureTypes == Unattributed \in Failures /\ \A a, b \in BOOLEAN : Failure(a, b) \in Failures
BY DEF Unattributed, Failures, Failure

-----------------------------------------------------------------------------
(* What a step of one thread keeps, the server standing still *)

\* One thread per episode, and claimed ids stay claimed.
LEMMA KeepsOnce ==
    ASSUME RequestsInv, NEW t \in Threads, ThreadBusy(t), NEW p \in PCs, Moved(t, p),
           UNCHANGED <<server, started, result>>, claims \subseteq claims',
           p \in Unsent => Id(t)' \in claims' /\ Untouched(Id(t)')
    PROVE  Apart' /\ Once'
<1>1. /\ \A u \in Threads : u # t => work'[u] = work[u] /\ Id(u)' = Id(u)
      /\ work'[t].pc = p /\ work'[t].job = work[t].job
    BY DEF Moved, Id
<1>2. p # "idle"
    BY DEF PCs, Unsent, Uncertainty
<1>3. Apart'
    BY <1>1, <1>2 DEF RequestsInv, Apart, ThreadBusy
<1>4. \A i : Untouched(i)' <=> Untouched(i)
    BY DEF Untouched, Outstanding, server
<1>5. Once'
    <2>1. \A i \in Ids \ claims' : Untouched(i)'
        BY <1>4 DEF RequestsInv, Once
    <2>2. \A u \in Threads : work'[u].pc \in Unsent => Id(u)' \in claims' /\ Untouched(Id(u))'
        BY <1>1, <1>4 DEF RequestsInv, Once
    <2> QED BY <2>1, <2>2 DEF RequestsInv, Once, server
<1> QED BY <1>3, <1>5

\* The connection of a thread that does not wait afterwards has no answer in it.
LEMMA KeepsWire ==
    ASSUME RequestsInv, NEW t \in Threads, NEW p, Moved(t, p), UNCHANGED server,
           \A u \in Threads : u # t => conn'[u] = conn[u],
           conn'[t].reply = None, conn'[t].epoch \in Nat, conn'[t].epoch >= conn[t].epoch,
           \A h \in handlers : h.thread = t => ~(conn'[t].open /\ h.epoch = conn'[t].epoch)
    PROVE  Wire'
<1>1. \A u \in Threads : u # t => work'[u] = work[u] /\ Id(u)' = Id(u) /\ conn'[u] = conn[u]
    BY DEF Moved, Id
<1>2. \A i : (Outstanding(i)' <=> Outstanding(i)) /\ runs' = runs /\ handlers' = handlers
    BY DEF Outstanding, server
<1>3. \A h \in handlers : h.epoch \in Nat /\ h.thread \in Threads /\ conn[h.thread].epoch \in Nat
    BY DEF RequestsInv, RequestsTypeOK, Connection
<1>4. \A h \in handlers : h.epoch <= conn'[h.thread].epoch
    BY <1>1, <1>3 DEF RequestsInv, Wire
<1>5. \A h \in handlers : conn'[h.thread].open /\ h.epoch = conn'[h.thread].epoch =>
          work'[h.thread].pc = "wait" /\ h.id = Id(h.thread)' /\ conn'[h.thread].reply = None
    BY <1>1, <1>3 DEF RequestsInv, Wire
<1>6. \A u \in Threads : conn'[u].reply # None =>
          /\ work'[u].pc = "wait" /\ conn'[u].reply.id = Id(u)'
          /\ conn'[u].reply.status = 200 => ~Outstanding(Id(u))' /\ runs'[Id(u)'] = 1
    BY <1>1, <1>2 DEF RequestsInv, Wire
<1> QED BY <1>2, <1>4, <1>5, <1>6 DEF Wire

\* A thread that does not wait has no answer and no handler that could send one.
LEMMA NotWaiting ==
    ASSUME RequestsInv, NEW t \in Threads, work[t].pc # "wait"
    PROVE  /\ conn[t].reply = None
           /\ \A h \in handlers : h.thread = t => ~(conn[t].open /\ h.epoch = conn[t].epoch)
BY DEF RequestsInv, Wire

\* A connection that was closed and perhaps opened again has none either.
LEMMA NewEpoch ==
    ASSUME RequestsInv, NEW t \in Threads, NEW h \in handlers, h.thread = t
    PROVE  conn[t].epoch + 1 \in Nat /\ conn[t].epoch + 1 >= conn[t].epoch /\ h.epoch # conn[t].epoch + 1
BY DEF RequestsInv, Wire, RequestsTypeOK, Connection

\* The ledger tells of everything outstanding.
LEMMA KeepsTold ==
    ASSUME RequestsInv, NEW t \in Threads, ThreadBusy(t), NEW p, Moved(t, p), UNCHANGED <<server, result>>,
           \A i \in Ids : i # Id(t) => ledger'[i] = ledger[i],
           Outstanding(Id(t)) => ledger'[Id(t)] # None /\ ledger'[Id(t)].uncertain,
           p \in Uncertainty => Id(t)' = Id(t) /\ ledger'[Id(t)] # None /\ ledger'[Id(t)].uncertain,
           p = "evidence" => Id(t)' = Id(t) /\ ledger'[Id(t)] # None
    PROVE  Told'
<1>1. \A u \in Threads : u # t => work'[u] = work[u] /\ Id(u)' = Id(u)
    BY DEF Moved, Id
<1>2. \A i : (Outstanding(i)' <=> Outstanding(i))
    BY DEF Outstanding, server
<1>3. \A u \in Threads : u # t /\ ThreadBusy(u) => Id(u) \in Ids /\ Id(u) # Id(t)
    BY BusyEpisode, IdsApart DEF RequestsInv
<1>4. \A i \in Ids : Outstanding(i)' => ledger'[i] # None /\ ledger'[i].uncertain
    BY <1>2 DEF RequestsInv, Told
<1>5. \A u \in Threads : work'[u].pc \in Uncertainty => ledger'[Id(u)'] # None /\ ledger'[Id(u)'].uncertain
    BY <1>1, <1>3 DEF RequestsInv, Told, Moved, ThreadBusy, Uncertainty
<1>6. \A u \in Threads : work'[u].pc = "evidence" => ledger'[Id(u)'] # None
    BY <1>1, <1>3 DEF RequestsInv, Told, Moved, ThreadBusy
<1> QED BY <1>2, <1>4, <1>5, <1>6 DEF RequestsInv, Told

\* The traces of an episode are those of its finished turns.
LEMMA KeepsTraced ==
    ASSUME RequestsInv, NEW t \in Threads, ThreadBusy(t), NEW p \in PCs, Moved(t, p), UNCHANGED <<training, runs, result>>,
           NEW j, j = work[t].job, \A k \in Jobs : k # j => binding'[k] = binding[k],
           training /\ p \notin {"tools", "finish"} => Traces(runs, binding'[j].traces, j, work'[t].turn - 1),
           training /\ p = "tools" => Traces(runs, binding'[j].traces, j, work'[t].turn),
           training /\ p # "finish" => ~work'[t].completed,
           training /\ p = "finish" /\ work'[t].completed => Traces(runs, binding'[j].traces, j, Turns),
           training /\ p = "evidence" => work'[t].body # None /\ runs[work'[t].body.id] = 1
    PROVE  Traced' /\ Reported'
<1>1. \A u \in Threads : u # t => work'[u] = work[u] /\ (ThreadBusy(u)' <=> ThreadBusy(u))
    BY DEF Moved, ThreadBusy
<1>2. runs' = runs
    OBVIOUS
<1>3. ASSUME NEW u \in Threads, u # t, ThreadBusy(u) PROVE binding'[work[u].job] = binding[work[u].job]
    BY <1>3, BusyEpisode DEF RequestsInv, Apart
<1>4. work'[t].pc = p /\ work'[t].job = j
    BY DEF Moved
<1>5. Reported'
    BY DEF RequestsInv, Reported
<1>6. Traced'
    <2> SUFFICES ASSUME training PROVE Traced'
        BY DEF Traced
    <2>1. \A k \in Jobs : result'[k] # None /\ result'[k].eligible =>
              ~result'[k].uncertain /\ Traces(runs', result'[k].traces, k, Turns)
        BY <1>2 DEF RequestsInv, Traced
    <2>2. ASSUME NEW u \in Threads, ThreadBusy(u)'
          PROVE  LET k == work'[u].job IN
                 /\ work'[u].pc \notin {"tools", "finish"} => Traces(runs', binding'[k].traces, k, work'[u].turn - 1)
                 /\ work'[u].pc = "tools" => Traces(runs', binding'[k].traces, k, work'[u].turn)
                 /\ work'[u].pc # "finish" => ~work'[u].completed
                 /\ work'[u].pc = "finish" /\ work'[u].completed => Traces(runs', binding'[k].traces, k, Turns)
                 /\ work'[u].pc = "evidence" => work'[u].body # None /\ runs'[work'[u].body.id] = 1
        <3>1. CASE u = t
            BY <1>2, <1>4, <3>1
        <3>2. CASE u # t
            <4>1. work'[u] = work[u] /\ ThreadBusy(u) /\ binding'[work[u].job] = binding[work[u].job]
                BY <1>1, <1>3, <2>2, <3>2
            <4> QED BY <1>2, <4>1 DEF RequestsInv, Traced
        <3> QED BY <3>1, <3>2
    <2> QED BY <2>1, <2>2 DEF Traced
<1> QED BY <1>5, <1>6

\* A thread that does not wait for an answer goes on, or its turn fails: its connection and
\* its binding stay as they are.
LEMMA QuietMove ==
    ASSUME RequestsInv, NEW t \in Threads, ThreadBusy(t), NEW p \in PCs, Moved(t, p), Id(t)' = Id(t),
           work[t].pc \notin {"wait", "tools", "finish"}, p \notin {"wait", "evidence", "tools"},
           work'[t].turn = work[t].turn \/ p = "finish", work'[t].completed = work[t].completed,
           UNCHANGED <<training, server, started, result, conn, binding>>,
           claims \subseteq claims', claims' \subseteq Ids,
           p \in Unsent => Id(t) \in claims' /\ Untouched(Id(t)),
           ledger' \in [Ids -> {None} \cup Entry],
           \A i \in Ids : i # Id(t) => ledger'[i] = ledger[i],
           Outstanding(Id(t)) \/ p \in Uncertainty => ledger'[Id(t)] # None /\ ledger'[Id(t)].uncertain
    PROVE  RequestsInv'
<1>1. RequestsTypeOK'
    BY DEF RequestsInv, RequestsTypeOK, Moved, server
<1>2. Apart' /\ Once'
    BY KeepsOnce
<1>3. Wire'
    <2>1. /\ conn[t].reply = None /\ conn[t].epoch \in Nat
          /\ \A h \in handlers : h.thread = t => ~(conn[t].open /\ h.epoch = conn[t].epoch)
        BY NotWaiting DEF RequestsInv, RequestsTypeOK, Connection
    <2> QED BY <2>1, KeepsWire
<1>4. Told'
    BY KeepsTold
<1>5. Traced' /\ Reported'
    <2> DEFINE j == work[t].job
    <2>1. training => ~work[t].completed /\ Traces(runs, binding[j].traces, j, work[t].turn - 1)
        BY DEF RequestsInv, Traced
    <2>2. training => ~work'[t].completed
        BY <2>1
    <2>3. training /\ p # "finish" => Traces(runs, binding'[j].traces, j, work'[t].turn - 1)
        BY <2>1
    <2> HIDE DEF j
    <2> QED BY <2>2, <2>3, KeepsTraced DEF j, server
<1> QED BY <1>1, <1>2, <1>3, <1>4, <1>5 DEF RequestsInv

-----------------------------------------------------------------------------
(* The client's steps *)

\* A ledger record is there, and tells whether the outcome is uncertain.
LEMMA RecordTypes ==
    ASSUME NEW state \in States, NEW doubt \in BOOLEAN, NEW evidence \in Evidences
    PROVE  /\ Record(state, doubt, evidence) \in Entry
           /\ Record(state, doubt, evidence) # None
           /\ Record(state, doubt, evidence).uncertain <=> doubt
<1>1. DOMAIN None = {"none"} /\ DOMAIN Record(state, doubt, evidence) = {"state", "uncertain", "evidence"}
    BY DEF None, Record
<1>2. Record(state, doubt, evidence) # None
    BY <1>1
<1>3. /\ Record(state, doubt, evidence) \in Entry
      /\ Record(state, doubt, evidence).uncertain <=> doubt
    BY DEF Record, Entry
<1> QED BY <1>2, <1>3

\* A claim is exclusive: it succeeds only for an id nobody claimed before.
LEMMA ClaimInv ==
    ASSUME RequestsInv, NEW t \in Threads, ClaimRequest(t)
    PROVE  RequestsInv'
<1>1. ThreadBusy(t) /\ work[t].pc = "claim" /\ UNCHANGED <<training, conn, binding, started, ledger, result, server>>
    BY DEF ClaimRequest, At, ThreadBusy
<1>2. Id(t) \in Ids /\ ledger \in [Ids -> {None} \cup Entry]
    BY <1>1, BusyEpisode DEF RequestsInv, RequestsTypeOK
<1>3. Outstanding(Id(t)) => ledger[Id(t)] # None /\ ledger[Id(t)].uncertain
    BY <1>2 DEF RequestsInv, Told
<1>4. CASE Id(t) \notin claims /\ claims' = claims \cup {Id(t)} /\ work' = [work EXCEPT ![t].pc = "state"]
    <2>1. Untouched(Id(t)) /\ ~Outstanding(Id(t))
        BY <1>2, <1>4 DEF RequestsInv, Once, Untouched
    <2>2. "state" \in PCs /\ "state" \notin Uncertainty
        BY DEF PCs, Unsent, Uncertainty
    <2>3. /\ Moved(t, "state") /\ Id(t)' = Id(t) /\ work'[t].turn = work[t].turn
          /\ work'[t].completed = work[t].completed
        BY <1>1, <1>4, <2>2, PcMoves DEF RequestsInv
    <2>4. claims' \subseteq Ids /\ Id(t) \in claims'
        BY <1>2, <1>4 DEF RequestsInv, RequestsTypeOK
    <2> QED BY <1>1, <1>2, <1>3, <1>4, <2>1, <2>2, <2>3, <2>4, QuietMove
<1>5. CASE Fails(t, Failure(FALSE, FALSE)) /\ UNCHANGED claims
    <2>1. Moved(t, "finish") /\ Id(t)' = Id(t) /\ work'[t].completed = work[t].completed
        BY <1>1, <1>5, FailMoves, FailureTypes DEF RequestsInv
    <2>2. "finish" \in PCs /\ "finish" \notin Unsent /\ "finish" \notin Uncertainty
        BY DEF PCs, Unsent, Uncertainty
    <2>3. claims' \subseteq Ids
        BY <1>5 DEF RequestsInv, RequestsTypeOK
    <2> QED BY <1>1, <1>2, <1>3, <1>5, <2>1, <2>2, <2>3, QuietMove
<1> QED BY <1>4, <1>5 DEF ClaimRequest, Claimable

\* The ledger records the claim, then that the request is about to be dispatched.
LEMMA WriteStateInv ==
    ASSUME RequestsInv, NEW t \in Threads, NEW ok \in BOOLEAN, WriteState(t, ok)
    PROVE  RequestsInv'
<1>1. ThreadBusy(t) /\ work[t].pc \in {"state", "dispatching"} /\ UNCHANGED <<training, conn, binding, started, claims, result, server>>
    BY DEF WriteState, ThreadBusy
<1>2. Id(t) \in Ids /\ ledger \in [Ids -> {None} \cup Entry]
    BY <1>1, BusyEpisode DEF RequestsInv, RequestsTypeOK
<1>3. Id(t) \in claims /\ Untouched(Id(t)) /\ ~Outstanding(Id(t)) /\ claims' \subseteq Ids
    BY <1>1 DEF RequestsInv, Once, Unsent, Untouched, RequestsTypeOK
<1>4. CASE ok
    <2> DEFINE p == IF work[t].pc = "state" THEN "dispatching" ELSE "connect"
               r == IF work[t].pc = "state" THEN Record("claimed", FALSE, "none") ELSE Record("dispatching", TRUE, "none")
    <2>1. work' = [work EXCEPT ![t].pc = p] /\ ledger' = [ledger EXCEPT ![Id(t)] = r]
        BY <1>4 DEF WriteState, At
    <2>2. /\ r \in Entry
          /\ p \in PCs /\ p \notin {"wait", "evidence", "tools"} /\ (p \in Uncertainty => r # None /\ r.uncertain)
        <3>1. CASE work[t].pc = "state"
            <4>1. r = Record("claimed", FALSE, "none") /\ p = "dispatching"
                BY <3>1
            <4> QED BY <4>1, RecordTypes DEF States, Evidences, PCs, Unsent, Uncertainty
        <3>2. CASE work[t].pc # "state"
            <4>1. r = Record("dispatching", TRUE, "none") /\ p = "connect"
                BY <3>2
            <4> QED BY <4>1, RecordTypes DEF States, Evidences, PCs, Unsent, Uncertainty
        <3> QED BY <3>1, <3>2
    <2> HIDE DEF p, r
    <2>3. Moved(t, p) /\ Id(t)' = Id(t) /\ work'[t].turn = work[t].turn /\ work'[t].completed = work[t].completed
        BY <1>1, <2>1, <2>2, PcMoves DEF RequestsInv
    <2>4. /\ ledger' \in [Ids -> {None} \cup Entry]
          /\ ledger'[Id(t)] = r /\ \A i \in Ids : i # Id(t) => ledger'[i] = ledger[i]
        BY <1>2, <2>1, <2>2
    <2> QED BY <1>1, <1>3, <2>2, <2>3, <2>4, QuietMove
<1>5. CASE ~ok
    <2>1. Fails(t, Failure(FALSE, FALSE)) /\ UNCHANGED ledger
        BY <1>5 DEF WriteState
    <2>2. Moved(t, "finish") /\ Id(t)' = Id(t) /\ work'[t].completed = work[t].completed
        BY <1>1, <2>1, FailMoves, FailureTypes DEF RequestsInv
    <2>3. "finish" \in PCs /\ "finish" \notin Unsent /\ "finish" \notin Uncertainty
        BY DEF PCs, Unsent, Uncertainty
    <2> QED BY <1>1, <1>2, <1>3, <2>1, <2>2, <2>3, QuietMove
<1> QED BY <1>4, <1>5

\* What the failure proves is recorded; a request that may have arrived stays uncertain.
LEMMA RecordFailureInv ==
    ASSUME RequestsInv, NEW t \in Threads, NEW ok \in BOOLEAN, RecordFailure(t, ok)
    PROVE  RequestsInv'
<1> DEFINE sent == work[t].pc = "unknown"
<1>1. ThreadBusy(t) /\ work[t].pc \in {"undispatched", "unknown"} /\ UNCHANGED <<training, conn, binding, started, claims, result, server>>
    BY DEF RecordFailure, ThreadBusy
<1>2. /\ Id(t) \in Ids /\ ledger \in [Ids -> {None} \cup Entry]
      /\ claims' \subseteq Ids
    BY <1>1, BusyEpisode DEF RequestsInv, RequestsTypeOK
<1>3. ~sent => ~Outstanding(Id(t))
    BY <1>1 DEF RequestsInv, Once, Unsent, Untouched
<1>4. "finish" \in PCs /\ "finish" \notin Unsent /\ "finish" \notin Uncertainty
    BY DEF PCs, Unsent, Uncertainty
<1>5. CASE ok
    <2> DEFINE r == Record(IF sent THEN "outcome_unknown" ELSE "not_dispatched", sent, "none")
    <2>1. ledger' = [ledger EXCEPT ![Id(t)] = r] /\ Fails(t, Failure(sent, FALSE))
        BY <1>5 DEF RecordFailure, At
    <2>2. r \in Entry /\ r # None /\ (sent => r.uncertain)
        <3>1. sent \in BOOLEAN
            OBVIOUS
        <3>2. "outcome_unknown" \in States /\ "not_dispatched" \in States /\ "none" \in Evidences
            BY DEF States, Evidences
        <3> HIDE DEF sent
        <3>3. CASE sent
            BY <3>1, <3>2, <3>3, RecordTypes
        <3>4. CASE ~sent
            BY <3>1, <3>2, <3>4, RecordTypes
        <3> QED BY <3>3, <3>4
    <2>3. Moved(t, "finish") /\ Id(t)' = Id(t) /\ work'[t].completed = work[t].completed
        <3>1. Failure(sent, FALSE) \in Failures
            BY FailureTypes
        <3> QED BY <1>1, <2>1, <3>1, FailMoves DEF RequestsInv
    <2> HIDE DEF r
    <2>4. /\ ledger' \in [Ids -> {None} \cup Entry]
          /\ ledger'[Id(t)] = r /\ \A i \in Ids : i # Id(t) => ledger'[i] = ledger[i]
        BY <1>2, <2>1, <2>2
    <2>5. Outstanding(Id(t)) => ledger'[Id(t)] # None /\ ledger'[Id(t)].uncertain
        BY <1>3, <2>2, <2>4
    <2> QED BY <1>1, <1>2, <1>4, <2>3, <2>4, <2>5, QuietMove
<1>6. CASE ~ok
    <2>1. Fails(t, Unattributed) /\ UNCHANGED ledger
        BY <1>6 DEF RecordFailure
    <2>2. Moved(t, "finish") /\ Id(t)' = Id(t) /\ work'[t].completed = work[t].completed
        BY <1>1, <2>1, FailMoves, FailureTypes DEF RequestsInv
    <2>3. Outstanding(Id(t)) => ledger[Id(t)] # None /\ ledger[Id(t)].uncertain
        BY <1>2 DEF RequestsInv, Told
    <2> QED BY <1>1, <1>2, <1>4, <2>1, <2>2, <2>3, QuietMove
<1> QED BY <1>5, <1>6

\* A new connection has a new epoch: nothing that was sent before can answer on it.
LEMMA ConnectInv ==
    ASSUME RequestsInv, NEW t \in Threads, NEW refresh \in BOOLEAN, NEW ok \in BOOLEAN, Connect(t, refresh, ok)
    PROVE  RequestsInv'
<1> DEFINE p == IF ok THEN "send" ELSE "undispatched"
<1>1. /\ ThreadBusy(t) /\ work[t].pc = "connect" /\ work' = [work EXCEPT ![t].pc = p]
      /\ UNCHANGED <<training, binding, started, claims, ledger, result, server>>
    BY DEF Connect, At, ThreadBusy, files
<1>2. p \in PCs /\ p \in Unsent /\ p \in Uncertainty /\ p \notin {"wait", "evidence", "tools", "finish"}
    BY DEF PCs, Unsent, Uncertainty
<1> HIDE DEF p
<1>3. /\ Moved(t, p) /\ Id(t)' = Id(t) /\ work'[t].turn = work[t].turn /\ work'[t].completed = work[t].completed
    BY <1>1, <1>2, PcMoves DEF RequestsInv
<1>4. /\ conn' \in [Threads -> Connection] /\ \A u \in Threads : u # t => conn'[u] = conn[u]
      /\ conn'[t].reply = None /\ conn'[t].epoch \in Nat /\ conn'[t].epoch >= conn[t].epoch
      /\ \A h \in handlers : h.thread = t => ~(conn'[t].open /\ h.epoch = conn'[t].epoch)
    <2>1. conn \in [Threads -> Connection] /\ conn[t].epoch \in Nat
        BY DEF RequestsInv, RequestsTypeOK, Connection
    <2>2. CASE conn' = conn
        BY <1>1, <2>1, <2>2, NotWaiting
    <2>3. CASE conn' = [conn EXCEPT ![t] = [Closed(t) EXCEPT !.open = ok]]
        <3>1. conn'[t] = [open |-> ok, epoch |-> conn[t].epoch + 1, reply |-> None]
            BY <2>1, <2>3 DEF Closed
        <3>2. conn'[t] \in Connection /\ conn'[t].epoch = conn[t].epoch + 1 /\ conn'[t].reply = None
            BY <2>1, <3>1 DEF Connection
        <3>3. conn' \in [Threads -> Connection] /\ \A u \in Threads : u # t => conn'[u] = conn[u]
            BY <2>1, <2>3, <3>2
        <3> QED BY <2>1, <3>2, <3>3, NewEpoch
    <2> QED BY <2>2, <2>3 DEF Connect
<1>5. RequestsTypeOK'
    BY <1>1, <1>3, <1>4 DEF RequestsInv, RequestsTypeOK, Moved, server
<1>6. Id(t) \in claims /\ Untouched(Id(t)) /\ ledger[Id(t)] # None /\ ledger[Id(t)].uncertain
    BY <1>1 DEF RequestsInv, Once, Told, Unsent, Uncertainty
<1>7. Apart' /\ Once'
    BY <1>1, <1>2, <1>3, <1>6, KeepsOnce
<1>8. Wire'
    BY <1>1, <1>3, <1>4, KeepsWire
<1>9. Told'
    BY <1>1, <1>2, <1>3, <1>6, KeepsTold
<1>10. Traced' /\ Reported'
    <2> DEFINE j == work[t].job
    <2>1. training => ~work[t].completed /\ Traces(runs, binding[j].traces, j, work[t].turn - 1)
        BY <1>1 DEF RequestsInv, Traced
    <2>2. training => ~work'[t].completed /\ Traces(runs, binding'[j].traces, j, work'[t].turn - 1)
        BY <1>1, <1>3, <2>1
    <2> HIDE DEF j
    <2> QED BY <1>1, <1>2, <1>3, <2>2, KeepsTraced DEF j, server
<1> QED BY <1>5, <1>7, <1>8, <1>9, <1>10 DEF RequestsInv

\* A call that fails closes its connection; the request may have arrived.
LEMMA CallFailsInv ==
    ASSUME RequestsInv, NEW t \in Threads, CallFails(t)
    PROVE  RequestsInv'
<1>1. /\ ThreadBusy(t) /\ work[t].pc = "wait" /\ work' = [work EXCEPT ![t].pc = "unknown"]
      /\ conn' = [conn EXCEPT ![t] = Closed(t)]
      /\ UNCHANGED <<training, binding, started, claims, ledger, result, server>>
    BY DEF CallFails, At, ThreadBusy, files
<1>2. "unknown" \in PCs /\ "unknown" \notin Unsent /\ "unknown" \in Uncertainty
    BY DEF PCs, Unsent, Uncertainty
<1>3. /\ Moved(t, "unknown") /\ Id(t)' = Id(t) /\ work'[t].turn = work[t].turn /\ work'[t].completed = work[t].completed
    BY <1>1, <1>2, PcMoves DEF RequestsInv
<1>4. /\ conn' \in [Threads -> Connection] /\ \A u \in Threads : u # t => conn'[u] = conn[u]
      /\ conn'[t].reply = None /\ conn'[t].epoch = conn[t].epoch + 1 /\ conn[t].epoch \in Nat
    <2>1. conn \in [Threads -> Connection] /\ conn[t].epoch \in Nat
        BY DEF RequestsInv, RequestsTypeOK, Connection
    <2>2. conn'[t] = [open |-> FALSE, epoch |-> conn[t].epoch + 1, reply |-> None]
        BY <1>1, <2>1 DEF Closed
    <2>3. conn'[t] \in Connection /\ conn'[t].epoch = conn[t].epoch + 1 /\ conn'[t].reply = None
        BY <2>1, <2>2 DEF Connection
    <2> QED BY <1>1, <2>1, <2>3
<1>5. RequestsTypeOK'
    BY <1>1, <1>3, <1>4 DEF RequestsInv, RequestsTypeOK, Moved, server
<1>6. ledger[Id(t)] # None /\ ledger[Id(t)].uncertain
    BY <1>1 DEF RequestsInv, Told, Uncertainty
<1>7. Apart' /\ Once'
    BY <1>1, <1>2, <1>3, KeepsOnce
<1>8. Wire'
    <2>1. \A h \in handlers : h.thread = t => h.epoch # conn'[t].epoch
        BY <1>4, NewEpoch
    <2>2. conn'[t].epoch \in Nat /\ conn'[t].epoch >= conn[t].epoch
        BY <1>4
    <2> QED BY <1>1, <1>3, <1>4, <2>1, <2>2, KeepsWire
<1>9. Told'
    BY <1>1, <1>2, <1>3, <1>6, KeepsTold
<1>10. Traced' /\ Reported'
    <2> DEFINE j == work[t].job
    <2>1. training => ~work[t].completed /\ Traces(runs, binding[j].traces, j, work[t].turn - 1)
        BY <1>1 DEF RequestsInv, Traced
    <2>2. training => ~work'[t].completed /\ Traces(runs, binding'[j].traces, j, work'[t].turn - 1)
        BY <1>1, <1>3, <2>1
    <2> HIDE DEF j
    <2> QED BY <1>1, <1>2, <1>3, <2>2, KeepsTraced DEF j, server
<1> QED BY <1>5, <1>7, <1>8, <1>9, <1>10 DEF RequestsInv

\* A good answer is the answer to this request, and the model is done with it.
LEMMA ReceiveInv ==
    ASSUME RequestsInv, NEW t \in Threads, NEW ok \in BOOLEAN, Receive(t, ok)
    PROVE  RequestsInv'
<1>1. /\ ThreadBusy(t) /\ work[t].pc = "wait" /\ conn[t].reply # None /\ conn[t].reply.status = 200
      /\ conn' = [conn EXCEPT ![t].reply = None]
      /\ UNCHANGED <<training, binding, started, claims, result, server>>
    BY DEF Receive, At, ThreadBusy
<1>2. /\ conn[t].reply.id = Id(t) /\ ~Outstanding(Id(t)) /\ runs[Id(t)] = 1
    BY <1>1 DEF RequestsInv, Wire
<1>3. Id(t) \in Ids /\ work[t] \in Episode /\ ledger \in [Ids -> {None} \cup Entry]
    BY <1>1, BusyEpisode DEF RequestsInv, RequestsTypeOK
<1>4. /\ conn' \in [Threads -> Connection] /\ \A u \in Threads : u # t => conn'[u] = conn[u]
      /\ conn'[t].reply = None /\ conn'[t].epoch = conn[t].epoch /\ conn'[t].open = conn[t].open
    <2>1. conn \in [Threads -> Connection] /\ conn[t] \in Connection
        BY DEF RequestsInv, RequestsTypeOK
    <2>2. conn'[t] = [conn[t] EXCEPT !.reply = None]
        BY <1>1, <2>1
    <2>3. conn'[t] \in Connection /\ conn'[t].reply = None /\ conn'[t].epoch = conn[t].epoch /\ conn'[t].open = conn[t].open
        BY <2>1, <2>2 DEF Connection
    <2> QED BY <1>1, <2>1, <2>3
<1>5. ASSUME NEW p, Moved(t, p) PROVE Wire'
    <2>1. \A h \in handlers : h.thread = t => ~(conn'[t].open /\ h.epoch = conn'[t].epoch)
        BY <1>1, <1>4 DEF RequestsInv, Wire
    <2>2. conn'[t].epoch \in Nat /\ conn'[t].epoch >= conn[t].epoch
        BY <1>4 DEF RequestsInv, RequestsTypeOK, Connection
    <2> QED BY <1>1, <1>4, <1>5, <2>1, <2>2, KeepsWire
<1>6. CASE ok
    <2> DEFINE p == IF training THEN "evidence" ELSE "tools"
               r == Record("response_received", FALSE, "none")
    <2>1. /\ ledger' = [ledger EXCEPT ![Id(t)] = r]
          /\ work' = [work EXCEPT ![t] = [work[t] EXCEPT !.pc = p, !.body = [id |-> conn[t].reply.id]]]
        BY <1>6 DEF Receive
    <2>2. p \in PCs /\ p \notin Unsent /\ p \notin Uncertainty /\ r \in Entry /\ r # None
        BY RecordTypes DEF PCs, Unsent, Uncertainty, States, Evidences
    <2>3. /\ work'[t] = [work[t] EXCEPT !.pc = p, !.body = [id |-> Id(t)]]
          /\ \A u \in Threads : u # t => work'[u] = work[u]
        BY <1>2, <2>1 DEF RequestsInv, RequestsTypeOK
    <2> HIDE DEF r
    <2>4. /\ work'[t] \in Episode /\ work'[t].pc = p /\ work'[t].job = work[t].job /\ work'[t].turn = work[t].turn
          /\ work'[t].completed = work[t].completed /\ work'[t].body = [id |-> Id(t)]
        <3>1. [id |-> Id(t)] \in {None} \cup [id : Ids]
            BY <1>3
        <3> HIDE DEF p
        <3> QED BY <1>3, <2>2, <2>3, <3>1 DEF Episode, PCs
    <2>5. Moved(t, p) /\ Id(t)' = Id(t)
        BY <2>1, <2>3, <2>4 DEF Moved, Id, RequestsInv, RequestsTypeOK
    <2>6. /\ ledger' \in [Ids -> {None} \cup Entry] /\ ledger'[Id(t)] = r
          /\ \A i \in Ids : i # Id(t) => ledger'[i] = ledger[i]
        BY <1>3, <2>1, <2>2
    <2>7. RequestsTypeOK'
        BY <1>1, <1>4, <2>5, <2>6 DEF RequestsInv, RequestsTypeOK, Moved, server
    <2>8. Apart' /\ Once'
        BY <1>1, <2>2, <2>5, KeepsOnce
    <2>9. Wire'
        BY <1>5, <2>5
    <2>10. Told'
        BY <1>1, <1>2, <2>2, <2>5, <2>6, KeepsTold
    <2>11. Traced' /\ Reported'
        <3> DEFINE j == work[t].job
        <3>1. training => ~work[t].completed /\ Traces(runs, binding[j].traces, j, work[t].turn - 1)
            BY <1>1 DEF RequestsInv, Traced
        <3>2. training => ~work'[t].completed /\ Traces(runs, binding'[j].traces, j, work'[t].turn - 1)
            BY <1>1, <2>4, <3>1
        <3>3. work'[t].body # None /\ runs[work'[t].body.id] = 1
            <4>1. work'[t].body.id = Id(t) /\ DOMAIN work'[t].body = {"id"} /\ DOMAIN None = {"none"}
                BY <2>4 DEF None
            <4> QED BY <1>2, <4>1
        <3>4. p # "finish" /\ (training => p = "evidence")
            OBVIOUS
        <3> HIDE DEF j, p
        <3> QED BY <1>1, <2>2, <2>5, <3>2, <3>3, <3>4, KeepsTraced DEF j, server
    <2> QED BY <2>7, <2>8, <2>9, <2>10, <2>11 DEF RequestsInv
<1>7. CASE ~ok
    <2>1. Fails(t, Failure(TRUE, FALSE)) /\ UNCHANGED ledger
        BY <1>7 DEF Receive
    <2>2. Moved(t, "finish") /\ Id(t)' = Id(t) /\ work'[t].completed = work[t].completed
        BY <1>1, <2>1, FailMoves, FailureTypes DEF RequestsInv
    <2>3. "finish" \in PCs /\ "finish" \notin Unsent /\ "finish" \notin Uncertainty
        BY DEF PCs, Unsent, Uncertainty
    <2>4. RequestsTypeOK'
        BY <1>1, <1>4, <2>1, <2>2 DEF RequestsInv, RequestsTypeOK, Moved, server
    <2>5. Apart' /\ Once'
        BY <1>1, <2>2, <2>3, KeepsOnce
    <2>6. Wire'
        BY <1>5, <2>2
    <2>7. Told'
        BY <1>1, <1>2, <2>1, <2>2, <2>3, KeepsTold
    <2>8. Traced' /\ Reported'
        <3>1. training => ~work'[t].completed
            BY <1>1, <2>2 DEF RequestsInv, Traced
        <3> QED BY <1>1, <2>2, <2>3, <3>1, KeepsTraced DEF server
    <2> QED BY <2>4, <2>5, <2>6, <2>7, <2>8 DEF RequestsInv
<1> QED BY <1>6, <1>7

\* Validated evidence adds the trace of this turn; anything else ends the episode.
LEMMA EvidenceInv ==
    ASSUME RequestsInv, NEW t \in Threads, NEW genuine \in BOOLEAN, Evidence(t, genuine)
    PROVE  RequestsInv'
<1>1. ThreadBusy(t) /\ work[t].pc = "evidence" /\ UNCHANGED <<training, conn, started, claims, result, server>>
    BY DEF Evidence, At, ThreadBusy
<1>2. /\ Id(t) \in Ids /\ work[t].job \in Jobs /\ work[t].turn \in 1..Turns
      /\ ledger \in [Ids -> {None} \cup Entry] /\ claims' \subseteq Ids
    BY <1>1, BusyEpisode DEF RequestsInv, RequestsTypeOK
<1>3. ledger[Id(t)] \in Entry
    BY <1>1, <1>2 DEF RequestsInv, Told
<1>4. Outstanding(Id(t)) => ledger[Id(t)].uncertain
    BY <1>2 DEF RequestsInv, Told
<1>5. ASSUME NEW e \in Evidences, ledger' = [ledger EXCEPT ![Id(t)].evidence = e]
      PROVE  /\ ledger' \in [Ids -> {None} \cup Entry] /\ \A i \in Ids : i # Id(t) => ledger'[i] = ledger[i]
             /\ Outstanding(Id(t)) => ledger'[Id(t)] # None /\ ledger'[Id(t)].uncertain
    <2>1. ledger'[Id(t)] = [ledger[Id(t)] EXCEPT !.evidence = e] /\ \A i \in Ids : i # Id(t) => ledger'[i] = ledger[i]
        BY <1>2, <1>5
    <2>2. /\ ledger'[Id(t)] \in Entry /\ ledger'[Id(t)].uncertain = ledger[Id(t)].uncertain
        BY <1>3, <2>1 DEF Entry
    <2>3. ledger'[Id(t)] # None
        <3>1. DOMAIN ledger'[Id(t)] = {"state", "uncertain", "evidence"} /\ DOMAIN None = {"none"}
            BY <2>2 DEF Entry, None
        <3> QED BY <3>1
    <2>4. ledger' \in [Ids -> {None} \cup Entry]
        BY <1>2, <1>5, <2>1, <2>2
    <2> QED BY <1>4, <2>1, <2>2, <2>3, <2>4
<1>6. CASE genuine /\ work[t].body.id = Id(t)
    <2> DEFINE j == work[t].job
    <2>1. /\ ledger' = [ledger EXCEPT ![Id(t)].evidence = "validated"]
          /\ binding' = [binding EXCEPT ![j].traces = Append(binding[j].traces, Id(t))]
          /\ work' = [work EXCEPT ![t].pc = "tools"]
        BY <1>6 DEF Evidence
    <2>2. "tools" \in PCs /\ "tools" \notin Unsent /\ "tools" \notin Uncertainty /\ "validated" \in Evidences
        BY DEF PCs, Unsent, Uncertainty, Evidences
    <2>3. /\ Moved(t, "tools") /\ Id(t)' = Id(t) /\ work'[t].turn = work[t].turn /\ work'[t].completed = work[t].completed
        BY <1>1, <2>1, <2>2, PcMoves DEF RequestsInv
    <2>4. /\ ledger' \in [Ids -> {None} \cup Entry] /\ \A i \in Ids : i # Id(t) => ledger'[i] = ledger[i]
          /\ Outstanding(Id(t)) => ledger'[Id(t)] # None /\ ledger'[Id(t)].uncertain
        BY <1>5, <2>1, <2>2
    <2>5. /\ binding \in [Jobs -> [bound : BOOLEAN, closed : BOOLEAN, traces : Seq(Ids)]] /\ j \in Jobs
          /\ binding[j].traces \in Seq(Ids)
        BY <1>2 DEF RequestsInv, RequestsTypeOK
    <2>6. Append(binding[j].traces, Id(t)) \in Seq(Ids)
        BY <1>2, <2>5
    <2>7. /\ binding' \in [Jobs -> [bound : BOOLEAN, closed : BOOLEAN, traces : Seq(Ids)]]
          /\ binding'[j].traces = Append(binding[j].traces, Id(t)) /\ \A k \in Jobs : k # j => binding'[k] = binding[k]
        <3>1. binding'[j] = [binding[j] EXCEPT !.traces = Append(binding[j].traces, Id(t))]
            BY <2>1, <2>5
        <3>2. /\ binding'[j] \in [bound : BOOLEAN, closed : BOOLEAN, traces : Seq(Ids)]
              /\ binding'[j].traces = Append(binding[j].traces, Id(t))
            <4>1. binding[j] \in [bound : BOOLEAN, closed : BOOLEAN, traces : Seq(Ids)]
                BY <2>5
            <4> DEFINE s == Append(binding[j].traces, Id(t))
            <4>2. binding'[j] = [binding[j] EXCEPT !.traces = s] /\ s \in Seq(Ids)
                BY <2>6, <3>1
            <4> HIDE DEF s
            <4>3. binding'[j].traces = s /\ binding'[j] \in [bound : BOOLEAN, closed : BOOLEAN, traces : Seq(Ids)]
                BY <4>1, <4>2
            <4> QED BY <4>3 DEF s
        <3> QED BY <2>1, <2>5, <3>2
    <2>8. RequestsTypeOK'
        BY <1>1, <2>3, <2>4, <2>7 DEF RequestsInv, RequestsTypeOK, Moved, server
    <2>9. Apart' /\ Once'
        BY <1>1, <2>2, <2>3, KeepsOnce
    <2>10. Wire'
        <3>1. /\ conn[t].reply = None /\ conn[t].epoch \in Nat
              /\ \A h \in handlers : h.thread = t => ~(conn[t].open /\ h.epoch = conn[t].epoch)
            BY <1>1, NotWaiting DEF RequestsInv, RequestsTypeOK, Connection
        <3> QED BY <1>1, <2>3, <3>1, KeepsWire
    <2>11. Told'
        BY <1>1, <2>2, <2>3, <2>4, KeepsTold
    <2>12. Traced' /\ Reported'
        <3>1. training => /\ ~work[t].completed /\ runs[Id(t)] = 1
                          /\ Traces(runs, binding[j].traces, j, work[t].turn - 1)
            BY <1>1, <1>6 DEF RequestsInv, Traced
        <3>2. training => Traces(runs, binding'[j].traces, j, work[t].turn)
            <4> SUFFICES ASSUME training PROVE Traces(runs, binding'[j].traces, j, work[t].turn)
                OBVIOUS
            <4> DEFINE s == binding[j].traces
                       n == work[t].turn
            <4>1. s \in Seq(Ids) /\ Len(s) = n - 1 /\ n \in Nat /\ n >= 1 /\ Id(t) = <<j, n>>
                BY <1>2, <2>5, <3>1 DEF Traces, Id, RequestsInv
            <4>2. \A m \in 1..(n - 1) : s[m] = <<j, m>> /\ runs[<<j, m>>] = 1
                BY <3>1 DEF Traces
            <4>3. Len(binding'[j].traces) = n /\ \A m \in 1..n : binding'[j].traces[m] = IF m = n THEN Id(t) ELSE s[m]
                <5>1. binding'[j].traces = Append(s, Id(t))
                    BY <2>7
                <5> HIDE DEF s, n
                <5> QED BY <1>2, <4>1, <5>1
            <4> HIDE DEF s, n
            <4>4. \A m \in 1..n : binding'[j].traces[m] = <<j, m>> /\ runs[<<j, m>>] = 1
                <5>1. runs[<<j, n>>] = 1
                    BY <3>1, <4>1
                <5>2. \A m \in 1..n : m # n => m \in 1..(n - 1)
                    BY <4>1
                <5> QED BY <4>1, <4>2, <4>3, <5>1, <5>2
            <4> QED BY <4>3, <4>4 DEF Traces, n
        <3>3. training => Traces(runs, binding'[j].traces, j, work'[t].turn) /\ ~work'[t].completed
            BY <2>3, <3>1, <3>2
        <3> HIDE DEF j
        <3> QED BY <1>1, <2>2, <2>3, <2>7, <3>3, KeepsTraced DEF j, server
    <2> QED BY <2>8, <2>9, <2>10, <2>11, <2>12 DEF RequestsInv
<1>7. CASE ~(genuine /\ work[t].body.id = Id(t))
    <2>1. ledger' = [ledger EXCEPT ![Id(t)].evidence = "rejected"] /\ Fails(t, Failure(TRUE, TRUE)) /\ UNCHANGED binding
        BY <1>7 DEF Evidence
    <2>2. "finish" \in PCs /\ "finish" \notin Unsent /\ "finish" \notin Uncertainty /\ "rejected" \in Evidences
        BY DEF PCs, Unsent, Uncertainty, Evidences
    <2>3. Moved(t, "finish") /\ Id(t)' = Id(t) /\ work'[t].completed = work[t].completed
        BY <1>1, <2>1, FailMoves, FailureTypes DEF RequestsInv
    <2>4. /\ ledger' \in [Ids -> {None} \cup Entry] /\ \A i \in Ids : i # Id(t) => ledger'[i] = ledger[i]
          /\ Outstanding(Id(t)) => ledger'[Id(t)] # None /\ ledger'[Id(t)].uncertain
        BY <1>5, <2>1, <2>2
    <2> QED BY <1>1, <1>2, <2>1, <2>2, <2>3, <2>4, QuietMove
<1> QED BY <1>6, <1>7

\* The next turn begins, or the episode ends; it is complete only after the last turn.
LEMMA NextTurnInv ==
    ASSUME RequestsInv, NEW t \in Threads, NEW feedback \in BOOLEAN, NextTurn(t, feedback)
    PROVE  RequestsInv'
<1> DEFINE j == work[t].job
<1>1. /\ ThreadBusy(t) /\ work[t].pc = "tools"
      /\ UNCHANGED <<training, conn, binding, started, claims, ledger, result, server>>
    BY DEF NextTurn, At, ThreadBusy, files
<1>2. /\ work[t] \in Episode /\ work[t].turn \in 1..Turns /\ Id(t) \in Ids /\ work[t].job \in Jobs /\ Turns \in Nat
    BY <1>1, BusyEpisode, NativeRequestsAssumption DEF RequestsInv
<1>3. PICK w \in Episode :
          /\ work' = [work EXCEPT ![t] = w] /\ w.pc \in {"claim", "finish"} /\ w.job = work[t].job
          /\ w.pc = "claim" => w.turn = work[t].turn + 1 /\ w.completed = work[t].completed
          /\ w.pc = "finish" => w.completed = work[t].completed \/ work[t].turn = Turns
    <2>1. CASE fatal \/ (work[t].turn < Turns /\ ~feedback)
        <3> DEFINE w == [work[t] EXCEPT !.pc = "finish"]
        <3>1. work' = [work EXCEPT ![t] = w]
            BY <2>1 DEF NextTurn
        <3>2. w \in Episode /\ w.pc = "finish" /\ w.job = work[t].job /\ w.completed = work[t].completed
            BY <1>2 DEF Episode
        <3> QED BY <3>1, <3>2
    <2>2. CASE ~(fatal \/ (work[t].turn < Turns /\ ~feedback)) /\ work[t].turn < Turns
        <3> DEFINE w == [work[t] EXCEPT !.pc = "claim", !.turn = work[t].turn + 1]
        <3>1. work' = [work EXCEPT ![t] = w]
            BY <2>2 DEF NextTurn
        <3>2. work[t].turn + 1 \in 1..Turns
            BY <1>2, <2>2
        <3>3. /\ w \in Episode /\ w.pc = "claim" /\ w.job = work[t].job /\ w.turn = work[t].turn + 1
              /\ w.completed = work[t].completed
            BY <1>2, <3>2 DEF Episode
        <3> QED BY <3>1, <3>3
    <2>3. CASE ~(fatal \/ (work[t].turn < Turns /\ ~feedback)) /\ ~(work[t].turn < Turns)
        <3> DEFINE w == [work[t] EXCEPT !.pc = "finish", !.completed = TRUE]
        <3>1. work' = [work EXCEPT ![t] = w]
            BY <2>3 DEF NextTurn
        <3>2. work[t].turn = Turns
            BY <1>2, <2>3
        <3>3. w \in Episode /\ w.pc = "finish" /\ w.job = work[t].job
            BY <1>2 DEF Episode
        <3> QED BY <3>1, <3>2, <3>3
    <2> QED BY <2>1, <2>2, <2>3
<1> DEFINE p == w.pc
<1>4. work'[t] = w /\ \A u \in Threads : u # t => work'[u] = work[u]
    BY <1>3 DEF RequestsInv, RequestsTypeOK
<1>5. Moved(t, p)
    BY <1>3, <1>4 DEF Moved, RequestsInv, RequestsTypeOK
<1>6. p \in PCs /\ p \notin Unsent /\ p \notin Uncertainty /\ p \in {"claim", "finish"}
    BY <1>3 DEF PCs, Unsent, Uncertainty
<1>7. RequestsTypeOK'
    BY <1>1, <1>5 DEF RequestsInv, RequestsTypeOK, Moved, server
<1>8. Apart' /\ Once'
    BY <1>1, <1>5, <1>6, KeepsOnce
<1>9. Wire'
    <2>1. /\ conn[t].reply = None /\ conn[t].epoch \in Nat
          /\ \A h \in handlers : h.thread = t => ~(conn[t].open /\ h.epoch = conn[t].epoch)
        BY <1>1, NotWaiting DEF RequestsInv, RequestsTypeOK, Connection
    <2> QED BY <1>1, <1>5, <2>1, KeepsWire
<1>10. Told'
    <2>1. Outstanding(Id(t)) => ledger[Id(t)] # None /\ ledger[Id(t)].uncertain
        BY <1>2 DEF RequestsInv, Told
    <2> HIDE DEF p
    <2> QED BY <1>1, <1>5, <1>6, <2>1, KeepsTold
<1>11. Traced' /\ Reported'
    <2>1. training => ~work[t].completed /\ Traces(runs, binding[j].traces, j, work[t].turn)
        BY <1>1 DEF RequestsInv, Traced
    <2>2. training /\ p = "claim" => ~work'[t].completed /\ Traces(runs, binding'[j].traces, j, work'[t].turn - 1)
        <3>1. work[t].turn + 1 - 1 = work[t].turn
            BY <1>2
        <3>2. p = "claim" => work'[t].turn - 1 = work[t].turn /\ work'[t].completed = work[t].completed
            <4>1. p = "claim" => w.turn - 1 = work[t].turn /\ w.completed = work[t].completed
                BY <1>2, <1>3, <3>1
            <4> QED BY <1>4, <4>1
        <3> QED BY <1>1, <2>1, <3>2
    <2>3. training /\ p = "finish" /\ work'[t].completed => Traces(runs, binding'[j].traces, j, Turns)
        BY <1>1, <1>3, <1>4, <2>1
    <2> HIDE DEF p, j
    <2> QED BY <1>1, <1>5, <1>6, <2>2, <2>3, KeepsTraced DEF j, server
<1> QED BY <1>7, <1>8, <1>9, <1>10, <1>11 DEF RequestsInv

\* The connections and the server stand still, and so do the threads that wait.
LEMMA StillWire ==
    ASSUME RequestsInv, UNCHANGED <<conn, server>>, \A u \in Threads : work[u].pc = "wait" => work'[u] = work[u]
    PROVE  Wire'
<1>1. \A u \in Threads : work[u].pc = "wait" => work'[u] = work[u] /\ Id(u)' = Id(u)
    BY DEF Id
<1>2. \A i : (Outstanding(i)' <=> Outstanding(i)) /\ runs' = runs /\ handlers' = handlers
    BY DEF Outstanding, server
<1>3. \A h \in handlers : h.thread \in Threads
    BY DEF RequestsInv, RequestsTypeOK
<1>4. \A h \in handlers : h.epoch <= conn'[h.thread].epoch
    BY DEF RequestsInv, Wire
<1>5. \A h \in handlers : conn'[h.thread].open /\ h.epoch = conn'[h.thread].epoch =>
          work'[h.thread].pc = "wait" /\ h.id = Id(h.thread)' /\ conn'[h.thread].reply = None
    BY <1>1, <1>3 DEF RequestsInv, Wire
<1>6. \A u \in Threads : conn'[u].reply # None =>
          /\ work'[u].pc = "wait" /\ conn'[u].reply.id = Id(u)'
          /\ conn'[u].reply.status = 200 => ~Outstanding(Id(u))' /\ runs'[Id(u)'] = 1
    BY <1>1, <1>2 DEF RequestsInv, Wire
<1> QED BY <1>2, <1>4, <1>5, <1>6 DEF Wire

\* A job is executed once in a process: it begins with an empty binding and no result.
LEMMA ExecuteInv ==
    ASSUME RequestsInv, NEW t \in Threads, NEW j \in Jobs, Execute(t, j)
    PROVE  RequestsInv'
<1>1. /\ work[t].pc = "idle" /\ j \notin started /\ started' = started \cup {j} /\ result' = [result EXCEPT ![j] = None]
      /\ UNCHANGED <<training, conn, claims, ledger, server>>
    BY DEF Execute, At, files
<1>2. /\ result \in [Jobs -> {None} \cup [uncertain : BOOLEAN, eligible : BOOLEAN, traces : Seq(Ids)]]
      /\ result' \in [Jobs -> {None} \cup [uncertain : BOOLEAN, eligible : BOOLEAN, traces : Seq(Ids)]]
      /\ result'[j] = None /\ \A k \in Jobs : k # j => result'[k] = result[k]
    BY <1>1 DEF RequestsInv, RequestsTypeOK
<1>3. \A u \in Threads : ThreadBusy(u) => work[u].job # j /\ work[u].job \in Jobs
    BY <1>1, BusyEpisode DEF RequestsInv, Apart
<1>4. /\ \A i : (Outstanding(i)' <=> Outstanding(i)) /\ (Untouched(i)' <=> Untouched(i))
      /\ handlers' = handlers /\ runs' = runs /\ used' = used /\ generating' = generating
    BY <1>1 DEF Outstanding, Untouched, server
<1>5. CASE fatal
    <2>1. UNCHANGED <<binding, work>>
        BY <1>5 DEF Execute
    <2>2. \A u \in Threads : (ThreadBusy(u)' <=> ThreadBusy(u)) /\ Id(u)' = Id(u)
        BY <2>1 DEF ThreadBusy, Id
    <2>3. RequestsTypeOK'
        BY <1>1, <1>2, <1>4, <2>1 DEF RequestsInv, RequestsTypeOK
    <2>4. Apart' /\ Once'
        BY <1>1, <1>2, <1>3, <1>4, <2>1, <2>2 DEF RequestsInv, Apart, Once
    <2>5. Wire'
        BY <1>1, <2>1, StillWire
    <2>6. Told'
        BY <1>1, <1>2, <1>4, <2>1, <2>2 DEF RequestsInv, Told
    <2>7. Traced' /\ Reported'
        BY <1>1, <1>2, <1>4, <2>1, <2>2 DEF RequestsInv, Traced, Reported
    <2> QED BY <2>3, <2>4, <2>5, <2>6, <2>7 DEF RequestsInv
<1>6. CASE ~fatal
    <2> DEFINE w == [pc |-> "claim", job |-> j, turn |-> 1, failure |-> Unattributed, completed |-> FALSE, body |-> None]
    <2>1. /\ work' = [work EXCEPT ![t] = w]
          /\ binding' = IF training THEN [binding EXCEPT ![j] = [NoBinding EXCEPT !.bound = TRUE]] ELSE binding
        BY <1>6 DEF Execute
    <2>2. w \in Episode /\ w.pc = "claim" /\ w.job = j /\ w.turn = 1 /\ ~w.completed
        <3>1. 1 \in 1..Turns /\ Unattributed = None
            BY NativeRequestsAssumption DEF Unattributed
        <3> QED BY <3>1 DEF Episode
    <2> HIDE DEF w
    <2>3. work' \in [Threads -> {IdleThread} \cup Episode] /\ work'[t] = w /\ \A u \in Threads : u # t => work'[u] = work[u]
        BY <2>1, <2>2 DEF RequestsInv, RequestsTypeOK
    <2>4. /\ binding' \in [Jobs -> [bound : BOOLEAN, closed : BOOLEAN, traces : Seq(Ids)]]
          /\ \A k \in Jobs : k # j => binding'[k] = binding[k]
          /\ training => binding'[j].traces = << >>
        <3>1. binding \in [Jobs -> [bound : BOOLEAN, closed : BOOLEAN, traces : Seq(Ids)]]
            BY DEF RequestsInv, RequestsTypeOK
        <3>2. << >> \in Seq(Ids)
            OBVIOUS
        <3> DEFINE b == [NoBinding EXCEPT !.bound = TRUE]
        <3>3. b \in [bound : BOOLEAN, closed : BOOLEAN, traces : Seq(Ids)] /\ b.traces = << >>
            <4>1. NoBinding \in [bound : BOOLEAN, closed : BOOLEAN, traces : Seq(Ids)] /\ NoBinding.traces = << >>
                BY <3>2 DEF NoBinding
            <4> QED BY <4>1
        <3>4. CASE training
            <4>1. binding' = [binding EXCEPT ![j] = b]
                BY <2>1, <3>4
            <4> HIDE DEF b
            <4> QED BY <3>1, <3>3, <4>1
        <3>5. CASE ~training
            BY <2>1, <3>1, <3>5
        <3> QED BY <3>4, <3>5
    <2>5. RequestsTypeOK'
        BY <1>1, <1>2, <1>4, <2>3, <2>4 DEF RequestsInv, RequestsTypeOK
    <2>6. /\ \A u \in Threads : u # t => work'[u] = work[u] /\ Id(u)' = Id(u) /\ (ThreadBusy(u)' <=> ThreadBusy(u))
          /\ work'[t].pc = "claim" /\ work'[t].job = j /\ work'[t].turn = 1 /\ ~work'[t].completed
        BY <2>2, <2>3 DEF Id, ThreadBusy
    <2>7. "claim" \notin Unsent /\ "claim" \notin Uncertainty
        BY DEF Unsent, Uncertainty
    <2>8. Apart'
        BY <1>1, <1>2, <1>3, <2>6 DEF RequestsInv, Apart
    <2>9. Once'
        BY <1>1, <1>4, <2>6, <2>7 DEF RequestsInv, Once
    <2>10. Wire'
        BY <1>1, <2>6, StillWire
    <2>11. Told'
        BY <1>1, <1>2, <1>4, <2>6, <2>7 DEF RequestsInv, Told
    <2>12. Traced'
        <3> SUFFICES ASSUME training PROVE Traced'
            BY <1>1 DEF Traced
        <3>1. Traces(runs, binding'[j].traces, j, 1 - 1)
            BY <2>4 DEF Traces
        <3>2. \A u \in Threads : u # t /\ ThreadBusy(u) => binding'[work[u].job] = binding[work[u].job]
            BY <1>3, <2>4
        <3> QED BY <1>1, <1>2, <1>4, <2>6, <3>1, <3>2 DEF RequestsInv, Traced
    <2>13. Reported'
        BY <1>1, <1>2 DEF RequestsInv, Reported
    <2> QED BY <2>5, <2>8, <2>9, <2>10, <2>11, <2>12, <2>13 DEF RequestsInv
<1> QED BY <1>5, <1>6

\* An episode ends: what it reports certain is not outstanding, what it reports eligible
\* has the traces of all its turns.
LEMMA FinishInv ==
    ASSUME RequestsInv, NEW t \in Threads, FinishEpisode(t)
    PROVE  RequestsInv'
<1> DEFINE j == work[t].job
           r == [uncertain |-> Uncertain(t), eligible |-> training /\ Eligible(t), traces |-> binding[j].traces]
<1>1. /\ ThreadBusy(t) /\ work[t].pc = "finish" /\ result' = [result EXCEPT ![j] = r]
      /\ binding' = [binding EXCEPT ![j].closed = TRUE] /\ work' = [work EXCEPT ![t] = IdleThread]
      /\ UNCHANGED <<training, conn, started, claims, ledger, server>>
    BY DEF FinishEpisode, At, ThreadBusy, files
<1>2. j \in Jobs /\ work[t] \in Episode
    BY <1>1, BusyEpisode DEF RequestsInv
<1>3. /\ binding \in [Jobs -> [bound : BOOLEAN, closed : BOOLEAN, traces : Seq(Ids)]]
      /\ binding[j] \in [bound : BOOLEAN, closed : BOOLEAN, traces : Seq(Ids)]
      /\ result \in [Jobs -> {None} \cup [uncertain : BOOLEAN, eligible : BOOLEAN, traces : Seq(Ids)]]
    BY <1>2 DEF RequestsInv, RequestsTypeOK
<1>4. /\ r \in [uncertain : BOOLEAN, eligible : BOOLEAN, traces : Seq(Ids)]
      /\ (r.uncertain <=> Uncertain(t)) /\ (r.eligible <=> training /\ Eligible(t)) /\ r.traces = binding[j].traces
    <2>1. Uncertain(t) \in BOOLEAN /\ (training /\ Eligible(t)) \in BOOLEAN
        BY DEF Uncertain, Eligible
    <2> QED BY <1>3, <2>1
<1> HIDE DEF r
<1>5. /\ result' \in [Jobs -> {None} \cup [uncertain : BOOLEAN, eligible : BOOLEAN, traces : Seq(Ids)]]
      /\ result'[j] = r /\ \A k \in Jobs : k # j => result'[k] = result[k]
    BY <1>1, <1>2, <1>3, <1>4
<1>6. /\ binding' \in [Jobs -> [bound : BOOLEAN, closed : BOOLEAN, traces : Seq(Ids)]]
      /\ \A k \in Jobs : k # j => binding'[k] = binding[k]
    BY <1>1, <1>2, <1>3
<1>7. /\ work' \in [Threads -> {IdleThread} \cup Episode] /\ work'[t].pc = "idle"
      /\ \A u \in Threads : u # t => work'[u] = work[u] /\ Id(u)' = Id(u) /\ (ThreadBusy(u)' <=> ThreadBusy(u))
    BY <1>1 DEF RequestsInv, RequestsTypeOK, IdleThread, Id, ThreadBusy
<1>8. /\ \A i : (Outstanding(i)' <=> Outstanding(i)) /\ (Untouched(i)' <=> Untouched(i))
      /\ handlers' = handlers /\ runs' = runs /\ used' = used /\ generating' = generating
    BY <1>1 DEF Outstanding, Untouched, server
<1>9. \A u \in Threads : u # t /\ ThreadBusy(u) => work[u].job # j /\ work[u].job \in Jobs
    BY <1>1, BusyEpisode DEF RequestsInv, Apart
<1>10. "idle" \notin Unsent /\ "idle" \notin Uncertainty
    BY DEF Unsent, Uncertainty
<1>11. RequestsTypeOK'
    BY <1>1, <1>5, <1>6, <1>7, <1>8 DEF RequestsInv, RequestsTypeOK
<1>12. Apart'
    <2>1. ~ThreadBusy(t)'
        BY <1>7 DEF ThreadBusy
    <2> QED BY <1>1, <1>5, <1>7, <1>9, <2>1 DEF RequestsInv, Apart
<1>13. Once'
    BY <1>1, <1>7, <1>8, <1>10 DEF RequestsInv, Once
<1>14. Wire'
    BY <1>1, <1>7, StillWire
<1>15. Told'
    <2>1. ~Uncertain(t) => \A n \in 1..Turns : ~Outstanding(<<j, n>>)
        <3> SUFFICES ASSUME ~Uncertain(t), NEW n \in 1..Turns PROVE ~Outstanding(<<j, n>>)
            OBVIOUS
        <3>1. <<j, n>> \in Ids
            BY <1>2 DEF Ids
        <3>2. ledger[<<j, n>>] = None \/ ~ledger[<<j, n>>].uncertain
            BY DEF Uncertain
        <3> QED BY <3>1, <3>2 DEF RequestsInv, Told
    <2> HIDE DEF j
    <2> QED BY <1>1, <1>2, <1>4, <1>5, <1>7, <1>8, <1>10, <2>1 DEF RequestsInv, Told
<1>16. Traced'
    <2> SUFFICES ASSUME training PROVE Traced'
        BY <1>1 DEF Traced
    <2>1. r.eligible => ~r.uncertain /\ Traces(runs, r.traces, j, Turns)
        BY <1>1, <1>4 DEF Eligible, RequestsInv, Traced
    <2>2. \A k \in Jobs : result'[k] # None /\ result'[k].eligible =>
              ~result'[k].uncertain /\ Traces(runs', result'[k].traces, k, Turns)
        <3> HIDE DEF j
        <3> QED BY <1>5, <1>8, <2>1 DEF RequestsInv, Traced
    <2>3. \A u \in Threads : u # t /\ ThreadBusy(u) => binding'[work[u].job] = binding[work[u].job]
        BY <1>6, <1>9
    <2>4. ~ThreadBusy(t)'
        BY <1>7 DEF ThreadBusy
    <2> HIDE DEF j
    <2> QED BY <1>7, <1>8, <2>2, <2>3, <2>4 DEF RequestsInv, Traced
<1>17. Reported'
    <2> HIDE DEF j
    <2> QED BY <1>1, <1>4, <1>5 DEF RequestsInv, Reported
<1> QED BY <1>11, <1>12, <1>13, <1>14, <1>15, <1>16, <1>17 DEF RequestsInv


\* The request is sent once: it is in one handler, or lost.
LEMMA SendInv ==
    ASSUME RequestsInv, NEW t \in Threads, NEW arrives \in BOOLEAN, Send(t, arrives)
    PROVE  RequestsInv'
<1> DEFINE h0 == [id |-> Id(t), thread |-> t, epoch |-> conn[t].epoch]
<1>1. /\ ThreadBusy(t) /\ work[t].pc = "send" /\ work' = [work EXCEPT ![t].pc = "wait"]
      /\ UNCHANGED <<training, conn, binding, started, claims, ledger, result, used, generating, runs>>
    BY DEF Send, At, ThreadBusy, files
<1>2. /\ "wait" \in PCs /\ "wait" \notin Unsent /\ "wait" \in Uncertainty
      /\ "send" \in Unsent /\ "send" \in Uncertainty
    BY DEF PCs, Unsent, Uncertainty
<1>3. /\ Moved(t, "wait") /\ Id(t)' = Id(t) /\ work'[t].turn = work[t].turn /\ work'[t].completed = work[t].completed
      /\ work'[t].pc = "wait"
    BY <1>1, <1>2, PcMoves DEF RequestsInv, Moved
<1>4. Id(t) \in Ids /\ work[t].job \in Jobs /\ conn[t].epoch \in Nat
    BY <1>1, BusyEpisode DEF RequestsInv, RequestsTypeOK, Connection
<1>5. h0.id = Id(t) /\ h0.thread = t /\ h0.epoch = conn[t].epoch /\ h0 \in [id : Ids, thread : Threads, epoch : Nat]
    BY <1>4
<1>6. handlers' = handlers \/ handlers' = handlers \cup {h0}
    BY DEF Send
<1> HIDE DEF h0
<1>7. /\ \A h \in handlers' : h \in handlers \/ h = h0
      /\ handlers \subseteq handlers'
    BY <1>6
<1>8. Id(t) \in claims /\ runs[Id(t)] = 0 /\ ~Outstanding(Id(t))
    BY <1>1, <1>2 DEF RequestsInv, Once, Untouched
<1>9. \A i : i # Id(t) => (Outstanding(i)' <=> Outstanding(i)) /\ (Untouched(i)' <=> Untouched(i))
    BY <1>1, <1>5, <1>7 DEF Outstanding, Untouched
<1>10. ledger[Id(t)] # None /\ ledger[Id(t)].uncertain
    BY <1>1, <1>2 DEF RequestsInv, Told
<1>11. \A u \in Threads : u # t => work'[u] = work[u] /\ Id(u)' = Id(u) /\ (ThreadBusy(u)' <=> ThreadBusy(u))
    BY <1>3 DEF Moved, Id, ThreadBusy
<1>12. \A u \in Threads : u # t /\ ThreadBusy(u) => Id(u) \in Ids /\ Id(u) # Id(t)
    BY <1>1, BusyEpisode, IdsApart DEF RequestsInv
<1>13. RequestsTypeOK'
    BY <1>1, <1>3, <1>5, <1>7 DEF RequestsInv, RequestsTypeOK, Moved
<1>14. Apart'
    <2>1. work'[t].job = work[t].job
        BY <1>3 DEF Moved
    <2> QED BY <1>1, <1>11, <2>1 DEF RequestsInv, Apart
<1>15. Once'
    <2>1. \A i \in Ids \ claims' : Untouched(i)'
        BY <1>1, <1>8, <1>9 DEF RequestsInv, Once
    <2>2. \A u \in Threads : work'[u].pc \in Unsent => Id(u)' \in claims' /\ Untouched(Id(u))'
        <3> SUFFICES ASSUME NEW u \in Threads, work'[u].pc \in Unsent PROVE Id(u)' \in claims' /\ Untouched(Id(u))'
            OBVIOUS
        <3>1. u # t /\ work[u].pc \in Unsent /\ ThreadBusy(u)
            BY <1>2, <1>3, <1>11 DEF Unsent, ThreadBusy
        <3>2. Id(u)' = Id(u) /\ Id(u) # Id(t)
            BY <1>11, <1>12, <3>1
        <3> QED BY <1>1, <1>9, <3>1, <3>2 DEF RequestsInv, Once
    <2>3. \A h \in handlers : h.id # h0.id
        BY <1>5, <1>8 DEF Outstanding
    <2>4. \A h, k \in handlers' : h.id = k.id => h = k
        BY <1>7, <2>3 DEF RequestsInv, Once
    <2>5. \A h \in handlers' : h.id \notin used' => runs'[h.id] = 0
        BY <1>1, <1>5, <1>7, <1>8 DEF RequestsInv, Once
    <2>6. \A i \in Ids : runs'[i] <= 1 /\ (i \in used' \cup generating' => runs'[i] = 1)
        BY <1>1 DEF RequestsInv, Once
    <2> QED BY <2>1, <2>2, <2>4, <2>5, <2>6 DEF Once
<1>16. Wire'
    <2>1. /\ conn[t].reply = None
          /\ \A h \in handlers : h.thread = t => ~(conn[t].open /\ h.epoch = conn[t].epoch)
        BY <1>1, NotWaiting
    <2>2. \A h \in handlers : h.thread \in Threads
        BY DEF RequestsInv, RequestsTypeOK
    <2>3. \A h \in handlers' : h.epoch <= conn'[h.thread].epoch
        BY <1>1, <1>4, <1>5, <1>7 DEF RequestsInv, Wire
    <2>4. \A h \in handlers' : conn'[h.thread].open /\ h.epoch = conn'[h.thread].epoch =>
              work'[h.thread].pc = "wait" /\ h.id = Id(h.thread)' /\ conn'[h.thread].reply = None
        <3> SUFFICES ASSUME NEW h \in handlers', conn'[h.thread].open, h.epoch = conn'[h.thread].epoch
                     PROVE  work'[h.thread].pc = "wait" /\ h.id = Id(h.thread)' /\ conn'[h.thread].reply = None
            OBVIOUS
        <3>1. CASE h \in handlers
            <4>1. h.thread # t /\ h.thread \in Threads
                BY <1>1, <2>1, <2>2, <3>1
            <4> QED BY <1>1, <1>11, <3>1, <4>1 DEF RequestsInv, Wire
        <3>2. CASE h = h0
            BY <1>1, <1>3, <1>5, <2>1, <3>2
        <3> QED BY <1>7, <3>1, <3>2
    <2>5. ASSUME NEW u \in Threads, conn'[u].reply # None
          PROVE  /\ work'[u].pc = "wait" /\ conn'[u].reply.id = Id(u)'
                 /\ conn'[u].reply.status = 200 => ~Outstanding(Id(u))' /\ runs'[Id(u)'] = 1
        <3>1. u # t /\ conn[u].reply # None
            BY <1>1, <2>1, <2>5
        <3>2. work[u].pc = "wait" /\ work'[u] = work[u] /\ Id(u)' = Id(u) /\ ThreadBusy(u)
            BY <1>11, <3>1 DEF RequestsInv, Wire, ThreadBusy
        <3>3. Id(u) # Id(t)
            BY <1>12, <3>1, <3>2
        <3>4. Outstanding(Id(u))' <=> Outstanding(Id(u))
            BY <1>9, <3>2, <3>3
        <3> QED BY <1>1, <3>1, <3>2, <3>4 DEF RequestsInv, Wire
    <2> QED BY <2>3, <2>4, <2>5 DEF Wire
<1>17. Told'
    <2>1. \A i \in Ids : Outstanding(i)' => ledger'[i] # None /\ ledger'[i].uncertain
        BY <1>1, <1>9, <1>10 DEF RequestsInv, Told
    <2>2. \A u \in Threads : work'[u].pc \in Uncertainty => ledger'[Id(u)'] # None /\ ledger'[Id(u)'].uncertain
        BY <1>1, <1>3, <1>10, <1>11 DEF RequestsInv, Told
    <2>3. \A u \in Threads : work'[u].pc = "evidence" => ledger'[Id(u)'] # None
        BY <1>1, <1>3, <1>11 DEF RequestsInv, Told
    <2>4. \A k \in Jobs : result'[k] # None /\ ~result'[k].uncertain => \A n \in 1..Turns : ~Outstanding(<<k, n>>)'
        <3> SUFFICES ASSUME NEW k \in Jobs, result[k] # None, ~result[k].uncertain, NEW n \in 1..Turns
                     PROVE  ~Outstanding(<<k, n>>)'
            BY <1>1
        <3>1. <<k, n>> # Id(t)
            BY <1>1 DEF RequestsInv, Apart, Id
        <3> QED BY <1>9, <3>1 DEF RequestsInv, Told
    <2> QED BY <2>1, <2>2, <2>3, <2>4 DEF Told
<1>18. Traced' /\ Reported'
    <2> DEFINE j == work[t].job
    <2>1. training => ~work[t].completed /\ Traces(runs, binding[j].traces, j, work[t].turn - 1)
        BY <1>1 DEF RequestsInv, Traced
    <2>2. training => ~work'[t].completed /\ Traces(runs, binding'[j].traces, j, work'[t].turn - 1)
        BY <1>1, <1>3, <2>1
    <2> HIDE DEF j
    <2> QED BY <1>1, <1>2, <1>3, <2>2, KeepsTraced DEF j
<1> QED BY <1>13, <1>14, <1>15, <1>16, <1>17, <1>18 DEF RequestsInv

-----------------------------------------------------------------------------
(* The server, the model and the deaths *)

\* A request that was given to the model stays given: the traces stand.
LEMMA ServerKeepsTraced ==
    ASSUME RequestsInv, UNCHANGED <<training, work, binding, result>>,
           \A i \in Ids : runs[i] = 1 => runs'[i] = 1
    PROVE  Traced' /\ Reported'
<1>1. ASSUME NEW j \in Jobs, NEW s, NEW n, n \in 0..Turns, Traces(runs, s, j, n) PROVE Traces(runs', s, j, n)
    <2>1. \A m \in 1..n : <<j, m>> \in Ids
        BY <1>1, NativeRequestsAssumption DEF Ids
    <2> QED BY <1>1, <2>1 DEF Traces
<1>2. Reported'
    BY DEF RequestsInv, Reported
<1>3. Traced'
    <2> SUFFICES ASSUME training PROVE Traced'
        BY DEF Traced
    <2>1. Turns \in 0..Turns
        BY NativeRequestsAssumption
    <2>2. \A j \in Jobs : result'[j] # None /\ result'[j].eligible =>
              ~result'[j].uncertain /\ Traces(runs', result'[j].traces, j, Turns)
        BY <1>1, <2>1 DEF RequestsInv, Traced
    <2>3. ASSUME NEW t \in Threads, ThreadBusy(t)'
          PROVE  LET j == work'[t].job IN
                 /\ work'[t].pc \notin {"tools", "finish"} => Traces(runs', binding'[j].traces, j, work'[t].turn - 1)
                 /\ work'[t].pc = "tools" => Traces(runs', binding'[j].traces, j, work'[t].turn)
                 /\ work'[t].pc # "finish" => ~work'[t].completed
                 /\ work'[t].pc = "finish" /\ work'[t].completed => Traces(runs', binding'[j].traces, j, Turns)
                 /\ work'[t].pc = "evidence" => work'[t].body # None /\ runs'[work'[t].body.id] = 1
        <3>1. ThreadBusy(t) /\ work'[t] = work[t]
            BY <2>3 DEF ThreadBusy
        <3>2. work[t] \in Episode /\ work[t].job \in Jobs /\ work[t].turn \in 1..Turns
            BY <3>1, BusyEpisode DEF RequestsInv
        <3>3. work[t].turn - 1 \in 0..Turns /\ work[t].turn \in 0..Turns
            BY <3>2, NativeRequestsAssumption
        <3>4. work[t].body # None => work[t].body.id \in Ids
            BY <3>2 DEF Episode
        <3>5. /\ work[t].pc \notin {"tools", "finish"} => Traces(runs, binding[work[t].job].traces, work[t].job, work[t].turn - 1)
              /\ work[t].pc = "tools" => Traces(runs, binding[work[t].job].traces, work[t].job, work[t].turn)
              /\ work[t].pc # "finish" => ~work[t].completed
              /\ work[t].pc = "finish" /\ work[t].completed => Traces(runs, binding[work[t].job].traces, work[t].job, Turns)
              /\ work[t].pc = "evidence" => work[t].body # None /\ runs[work[t].body.id] = 1
            BY <3>1 DEF RequestsInv, Traced
        <3> QED BY <1>1, <2>1, <3>1, <3>2, <3>3, <3>4, <3>5
    <2> QED BY <2>2, <2>3 DEF Traced
<1> QED BY <1>2, <1>3

\* The server passes a request on that the model never saw.
LEMMA AcceptInv ==
    ASSUME RequestsInv, NEW h \in handlers, Accept(h)
    PROVE  RequestsInv'
<1>1. /\ UNCHANGED <<training, work, conn, binding, started, claims, ledger, result, handlers>>
      /\ h.id \notin used /\ h.id \notin generating /\ used' = used \cup {h.id} /\ generating' = generating \cup {h.id}
      /\ runs' = [runs EXCEPT ![h.id] = runs[h.id] + 1]
    BY DEF Accept, client, files
<1>2. h.id \in Ids /\ runs \in [Ids -> Nat] /\ runs[h.id] = 0
    BY <1>1 DEF RequestsInv, RequestsTypeOK, Once
<1>3. /\ runs' \in [Ids -> Nat] /\ runs'[h.id] = 1 /\ \A i \in Ids : i # h.id => runs'[i] = runs[i]
    BY <1>1, <1>2
<1>4. Outstanding(h.id) /\ \A i : Outstanding(i)' <=> Outstanding(i)
    BY <1>1 DEF Outstanding
<1>5. \A i \in Ids : Untouched(i) => Untouched(i)'
    BY <1>3, <1>4 DEF Untouched
<1>6. \A t \in Threads : Id(t)' = Id(t) /\ (ThreadBusy(t)' <=> ThreadBusy(t))
    BY <1>1 DEF Id, ThreadBusy
<1>7. RequestsTypeOK'
    BY <1>1, <1>2, <1>3 DEF RequestsInv, RequestsTypeOK
<1>8. Apart'
    BY <1>1, <1>6 DEF RequestsInv, Apart
<1>9. Once'
    <2>1. \A i \in Ids \ claims' : Untouched(i)'
        BY <1>1, <1>5 DEF RequestsInv, Once
    <2>2. \A t \in Threads : work'[t].pc \in Unsent => Id(t)' \in claims' /\ Untouched(Id(t))'
        <3> SUFFICES ASSUME NEW t \in Threads, work[t].pc \in Unsent PROVE Id(t) \in claims /\ Untouched(Id(t))'
            BY <1>1, <1>6
        <3>1. Id(t) \in claims /\ Untouched(Id(t)) /\ Id(t) \in Ids
            BY DEF RequestsInv, Once, RequestsTypeOK
        <3>2. (Outstanding(Id(t))' <=> Outstanding(Id(t))) /\ Id(t) # h.id
            BY <1>4, <1>6, <3>1 DEF Untouched
        <3>3. runs'[Id(t)'] = 0
            BY <1>3, <1>6, <3>1, <3>2 DEF Untouched
        <3> QED BY <3>1, <3>2, <3>3 DEF Untouched
    <2>3. \A k \in handlers' : k.id \notin used' => runs'[k.id] = 0
        BY <1>1, <1>3 DEF RequestsInv, Once, RequestsTypeOK
    <2>4. \A i \in Ids : runs'[i] <= 1 /\ (i \in used' \cup generating' => runs'[i] = 1)
        BY <1>1, <1>3 DEF RequestsInv, Once
    <2> QED BY <1>1, <2>1, <2>2, <2>3, <2>4 DEF RequestsInv, Once
<1>10. Wire'
    <2>1. ASSUME NEW t \in Threads, conn[t].reply # None, conn[t].reply.status = 200
          PROVE  ~Outstanding(Id(t))' /\ runs'[Id(t)'] = 1
        <3>1. work[t].pc = "wait" /\ ~Outstanding(Id(t)) /\ runs[Id(t)] = 1
            BY <2>1 DEF RequestsInv, Wire
        <3>2. Id(t) \in Ids /\ Id(t) # h.id
            BY <1>4, <3>1, BusyEpisode DEF RequestsInv, ThreadBusy
        <3>3. Outstanding(Id(t))' <=> Outstanding(Id(t))
            BY <1>4, <1>6
        <3> QED BY <1>3, <1>6, <3>1, <3>2, <3>3
    <2>2. \A k \in handlers : k.thread \in Threads
        BY DEF RequestsInv, RequestsTypeOK
    <2> QED BY <1>1, <1>6, <2>1, <2>2 DEF RequestsInv, Wire
<1>11. Told'
    BY <1>1, <1>4, <1>6 DEF RequestsInv, Told
<1>12. Traced' /\ Reported'
    BY <1>1, <1>2, <1>3, ServerKeepsTraced
<1> QED BY <1>7, <1>8, <1>9, <1>10, <1>11, <1>12 DEF RequestsInv

\* What the model and the deaths leave alone or take away never becomes outstanding again.
LEMMA Fewer ==
    ASSUME RequestsInv, UNCHANGED <<work, started, claims, ledger, result, runs>>,
           handlers' \subseteq handlers, generating' \subseteq generating, used' \subseteq used,
           \A h \in handlers' : h.id \notin used' => h.id \notin used
    PROVE  Apart' /\ Once' /\ Told' /\ \A i : Outstanding(i)' => Outstanding(i)
<1>1. \A i : (Outstanding(i)' => Outstanding(i)) /\ (Untouched(i) => Untouched(i)')
    BY DEF Outstanding, Untouched
<1>2. \A t \in Threads : Id(t)' = Id(t) /\ (ThreadBusy(t)' <=> ThreadBusy(t)) /\ work'[t] = work[t]
    BY DEF Id, ThreadBusy
<1>3. Apart'
    BY <1>2 DEF RequestsInv, Apart
<1>4. Once'
    <2>1. \A i \in Ids \ claims' : Untouched(i)'
        BY <1>1 DEF RequestsInv, Once
    <2>2. \A t \in Threads : work'[t].pc \in Unsent => Id(t)' \in claims' /\ Untouched(Id(t))'
        BY <1>1, <1>2 DEF RequestsInv, Once
    <2>3. /\ \A h, k \in handlers' : h.id = k.id => h = k
          /\ \A h \in handlers' : h.id \notin used' => runs'[h.id] = 0
        BY DEF RequestsInv, Once
    <2>4. \A i \in Ids : runs'[i] <= 1 /\ (i \in used' \cup generating' => runs'[i] = 1)
        BY DEF RequestsInv, Once
    <2> QED BY <2>1, <2>2, <2>3, <2>4 DEF Once
<1>5. Told'
    BY <1>1, <1>2 DEF RequestsInv, Told
<1> QED BY <1>1, <1>3, <1>4, <1>5

\* The model ends a generation.
LEMMA ModelEndsInv ==
    ASSUME RequestsInv, NEW i0 \in Ids, ModelEnds(i0)
    PROVE  RequestsInv'
<1>1. /\ UNCHANGED <<training, work, conn, binding, started, claims, ledger, result, handlers, used, runs>>
      /\ generating' \subseteq generating
    BY DEF ModelEnds, client, files
<1>2. RequestsTypeOK'
    BY <1>1 DEF RequestsInv, RequestsTypeOK
<1>3. Apart' /\ Once' /\ Told' /\ \A i : Outstanding(i)' => Outstanding(i)
    BY <1>1, Fewer
<1>4. \A t \in Threads : Id(t)' = Id(t) /\ (Outstanding(Id(t))' => Outstanding(Id(t)))
    BY <1>1, <1>3 DEF Id
<1>5. Wire'
    <2>1. \A h \in handlers : h.thread \in Threads
        BY DEF RequestsInv, RequestsTypeOK
    <2> QED BY <1>1, <1>4, <2>1 DEF RequestsInv, Wire
<1>6. Traced' /\ Reported'
    BY <1>1, ServerKeepsTraced
<1> QED BY <1>2, <1>3, <1>5, <1>6 DEF RequestsInv

\* An answer goes to the thread that waits for it; a good one means that the model is done.
LEMMA AnswerInv ==
    ASSUME RequestsInv, NEW h \in handlers, NEW status \in {200, 502}, Answer(h, status)
    PROVE  RequestsInv'
<1> DEFINE v == h.thread
           r == [id |-> h.id, status |-> status]
<1>1. /\ UNCHANGED <<training, work, binding, started, claims, ledger, result, generating, used, runs>>
      /\ h.id \in used /\ (status = 200 => h.id \notin generating) /\ handlers' = handlers \ {h} /\ Reply(h, status)
    BY DEF Answer, files
<1>2. h.id \in Ids /\ v \in Threads /\ conn \in [Threads -> Connection] /\ conn[v] \in Connection
    BY DEF RequestsInv, RequestsTypeOK
<1>3. r \in [id : Ids, status : {200, 502}] /\ r.id = h.id /\ r.status = status
    BY <1>2
<1>4. Apart' /\ Once' /\ Told' /\ \A i : Outstanding(i)' => Outstanding(i)
    BY <1>1, Fewer
<1>5. \A t \in Threads : Id(t)' = Id(t) /\ (Outstanding(Id(t))' => Outstanding(Id(t)))
    BY <1>1, <1>4 DEF Id
<1>6. Traced' /\ Reported'
    BY <1>1, ServerKeepsTraced
<1>7. \A k \in handlers : k.thread \in Threads
    BY DEF RequestsInv, RequestsTypeOK
<1>8. CASE conn[v].open /\ conn[v].epoch = h.epoch
    <2>1. conn' = [conn EXCEPT ![v].reply = r]
        BY <1>1, <1>8 DEF Reply
    <2> HIDE DEF r, v
    <2>2. /\ conn'[v] = [conn[v] EXCEPT !.reply = r] /\ \A t \in Threads : t # v => conn'[t] = conn[t]
        BY <1>2, <2>1
    <2>3. /\ conn'[v] \in Connection /\ conn'[v].reply = r
          /\ conn'[v].open = conn[v].open /\ conn'[v].epoch = conn[v].epoch
        BY <1>2, <1>3, <2>2 DEF Connection
    <2>4. conn' \in [Threads -> Connection]
        BY <1>2, <2>1, <2>3
    <2>5. RequestsTypeOK'
        BY <1>1, <2>4 DEF RequestsInv, RequestsTypeOK
    <2>6. work[v].pc = "wait" /\ h.id = Id(v)
        BY <1>8 DEF RequestsInv, Wire, v
    <2>7. \A k \in handlers' : k.id # h.id
        BY <1>1 DEF RequestsInv, Once
    <2>12. ASSUME NEW t \in Threads PROVE (conn'[t].open <=> conn[t].open) /\ conn'[t].epoch = conn[t].epoch
        <3>1. CASE t = v
            BY <2>3, <3>1
        <3>2. CASE t # v
            BY <2>2, <3>2
        <3> QED BY <3>1, <3>2
    <2>8. \A k \in handlers' : k.epoch <= conn'[k.thread].epoch
        BY <1>1, <1>7, <2>12 DEF RequestsInv, Wire
    <2>9. \A k \in handlers' : conn'[k.thread].open /\ k.epoch = conn'[k.thread].epoch =>
              work'[k.thread].pc = "wait" /\ k.id = Id(k.thread)' /\ conn'[k.thread].reply = None
        <3> SUFFICES ASSUME NEW k \in handlers', conn'[k.thread].open, k.epoch = conn'[k.thread].epoch
                     PROVE  work'[k.thread].pc = "wait" /\ k.id = Id(k.thread)' /\ conn'[k.thread].reply = None
            OBVIOUS
        <3>1. k \in handlers /\ k.thread \in Threads
            BY <1>1, <1>7
        <3>2. conn[k.thread].open /\ k.epoch = conn[k.thread].epoch
            BY <2>12, <3>1
        <3>3. work[k.thread].pc = "wait" /\ k.id = Id(k.thread) /\ conn[k.thread].reply = None
            BY <3>1, <3>2 DEF RequestsInv, Wire
        <3>4. k.thread # v
            BY <2>6, <2>7, <3>3
        <3> QED BY <1>1, <1>5, <2>2, <3>1, <3>3, <3>4
    <2>10. ASSUME NEW t \in Threads, conn'[t].reply # None
           PROVE  /\ work'[t].pc = "wait" /\ conn'[t].reply.id = Id(t)'
                  /\ conn'[t].reply.status = 200 => ~Outstanding(Id(t))' /\ runs'[Id(t)'] = 1
        <3>1. CASE t = v
            <4>1. work'[t].pc = "wait" /\ conn'[t].reply.id = Id(t)'
                BY <1>1, <1>3, <1>5, <2>3, <2>6, <3>1
            <4>2. runs'[Id(t)'] = 1
                BY <1>1, <1>2, <1>5, <2>6, <3>1 DEF RequestsInv, Once
            <4>3. conn'[t].reply.status = 200 => ~Outstanding(Id(t))'
                <5>1. conn'[t].reply.status = 200 => h.id \notin generating'
                    BY <1>1, <1>3, <2>3, <3>1
                <5> QED BY <1>5, <2>6, <2>7, <3>1, <5>1 DEF Outstanding
            <4> QED BY <4>1, <4>2, <4>3
        <3>2. CASE t # v
            <4>1. conn'[t] = conn[t] /\ conn[t].reply # None
                BY <2>2, <2>10, <3>2
            <4> QED BY <1>1, <1>5, <4>1 DEF RequestsInv, Wire
        <3> QED BY <3>1, <3>2
    <2>11. Wire'
        BY <2>8, <2>9, <2>10 DEF Wire
    <2> QED BY <1>4, <1>6, <2>5, <2>11 DEF RequestsInv
<1>9. CASE ~(conn[v].open /\ conn[v].epoch = h.epoch)
    <2>1. conn' = conn
        BY <1>1, <1>9 DEF Reply
    <2>2. RequestsTypeOK'
        BY <1>1, <2>1 DEF RequestsInv, RequestsTypeOK
    <2>3. Wire'
        BY <1>1, <1>5, <1>7, <2>1 DEF RequestsInv, Wire
    <2> QED BY <1>4, <1>6, <2>2, <2>3 DEF RequestsInv
<1> QED BY <1>8, <1>9

\* A closed connection.
LEMMA ClosedType ==
    ASSUME NEW n \in Nat PROVE [open |-> FALSE, epoch |-> n + 1, reply |-> None] \in Connection
BY DEF Connection

\* The connections of a process that died are closed for good.
LEMMA AllClosed ==
    ASSUME RequestsInv, conn' = [t \in Threads |-> Closed(t)], handlers' \subseteq handlers
    PROVE  conn' \in [Threads -> Connection] /\ Wire'
<1>1. ASSUME NEW t \in Threads
      PROVE  /\ conn'[t] \in Connection /\ conn'[t].epoch = conn[t].epoch + 1 /\ conn[t].epoch \in Nat
             /\ conn'[t].reply = None /\ ~conn'[t].open
    <2>1. conn[t].epoch \in Nat
        BY DEF RequestsInv, RequestsTypeOK, Connection
    <2>2. conn'[t] = [open |-> FALSE, epoch |-> conn[t].epoch + 1, reply |-> None]
        BY DEF Closed
    <2>3. /\ conn'[t].epoch = conn[t].epoch + 1 /\ conn[t].epoch + 1 \in Nat
          /\ conn'[t].reply = None /\ conn'[t].open = FALSE
        BY <2>1, <2>2
    <2>4. conn'[t] \in Connection
        BY <2>1, <2>2, ClosedType
    <2> QED BY <2>1, <2>3, <2>4
<1>2. \A h \in handlers : h.thread \in Threads /\ h.epoch \in Nat
    BY DEF RequestsInv, RequestsTypeOK
<1>3. \A h \in handlers' : h.epoch <= conn'[h.thread].epoch
    BY <1>1, <1>2 DEF RequestsInv, Wire
<1>4. conn' \in [Threads -> Connection]
    BY <1>1
<1> QED BY <1>1, <1>2, <1>3, <1>4 DEF Wire

\* The client dies: its episodes are gone, the claims and the ledger are not.
LEMMA ClientDiesInv ==
    ASSUME RequestsInv, ClientDies
    PROVE  RequestsInv'
<1>1. /\ UNCHANGED <<training, claims, ledger, result, used, handlers, generating, runs>>
      /\ work' = [t \in Threads |-> IdleThread] /\ conn' = [t \in Threads |-> Closed(t)]
      /\ binding' = [j \in Jobs |-> NoBinding]
    BY DEF ClientDies, files, server
<1>2. conn' \in [Threads -> Connection] /\ Wire'
    BY <1>1, AllClosed
<1>3. \A t \in Threads : work'[t].pc = "idle" /\ ~ThreadBusy(t)'
    BY <1>1 DEF IdleThread, ThreadBusy
<1>4. \A i : (Outstanding(i)' <=> Outstanding(i)) /\ (Untouched(i)' <=> Untouched(i))
    BY <1>1 DEF Outstanding, Untouched
<1>5. "idle" \notin Unsent /\ "idle" \notin Uncertainty
    BY DEF Unsent, Uncertainty
<1>6. RequestsTypeOK'
    <2>1. work' \in [Threads -> {IdleThread} \cup Episode]
        BY <1>1
    <2>2. NoBinding \in [bound : BOOLEAN, closed : BOOLEAN, traces : Seq(Ids)]
        <3>1. << >> \in Seq(Ids)
            OBVIOUS
        <3> QED BY <3>1 DEF NoBinding
    <2>3. binding' \in [Jobs -> [bound : BOOLEAN, closed : BOOLEAN, traces : Seq(Ids)]]
        BY <1>1, <2>2
    <2> QED BY <1>1, <1>2, <2>1, <2>3 DEF RequestsInv, RequestsTypeOK
<1>7. Apart'
    BY <1>3 DEF Apart
<1>8. Once'
    BY <1>1, <1>3, <1>4, <1>5 DEF RequestsInv, Once
<1>9. Told'
    BY <1>1, <1>3, <1>4, <1>5 DEF RequestsInv, Told
<1>10. Traced' /\ Reported'
    BY <1>1, <1>3 DEF RequestsInv, Traced, Reported
<1> QED BY <1>2, <1>6, <1>7, <1>8, <1>9, <1>10 DEF RequestsInv

\* The server dies: its handlers and its results directory are gone, the model goes on.
LEMMA ServerDiesInv ==
    ASSUME RequestsInv, ServerDies
    PROVE  RequestsInv'
<1>1. /\ UNCHANGED <<training, work, binding, started, claims, ledger, result, generating, runs>>
      /\ used' = {} /\ handlers' = {} /\ conn' = [t \in Threads |-> Closed(t)]
    BY DEF ServerDies, files
<1>2. conn' \in [Threads -> Connection] /\ Wire'
    BY <1>1, AllClosed
<1>3. RequestsTypeOK'
    BY <1>1, <1>2 DEF RequestsInv, RequestsTypeOK
<1>4. Apart' /\ Once' /\ Told'
    BY <1>1, Fewer
<1>5. Traced' /\ Reported'
    BY <1>1, ServerKeepsTraced
<1> QED BY <1>2, <1>3, <1>4, <1>5 DEF RequestsInv

-----------------------------------------------------------------------------
(* The theorems *)

\* The program starts without claims, requests and results.
LEMMA RequestsInitInv ==
    ASSUME RequestsInit PROVE RequestsInv
<1>1. /\ training \in BOOLEAN /\ work = [t \in Threads |-> IdleThread] /\ binding = [j \in Jobs |-> NoBinding]
      /\ conn = [t \in Threads |-> [open |-> FALSE, epoch |-> 0, reply |-> None]]
      /\ claims = {} /\ ledger = [i \in Ids |-> None] /\ result = [j \in Jobs |-> None]
      /\ used = {} /\ handlers = {} /\ generating = {} /\ runs = [i \in Ids |-> 0]
    BY DEF RequestsInit
<1>2. NoBinding \in [bound : BOOLEAN, closed : BOOLEAN, traces : Seq(Ids)]
    <2>1. << >> \in Seq(Ids)
        OBVIOUS
    <2> QED BY <2>1 DEF NoBinding
<1>3. \A t \in Threads : conn[t] \in Connection /\ conn[t].reply = None
    BY <1>1 DEF Connection
<1>4. RequestsTypeOK
    <2>1. work \in [Threads -> {IdleThread} \cup Episode] /\ binding \in [Jobs -> [bound : BOOLEAN, closed : BOOLEAN, traces : Seq(Ids)]]
        BY <1>1, <1>2
    <2>2. conn \in [Threads -> Connection]
        BY <1>1, <1>3
    <2>3. ledger \in [Ids -> {None} \cup Entry] /\ runs \in [Ids -> Nat]
        BY <1>1
    <2>4. result \in [Jobs -> {None} \cup [uncertain : BOOLEAN, eligible : BOOLEAN, traces : Seq(Ids)]]
        BY <1>1
    <2> QED BY <1>1, <2>1, <2>2, <2>3, <2>4 DEF RequestsTypeOK
<1>5. /\ \A t \in Threads : work[t].pc = "idle" /\ ~ThreadBusy(t)
      /\ \A i \in Ids : runs[i] = 0 /\ ~Outstanding(i) /\ Untouched(i)
    BY <1>1 DEF IdleThread, ThreadBusy, Outstanding, Untouched
<1>6. "idle" \notin Unsent /\ "idle" \notin Uncertainty
    BY DEF Unsent, Uncertainty
<1>7. Apart /\ Once
    BY <1>1, <1>5, <1>6 DEF Apart, Once
<1>8. Wire
    BY <1>1, <1>3 DEF Wire
<1>9. Told /\ Traced /\ Reported
    BY <1>1, <1>5, <1>6 DEF Told, Traced, Reported
<1> QED BY <1>4, <1>7, <1>8, <1>9 DEF RequestsInv

\* Every step of a thread, of the server and of the model, and every death, keeps the invariant.
LEMMA RequestsStepInv ==
    ASSUME RequestsInv, [RequestsNext]_requestsVars PROVE RequestsInv'
<1>1. CASE UNCHANGED requestsVars
    <2>1. UNCHANGED <<training, work, conn, binding, started, claims, ledger, result, used, handlers, generating, runs>>
        BY <1>1 DEF requestsVars, client, files, server
    <2>2. RequestsTypeOK'
        BY <2>1 DEF RequestsInv, RequestsTypeOK
    <2>3. Apart' /\ Once' /\ Told'
        BY <2>1, Fewer
    <2>4. Wire'
        BY <2>1, StillWire DEF server
    <2>5. Traced' /\ Reported'
        BY <2>1, ServerKeepsTraced
    <2> QED BY <2>2, <2>3, <2>4, <2>5 DEF RequestsInv
<1>2. CASE RequestsNext
    <2>1. ASSUME NEW t \in Threads, NEW j \in Jobs, Execute(t, j) PROVE RequestsInv'
        BY <2>1, ExecuteInv
    <2>2. ASSUME NEW t \in Threads, ClaimRequest(t) \/ CallFails(t) \/ FinishEpisode(t) PROVE RequestsInv'
        BY <2>2, ClaimInv, CallFailsInv, FinishInv
    <2>3. ASSUME NEW t \in Threads, NEW ok \in BOOLEAN,
                 \/ NextTurn(t, ok) \/ WriteState(t, ok) \/ Send(t, ok) \/ RecordFailure(t, ok)
                 \/ Receive(t, ok) \/ Evidence(t, ok)
          PROVE  RequestsInv'
        BY <2>3, NextTurnInv, WriteStateInv, SendInv, RecordFailureInv, ReceiveInv, EvidenceInv
    <2>4. ASSUME NEW t \in Threads, NEW refresh \in BOOLEAN, NEW ok \in BOOLEAN, Connect(t, refresh, ok) PROVE RequestsInv'
        BY <2>4, ConnectInv
    <2>5. ASSUME NEW h \in handlers, Accept(h) PROVE RequestsInv'
        BY <2>5, AcceptInv
    <2>6. ASSUME NEW h \in handlers, NEW status \in {200, 502}, Answer(h, status) PROVE RequestsInv'
        BY <2>6, AnswerInv
    <2>7. ASSUME NEW i \in Ids, ModelEnds(i) PROVE RequestsInv'
        BY <2>7, ModelEndsInv
    <2>8. ASSUME ClientDies \/ ServerDies PROVE RequestsInv'
        BY <2>8, ClientDiesInv, ServerDiesInv
    <2> QED BY <1>2, <2>1, <2>2, <2>3, <2>4, <2>5, <2>6, <2>7, <2>8 DEF RequestsNext
<1> QED BY <1>1, <1>2

\* The claims, the ledger, the connections and the model's work agree in every state of the
\* native backend (execute, the RPC transport and its ledger, RpcClient, the relay server).
THEOREM RequestsInvariant == RequestsSpec => []RequestsInv
<1>1. RequestsInit => RequestsInv
    BY RequestsInitInv
<1>2. RequestsInv /\ [RequestsNext]_requestsVars => RequestsInv'
    BY RequestsStepInv
<1> QED BY <1>1, <1>2, PTL DEF RequestsSpec

\* What the invariant says of the requests and results of one state.
LEMMA InvariantNoReplay ==
    ASSUME RequestsInv PROVE NoReplay
<1>1. \A i \in Ids : runs[i] <= 1
    BY DEF RequestsInv, Once
<1>2. ASSUME NEW j \in Jobs, result[j] # None
      PROVE  /\ ~result[j].uncertain => \A n \in 1 .. Turns : ~Outstanding(<<j, n>>)
             /\ result[j].eligible => /\ ~result[j].uncertain
                                      /\ result[j].traces = [n \in 1 .. Turns |-> <<j, n>>]
                                      /\ \A n \in 1 .. Turns : runs[<<j, n>>] = 1
    <2>1. ~result[j].uncertain => \A n \in 1 .. Turns : ~Outstanding(<<j, n>>)
        BY <1>2 DEF RequestsInv, Told
    <2>2. ASSUME result[j].eligible
          PROVE  /\ ~result[j].uncertain
                 /\ result[j].traces = [n \in 1 .. Turns |-> <<j, n>>]
                 /\ \A n \in 1 .. Turns : runs[<<j, n>>] = 1
        <3> DEFINE s == result[j].traces
        <3>1. ~result[j].uncertain /\ Traces(runs, s, j, Turns)
            BY <1>2, <2>2 DEF RequestsInv, Reported, Traced, RequestsTypeOK
        <3>2. s \in Seq(Ids)
            BY <1>2 DEF RequestsInv, RequestsTypeOK
        <3> HIDE DEF s
        <3>3. Len(s) = Turns /\ \A n \in 1..Turns : s[n] = <<j, n>> /\ runs[<<j, n>>] = 1
            BY <3>1 DEF Traces
        <3>4. s \in [1..Turns -> Ids]
            BY <3>2, <3>3
        <3>5. s = [n \in 1..Turns |-> <<j, n>>]
            BY <3>3, <3>4
        <3> QED BY <3>1, <3>3, <3>5 DEF s
    <2> QED BY <2>1, <2>2
<1> QED BY <1>1, <1>2 DEF NoReplay

\* However often the client and the server die and are started again, a request reaches the
\* model at most once; an episode reported certain leaves nothing running, and an eligible one
\* has the traces of its turns, in order, each generated once (RequestLedger, RpcTransport,
\* NativeBackend.execute).
THEOREM NeverReplayed == RequestsSpec => []NoReplay
<1>1. RequestsInv => NoReplay
    BY InvariantNoReplay
<1> QED BY <1>1, RequestsInvariant, PTL

-----------------------------------------------------------------------------
(* RelayReadiness: the invariant *)

Observations ==
    [at : Nat, boot : Nat, policy : Nat, running : BOOLEAN, uncertain : Nat, remaining : Int]
Boots == Nat \ {0}

ServersOK ==
    /\ now \in Nat /\ cpu \in [boot : Boots, expires : Nat]
    /\ gpu \in [boot : Nat, expires : Nat, policy : Nat, running : BOOLEAN, uncertain : Nat]

\* The challenge is of the running CPU server, and as old as its id says.
ChallengeOK ==
    \/ challenge = NoChallenge
    \/ \E t \in Nat : challenge = [id |-> <<cpu.boot, t>>, expires |-> t + ChallengeTtl]

\* An answer was observed after its challenge; it tells when that GPU server expires.
Asked(b, t) == t <= now /\ probe = [id |-> <<b, t>>, started |-> t, answered |-> FALSE]
Observed(b, t, o) ==
    /\ t <= o.at /\ o.at <= now
    /\ probe = [id |-> <<b, t>>, started |-> t, answered |-> TRUE, seen |-> o]
    /\ o.boot <= gpu.boot /\ (o.boot = gpu.boot => o.at + o.remaining = gpu.expires)
ProbeOK ==
    \/ probe = NoProbe
    \/ \E b \in Boots, t \in Nat : Asked(b, t)
    \/ \E b \in Boots, t \in Nat, o \in Observations : Observed(b, t, o)

\* What is posted promises no more than the server had left when it was challenged.
Posted(b, t, o, r) ==
    /\ t <= o.at
    /\ posted = [id |-> <<b, t>>, seen |-> o, remaining |-> r]
    /\ o.boot <= gpu.boot /\ (o.boot = gpu.boot => t + r <= gpu.expires)
PostOK ==
    \/ posted = NoPost
    \/ \E b \in Boots, t \in Nat, o \in Observations, r \in Nat : Posted(b, t, o, r)

\* A receipt is of the running CPU server; it ends in time for the observation's age, and
\* promises at most one challenge lifetime too much.
ReceiptOK ==
    \/ readiness = NotReady
    \/ \E o \in Observations, u \in Int, x \in Int :
          /\ readiness = [until |-> u, cpu |-> cpu, seen |-> o, gpuExpires |-> x]
          /\ u < o.at + ChallengeTtl + ReadyTtl
          /\ o.boot <= gpu.boot /\ (o.boot = gpu.boot => x < gpu.expires + ChallengeTtl)

ReadinessInv == ServersOK /\ ChallengeOK /\ ProbeOK /\ PostOK /\ ReceiptOK

\* The earliest of three times is a time and not after any of them.
LEMMA EarliestOfThree ==
    ASSUME NEW a \in Int, NEW b \in Int, NEW c \in Int
    PROVE  Earliest({a, b, c}) \in Int /\ Earliest({a, b, c}) <= a
<1>1. \E x \in {a, b, c} : \A y \in {a, b, c} : x <= y
    OBVIOUS
<1>2. /\ Earliest({a, b, c}) \in {a, b, c}
      /\ \A y \in {a, b, c} : Earliest({a, b, c}) <= y
    BY <1>1 DEF Earliest
<1> QED BY <1>2

\* Nothing is challenged, asked or proved when the servers start.
LEMMA ReadinessInitInv == ReadinessInit => ReadinessInv
BY ReadinessAssumption DEF ReadinessInit, ReadinessInv, ServersOK, ChallengeOK, ProbeOK, PostOK, ReceiptOK, Boots

\* A message that is unchanged stays good when time passes and the GPU server does not restart.
LEMMA MessagesKept ==
    ASSUME ReadinessInv, now' \in Nat, now <= now',
           gpu' \in [boot : Nat, expires : Nat, policy : Nat, running : BOOLEAN, uncertain : Nat],
           \/ gpu'.boot = gpu.boot /\ gpu'.expires = gpu.expires
           \/ gpu'.boot = gpu.boot + 1
    PROVE  /\ UNCHANGED probe => ProbeOK'
           /\ UNCHANGED posted => PostOK'
           /\ UNCHANGED <<cpu, readiness>> => ReceiptOK'
           /\ UNCHANGED <<cpu, challenge>> => ChallengeOK'
<1> USE DEF ReadinessInv, ServersOK
<1>1. ASSUME UNCHANGED probe PROVE ProbeOK'
    <2>1. CASE probe = NoProbe
        BY <1>1, <2>1 DEF ProbeOK
    <2>2. ASSUME NEW b \in Boots, NEW t \in Nat, Asked(b, t) PROVE Asked(b, t)'
        BY <1>1, <2>2 DEF Asked
    <2>3. ASSUME NEW b \in Boots, NEW t \in Nat, NEW o \in Observations, Observed(b, t, o)
          PROVE  Observed(b, t, o)'
        BY <1>1, <2>3 DEF Observed, Observations
    <2> QED BY <2>1, <2>2, <2>3 DEF ProbeOK
<1>2. ASSUME UNCHANGED posted PROVE PostOK'
    <2>1. CASE posted = NoPost
        BY <1>2, <2>1 DEF PostOK
    <2>2. ASSUME NEW b \in Boots, NEW t \in Nat, NEW o \in Observations, NEW r \in Nat,
                 Posted(b, t, o, r)
          PROVE  Posted(b, t, o, r)'
        BY <1>2, <2>2 DEF Posted, Observations
    <2> QED BY <2>1, <2>2 DEF PostOK
<1>3. ASSUME UNCHANGED <<cpu, readiness>> PROVE ReceiptOK'
    <2>1. CASE readiness = NotReady
        BY <1>3, <2>1 DEF ReceiptOK
    <2>2. ASSUME NEW o \in Observations, NEW u \in Int, NEW x \in Int,
                 readiness = [until |-> u, cpu |-> cpu, seen |-> o, gpuExpires |-> x],
                 u < o.at + ChallengeTtl + ReadyTtl,
                 o.boot <= gpu.boot, o.boot = gpu.boot => x < gpu.expires + ChallengeTtl
          PROVE  ReceiptOK'
        <3>1. o.boot <= gpu'.boot /\ (o.boot = gpu'.boot => x < gpu'.expires + ChallengeTtl)
            BY <2>2 DEF Observations
        <3> QED BY <1>3, <2>2, <3>1 DEF ReceiptOK
    <2> QED BY <2>1, <2>2 DEF ReceiptOK
<1>4. ASSUME UNCHANGED <<cpu, challenge>> PROVE ChallengeOK'
    BY <1>4 DEF ChallengeOK
<1> QED BY <1>1, <1>2, <1>3, <1>4

\* Every step of the pages, the servers and the world keeps it.
LEMMA ReadinessStep == ReadinessInv /\ [ReadinessNext]_readinessVars => ReadinessInv'
<1> SUFFICES ASSUME ReadinessInv, [ReadinessNext]_readinessVars PROVE ReadinessInv'
    OBVIOUS
<1> USE DEF ReadinessInv
<1>0. ChallengeTtl \in Nat /\ ReadyTtl \in Nat /\ Life \in Nat
    BY ReadinessAssumption
<1>1. CASE Pulse
    <2> USE <1>1 DEF Pulse
    <2>1. ServersOK'
        BY DEF ServersOK
    <2>2. PostOK' /\ ReceiptOK'
        BY MessagesKept DEF ServersOK
    <2>3. ChallengeOK'
        BY DEF ChallengeOK, ServersOK
    <2>4. cpu.boot \in Boots /\ now \in Nat /\ Asked(cpu.boot, now)'
        BY DEF Asked, ServersOK
    <2>5. ProbeOK'
        BY <2>4 DEF ProbeOK
    <2> QED BY <2>1, <2>2, <2>3, <2>5
<1>2. CASE GpuAnswers
    <2> USE <1>2 DEF GpuAnswers
    <2>1. ServersOK'
        BY DEF ServersOK
    <2>2. PostOK' /\ ReceiptOK' /\ ChallengeOK'
        BY MessagesKept DEF ServersOK
    <2>3. PICK b \in Boots, t \in Nat : Asked(b, t)
        BY DEF ProbeOK, Observed
    <2>4. Observation \in Observations /\ Observation.at = now /\ Observation.boot = gpu.boot
              /\ Observation.at + Observation.remaining = gpu.expires
        BY DEF Observation, Observations, ServersOK
    <2>5. probe' = [id |-> <<b, t>>, started |-> t, answered |-> TRUE, seen |-> Observation]
        BY <2>3 DEF Asked
    <2>6. PICK o \in Observations : o = Observation
        BY <2>4
    <2>7. now' = now /\ gpu' = gpu /\ gpu.boot \in Nat /\ now \in Nat
        BY DEF ServersOK
    <2>8. Observed(b, t, o)'
        BY <2>3, <2>4, <2>5, <2>6, <2>7 DEF Asked, Observed
    <2>9. ProbeOK'
        BY <2>8 DEF ProbeOK
    <2> QED BY <2>1, <2>2, <2>9
<1>3. CASE RecordCapacity
    <2> USE <1>3 DEF RecordCapacity
    <2>1. ServersOK'
        BY DEF ServersOK
    <2>2. ReceiptOK' /\ ChallengeOK' /\ (UNCHANGED posted => PostOK')
        BY MessagesKept DEF ServersOK
    <2>3. ProbeOK'
        BY DEF ProbeOK
    <2>4. PICK b \in Boots, t \in Nat, o \in Observations : Observed(b, t, o)
        BY DEF ProbeOK, Asked
    <2> USE DEF Observed
    <2>5. ASSUME RemainingOf(probe) > 0 PROVE PostOK'
        <3>1. PICK r \in Nat : r = RemainingOf(probe) /\ r = o.remaining - (now - t)
            BY <2>4, <2>5 DEF RemainingOf, Observations, ServersOK
        <3>2. o.boot = gpu.boot => t + r <= gpu.expires
            BY <2>4, <3>1 DEF Observations, ServersOK
        <3>3. posted' = [id |-> <<b, t>>, seen |-> o, remaining |-> r] /\ gpu' = gpu
            BY <2>4, <2>5, <3>1
        <3>4. Posted(b, t, o, r)'
            BY <2>4, <3>2, <3>3 DEF Posted
        <3> QED BY <3>4 DEF PostOK
    <2> QED BY <2>1, <2>2, <2>3, <2>5
<1>4. CASE PairArrives
    <2> USE <1>4
    <2>1. ServersOK'
        BY DEF ServersOK, PairArrives
    <2>2. ProbeOK' /\ (UNCHANGED readiness => ReceiptOK') /\ (UNCHANGED challenge => ChallengeOK')
        BY MessagesKept DEF ServersOK, PairArrives
    <2>3. PostOK' /\ ChallengeOK'
        BY <2>2 DEF PostOK, ChallengeOK, PairArrives
    <2>4. ASSUME ChallengeMatches, now < cpu.expires PROVE ReceiptOK'
        <3>1. PICK b \in Boots, t \in Nat, o \in Observations, r \in Nat : Posted(b, t, o, r)
            BY DEF PostOK, PairArrives
        <3> USE DEF Posted
        <3>2. challenge.id = <<b, t>> /\ now < challenge.expires
            BY <2>4, <3>1 DEF ChallengeMatches
        <3>3. challenge # NoChallenge
            BY <3>2 DEF NoChallenge, Boots
        <3>4. challenge.expires = t + ChallengeTtl
            BY <3>2, <3>3 DEF ChallengeOK
        <3> DEFINE u == Earliest({now + ReadyTtl, cpu.expires, now + posted.remaining})
        <3>5. u \in Int /\ u <= now + ReadyTtl
            BY <1>0, <3>1, EarliestOfThree DEF ServersOK
        <3>6. readiness' = [until |-> u, cpu |-> cpu, seen |-> o, gpuExpires |-> now + r]
            BY <2>4, <3>1 DEF PairArrives
        <3> HIDE DEF u
        <3>7. u < o.at + ChallengeTtl + ReadyTtl
            BY <1>0, <3>1, <3>2, <3>4, <3>5 DEF ServersOK, Observations
        <3>8. now + r \in Int /\ (o.boot = gpu.boot => now + r < gpu.expires + ChallengeTtl)
            BY <1>0, <3>1, <3>2, <3>4 DEF ServersOK, Observations
        <3>9. UNCHANGED <<cpu, gpu>>
            BY DEF PairArrives
        <3> QED BY <3>1, <3>5, <3>6, <3>7, <3>8, <3>9 DEF ReceiptOK
    <2>5. ~(ChallengeMatches /\ now < cpu.expires) => UNCHANGED readiness
        BY DEF PairArrives
    <2> QED BY <2>1, <2>2, <2>3, <2>4, <2>5
<1>5. CASE Tick \/ GpuRestarts \/ ControllerMoves \/ OutcomeUncertain \/ UNCHANGED readinessVars
    <2>1. /\ ServersOK' /\ now <= now'
          /\ \/ gpu'.boot = gpu.boot /\ gpu'.expires = gpu.expires
             \/ gpu'.boot = gpu.boot + 1
        <3>1. CASE Tick \/ UNCHANGED readinessVars
            BY <3>1 DEF ServersOK, Tick, readinessVars
        <3>2. CASE GpuRestarts
            <4> USE <3>2 DEF GpuRestarts
            <4>1. gpu'.boot = gpu.boot + 1 /\ now' = now /\ now + Life \in Nat /\ gpu.boot + 1 \in Nat
                BY <1>0 DEF ServersOK
            <4>2. ServersOK'
                BY <4>1 DEF ServersOK
            <4> QED BY <4>1, <4>2 DEF ServersOK
        <3>3. CASE ControllerMoves \/ OutcomeUncertain
            <4> USE DEF ControllerMoves, OutcomeUncertain
            <4>1. gpu'.boot = gpu.boot /\ gpu'.expires = gpu.expires /\ now' = now /\ cpu' = cpu
                BY <3>3 DEF ServersOK
            <4>2. gpu' \in [boot : Nat, expires : Nat, policy : Nat, running : BOOLEAN, uncertain : Nat]
                <5>1. CASE gpu' = [gpu EXCEPT !.running = FALSE]
                    BY <5>1 DEF ServersOK
                <5>2. CASE gpu' = [gpu EXCEPT !.running = TRUE]
                    BY <5>2 DEF ServersOK
                <5>3. CASE gpu' = [gpu EXCEPT !.policy = gpu.policy + 1]
                    BY <5>3 DEF ServersOK
                <5>4. CASE gpu' = [gpu EXCEPT !.uncertain = 1]
                    BY <5>4 DEF ServersOK
                <5> QED BY <3>3, <5>1, <5>2, <5>3, <5>4, Zenon
            <4> QED BY <4>1, <4>2 DEF ServersOK
        <3> QED BY <1>5, <3>1, <3>2, <3>3
    <2>2. UNCHANGED <<cpu, probe, posted, readiness, challenge>>
        BY <1>5 DEF Tick, GpuRestarts, ControllerMoves, OutcomeUncertain, readinessVars
    <2> QED BY <2>1, <2>2, MessagesKept DEF ServersOK
<1>6. CASE CpuRestarts
    <2> USE <1>6 DEF CpuRestarts
    <2>1. ServersOK'
        BY <1>0 DEF ServersOK, Boots
    <2>2. ProbeOK' /\ PostOK'
        BY MessagesKept DEF ServersOK
    <2>3. ReceiptOK' /\ ChallengeOK'
        BY DEF ReceiptOK, ChallengeOK
    <2> QED BY <2>1, <2>2, <2>3
<1>7. CASE PairAgain
    <2> USE <1>7 DEF PairAgain
    <2>1. ServersOK'
        BY DEF ServersOK
    <2>2. PostOK' /\ ReceiptOK' /\ ChallengeOK'
        BY MessagesKept DEF ServersOK
    <2>3. ProbeOK'
        BY DEF ProbeOK
    <2> QED BY <2>1, <2>2, <2>3
<1> QED BY <1>1, <1>2, <1>3, <1>4, <1>5, <1>6, <1>7 DEF ReadinessNext

\* Whatever the pages delay and whichever server restarts, an episode is admitted only on an
\* observation made less than one challenge and one receipt lifetime ago, through the CPU server
\* that runs, and the servers outlive it (pair_receipt, check_readiness, guard_gate), for every
\* choice of the lifetimes.
THEOREM AdmissionsAreFresh == ReadinessSpec => []AdmissionsFresh
<1>1. ReadinessInit => ReadinessInv
    BY ReadinessInitInv
<1>2. ReadinessInv /\ [ReadinessNext]_readinessVars => ReadinessInv'
    BY ReadinessStep
<1>3. ReadinessInv => AdmissionsFresh
    <2> SUFFICES ASSUME ReadinessInv, Admits PROVE
            /\ now - readiness.seen.at < ChallengeTtl + ReadyTtl
            /\ readiness.cpu = cpu
            /\ cpu.expires - now >= Required
            /\ gpu.boot = readiness.seen.boot => gpu.expires - now > Required - ChallengeTtl
        BY DEF AdmissionsFresh
    <2>1. PICK o \in Observations, u \in Int, x \in Int :
            /\ readiness = [until |-> u, cpu |-> cpu, seen |-> o, gpuExpires |-> x]
            /\ u < o.at + ChallengeTtl + ReadyTtl
            /\ o.boot <= gpu.boot /\ (o.boot = gpu.boot => x < gpu.expires + ChallengeTtl)
        BY DEF ReadinessInv, ReceiptOK, Admits, Ready
    <2>2. u > now /\ cpu.expires - now >= Required /\ x - now >= Required
        BY <2>1 DEF Admits, Ready
    <2>3. readiness.cpu = cpu /\ readiness.seen = o
        BY <2>1
    <2>4. {ChallengeTtl, ReadyTtl, Required} \subseteq Nat
        BY ReadinessAssumption
    <2> QED BY <2>1, <2>2, <2>3, <2>4 DEF ReadinessInv, ServersOK, Observations
<1> QED BY <1>1, <1>2, <1>3, PTL DEF ReadinessSpec

-----------------------------------------------------------------------------
(* TerminalTrial: the invariant *)

ClientTypes ==
    /\ phase \in [Trials -> {"waiting", "boot", "setup", "agent", "verify", "final", "finalized"}]
    /\ created \in [Trials -> {"no", "pending", "ok", "error"}]
    /\ broken \in [Trials -> BOOLEAN] /\ uncertain \in [Trials -> BOOLEAN]
    /\ cleaning \in [Trials -> {"no", "failure", "final"}]
    /\ wait \in [Trials -> Operations \cup {"none", "drain"}]
    /\ cleanupReceipt \in [Trials -> {"none", "true", "false"}]
DaemonTypes ==
    /\ flying \in [Trials -> SUBSET Operations]
    /\ container \in [Trials -> {"none", "created", "running", "stopped", "gone"}]
    /\ command \in [Trials -> [Commands -> {"none", "running", "done", "killed"}]]
TrialTypeOK == ClientTypes /\ DaemonTypes

\* Each request is an operation of the daemon.
LEMMA RequestTypes == {"create", "start", "stop", "delete", "setup", "agent", "verify"} \subseteq Operations
BY DEF Operations, Commands

\* A container comes from the one create request, which is in flight only before it; it is
\* known to exist once the creation was answered or a stop was sent.  Cleanup is under way
\* only after a create request, and its proof means that the container is gone for good.
ContainerOK(t) ==
    /\ created[t] = "no" => container[t] = "none" /\ "create" \notin flying[t] /\ cleaning[t] = "no"
    /\ "create" \in flying[t] => container[t] = "none" /\ created[t] \in {"pending", "error"}
    /\ created[t] = "ok" \/ wait[t] = "stop" => container[t] # "none"
    /\ cleanupReceipt[t] = "true" => container[t] = "gone"

\* A command that was never asked for, and one that is not and will not be running.
NeverAsked(t, c) == c \notin flying[t] /\ command[t][c] = "none"
Still(t, c) == c \notin flying[t] /\ command[t][c] # "running"

\* Commands follow the phases; the agent's is still whenever the trial goes on without
\* waiting for it, and the verifier's was asked for only when the others were still.
CommandsOK(t) ==
    /\ phase[t] \in {"waiting", "boot"} => NeverAsked(t, "setup")
    /\ phase[t] \in {"waiting", "boot", "setup"} => NeverAsked(t, "agent")
    /\ phase[t] \in {"waiting", "boot", "setup", "agent"} => NeverAsked(t, "verify")
    /\ phase[t] \in {"agent", "verify"} => Still(t, "setup")
    /\ "agent" \in flying[t] => command[t]["agent"] = "none"
    /\ phase[t] \in {"agent", "verify"} /\ ~broken[t] /\ wait[t] \notin {"agent", "drain"} =>
           Still(t, "agent")
    /\ ~NeverAsked(t, "verify") => Still(t, "setup") /\ Still(t, "agent")
    /\ cleaning[t] # "no" => broken[t] \/ phase[t] = "finalized"

TrialInv == TrialTypeOK /\ \A t \in Trials : ContainerOK(t) /\ CommandsOK(t)

\* Nothing is asked of the daemon before a trial is admitted.
LEMMA TrialInitInv == TrialInit => TrialInv
<1> SUFFICES ASSUME TrialInit PROVE TrialInv
    OBVIOUS
<1>1. TrialTypeOK
    BY DEF TrialInit, TrialTypeOK, ClientTypes, DaemonTypes
<1>2. ASSUME NEW t \in Trials PROVE ContainerOK(t) /\ CommandsOK(t)
    BY DEF TrialInit, ContainerOK, CommandsOK, NeverAsked, Still, Commands
<1> QED BY <1>1, <1>2 DEF TrialInv

\* What a step of the daemon changes: the requests in flight, the container, the commands.
LEMMA DaemonInv ==
    ASSUME TrialInv, NEW t \in Trials,
           \/ \E op \in Operations : Lands(t, op) \/ Refused(t, op)
           \/ \E c \in Commands : CommandEnds(t, c)
    PROVE  TrialInv'
<1> USE DEF TrialInv, TrialTypeOK, pouch, harbor, flags
<1>1. ASSUME NEW op \in Operations, Lands(t, op) PROVE TrialInv'
    <2> USE <1>1
    <2>1. TrialTypeOK'
        <3>1. After(op, container[t]) \in {"none", "created", "running", "stopped", "gone"}
            BY DEF After, DaemonTypes
        <3>2. command' \in [Trials -> [Commands -> {"none", "running", "done", "killed"}]]
            BY DEF Lands, DaemonTypes
        <3>3. DaemonTypes'
            BY <3>1, <3>2 DEF Lands, DaemonTypes
        <3>4. ClientTypes'
            BY DEF Lands, ClientTypes
        <3> QED BY <3>3, <3>4
    <2>2. ASSUME NEW u \in Trials PROVE ContainerOK(u)'
        BY SMTT(30) DEF Lands, After, ContainerOK, ClientTypes, DaemonTypes
    <2>3. ASSUME NEW u \in Trials PROVE CommandsOK(u)'
        BY DEF Lands, CommandsOK, ClientTypes, DaemonTypes, NeverAsked, Still, Commands
    <2> QED BY <2>1, <2>2, <2>3
<1>2. ASSUME NEW op \in Operations, Refused(t, op) PROVE TrialInv'
    <2> USE <1>2 DEF Refused
    <2>1. ClientTypes' /\ DaemonTypes'
        <3>1. ClientTypes'
            BY RequestTypes DEF ClientTypes
        <3>2. DaemonTypes'
            BY RequestTypes DEF DaemonTypes, Commands
        <3> QED BY <3>1, <3>2
    <2>2. ASSUME NEW u \in Trials PROVE ContainerOK(u)'
        BY DEF ContainerOK, ClientTypes, DaemonTypes
    <2>3. ASSUME NEW u \in Trials PROVE CommandsOK(u)'
        BY DEF CommandsOK, ClientTypes, DaemonTypes, NeverAsked, Still
    <2> QED BY <2>1, <2>2, <2>3
<1>3. ASSUME NEW c \in Commands, CommandEnds(t, c) PROVE TrialInv'
    <2> USE <1>3 DEF CommandEnds
    <2>1. ClientTypes' /\ DaemonTypes'
        <3>1. ClientTypes'
            BY RequestTypes DEF ClientTypes
        <3>2. DaemonTypes'
            BY RequestTypes DEF DaemonTypes, Commands
        <3> QED BY <3>1, <3>2
    <2>2. ASSUME NEW u \in Trials PROVE ContainerOK(u)'
        BY DEF ContainerOK
    <2>3. ASSUME NEW u \in Trials PROVE CommandsOK(u)'
        BY DEF CommandsOK, ClientTypes, DaemonTypes, NeverAsked, Still, Commands
    <2> QED BY <2>1, <2>2, <2>3
<1> QED BY <1>1, <1>2, <1>3

\* The backend, the relay and the agent's requests to the model touch neither the container
\* nor its commands; a trial starts in the phase before all of them.
LEMMA BackendInv ==
    ASSUME TrialInv,
           \/ \E W \in SUBSET Trials : AdmitGroup(W)
           \/ FinishGroup
           \/ \E t \in Trials : \/ RelayAnswers(t) \/ ExecuteTrial(t) \/ ResultMissing(t)
                                \/ Classify(t) \/ ExecuteRaises(t)
    PROVE  TrialInv'
<1> USE DEF TrialInv, TrialTypeOK, pouch, harbor, flags, daemon
<1>1. \/ UNCHANGED phase
      \/ \E t \in Trials : phase[t] = "waiting" /\ phase' = [phase EXCEPT ![t] = "boot"]
    BY DEF AdmitGroup, FinishGroup, RelayAnswers, ExecuteTrial, ResultMissing, Classify, ExecuteRaises
<1>2. UNCHANGED <<created, broken, uncertain, cleaning, wait, cleanupReceipt, flying, container, command>>
    BY DEF AdmitGroup, FinishGroup, RelayAnswers, ExecuteTrial, ResultMissing, Classify, ExecuteRaises
<1>3. TrialTypeOK'
    BY <1>1, <1>2 DEF ClientTypes, DaemonTypes
<1>4. ASSUME NEW u \in Trials PROVE ContainerOK(u)'
    BY <1>2 DEF ContainerOK
<1>5. ASSUME NEW u \in Trials PROVE CommandsOK(u)'
    BY <1>1, <1>2 DEF CommandsOK, NeverAsked, Still, ClientTypes, DaemonTypes
<1> QED BY <1>3, <1>4, <1>5

\* The environment and the agent: requests and their answers.
LEMMA EnvironmentInv ==
    ASSUME TrialInv, NEW t \in Trials,
           \/ Create(t) \/ CreateReturns(t) \/ StartContainer(t) \/ Started(t) \/ Bootstrap(t)
           \/ Generate(t) \/ Completion(t) \/ GenerationFails(t) \/ CommandReturns(t)
           \/ CancelAgent(t) \/ DrainEnds(t) \/ Verify(t) \/ VerifierReturns(t) \/ Finalize(t)
    PROVE  TrialInv'
<1> USE DEF TrialInv, TrialTypeOK, pouch, flags, daemon, SendRequest, Abandon, IdleClient
<1>1. CASE Create(t)
    <2> USE <1>1 DEF Create
    <2>1. ClientTypes' /\ DaemonTypes'
        <3>1. ClientTypes'
            <4>1. CASE Abandon(t, "final", "other") /\ UNCHANGED <<created, uncertain, cleanupReceipt>>
                BY <4>1 DEF ClientTypes
            <4>2. CASE SendRequest(t, "create")
                BY <4>2, RequestTypes DEF ClientTypes
            <4> QED BY <4>1, <4>2
        <3>2. DaemonTypes'
            BY RequestTypes DEF DaemonTypes, Commands
        <3> QED BY <3>1, <3>2
    <2>2. ASSUME NEW u \in Trials PROVE ContainerOK(u)'
        BY DEF ContainerOK, ClientTypes, DaemonTypes
    <2>3. ASSUME NEW u \in Trials PROVE CommandsOK(u)'
        BY DEF CommandsOK, ClientTypes, DaemonTypes, NeverAsked, Still
    <2> QED BY <2>1, <2>2, <2>3
<1>2. CASE CreateReturns(t)
    <2> USE <1>2 DEF CreateReturns, harbor
    <2>1. ClientTypes' /\ DaemonTypes'
        <3>1. ClientTypes'
            BY RequestTypes DEF ClientTypes
        <3>2. DaemonTypes'
            BY RequestTypes DEF DaemonTypes, Commands
        <3> QED BY <3>1, <3>2
    <2>2. ASSUME NEW u \in Trials PROVE ContainerOK(u)'
        BY DEF ContainerOK, ClientTypes, DaemonTypes
    <2>3. ASSUME NEW u \in Trials PROVE CommandsOK(u)'
        BY DEF CommandsOK, ClientTypes, DaemonTypes, NeverAsked, Still
    <2> QED BY <2>1, <2>2, <2>3
<1>3. CASE StartContainer(t) \/ Started(t)
    <2> USE <1>3 DEF StartContainer, Started
    <2>1. ClientTypes' /\ DaemonTypes'
        <3>1. ClientTypes'
            BY RequestTypes, ZenonT(40) DEF ClientTypes
        <3>2. DaemonTypes'
            BY RequestTypes DEF DaemonTypes, Commands
        <3> QED BY <3>1, <3>2
    <2>2. ASSUME NEW u \in Trials PROVE ContainerOK(u)'
        BY DEF ContainerOK, ClientTypes, DaemonTypes
    <2>3. ASSUME NEW u \in Trials PROVE CommandsOK(u)'
        BY DEF CommandsOK, ClientTypes, DaemonTypes, NeverAsked, Still
    <2> QED BY <2>1, <2>2, <2>3
<1>4. CASE Bootstrap(t)
    <2> USE <1>4 DEF Bootstrap
    <2>1. ClientTypes' /\ DaemonTypes'
        <3>1. ClientTypes'
            BY RequestTypes, ZenonT(40) DEF ClientTypes
        <3>2. DaemonTypes'
            BY RequestTypes DEF DaemonTypes, Commands
        <3> QED BY <3>1, <3>2
    <2>2. ASSUME NEW u \in Trials PROVE ContainerOK(u)'
        BY SMTT(30) DEF ContainerOK, ClientTypes, DaemonTypes
    <2>3. ASSUME NEW u \in Trials PROVE CommandsOK(u)'
        BY DEF CommandsOK, ClientTypes, DaemonTypes, NeverAsked, Still, Answered
    <2> QED BY <2>1, <2>2, <2>3
<1>5. CASE Generate(t) \/ GenerationFails(t) \/ CancelAgent(t)
    <2> USE <1>5 DEF Generate, GenerationFails, CancelAgent
    <2>1. ClientTypes' /\ DaemonTypes'
        <3>1. ClientTypes'
            BY RequestTypes DEF ClientTypes
        <3>2. DaemonTypes'
            BY RequestTypes DEF DaemonTypes, Commands
        <3> QED BY <3>1, <3>2
    <2>2. ASSUME NEW u \in Trials PROVE ContainerOK(u)'
        BY DEF ContainerOK, ClientTypes, DaemonTypes
    <2>3. ASSUME NEW u \in Trials PROVE CommandsOK(u)'
        BY DEF CommandsOK, ClientTypes, DaemonTypes, NeverAsked, Still
    <2> QED BY <2>1, <2>2, <2>3
<1>6. CASE Completion(t)
    <2> USE <1>6 DEF Completion
    <2>1. ClientTypes' /\ DaemonTypes'
        <3>1. ClientTypes'
            BY RequestTypes DEF ClientTypes
        <3>2. DaemonTypes'
            BY RequestTypes DEF DaemonTypes, Commands
        <3> QED BY <3>1, <3>2
    <2>2. ASSUME NEW u \in Trials PROVE ContainerOK(u)'
        BY DEF ContainerOK, ClientTypes, DaemonTypes
    <2>3. ASSUME NEW u \in Trials PROVE CommandsOK(u)'
        BY DEF CommandsOK, ClientTypes, DaemonTypes, NeverAsked, Still, Commands
    <2> QED BY <2>1, <2>2, <2>3
<1>7. CASE CommandReturns(t) \/ DrainEnds(t)
    <2> USE <1>7 DEF CommandReturns, DrainEnds
    <2>1. ClientTypes' /\ DaemonTypes'
        <3>1. ClientTypes'
            BY RequestTypes, ZenonT(40) DEF ClientTypes
        <3>2. DaemonTypes'
            BY RequestTypes DEF DaemonTypes, Commands
        <3> QED BY <3>1, <3>2
    <2>2. ASSUME NEW u \in Trials PROVE ContainerOK(u)'
        BY DEF ContainerOK, ClientTypes, DaemonTypes
    <2>3. ASSUME NEW u \in Trials PROVE CommandsOK(u)'
        BY DEF CommandsOK, ClientTypes, DaemonTypes, NeverAsked, Still, Answered, TerminalProven
    <2> QED BY <2>1, <2>2, <2>3
<1>8. CASE Verify(t)
    <2> USE <1>8 DEF Verify
    <2>1. ClientTypes' /\ DaemonTypes'
        <3>1. ClientTypes'
            BY RequestTypes DEF ClientTypes
        <3>2. DaemonTypes'
            BY RequestTypes DEF DaemonTypes, Commands
        <3> QED BY <3>1, <3>2
    <2>2. ASSUME NEW u \in Trials PROVE ContainerOK(u)'
        BY DEF ContainerOK, ClientTypes, DaemonTypes
    <2>3. ASSUME NEW u \in Trials PROVE CommandsOK(u)'
        BY DEF CommandsOK, ClientTypes, DaemonTypes, NeverAsked, Still
    <2> QED BY <2>1, <2>2, <2>3
<1>9. CASE VerifierReturns(t)
    <2> USE <1>9 DEF VerifierReturns
    <2>1. ClientTypes' /\ DaemonTypes'
        <3>1. ClientTypes'
            BY RequestTypes, ZenonT(40) DEF ClientTypes
        <3>2. DaemonTypes'
            BY RequestTypes DEF DaemonTypes, Commands
        <3> QED BY <3>1, <3>2
    <2>2. ASSUME NEW u \in Trials PROVE ContainerOK(u)'
        BY DEF ContainerOK, ClientTypes, DaemonTypes
    <2>3. ASSUME NEW u \in Trials PROVE CommandsOK(u)'
        BY DEF CommandsOK, ClientTypes, DaemonTypes, NeverAsked, Still
    <2> QED BY <2>1, <2>2, <2>3
<1>10. CASE Finalize(t)
    <2> USE <1>10 DEF Finalize
    <2>1. ClientTypes' /\ DaemonTypes'
        <3>1. ClientTypes'
            BY RequestTypes DEF ClientTypes
        <3>2. DaemonTypes'
            BY RequestTypes DEF DaemonTypes, Commands
        <3> QED BY <3>1, <3>2
    <2>2. ASSUME NEW u \in Trials PROVE ContainerOK(u)'
        BY DEF ContainerOK, ClientTypes, DaemonTypes
    <2>3. ASSUME NEW u \in Trials PROVE CommandsOK(u)'
        BY DEF CommandsOK, ClientTypes, DaemonTypes, NeverAsked, Still
    <2> QED BY <2>1, <2>2, <2>3
<1> QED BY <1>1, <1>2, <1>3, <1>4, <1>5, <1>6, <1>7, <1>8, <1>9, <1>10

\* stop(): absence is taken for proof only when the creation was answered.
LEMMA CleanupInv ==
    ASSUME TrialInv, NEW t \in Trials,
           InspectOwned(t) \/ PollStopped(t) \/ Deleted(t) \/ CleanupRaises(t)
    PROVE  TrialInv'
<1> USE DEF TrialInv, TrialTypeOK, harbor, flags, daemon, SendRequest, CleanupProven, CleanupFails, Delete, Exists
<1>1. CASE InspectOwned(t)
    <2> USE <1>1 DEF InspectOwned, AbsenceProves
    <2>1. ClientTypes' /\ DaemonTypes'
        <3>1. ClientTypes'
            BY RequestTypes DEF ClientTypes
        <3>2. DaemonTypes'
            BY RequestTypes DEF DaemonTypes, Commands
        <3> QED BY <3>1, <3>2
    <2>2. ASSUME NEW u \in Trials PROVE ContainerOK(u)'
        <3>1. CASE ~Exists(t)
            <4>1. uncertain'[t] = (uncertain[t] \/ created[t] = "error")
                BY DEF ClientTypes
            <4>2. created[t] # "no"
                BY DEF ContainerOK
            <4>3. ~uncertain'[t] => container[t] = "gone"
                BY <3>1, <4>1, <4>2 DEF ContainerOK, ClientTypes, DaemonTypes
            <4>4. UNCHANGED <<created, container, flying>>
                BY <3>1
            <4>5. CASE uncertain'[t]
                <5>1. CleanupFails(t, TRUE)
                    BY <3>1, <4>5 DEF AbsenceProves
                <5> QED BY <4>4, <5>1 DEF ContainerOK, ClientTypes
            <4>6. CASE ~uncertain'[t]
                <5>1. CleanupProven(t)
                    BY <3>1, <4>6 DEF AbsenceProves
                <5> QED BY <4>3, <4>4, <4>6, <5>1 DEF ContainerOK, ClientTypes
            <4> QED BY <4>5, <4>6
        <3>2. CASE container[t] = "running"
            BY <3>2 DEF ContainerOK, ClientTypes, DaemonTypes
        <3>3. CASE container[t] \in {"created", "stopped"}
            BY <3>3 DEF ContainerOK, ClientTypes, DaemonTypes
        <3> QED BY <3>1, <3>2, <3>3
    <2>3. ASSUME NEW u \in Trials PROVE CommandsOK(u)'
        BY DEF CommandsOK, ClientTypes, DaemonTypes, NeverAsked, Still
    <2> QED BY <2>1, <2>2, <2>3
<1>2. CASE PollStopped(t)
    <2> USE <1>2 DEF PollStopped
    <2>1. ClientTypes' /\ DaemonTypes'
        <3>1. ClientTypes'
            BY RequestTypes DEF ClientTypes
        <3>2. DaemonTypes'
            BY RequestTypes DEF DaemonTypes, Commands
        <3> QED BY <3>1, <3>2
    <2>2. ASSUME NEW u \in Trials PROVE ContainerOK(u)'
        BY DEF ContainerOK, ClientTypes, DaemonTypes, Answered
    <2>3. ASSUME NEW u \in Trials PROVE CommandsOK(u)'
        <3>1. CASE Exists(t) /\ ~deleteSent[t]
            BY <3>1 DEF CommandsOK, ClientTypes, DaemonTypes, NeverAsked, Still
        <3>2. CASE ~Exists(t) \/ deleteSent[t]
            BY <3>2 DEF CommandsOK, ClientTypes, DaemonTypes, NeverAsked, Still
        <3> QED BY <3>1, <3>2
    <2> QED BY <2>1, <2>2, <2>3
<1>3. CASE Deleted(t) \/ CleanupRaises(t)
    <2> USE <1>3 DEF Deleted, CleanupRaises
    <2>1. ClientTypes' /\ DaemonTypes'
        <3>1. ClientTypes'
            BY RequestTypes, ZenonT(40) DEF ClientTypes
        <3>2. DaemonTypes'
            BY RequestTypes DEF DaemonTypes, Commands
        <3> QED BY <3>1, <3>2
    <2>2. ASSUME NEW u \in Trials PROVE ContainerOK(u)'
        BY DEF ContainerOK, ClientTypes, DaemonTypes, Answered
    <2>3. ASSUME NEW u \in Trials PROVE CommandsOK(u)'
        BY DEF CommandsOK, ClientTypes, DaemonTypes, NeverAsked, Still
    <2> QED BY <2>1, <2>2, <2>3
<1> QED BY <1>1, <1>2, <1>3

\* The invariant holds in every reachable state.
THEOREM TrialInvariant == TrialSpec => []TrialInv
<1>1. TrialInv /\ [TrialNext]_trialVars => TrialInv'
    <2> SUFFICES ASSUME TrialInv, [TrialNext]_trialVars PROVE TrialInv'
        OBVIOUS
    <2>1. CASE UNCHANGED trialVars
        BY <2>1 DEF trialVars, backend, harbor, pouch, flags, daemon, TrialInv, TrialTypeOK, ClientTypes, DaemonTypes, ContainerOK,
            CommandsOK, NeverAsked, Still
    <2>2. ASSUME NEW t \in Trials, TrialStep(t) PROVE TrialInv'
        BY <2>2, DaemonInv, BackendInv, EnvironmentInv, CleanupInv DEF TrialStep
    <2> QED BY <2>1, <2>2, BackendInv DEF TrialNext
<1> QED BY <1>1, TrialInitInv, PTL DEF TrialSpec

\* A cleanup reported verified is real: the container is gone, whatever answers were lost and
\* however late the daemon works; and no command of the agent or the bootstrap runs beside the
\* verifier's (stop, exec), for any trials, waves and turns.
THEOREM TrialEvidenceIsSound == TrialSpec => []TrialEvidenceSound
<1>1. TrialInv => TrialEvidenceSound
    <2> SUFFICES ASSUME TrialInv PROVE TrialEvidenceSound
        OBVIOUS
    <2>1. VerifiedIsGone
        BY DEF TrialInv, ContainerOK, VerifiedIsGone, Exists
    <2>2. GradedStateSettled
        BY DEF TrialInv, CommandsOK, NeverAsked, Still, GradedStateSettled
    <2> QED BY <2>1, <2>2 DEF TrialEvidenceSound
<1> QED BY <1>1, TrialInvariant, PTL

-----------------------------------------------------------------------------
(* Amounts counted by units: n[x] of them for each x of S *)

Blocks(S, n) == UNION {{x} \X (1..n[x]) : x \in S}

\* Finitely many natural amounts are finitely many units.
LEMMA BlocksFinite ==
    ASSUME NEW S, IsFiniteSet(S), NEW n, \A x \in S : n[x] \in Nat
    PROVE  IsFiniteSet(Blocks(S, n)) /\ Cardinality(Blocks(S, n)) \in Nat
<1> DEFINE block(x) == {x} \X (1..n[x])
           T == {block(x) : x \in S}
           f == [x \in S |-> block(x)]
<1>1. f \in Surjection(S, T)
    BY DEF Surjection
<1>2. IsFiniteSet(T)
    <2> HIDE DEF f, T
    <2> QED BY <1>1, FS_Surjection
<1>3. ASSUME NEW x \in S PROVE IsFiniteSet(block(x))
    <2>1. IsFiniteSet({x})
        BY FS_Singleton
    <2>2. n[x] \in Int /\ 1 \in Int
        OBVIOUS
    <2>3. IsFiniteSet(1..n[x])
        BY <2>2, FS_Interval
    <2> QED BY <2>1, <2>3, FS_Product
<1>4. \A B \in T : IsFiniteSet(B)
    BY <1>3
<1>5. IsFiniteSet(UNION T)
    <2> HIDE DEF T
    <2> QED BY <1>2, <1>4, FS_UNION
<1>6. IsFiniteSet(Blocks(S, n))
    BY <1>5 DEF Blocks
<1> QED BY <1>6, FS_CardinalityType

\* Smaller amounts of fewer things are no more units.
LEMMA BlocksSmaller ==
    ASSUME NEW S, IsFiniteSet(S), NEW n, \A x \in S : n[x] \in Nat,
           NEW R \in SUBSET S, NEW m, \A x \in R : m[x] \in Nat /\ m[x] <= n[x]
    PROVE  Cardinality(Blocks(R, m)) <= Cardinality(Blocks(S, n))
<1>1. IsFiniteSet(Blocks(S, n))
    BY BlocksFinite
<1>2. ASSUME NEW x \in R PROVE 1..m[x] \subseteq 1..n[x]
    OBVIOUS
<1>3. Blocks(R, m) \subseteq Blocks(S, n)
    BY <1>2 DEF Blocks
<1> QED BY <1>1, <1>3, FS_Subset

\* One more thing adds at most its amount.
LEMMA BlocksOneMore ==
    ASSUME NEW S, IsFiniteSet(S), NEW y, NEW n, \A x \in S \cup {y} : n[x] \in Nat
    PROVE  Cardinality(Blocks(S \cup {y}, n)) <= Cardinality(Blocks(S, n)) + n[y]
<1> DEFINE one == {y} \X (1..n[y])
<1>1. Blocks(S \cup {y}, n) = Blocks(S, n) \cup one
    BY DEF Blocks
<1>2. IsFiniteSet(Blocks(S, n))
    BY BlocksFinite
<1>3. n[y] \in Nat /\ 1 \in Int
    OBVIOUS
<1>4. IsFiniteSet(1..n[y]) /\ Cardinality(1..n[y]) = n[y]
    BY <1>3, FS_Interval
<1>5. IsFiniteSet({y}) /\ Cardinality({y}) = 1
    BY FS_Singleton
<1>6. IsFiniteSet(one) /\ Cardinality(one) = n[y]
    <2>1. IsFiniteSet(one) /\ Cardinality(one) = Cardinality({y}) * Cardinality(1..n[y])
        BY <1>4, <1>5, FS_Product
    <2>2. 1 * n[y] = n[y]
        BY <1>3
    <2> QED BY <2>1, <2>2, <1>4, <1>5
<1> HIDE DEF one
<1>7. Cardinality(Blocks(S, n) \cup one) =
        Cardinality(Blocks(S, n)) + Cardinality(one) - Cardinality(Blocks(S, n) \cap one)
    BY <1>2, <1>6, FS_Union
<1>8. Cardinality(Blocks(S, n) \cap one) \in Nat /\ Cardinality(Blocks(S, n)) \in Nat
    BY <1>2, <1>6, FS_Intersection, FS_CardinalityType
<1>9. ASSUME NEW a \in Nat, NEW b \in Nat, NEW c \in Nat PROVE a + b - c <= a + b
    OBVIOUS
<1> QED BY <1>1, <1>3, <1>6, <1>7, <1>8, <1>9

-----------------------------------------------------------------------------
(* NativeRunner: the invariant *)

Places == {"new", "infer", "review", "buildq", "build", "hostq", "gpuq", "launch", "child", "done"}
Kinds == {"compile"} \cup {Modes[i] : i \in 1..Len(Modes)}
CleanupStates == {"not_required", "unknown", "verified"}

RunnerTypeOK ==
    /\ turnLimit \in 1..2
    /\ free \subseteq Slots
    /\ held \in [Episodes -> {"none", "admitted", "quarantined"}]
    /\ pc \in [Episodes -> Places]
    /\ slot \in [Episodes -> Slots \cup {NoSlot}]
    /\ mode \in [Episodes -> 1..Len(Modes)]
    /\ cleanup \in [Episodes -> CleanupStates]
    /\ reported \in [Episodes -> CleanupStates]
    /\ alive \in [Slots -> SUBSET (Episodes \X Kinds)]
ProofType == proof \in [Episodes -> BOOLEAN]

OnGpu(j) == pc[j] \in {"launch", "child"}

\* The pool items threads hold: a build item or a GPU, and no GPU twice.
HoldersApart ==
    /\ \A j \in Episodes : pc[j] = "build" => slot[j] \in BuildSlots /\ cleanup[j] = "unknown"
    /\ \A j \in Episodes : OnGpu(j) => slot[j] \in GpuSlots \ free
    /\ \A j, k \in Episodes : OnGpu(j) /\ OnGpu(k) /\ slot[j] = slot[k] => j = k

\* Bytes are held from the admission to the end of the evaluation, or for good.
HostHeld ==
    \A j \in Episodes :
        /\ pc[j] \in {"gpuq", "launch", "child"} <=> held[j] = "admitted"
        /\ held[j] = "quarantined" => pc[j] = "done" /\ reported[j] = "unknown"

\* A GPU in the pool has no process, and a process on a GPU is of the episode that
\* holds it or of one whose memory is quarantined.
GpusOwned ==
    \A s \in GpuSlots :
        /\ s \in free => alive[s] = {}
        /\ \A p \in alive[s] : \/ OnGpu(p[1]) /\ slot[p[1]] = s
                               \/ held[p[1]] = "quarantined"

\* What `proof' stands for: only the process just launched may still be there.
ProofSound ==
    \A j \in Episodes : proof[j] =>
        /\ pc[j] = "launch" => alive[slot[j]] = {}
        /\ pc[j] = "child" => alive[slot[j]] \subseteq {<<j, Modes[mode[j]]>>}

\* With a single turn, a compiler outlives its build only under a cleanup reported unknown.
BuildsOwned ==
    turnLimit = 1 => \A s \in BuildSlots : \A p \in alive[s] :
        \/ pc[p[1]] = "build" /\ slot[p[1]] = s /\ p = <<p[1], "compile">>
        \/ pc[p[1]] = "done" /\ reported[p[1]] = "unknown"

RunnerInv ==
    /\ RunnerTypeOK /\ ProofType /\ HoldersApart /\ HostHeld /\ GpusOwned /\ ProofSound
    /\ BuildsOwned /\ Used <= HostCapacity

-----------------------------------------------------------------------------
(* Bytes of the host budget *)

\* The bytes of a set of episodes, counted by units.
LEMMA ByteBlocks ==
    ASSUME NEW S \in SUBSET Episodes
    PROVE  /\ IsFiniteSet(S) /\ \A j \in S : HostBytes[j] \in Nat
           /\ ByteUnits(S) = Blocks(S, HostBytes)
<1>1. IsFiniteSet(S)
    BY RunnerAssumption, FS_Subset
<1> QED BY <1>1, RunnerAssumption DEF ByteUnits, Blocks

\* Fewer episodes hold no more bytes.
LEMMA FewerBytes ==
    ASSUME NEW S \in SUBSET Episodes, NEW R \in SUBSET S
    PROVE  /\ Cardinality(ByteUnits(R)) \in Nat /\ Cardinality(ByteUnits(S)) \in Nat
           /\ Cardinality(ByteUnits(R)) <= Cardinality(ByteUnits(S))
<1>1. /\ IsFiniteSet(S) /\ \A j \in S : HostBytes[j] \in Nat
      /\ ByteUnits(S) = Blocks(S, HostBytes)
    BY ByteBlocks
<1>2. /\ IsFiniteSet(R) /\ \A j \in R : HostBytes[j] \in Nat /\ HostBytes[j] <= HostBytes[j]
      /\ ByteUnits(R) = Blocks(R, HostBytes)
    <2>1. R \in SUBSET Episodes
        OBVIOUS
    <2>2. IsFiniteSet(R) /\ ByteUnits(R) = Blocks(R, HostBytes)
        BY <2>1, ByteBlocks
    <2> QED BY <1>1, <2>2
<1>3. Cardinality(Blocks(R, HostBytes)) <= Cardinality(Blocks(S, HostBytes))
    BY <1>1, <1>2, BlocksSmaller
<1>4. Cardinality(Blocks(R, HostBytes)) \in Nat /\ Cardinality(Blocks(S, HostBytes)) \in Nat
    BY <1>1, <1>2, BlocksFinite
<1> QED BY <1>1, <1>2, <1>3, <1>4

\* One more episode adds at most its estimate.
LEMMA OneMoreBytes ==
    ASSUME NEW S \in SUBSET Episodes, NEW j \in Episodes
    PROVE  Cardinality(ByteUnits(S \cup {j})) <= Cardinality(ByteUnits(S)) + HostBytes[j]
<1>1. /\ IsFiniteSet(S) /\ ByteUnits(S) = Blocks(S, HostBytes)
    BY ByteBlocks
<1>2. /\ \A x \in S \cup {j} : HostBytes[x] \in Nat
      /\ ByteUnits(S \cup {j}) = Blocks(S \cup {j}, HostBytes)
    <2>1. S \cup {j} \in SUBSET Episodes
        OBVIOUS
    <2> QED BY <2>1, ByteBlocks
<1> QED BY <1>1, <1>2, BlocksOneMore

-----------------------------------------------------------------------------
(* The steps *)

\* When the run starts every pool is full and no process exists.
LEMMA RunnerInitInv == RunnerInit => RunnerInv
<1> SUFFICES ASSUME RunnerInit PROVE RunnerInv
    OBVIOUS
<1>1. Len(Modes) \in Nat /\ Len(Modes) >= 1
    BY RunnerAssumption
<1>2. RunnerTypeOK
    BY <1>1, RunnerAssumption DEF RunnerInit, RunnerTypeOK, Places, CleanupStates, Slots
<1>3. ProofType
    BY DEF RunnerInit, ProofType
<1>4. HoldersApart /\ HostHeld /\ GpusOwned /\ ProofSound /\ BuildsOwned
    BY RunnerAssumption
       DEF RunnerInit, HoldersApart, HostHeld, GpusOwned, ProofSound, BuildsOwned, OnGpu, Slots
<1>5. Used <= HostCapacity
    <2>1. Holding = {}
        BY DEF RunnerInit, Holding
    <2>2. ByteUnits({}) = {}
        BY DEF ByteUnits
    <2>3. Cardinality(ByteUnits(Holding)) = Cardinality({})
        BY <2>1, <2>2
    <2>4. Cardinality({}) = 0 /\ HostCapacity \in Nat
        BY FS_EmptySet, RunnerAssumption
    <2> QED BY <2>3, <2>4 DEF Used
<1> QED BY <1>2, <1>3, <1>4, <1>5 DEF RunnerInv

\* Where an episode has no process: outside its evaluation no GPU has one, and with a
\* single turn nothing runs on a build item outside its build.
LEMMA WhereProcesses ==
    ASSUME RunnerInv, NEW j \in Episodes
    PROVE  /\ pc[j] \notin {"launch", "child", "done"} =>
                 \A s \in GpuSlots : \A p \in alive[s] : p[1] # j
           /\ pc[j] \notin {"build", "done"} /\ turnLimit = 1 =>
                 \A s \in BuildSlots : \A p \in alive[s] : p[1] # j
<1>1. alive \in [Slots -> SUBSET (Episodes \X Kinds)]
    BY DEF RunnerInv, RunnerTypeOK
<1>2. pc[j] \notin {"launch", "child", "done"} => \A s \in GpuSlots : \A p \in alive[s] : p[1] # j
    BY DEF RunnerInv, GpusOwned, HostHeld, OnGpu
<1>3. pc[j] \notin {"build", "done"} /\ turnLimit = 1 => \A s \in BuildSlots : \A p \in alive[s] : p[1] # j
    BY DEF RunnerInv, BuildsOwned
<1> QED BY <1>2, <1>3

\* The step in which episode j goes to place q, where it holds no item, under cleanup
\* state r, its bytes becoming h: what it gives back is unused, and what still runs is
\* covered by a quarantine or by an unknown cleanup.
EpisodeMoves(j, q, r, h) ==
    /\ q \in {"done", "infer", "review", "buildq", "hostq"} /\ r \in CleanupStates
    /\ h \in {"none", "quarantined"}
    /\ pc' = [pc EXCEPT ![j] = q]
    /\ reported' = [reported EXCEPT ![j] = r]
    /\ held' = [held EXCEPT ![j] = h]
    /\ slot' \in [Episodes -> Slots \cup {NoSlot}] /\ \A k \in Episodes \ {j} : slot'[k] = slot[k]
    /\ cleanup' \in [Episodes -> CleanupStates] /\ \A k \in Episodes \ {j} : cleanup'[k] = cleanup[k]
    /\ UNCHANGED <<turnLimit, mode, proof, alive>>

\* A thread that moves on keeps the invariant when it returns a GPU only clean, keeps its bytes
\* while its processes may live, and ends with a cleanup unknown when it leaves a compiler.
LEMMA MovesInv ==
    ASSUME RunnerInv, NEW j \in Episodes, NEW q, NEW r, NEW h, EpisodeMoves(j, q, r, h),
           pc[j] # "done", free' \subseteq Slots,
           \A s \in GpuSlots : s \in free' => s \in free \/ (OnGpu(j) /\ s = slot[j] /\ alive[s] = {}),
           h = "quarantined" => held[j] = "admitted" /\ q = "done" /\ r = "unknown",
           h = "none" => \A s \in GpuSlots : \A p \in alive[s] : p[1] # j,
           turnLimit = 1 => \/ \A s \in BuildSlots : \A p \in alive[s] : p[1] # j
                            \/ q = "done" /\ r = "unknown"
    PROVE  RunnerInv'
<1> USE DEF EpisodeMoves
<1>1. RunnerTypeOK'
    BY DEF RunnerInv, RunnerTypeOK, Places, CleanupStates
<1>2. ProofType'
    BY DEF RunnerInv, ProofType
<1>3. HoldersApart'
    BY DEF RunnerInv, RunnerTypeOK, HoldersApart, OnGpu
<1>4. HostHeld'
    BY DEF RunnerInv, RunnerTypeOK, HostHeld
<1>5. GpusOwned'
    <2> SUFFICES ASSUME NEW s \in GpuSlots
                 PROVE  /\ s \in free' => alive[s] = {}
                        /\ \A p \in alive[s] : \/ OnGpu(p[1])' /\ slot'[p[1]] = s
                                               \/ held'[p[1]] = "quarantined"
        BY DEF GpusOwned
    <2>1. s \in free' => alive[s] = {}
        BY DEF RunnerInv, GpusOwned
    <2>2. ASSUME NEW p \in alive[s]
          PROVE  (OnGpu(p[1])' /\ slot'[p[1]] = s) \/ held'[p[1]] = "quarantined"
        <3>1. p[1] \in Episodes
            BY DEF RunnerInv, RunnerTypeOK, Slots
        <3>2. CASE p[1] = j
            BY <3>1, <3>2 DEF RunnerInv, RunnerTypeOK
        <3>3. CASE p[1] # j
            BY <3>1, <3>3 DEF RunnerInv, RunnerTypeOK, GpusOwned, OnGpu
        <3> QED BY <3>2, <3>3
    <2> QED BY <2>1, <2>2
<1>6. ProofSound'
    BY DEF RunnerInv, RunnerTypeOK, ProofSound
<1>7. BuildsOwned'
    <2> SUFFICES ASSUME turnLimit = 1, NEW s \in BuildSlots, NEW p \in alive[s]
                 PROVE  \/ pc'[p[1]] = "build" /\ slot'[p[1]] = s /\ p = <<p[1], "compile">>
                        \/ pc'[p[1]] = "done" /\ reported'[p[1]] = "unknown"
        BY DEF BuildsOwned
    <2>1. p[1] \in Episodes
        BY DEF RunnerInv, RunnerTypeOK, Slots
    <2>2. CASE p[1] = j
        BY <2>1, <2>2 DEF RunnerInv, RunnerTypeOK
    <2>3. CASE p[1] # j
        BY <2>1, <2>3 DEF RunnerInv, RunnerTypeOK, BuildsOwned
    <2> QED BY <2>2, <2>3
<1>8. (Used <= HostCapacity)'
    <2>1. Holding' \in SUBSET Holding /\ Holding \in SUBSET Episodes
        BY DEF RunnerInv, RunnerTypeOK, Holding
    <2>2. Used' = Cardinality(ByteUnits(Holding'))
        BY DEF Used, ByteUnits
    <2>3. /\ Cardinality(ByteUnits(Holding')) <= Cardinality(ByteUnits(Holding))
          /\ Cardinality(ByteUnits(Holding')) \in Nat /\ Cardinality(ByteUnits(Holding)) \in Nat
        BY <2>1, FewerBytes
    <2>4. Cardinality(ByteUnits(Holding)) <= HostCapacity /\ HostCapacity \in Nat
        BY RunnerAssumption DEF RunnerInv, Used
    <2> QED BY <2>2, <2>3, <2>4
<1> QED BY <1>1, <1>2, <1>3, <1>4, <1>5, <1>6, <1>7, <1>8 DEF RunnerInv

\* How a turn can end: the episode is over, goes to its next turn or to its final
\* verification; it is over when fatal is set on the way or there is one turn only.
LEMMA TurnEnds ==
    ASSUME RunnerTypeOK, NEW j \in Episodes, NEW c \in CleanupStates, NEW stop \in BOOLEAN,
           NEW feedback \in BOOLEAN, NEW correct \in BOOLEAN,
           TurnOver(j, c, stop, feedback, correct)
    PROVE  \E q \in {"done", "infer", "hostq"}, r \in CleanupStates :
             /\ pc' = [pc EXCEPT ![j] = q] /\ reported' = [reported EXCEPT ![j] = r]
             /\ slot' = [slot EXCEPT ![j] = NoSlot]
             /\ cleanup' \in [Episodes -> CleanupStates]
             /\ \A k \in Episodes \ {j} : cleanup'[k] = cleanup[k]
             /\ stop \/ turnLimit = 1 => q = "done"
             /\ turnLimit = 1 => r = c
             /\ q = "done" /\ c = "unknown" => r = "unknown"
<1> DEFINE Goal(q, r) ==
             /\ pc' = [pc EXCEPT ![j] = q] /\ reported' = [reported EXCEPT ![j] = r]
             /\ slot' = [slot EXCEPT ![j] = NoSlot]
             /\ cleanup' \in [Episodes -> CleanupStates]
             /\ \A k \in Episodes \ {j} : cleanup'[k] = cleanup[k]
             /\ stop \/ turnLimit = 1 => q = "done"
             /\ turnLimit = 1 => r = c
             /\ q = "done" /\ c = "unknown" => r = "unknown"
<1>1. /\ slot' = [slot EXCEPT ![j] = NoSlot]
      /\ cleanup' \in [Episodes -> CleanupStates]
      /\ \A k \in Episodes \ {j} : cleanup'[k] = cleanup[k]
    BY DEF TurnOver, RunnerTypeOK, CleanupStates
<1>2. Merged(j, c) \in CleanupStates
    BY DEF Merged, RunnerTypeOK
<1>3. (c = "unknown" => Merged(j, c) = "unknown") /\ (turnLimit = 1 => Merged(j, c) = c)
    BY DEF Merged
<1>4. stop => runnerFatal'
    BY DEF TurnOver
<1>5. turnLimit > 1 => turnLimit # 1
    BY DEF RunnerTypeOK
<1>6. \/ pc' = [pc EXCEPT ![j] = "done"] /\ reported' = [reported EXCEPT ![j] = Merged(j, c)]
      \/ /\ turnLimit > 1 /\ ~stop /\ pc' = [pc EXCEPT ![j] = "infer"]
         /\ reported' = [reported EXCEPT ![j] = Merged(j, c)]
      \/ /\ turnLimit > 1 /\ ~stop /\ pc' = [pc EXCEPT ![j] = "hostq"]
         /\ reported' = [reported EXCEPT ![j] = "unknown"]
    BY <1>4 DEF TurnOver, EpisodeOver, StartVerification
<1>7. CASE pc' = [pc EXCEPT ![j] = "done"] /\ reported' = [reported EXCEPT ![j] = Merged(j, c)]
    <2>1. Goal("done", Merged(j, c))
        BY <1>1, <1>3, <1>7
    <2> QED BY <2>1, <1>2
<1>8. CASE /\ turnLimit > 1 /\ ~stop /\ pc' = [pc EXCEPT ![j] = "infer"]
           /\ reported' = [reported EXCEPT ![j] = Merged(j, c)]
    <2>1. Goal("infer", Merged(j, c))
        BY <1>1, <1>5, <1>8
    <2> QED BY <2>1, <1>2
<1>9. CASE /\ turnLimit > 1 /\ ~stop /\ pc' = [pc EXCEPT ![j] = "hostq"]
           /\ reported' = [reported EXCEPT ![j] = "unknown"]
    <2>1. Goal("hostq", "unknown") /\ "unknown" \in CleanupStates
        BY <1>1, <1>5, <1>9 DEF CleanupStates
    <2> QED BY <2>1
<1> QED BY <1>6, <1>7, <1>8, <1>9

\* The same of an evaluation or of the final verification of an episode.
LEMMA StageEnds ==
    ASSUME RunnerTypeOK, NEW j \in Episodes, NEW c \in CleanupStates, NEW stop \in BOOLEAN,
           NEW feedback \in BOOLEAN, NEW correct \in BOOLEAN,
           StageOver(j, c, stop, feedback, correct)
    PROVE  \E q \in {"done", "infer", "hostq"}, r \in CleanupStates :
             /\ pc' = [pc EXCEPT ![j] = q] /\ reported' = [reported EXCEPT ![j] = r]
             /\ slot' = [slot EXCEPT ![j] = NoSlot]
             /\ cleanup' \in [Episodes -> CleanupStates]
             /\ \A k \in Episodes \ {j} : cleanup'[k] = cleanup[k]
             /\ stop \/ turnLimit = 1 => q = "done"
             /\ turnLimit = 1 => r = c
             /\ q = "done" /\ c = "unknown" => r = "unknown"
<1>1. CASE stage[j] = "verification" /\ turnLimit > 1
    <2>1. turnLimit # 1
        BY <1>1 DEF RunnerTypeOK
    <2>2. /\ pc' = [pc EXCEPT ![j] = "done"] /\ reported' = [reported EXCEPT ![j] = c]
          /\ slot' = [slot EXCEPT ![j] = NoSlot] /\ cleanup' = cleanup
        BY <1>1 DEF StageOver, EpisodeOver
    <2> QED BY <2>1, <2>2 DEF RunnerTypeOK
<1>2. CASE ~(stage[j] = "verification" /\ turnLimit > 1)
    BY <1>2, TurnEnds DEF StageOver
<1> QED BY <1>1, <1>2

\* A turn or an evaluation ends with its slot given back or kept, its bytes returned or kept.
LEMMA EndsInv ==
    ASSUME RunnerInv, NEW j \in Episodes, NEW c \in CleanupStates, NEW stop \in BOOLEAN,
           NEW feedback \in BOOLEAN, NEW correct \in BOOLEAN,
           StageOver(j, c, stop, feedback, correct) \/ TurnOver(j, c, stop, feedback, correct),
           UNCHANGED <<turnLimit, mode, proof, alive>>,
           NEW h \in {"none", "quarantined"}, held' = [held EXCEPT ![j] = h],
           pc[j] # "done", free' \subseteq Slots,
           \A s \in GpuSlots : s \in free' => s \in free \/ (OnGpu(j) /\ s = slot[j] /\ alive[s] = {}),
           h = "quarantined" => held[j] = "admitted" /\ c = "unknown" /\ stop,
           h = "none" => \A s \in GpuSlots : \A p \in alive[s] : p[1] # j,
           turnLimit = 1 => \/ \A s \in BuildSlots : \A p \in alive[s] : p[1] # j
                            \/ c = "unknown"
    PROVE  RunnerInv'
<1>1. RunnerTypeOK
    BY DEF RunnerInv
<1>2. PICK q \in {"done", "infer", "hostq"}, r \in CleanupStates :
             /\ pc' = [pc EXCEPT ![j] = q] /\ reported' = [reported EXCEPT ![j] = r]
             /\ slot' = [slot EXCEPT ![j] = NoSlot]
             /\ cleanup' \in [Episodes -> CleanupStates]
             /\ \A k \in Episodes \ {j} : cleanup'[k] = cleanup[k]
             /\ stop \/ turnLimit = 1 => q = "done"
             /\ turnLimit = 1 => r = c
             /\ q = "done" /\ c = "unknown" => r = "unknown"
    BY <1>1, TurnEnds, StageEnds
<1>3. slot' \in [Episodes -> Slots \cup {NoSlot}] /\ \A k \in Episodes \ {j} : slot'[k] = slot[k]
    BY <1>1, <1>2 DEF RunnerTypeOK
<1>4. EpisodeMoves(j, q, r, h)
    BY <1>2, <1>3 DEF EpisodeMoves
<1>5. h = "quarantined" => held[j] = "admitted" /\ q = "done" /\ r = "unknown"
    BY <1>2
<1>6. turnLimit = 1 => \/ \A s \in BuildSlots : \A p \in alive[s] : p[1] # j
                       \/ q = "done" /\ r = "unknown"
    BY <1>2
<1> QED BY <1>4, <1>5, <1>6, MovesInv

\* Outside an evaluation no bytes are held and nothing runs on a GPU, so a turn that ends
\* there leaves the budget as it is.
LEMMA NothingHeld ==
    ASSUME RunnerInv, NEW j \in Episodes, pc[j] \notin {"gpuq", "launch", "child", "done"},
           UNCHANGED held
    PROVE  /\ held' = [held EXCEPT ![j] = "none"]
           /\ \A s \in GpuSlots : \A p \in alive[s] : p[1] # j
<1>1. held[j] = "none" /\ held \in [Episodes -> {"none", "admitted", "quarantined"}]
    BY DEF RunnerInv, RunnerTypeOK, HostHeld
<1>2. \A s \in GpuSlots : \A p \in alive[s] : p[1] # j
    BY WhereProcesses
<1> QED BY <1>1, <1>2

\* The turn raises before its build or while it waits: nothing of it runs.
LEMMA RaisesInv ==
    ASSUME RunnerInv, NEW j \in Episodes, pc[j] \in {"infer", "review", "buildq"},
           NEW stop \in BOOLEAN, TurnRaises(j, cleanup[j], stop), UNCHANGED turnLimit
    PROVE  RunnerInv'
<1>1. UNCHANGED <<free, held, mode, proof, alive>> /\ TurnOver(j, cleanup[j], stop, FALSE, FALSE)
    BY DEF TurnRaises
<1>2. cleanup[j] \in CleanupStates /\ free \subseteq Slots
    BY DEF RunnerInv, RunnerTypeOK
<1>3. /\ held' = [held EXCEPT ![j] = "none"]
      /\ \A s \in GpuSlots : \A p \in alive[s] : p[1] # j
    BY <1>1, NothingHeld
<1>4. turnLimit = 1 => \A s \in BuildSlots : \A p \in alive[s] : p[1] # j
    BY WhereProcesses
<1> QED BY <1>1, <1>2, <1>3, <1>4, EndsInv

\* An episode is taken up, answered or approved.
LEMMA EarlyInv ==
    ASSUME RunnerInv, NEW j \in Episodes, Dispatch(j) \/ Inferred(j) \/ Approved(j),
           UNCHANGED turnLimit
    PROVE  RunnerInv'
<1>1. /\ pc[j] \in {"new", "infer", "review"}
      /\ UNCHANGED <<free, held, slot, cleanup, reported, mode, proof, alive>>
    BY DEF Dispatch, Inferred, Approved
<1>2. PICK q \in {"done", "infer", "review", "buildq", "hostq"} : pc' = [pc EXCEPT ![j] = q]
    BY DEF Dispatch, Inferred, Approved
<1>3. /\ held' = [held EXCEPT ![j] = "none"]
      /\ \A s \in GpuSlots : \A p \in alive[s] : p[1] # j
    BY <1>1, NothingHeld
<1>4. turnLimit = 1 => \A s \in BuildSlots : \A p \in alive[s] : p[1] # j
    BY <1>1, WhereProcesses
<1>5. EpisodeMoves(j, q, reported[j], "none")
    BY <1>1, <1>2, <1>3 DEF EpisodeMoves, RunnerInv, RunnerTypeOK
<1>6. free' \subseteq Slots
    BY <1>1 DEF RunnerInv, RunnerTypeOK
<1> QED BY <1>1, <1>3, <1>4, <1>5, <1>6, MovesInv

\* A build starts on an item of its pool; the compiler is the episode's only one.
LEMMA StartBuildInv ==
    ASSUME RunnerInv, NEW j \in Episodes, StartBuild(j), UNCHANGED turnLimit
    PROVE  RunnerInv'
<1>1. pc[j] = "buildq"
    BY DEF StartBuild
<1>2. CASE TurnRaises(j, cleanup[j], FALSE)
    BY <1>1, <1>2, RaisesInv
<1>3. CASE ~TurnRaises(j, cleanup[j], FALSE)
    <2>1. PICK s \in free \cap BuildSlots :
              /\ free' = free \ {s}
              /\ slot' = [slot EXCEPT ![j] = s]
              /\ pc' = [pc EXCEPT ![j] = "build"]
              /\ cleanup' = [cleanup EXCEPT ![j] = "unknown"]
              /\ alive' = [alive EXCEPT ![s] = @ \cup {<<j, "compile">>}]
              /\ UNCHANGED <<held, mode, proof, reported>>
        BY <1>3 DEF StartBuild
    <2>2. s \in Slots /\ s \notin GpuSlots
        BY RunnerAssumption DEF Slots
    <2>3. <<j, "compile">> \in Episodes \X Kinds
        BY DEF Kinds
    <2>4. RunnerTypeOK'
        BY <2>1, <2>2, <2>3 DEF RunnerInv, RunnerTypeOK, Places, CleanupStates
    <2>5. ProofType'
        BY <2>1 DEF RunnerInv, ProofType
    <2>6. HoldersApart'
        BY <1>1, <2>1 DEF RunnerInv, RunnerTypeOK, HoldersApart, OnGpu
    <2>7. HostHeld'
        BY <1>1, <2>1 DEF RunnerInv, RunnerTypeOK, HostHeld
    <2>8. \A g \in GpuSlots : alive'[g] = alive[g]
        BY <2>1, <2>2 DEF RunnerInv, RunnerTypeOK, Slots
    <2>9. GpusOwned'
        <3> SUFFICES ASSUME NEW g \in GpuSlots
                     PROVE  /\ g \in free' => alive'[g] = {}
                            /\ \A p \in alive'[g] : \/ OnGpu(p[1])' /\ slot'[p[1]] = g
                                                    \/ held'[p[1]] = "quarantined"
            BY DEF GpusOwned
        <3>1. ASSUME NEW p \in alive[g] PROVE p[1] \in Episodes
            BY DEF RunnerInv, RunnerTypeOK, Slots
        <3> QED BY <1>1, <2>1, <2>8, <3>1 DEF RunnerInv, RunnerTypeOK, GpusOwned, OnGpu
    <2>10. ProofSound'
        BY <1>1, <2>1, <2>8 DEF RunnerInv, RunnerTypeOK, ProofSound, HoldersApart, OnGpu
    <2>11. BuildsOwned'
        <3> SUFFICES ASSUME turnLimit = 1, NEW b \in BuildSlots, NEW p \in alive'[b]
                     PROVE  \/ pc'[p[1]] = "build" /\ slot'[p[1]] = b /\ p = <<p[1], "compile">>
                            \/ pc'[p[1]] = "done" /\ reported'[p[1]] = "unknown"
            BY DEF BuildsOwned
        <3>1. CASE p = <<j, "compile">> /\ b = s
            BY <2>1, <3>1 DEF RunnerInv, RunnerTypeOK
        <3>2. CASE ~(p = <<j, "compile">> /\ b = s)
            <4>1. p \in alive[b]
                BY <2>1, <2>2, <3>2 DEF RunnerInv, RunnerTypeOK, Slots
            <4>2. p[1] \in Episodes /\ p[1] # j
                <5>1. p[1] \in Episodes
                    BY <4>1 DEF RunnerInv, RunnerTypeOK, Slots
                <5> QED BY <5>1, <1>1, <4>1, WhereProcesses
            <4>3. \/ pc[p[1]] = "build" /\ slot[p[1]] = b /\ p = <<p[1], "compile">>
                  \/ pc[p[1]] = "done" /\ reported[p[1]] = "unknown"
                BY <4>1 DEF RunnerInv, BuildsOwned
            <4>4. /\ pc'[p[1]] = pc[p[1]] /\ slot'[p[1]] = slot[p[1]]
                  /\ reported'[p[1]] = reported[p[1]]
                BY <2>1, <4>2 DEF RunnerInv, RunnerTypeOK
            <4> QED BY <4>3, <4>4
        <3> QED BY <3>1, <3>2
    <2>12. (Used <= HostCapacity)'
        BY <2>1 DEF RunnerInv, Used, Holding, ByteUnits
    <2> QED BY <2>4, <2>5, <2>6, <2>7, <2>9, <2>10, <2>11, <2>12 DEF RunnerInv
<1> QED BY <1>2, <1>3

\* The build item goes back or is quarantined; a compiler that is still there is covered
\* by an unknown cleanup.
LEMMA BuildInv ==
    ASSUME RunnerInv, NEW j \in Episodes, UNCHANGED turnLimit,
           BuildEnds(j) \/ BuildStopped(j) \/ BuildUnclean(j) \/ BuildWaitExpires(j)
    PROVE  RunnerInv'
<1>1. pc[j] = "build" /\ UNCHANGED <<held, mode, proof, alive>>
    BY DEF BuildEnds, BuildStopped, BuildUnclean, BuildWaitExpires
<1>2. slot[j] \in BuildSlots /\ cleanup[j] = "unknown" /\ slot[j] \notin GpuSlots
    BY <1>1, RunnerAssumption DEF RunnerInv, HoldersApart
<1>3. free' \subseteq Slots /\ \A s \in GpuSlots : s \in free' => s \in free
    BY <1>2 DEF BuildEnds, BuildStopped, BuildUnclean, BuildWaitExpires, Returned, RunnerInv,
                RunnerTypeOK, Slots
<1>4. /\ held' = [held EXCEPT ![j] = "none"]
      /\ \A s \in GpuSlots : \A p \in alive[s] : p[1] # j
    BY <1>1, NothingHeld
<1>5. BuildGone(j) /\ turnLimit = 1 => \A s \in BuildSlots : \A p \in alive[s] : p[1] # j
    <2> SUFFICES ASSUME BuildGone(j), turnLimit = 1, NEW s \in BuildSlots, NEW p \in alive[s], p[1] = j
                 PROVE  FALSE
        OBVIOUS
    <2>1. slot[j] = s /\ p = <<j, "compile">>
        BY <1>1 DEF RunnerInv, BuildsOwned
    <2> QED BY <2>1 DEF BuildGone
<1>6. {"verified", "unknown"} \subseteq CleanupStates /\ TRUE \in BOOLEAN /\ FALSE \in BOOLEAN
    BY DEF CleanupStates
<1>7. CASE BuildStopped(j)
    BY <1>1, <1>3, <1>4, <1>5, <1>6, <1>7, EndsInv DEF BuildStopped
<1>8. CASE BuildUnclean(j)
    BY <1>1, <1>3, <1>4, <1>6, <1>8, EndsInv DEF BuildUnclean
<1>9. CASE BuildWaitExpires(j)
    BY <1>1, <1>2, <1>3, <1>4, <1>6, <1>9, EndsInv DEF BuildWaitExpires
<1>10. CASE BuildEnds(j)
    <2>1. CASE TurnOver(j, "verified", FALSE, TRUE, FALSE)
        BY <1>1, <1>3, <1>4, <1>5, <1>6, <1>10, <2>1, EndsInv DEF BuildEnds
    <2>2. CASE ~TurnOver(j, "verified", FALSE, TRUE, FALSE)
        <3>1. /\ cleanup' = [cleanup EXCEPT ![j] = "unknown"]
              /\ pc' = [pc EXCEPT ![j] = "hostq"]
              /\ slot' = [slot EXCEPT ![j] = NoSlot]
              /\ reported' = reported
            BY <1>10, <2>2 DEF BuildEnds
        <3>2. EpisodeMoves(j, "hostq", reported[j], "none")
            BY <1>1, <1>4, <3>1 DEF EpisodeMoves, RunnerInv, RunnerTypeOK, CleanupStates
        <3>3. BuildGone(j)
            BY <1>10 DEF BuildEnds
        <3> QED BY <1>1, <1>3, <1>4, <1>5, <3>2, <3>3, MovesInv
    <2> QED BY <2>1, <2>2
<1> QED BY <1>7, <1>8, <1>9, <1>10

\* The head of the line is admitted when its bytes fit.
LEMMA AdmitInv ==
    ASSUME RunnerInv, NEW j \in Episodes, AdmitHost(j), UNCHANGED turnLimit
    PROVE  RunnerInv'
<1>1. /\ pc[j] = "hostq" /\ Used + HostBytes[j] <= HostCapacity
      /\ held' = [held EXCEPT ![j] = "admitted"]
      /\ pc' = [pc EXCEPT ![j] = "gpuq"]
      /\ UNCHANGED <<free, slot, mode, proof, cleanup, reported, alive>>
    BY DEF AdmitHost
<1>2. RunnerTypeOK'
    BY <1>1 DEF RunnerInv, RunnerTypeOK, Places
<1>3. ProofType'
    BY <1>1 DEF RunnerInv, ProofType
<1>4. HoldersApart'
    BY <1>1 DEF RunnerInv, RunnerTypeOK, HoldersApart, OnGpu
<1>5. HostHeld'
    BY <1>1 DEF RunnerInv, RunnerTypeOK, HostHeld
<1>6. ASSUME NEW s \in Slots, NEW p \in alive[s] PROVE p[1] \in Episodes
    BY DEF RunnerInv, RunnerTypeOK
<1>7. GpusOwned'
    <2> SUFFICES ASSUME NEW s \in GpuSlots
                 PROVE  /\ s \in free => alive[s] = {}
                        /\ \A p \in alive[s] : \/ OnGpu(p[1])' /\ slot[p[1]] = s
                                               \/ held'[p[1]] = "quarantined"
        BY <1>1 DEF GpusOwned
    <2>1. ASSUME NEW p \in alive[s] PROVE p[1] \in Episodes /\ p[1] # j
        BY <1>1, <1>6, WhereProcesses DEF Slots
    <2> QED BY <1>1, <2>1 DEF RunnerInv, RunnerTypeOK, GpusOwned, OnGpu
<1>8. ProofSound'
    BY <1>1 DEF RunnerInv, RunnerTypeOK, ProofSound
<1>9. BuildsOwned'
    <2> SUFFICES ASSUME turnLimit = 1, NEW s \in BuildSlots, NEW p \in alive[s]
                 PROVE  \/ pc'[p[1]] = "build" /\ slot[p[1]] = s /\ p = <<p[1], "compile">>
                        \/ pc'[p[1]] = "done" /\ reported[p[1]] = "unknown"
        BY <1>1 DEF BuildsOwned
    <2>1. p[1] \in Episodes /\ p[1] # j
        BY <1>1, <1>6, WhereProcesses DEF Slots
    <2> QED BY <1>1, <2>1 DEF RunnerInv, RunnerTypeOK, BuildsOwned
<1>10. (Used <= HostCapacity)'
    <2>1. Holding' = Holding \cup {j} /\ Holding \in SUBSET Episodes
        BY <1>1 DEF RunnerInv, RunnerTypeOK, Holding
    <2>2. Used' = Cardinality(ByteUnits(Holding'))
        BY DEF Used, ByteUnits
    <2>3. Cardinality(ByteUnits(Holding \cup {j})) <= Cardinality(ByteUnits(Holding)) + HostBytes[j]
        BY <2>1, OneMoreBytes
    <2>4. /\ Cardinality(ByteUnits(Holding)) \in Nat
          /\ Cardinality(ByteUnits(Holding \cup {j})) \in Nat
        <3>1. Holding \cup {j} \in SUBSET Episodes /\ Holding \in SUBSET (Holding \cup {j})
            BY <2>1
        <3> QED BY <3>1, FewerBytes
    <2>5. HostBytes[j] \in Nat /\ HostCapacity \in Nat
        BY RunnerAssumption
    <2>6. Cardinality(ByteUnits(Holding)) + HostBytes[j] <= HostCapacity
        BY <1>1 DEF Used
    <2> QED BY <2>1, <2>2, <2>3, <2>4, <2>5, <2>6
<1> QED BY <1>2, <1>3, <1>4, <1>5, <1>7, <1>8, <1>9, <1>10 DEF RunnerInv

\* What a stage that has not run yet would report.
LEMMA PendingType ==
    ASSUME RunnerInv, NEW j \in Episodes
    PROVE  Pending(j) \in CleanupStates
BY DEF Pending, RunnerInv, RunnerTypeOK

\* The wait for bytes or for a GPU is given up.
LEMMA CancelledInv ==
    ASSUME RunnerInv, NEW j \in Episodes, HostCancelled(j) \/ GpuCancelled(j), UNCHANGED turnLimit
    PROVE  RunnerInv'
<1>1. /\ pc[j] \in {"hostq", "gpuq"} /\ UNCHANGED <<free, mode, proof, alive>>
      /\ StageOver(j, Pending(j), FALSE, FALSE, FALSE)
    BY DEF HostCancelled, GpuCancelled
<1>2. \A s \in GpuSlots : \A p \in alive[s] : p[1] # j
    BY <1>1, WhereProcesses
<1>3. turnLimit = 1 => \A s \in BuildSlots : \A p \in alive[s] : p[1] # j
    BY <1>1, WhereProcesses
<1>4. held' = [held EXCEPT ![j] = "none"]
    <2>1. CASE HostCancelled(j)
        BY <2>1, NothingHeld DEF HostCancelled
    <2>2. CASE GpuCancelled(j)
        BY <2>2 DEF GpuCancelled, HostReturned
    <2> QED BY <2>1, <2>2
<1>5. free' \subseteq Slots
    BY <1>1 DEF RunnerInv, RunnerTypeOK
<1> QED BY <1>1, <1>2, <1>3, <1>4, <1>5, PendingType, EndsInv

\* An evaluation starts on a GPU of the pool, which is unused.
LEMMA StartEvaluationInv ==
    ASSUME RunnerInv, NEW j \in Episodes, StartEvaluation(j), UNCHANGED turnLimit
    PROVE  RunnerInv'
<1>1. PICK s \in free \cap GpuSlots :
          /\ free' = free \ {s}
          /\ slot' = [slot EXCEPT ![j] = s]
    BY DEF StartEvaluation
<1>2. /\ pc[j] = "gpuq" /\ pc' = [pc EXCEPT ![j] = "launch"]
      /\ mode' = [mode EXCEPT ![j] = 1]
      /\ proof' = [proof EXCEPT ![j] = TRUE]
      /\ UNCHANGED <<held, cleanup, reported, alive>>
    BY DEF StartEvaluation
<1>3. s \in Slots /\ alive[s] = {} /\ Len(Modes) \in Nat /\ Len(Modes) >= 1
    BY RunnerAssumption DEF RunnerInv, GpusOwned, Slots
<1>4. RunnerTypeOK'
    BY <1>1, <1>2, <1>3 DEF RunnerInv, RunnerTypeOK, Places
<1>5. ProofType'
    BY <1>2 DEF RunnerInv, ProofType
<1>6. HoldersApart'
    BY <1>1, <1>2 DEF RunnerInv, RunnerTypeOK, HoldersApart, OnGpu
<1>7. HostHeld'
    BY <1>2 DEF RunnerInv, RunnerTypeOK, HostHeld
<1>8. ASSUME NEW t \in Slots, NEW p \in alive[t] PROVE p[1] \in Episodes
    BY DEF RunnerInv, RunnerTypeOK
<1>9. GpusOwned'
    <2> SUFFICES ASSUME NEW t \in GpuSlots
                 PROVE  /\ t \in free' => alive[t] = {}
                        /\ \A p \in alive[t] : \/ OnGpu(p[1])' /\ slot'[p[1]] = t
                                               \/ held[p[1]] = "quarantined"
        BY <1>2 DEF GpusOwned
    <2>1. ASSUME NEW p \in alive[t] PROVE p[1] \in Episodes /\ p[1] # j
        BY <1>2, <1>8, WhereProcesses DEF Slots
    <2> QED BY <1>1, <1>2, <2>1 DEF RunnerInv, RunnerTypeOK, GpusOwned, OnGpu
<1>10. ProofSound'
    <2> SUFFICES ASSUME NEW k \in Episodes, proof'[k]
                 PROVE  /\ pc'[k] = "launch" => alive[slot'[k]] = {}
                        /\ pc'[k] = "child" => alive[slot'[k]] \subseteq {<<k, Modes[mode'[k]]>>}
        BY <1>2 DEF ProofSound
    <2>1. CASE k = j
        BY <1>1, <1>2, <1>3, <2>1 DEF RunnerInv, RunnerTypeOK
    <2>2. CASE k # j
        <3>1. proof[k] /\ pc'[k] = pc[k] /\ slot'[k] = slot[k] /\ mode'[k] = mode[k]
            BY <1>1, <1>2, <2>2 DEF RunnerInv, RunnerTypeOK, ProofType
        <3> QED BY <3>1 DEF RunnerInv, ProofSound
    <2> QED BY <2>1, <2>2
<1>11. BuildsOwned'
    <2> SUFFICES ASSUME turnLimit = 1, NEW b \in BuildSlots, NEW p \in alive[b]
                 PROVE  \/ pc'[p[1]] = "build" /\ slot'[p[1]] = b /\ p = <<p[1], "compile">>
                        \/ pc'[p[1]] = "done" /\ reported[p[1]] = "unknown"
        BY <1>2 DEF BuildsOwned
    <2>1. p[1] \in Episodes /\ p[1] # j
        BY <1>2, <1>8, WhereProcesses DEF Slots
    <2> QED BY <1>1, <1>2, <2>1 DEF RunnerInv, RunnerTypeOK, BuildsOwned
<1>12. (Used <= HostCapacity)'
    BY <1>2 DEF RunnerInv, Used, Holding, ByteUnits
<1> QED BY <1>4, <1>5, <1>6, <1>7, <1>9, <1>10, <1>11, <1>12 DEF RunnerInv

\* The next process of an evaluation is launched on the GPU it holds.
LEMMA LaunchInv ==
    ASSUME RunnerInv, NEW j \in Episodes, LaunchProcess(j), UNCHANGED turnLimit
    PROVE  RunnerInv'
<1> DEFINE new == <<j, Modes[mode[j]]>>
<1>1. /\ pc[j] = "launch" /\ alive' = [alive EXCEPT ![slot[j]] = @ \cup {new}]
      /\ pc' = [pc EXCEPT ![j] = "child"]
      /\ UNCHANGED <<free, held, slot, mode, proof, cleanup, reported>>
    BY DEF LaunchProcess
<1>2. slot[j] \in GpuSlots /\ slot[j] \notin free /\ slot[j] \notin BuildSlots /\ slot[j] \in Slots
    BY <1>1, RunnerAssumption DEF RunnerInv, HoldersApart, OnGpu, Slots
<1>3. new \in Episodes \X Kinds /\ new[1] = j
    BY DEF RunnerInv, RunnerTypeOK, Kinds
<1> HIDE DEF new
<1>4. RunnerTypeOK'
    BY <1>1, <1>2, <1>3 DEF RunnerInv, RunnerTypeOK, Places
<1>5. ProofType'
    BY <1>1 DEF RunnerInv, ProofType
<1>6. HoldersApart'
    BY <1>1 DEF RunnerInv, RunnerTypeOK, HoldersApart, OnGpu
<1>7. HostHeld'
    BY <1>1 DEF RunnerInv, RunnerTypeOK, HostHeld
<1>8. \A s \in Slots : s # slot[j] => alive'[s] = alive[s]
    BY <1>1 DEF RunnerInv, RunnerTypeOK
<1>9. alive'[slot[j]] = alive[slot[j]] \cup {new}
    BY <1>1, <1>2 DEF RunnerInv, RunnerTypeOK
<1>10. \A k \in Episodes : OnGpu(k) <=> OnGpu(k)'
    BY <1>1 DEF RunnerInv, RunnerTypeOK, OnGpu
<1>11. ASSUME NEW t \in Slots, NEW p \in alive[t] PROVE p[1] \in Episodes
    BY DEF RunnerInv, RunnerTypeOK
<1>12. GpusOwned'
    <2> SUFFICES ASSUME NEW s \in GpuSlots
                 PROVE  /\ s \in free => alive'[s] = {}
                        /\ \A p \in alive'[s] : \/ OnGpu(p[1])' /\ slot[p[1]] = s
                                                \/ held[p[1]] = "quarantined"
        BY <1>1 DEF GpusOwned
    <2>1. s \in Slots
        BY DEF Slots
    <2>2. s \in free => alive'[s] = {}
        BY <1>2, <1>8, <2>1 DEF RunnerInv, GpusOwned
    <2>3. ASSUME NEW p \in alive'[s]
          PROVE  (OnGpu(p[1])' /\ slot[p[1]] = s) \/ held[p[1]] = "quarantined"
        <3>1. CASE p = new /\ s = slot[j]
            BY <1>1, <1>3, <1>10, <3>1 DEF OnGpu
        <3>2. CASE ~(p = new /\ s = slot[j])
            <4>1. p \in alive[s]
                BY <1>8, <1>9, <2>1, <3>2
            <4>2. p[1] \in Episodes
                BY <1>11, <2>1, <4>1
            <4> QED BY <1>10, <4>1, <4>2 DEF RunnerInv, GpusOwned
        <3> QED BY <3>1, <3>2
    <2> QED BY <2>2, <2>3
<1>13. ProofSound'
    <2> SUFFICES ASSUME NEW k \in Episodes, proof[k]
                 PROVE  /\ pc'[k] = "launch" => alive'[slot[k]] = {}
                        /\ pc'[k] = "child" => alive'[slot[k]] \subseteq {<<k, Modes[mode[k]]>>}
        BY <1>1 DEF ProofSound
    <2>1. CASE k = j
        <3>1. alive[slot[j]] = {} /\ pc'[j] = "child"
            BY <1>1, <2>1 DEF RunnerInv, RunnerTypeOK, ProofSound
        <3> QED BY <1>9, <2>1, <3>1 DEF new
    <2>2. CASE k # j /\ OnGpu(k)
        <3>1. slot[k] # slot[j] /\ slot[k] \in Slots
            BY <1>1, <2>2 DEF RunnerInv, HoldersApart, OnGpu, Slots
        <3>2. pc'[k] = pc[k] /\ alive'[slot[k]] = alive[slot[k]]
            BY <1>1, <1>8, <2>2, <3>1 DEF RunnerInv, RunnerTypeOK
        <3> QED BY <3>2 DEF RunnerInv, ProofSound
    <2>3. CASE k # j /\ ~OnGpu(k)
        BY <1>10, <2>3 DEF OnGpu
    <2> QED BY <2>1, <2>2, <2>3
<1>14. BuildsOwned'
    <2> SUFFICES ASSUME turnLimit = 1, NEW b \in BuildSlots, NEW p \in alive'[b]
                 PROVE  \/ pc'[p[1]] = "build" /\ slot[p[1]] = b /\ p = <<p[1], "compile">>
                        \/ pc'[p[1]] = "done" /\ reported[p[1]] = "unknown"
        BY <1>1 DEF BuildsOwned
    <2>1. b \in Slots /\ p \in alive[b]
        BY <1>2, <1>8 DEF Slots
    <2>2. p[1] \in Episodes /\ p[1] # j
        BY <1>1, <1>11, <2>1, WhereProcesses
    <2> QED BY <1>1, <2>1, <2>2 DEF RunnerInv, RunnerTypeOK, BuildsOwned
<1>15. (Used <= HostCapacity)'
    BY <1>1 DEF RunnerInv, Used, Holding, ByteUnits
<1> QED BY <1>4, <1>5, <1>6, <1>7, <1>12, <1>13, <1>14, <1>15 DEF RunnerInv

\* The next process follows: the proof of this stage stands only if this one was seen to go.
LEMMA NextModeInv ==
    ASSUME RunnerInv, NEW j \in Episodes, NextMode(j), UNCHANGED turnLimit
    PROVE  RunnerInv'
<1>1. /\ pc[j] = "child" /\ mode[j] < Len(Modes)
      /\ mode' = [mode EXCEPT ![j] = @ + 1]
      /\ pc' = [pc EXCEPT ![j] = "launch"]
      /\ UNCHANGED <<free, held, slot, cleanup, reported, alive>>
    BY DEF NextMode
<1>2. proof' = [proof EXCEPT ![j] = @ /\ SeenGone(j)]
    BY DEF NextMode
<1>3. RunnerTypeOK'
    <2>1. Len(Modes) \in Nat
        BY RunnerAssumption
    <2> QED BY <1>1, <2>1 DEF RunnerInv, RunnerTypeOK, Places
<1>4. ProofType'
    BY <1>2, Zenon DEF RunnerInv, ProofType
<1>5. HoldersApart'
    BY <1>1 DEF RunnerInv, RunnerTypeOK, HoldersApart, OnGpu
<1>6. HostHeld'
    BY <1>1 DEF RunnerInv, RunnerTypeOK, HostHeld
<1>7. \A k \in Episodes : OnGpu(k) <=> OnGpu(k)'
    BY <1>1 DEF RunnerInv, RunnerTypeOK, OnGpu
<1>8. ASSUME NEW t \in Slots, NEW p \in alive[t] PROVE p[1] \in Episodes
    BY DEF RunnerInv, RunnerTypeOK
<1>9. GpusOwned'
    <2> SUFFICES ASSUME NEW s \in GpuSlots
                 PROVE  /\ s \in free => alive[s] = {}
                        /\ \A p \in alive[s] : \/ OnGpu(p[1])' /\ slot[p[1]] = s
                                               \/ held[p[1]] = "quarantined"
        BY <1>1 DEF GpusOwned
    <2>1. ASSUME NEW p \in alive[s] PROVE p[1] \in Episodes
        BY <1>8 DEF Slots
    <2> QED BY <1>7, <2>1 DEF RunnerInv, GpusOwned
<1>10. ProofSound'
    <2> SUFFICES ASSUME NEW k \in Episodes, proof'[k]
                 PROVE  /\ pc'[k] = "launch" => alive[slot[k]] = {}
                        /\ pc'[k] = "child" => alive[slot[k]] \subseteq {<<k, Modes[mode'[k]]>>}
        BY <1>1 DEF ProofSound
    <2>1. CASE k = j
        <3>1. proof[j] /\ SeenGone(j)
            BY <1>2, <2>1, Zenon DEF RunnerInv, ProofType
        <3>2. alive[slot[j]] \subseteq {<<j, Modes[mode[j]]>>}
            BY <1>1, <3>1 DEF RunnerInv, ProofSound
        <3>3. alive[slot[j]] = {}
            BY <3>1, <3>2 DEF SeenGone
        <3>4. pc'[j] = "launch"
            BY <1>1 DEF RunnerInv, RunnerTypeOK
        <3> QED BY <2>1, <3>3, <3>4
    <2>2. CASE k # j
        <3>1. proof[k]
            BY <1>2, <2>2, Zenon DEF RunnerInv, ProofType
        <3>2. pc'[k] = pc[k] /\ mode'[k] = mode[k]
            BY <1>1, <2>2 DEF RunnerInv, RunnerTypeOK
        <3> QED BY <3>1, <3>2 DEF RunnerInv, ProofSound
    <2> QED BY <2>1, <2>2
<1>11. BuildsOwned'
    <2> SUFFICES ASSUME turnLimit = 1, NEW b \in BuildSlots, NEW p \in alive[b]
                 PROVE  \/ pc'[p[1]] = "build" /\ slot[p[1]] = b /\ p = <<p[1], "compile">>
                        \/ pc'[p[1]] = "done" /\ reported[p[1]] = "unknown"
        BY <1>1 DEF BuildsOwned
    <2>1. p[1] \in Episodes /\ p[1] # j
        BY <1>1, <1>8, WhereProcesses DEF Slots
    <2> QED BY <1>1, <2>1 DEF RunnerInv, RunnerTypeOK, BuildsOwned
<1>12. (Used <= HostCapacity)'
    BY <1>1 DEF RunnerInv, Used, Holding, ByteUnits
<1> QED BY <1>3, <1>4, <1>5, <1>6, <1>9, <1>10, <1>11, <1>12 DEF RunnerInv

\* An evaluation with a whole proof leaves its GPU empty.
LEMMA CleanMeansGone ==
    ASSUME RunnerInv, NEW j \in Episodes, pc[j] = "child", Clean(j)
    PROVE  /\ alive[slot[j]] = {}
           /\ \A s \in GpuSlots : \A p \in alive[s] : p[1] # j
<1>1. proof[j] /\ SeenGone(j)
    BY DEF Clean
<1>2. alive[slot[j]] \subseteq {<<j, Modes[mode[j]]>>}
    BY <1>1 DEF RunnerInv, ProofSound
<1>3. alive[slot[j]] = {}
    BY <1>1, <1>2 DEF SeenGone
<1>4. held[j] # "quarantined"
    BY DEF RunnerInv, HostHeld
<1>5. ASSUME NEW s \in GpuSlots, NEW p \in alive[s], p[1] = j PROVE FALSE
    BY <1>3, <1>4, <1>5 DEF RunnerInv, GpusOwned
<1> QED BY <1>3, <1>5

\* The evaluation gives its GPU and its bytes back when all of its processes are gone, and
\* keeps both when one may not be.
LEMMA EvaluationInv ==
    ASSUME RunnerInv, NEW j \in Episodes, UNCHANGED turnLimit,
           EvaluationEnds(j) \/ EvaluationStopped(j) \/ EvaluationUnclean(j)
    PROVE  RunnerInv'
<1>1. pc[j] \in {"launch", "child"} /\ UNCHANGED <<mode, proof, alive>>
    BY DEF EvaluationEnds, EvaluationStopped, EvaluationUnclean
<1>2. slot[j] \in Slots /\ OnGpu(j) /\ held[j] = "admitted" /\ free \subseteq Slots
    BY <1>1 DEF RunnerInv, RunnerTypeOK, HoldersApart, HostHeld, OnGpu, Slots
<1>3. turnLimit = 1 => \A s \in BuildSlots : \A p \in alive[s] : p[1] # j
    BY <1>1, WhereProcesses
<1>4. {"verified", "unknown"} \subseteq CleanupStates /\ TRUE \in BOOLEAN /\ FALSE \in BOOLEAN
    BY DEF CleanupStates
<1>5. CASE EvaluationUnclean(j)
    <2>1. free' = free /\ held' = [held EXCEPT ![j] = "quarantined"]
        BY <1>5 DEF EvaluationUnclean, Returned, HostReturned
    <2>2. StageOver(j, "unknown", TRUE, FALSE, FALSE)
        BY <1>5 DEF EvaluationUnclean
    <2> QED BY <1>1, <1>2, <1>3, <1>4, <2>1, <2>2, EndsInv
<1>6. CASE EvaluationEnds(j) \/ EvaluationStopped(j)
    <2>1. pc[j] = "child" /\ Clean(j)
        BY <1>6 DEF EvaluationEnds, EvaluationStopped
    <2>2. /\ alive[slot[j]] = {}
          /\ \A s \in GpuSlots : \A p \in alive[s] : p[1] # j
        BY <2>1, CleanMeansGone
    <2>3. free' = free \cup {slot[j]} /\ held' = [held EXCEPT ![j] = "none"]
        BY <1>6 DEF EvaluationEnds, EvaluationStopped, Returned, HostReturned
    <2>4. /\ free' \subseteq Slots
          /\ \A s \in GpuSlots : s \in free' => s \in free \/ (OnGpu(j) /\ s = slot[j] /\ alive[s] = {})
        BY <1>2, <2>2, <2>3
    <2>5. CASE EvaluationStopped(j)
        <3>1. StageOver(j, "verified", TRUE, FALSE, FALSE)
            BY <2>5 DEF EvaluationStopped
        <3> QED BY <1>1, <1>3, <1>4, <2>2, <2>3, <2>4, <3>1, EndsInv
    <2>6. CASE EvaluationEnds(j)
        <3>1. PICK correct \in BOOLEAN :
                  IF turnLimit = 1 /\ stage[j] = "evaluation" /\ correct
                  THEN /\ cleanup' = [cleanup EXCEPT ![j] = "unknown"]
                       /\ slot' = [slot EXCEPT ![j] = NoSlot]
                       /\ StartVerification(j)
                       /\ UNCHANGED <<runnerFatal, turn, best, reported>>
                  ELSE StageOver(j, "verified", FALSE, TRUE, correct)
            BY <2>6 DEF EvaluationEnds
        <3>2. CASE StageOver(j, "verified", FALSE, TRUE, correct)
            BY <1>1, <1>3, <1>4, <2>2, <2>3, <2>4, <3>2, EndsInv
        <3>3. CASE ~StageOver(j, "verified", FALSE, TRUE, correct)
            <4>1. /\ cleanup' = [cleanup EXCEPT ![j] = "unknown"]
                  /\ slot' = [slot EXCEPT ![j] = NoSlot]
                  /\ pc' = [pc EXCEPT ![j] = "hostq"]
                  /\ reported' = reported
                BY <3>1, <3>3 DEF StartVerification
            <4>2. EpisodeMoves(j, "hostq", reported[j], "none")
                BY <1>1, <2>3, <4>1 DEF EpisodeMoves, RunnerInv, RunnerTypeOK, CleanupStates
            <4> QED BY <1>1, <1>3, <2>2, <2>4, <4>2, MovesInv
        <3> QED BY <3>2, <3>3
    <2> QED BY <1>6, <2>5, <2>6
<1> QED BY <1>5, <1>6

\* A process that goes takes nothing else with it.
LEMMA GoneInv ==
    ASSUME RunnerInv, NEW t \in Slots, ProcessGone(t), UNCHANGED turnLimit
    PROVE  RunnerInv'
<1>1. /\ UNCHANGED <<free, held, pc, slot, mode, proof, cleanup, reported>>
      /\ \E p \in alive[t] : alive' = [alive EXCEPT ![t] = @ \ {p}]
    BY DEF ProcessGone
<1>2. alive' \in [Slots -> SUBSET (Episodes \X Kinds)] /\ \A s \in Slots : alive'[s] \subseteq alive[s]
    BY <1>1 DEF RunnerInv, RunnerTypeOK
<1>3. RunnerTypeOK'
    BY <1>1, <1>2 DEF RunnerInv, RunnerTypeOK
<1>4. ProofType' /\ HoldersApart' /\ HostHeld'
    BY <1>1 DEF RunnerInv, ProofType, HoldersApart, HostHeld, OnGpu
<1>5. GpusOwned'
    BY <1>1, <1>2 DEF RunnerInv, GpusOwned, OnGpu, Slots
<1>6. ProofSound'
    <2> SUFFICES ASSUME NEW k \in Episodes, proof[k]
                 PROVE  /\ pc[k] = "launch" => alive'[slot[k]] = {}
                        /\ pc[k] = "child" => alive'[slot[k]] \subseteq {<<k, Modes[mode[k]]>>}
        BY <1>1 DEF ProofSound
    <2>1. OnGpu(k) => slot[k] \in Slots
        BY DEF RunnerInv, HoldersApart, Slots
    <2> QED BY <1>2, <2>1 DEF RunnerInv, ProofSound, OnGpu
<1>7. BuildsOwned'
    BY <1>1, <1>2 DEF RunnerInv, BuildsOwned, Slots
<1>8. (Used <= HostCapacity)'
    BY <1>1 DEF RunnerInv, Used, Holding, ByteUnits
<1> QED BY <1>3, <1>4, <1>5, <1>6, <1>7, <1>8 DEF RunnerInv

\* Cancellation, closing and the return of run() touch no pool and no process.
LEMMA QuietInv ==
    ASSUME RunnerInv,
           UNCHANGED <<turnLimit, free, held, pc, slot, mode, proof, cleanup, reported, alive>>
    PROVE  RunnerInv'
<1>1. RunnerTypeOK'
    BY DEF RunnerInv, RunnerTypeOK
<1>2. ProofType' /\ HoldersApart' /\ HostHeld' /\ GpusOwned' /\ ProofSound' /\ BuildsOwned'
    BY DEF RunnerInv, ProofType, HoldersApart, HostHeld, GpusOwned, ProofSound, BuildsOwned, OnGpu
<1>3. (Used <= HostCapacity)'
    BY DEF RunnerInv, Used, Holding, ByteUnits
<1> QED BY <1>1, <1>2, <1>3 DEF RunnerInv

\* Every step of the runner preserves the invariant.
LEMMA RunnerNextInv == RunnerInv /\ [RunnerNext]_runnerVars => RunnerInv'
<1> SUFFICES ASSUME RunnerInv, [RunnerNext]_runnerVars PROVE RunnerInv'
    OBVIOUS
<1>1. CASE UNCHANGED runnerVars
    BY <1>1, QuietInv DEF runnerVars
<1>2. CASE RunnerNext
    <2>1. UNCHANGED turnLimit
        BY <1>2 DEF RunnerNext
    <2>2. ASSUME NEW j \in Episodes, EpisodeStep(j) PROVE RunnerInv'
        <3>1. CASE Dispatch(j) \/ Inferred(j) \/ Approved(j)
            BY <2>1, <3>1, EarlyInv
        <3>2. CASE InferenceFails(j)
            BY <2>1, <3>2, RaisesInv DEF InferenceFails
        <3>3. CASE NotApproved(j) \/ ReservationStopped(j)
            BY <2>1, <3>3, RaisesInv DEF NotApproved, ReservationStopped
        <3>4. CASE StartBuild(j)
            BY <2>1, <3>4, StartBuildInv
        <3>5. CASE BuildEnds(j) \/ BuildStopped(j) \/ BuildUnclean(j) \/ BuildWaitExpires(j)
            BY <2>1, <3>5, BuildInv
        <3>6. CASE AdmitHost(j)
            BY <2>1, <3>6, AdmitInv
        <3>7. CASE HostCancelled(j) \/ GpuCancelled(j)
            BY <2>1, <3>7, CancelledInv
        <3>8. CASE StartEvaluation(j)
            BY <2>1, <3>8, StartEvaluationInv
        <3>9. CASE LaunchProcess(j)
            BY <2>1, <3>9, LaunchInv
        <3>10. CASE NextMode(j)
            BY <2>1, <3>10, NextModeInv
        <3>11. CASE EvaluationEnds(j) \/ EvaluationStopped(j) \/ EvaluationUnclean(j)
            BY <2>1, <3>11, EvaluationInv
        <3> QED BY <2>2, <3>1, <3>2, <3>3, <3>4, <3>5, <3>6, <3>7, <3>8, <3>9, <3>10, <3>11
                DEF EpisodeStep
    <2>3. ASSUME NEW s \in Slots, ProcessGone(s) PROVE RunnerInv'
        BY <2>1, <2>3, GoneInv
    <2>4. CASE Cancel \/ Close
        BY <2>1, <2>4, QuietInv DEF Cancel, Close
    <2>5. CASE RunReturns
        BY <2>5, QuietInv DEF RunReturns, runnerVars
    <2> QED BY <1>2, <2>2, <2>3, <2>4, <2>5 DEF RunnerNext
<1> QED BY <1>1, <1>2

\* The invariant says what the runner promises.
LEMMA RunnerPromises == RunnerInv => ReleasedClean /\ VerifiedMeansReaped
<1> SUFFICES ASSUME RunnerInv PROVE ReleasedClean /\ VerifiedMeansReaped
    OBVIOUS
<1>1. ASSUME NEW j \in Episodes, held[j] # "quarantined", ~OnGpu(j)
      PROVE  Running(j) \cap GpuSlots = {}
    BY <1>1 DEF RunnerInv, GpusOwned, Running, Slots
<1>2. ReleasedClean
    <2>1. ASSUME NEW j \in Episodes, held[j] = "none" PROVE Running(j) \cap GpuSlots = {}
        <3>1. ~OnGpu(j)
            BY <2>1 DEF RunnerInv, HostHeld, OnGpu
        <3> QED BY <1>1, <2>1, <3>1
    <2> QED BY <2>1 DEF RunnerInv, GpusOwned, ReleasedClean
<1>3. VerifiedMeansReaped
    <2> SUFFICES ASSUME NEW j \in Episodes, pc[j] = "done", reported[j] # "unknown"
                 PROVE  /\ Running(j) \cap GpuSlots = {}
                        /\ turnLimit = 1 => Running(j) = {}
        BY DEF VerifiedMeansReaped
    <2>1. Running(j) \cap GpuSlots = {}
        BY <1>1 DEF RunnerInv, HostHeld, OnGpu
    <2>2. turnLimit = 1 => Running(j) \cap BuildSlots = {}
        BY DEF RunnerInv, BuildsOwned, Running, Slots
    <2>3. Running(j) \subseteq BuildSlots \cup GpuSlots
        BY DEF Running, Slots
    <2> QED BY <2>1, <2>2, <2>3
<1> QED BY <1>2, <1>3

\* The invariant holds throughout every run of the native runner.
THEOREM RunnerSafe == RunnerSpec => []RunnerInv
BY RunnerInitInv, RunnerNextInv, PTL DEF RunnerSpec

\* For any episodes, pools, budget and turn limit: a GPU or bytes that can be given on are
\* unused, and no more bytes are given out than there are (reservation, evaluator_memory).
THEOREM ReleasesAreClean == RunnerSpec => []ReleasedClean
BY RunnerSafe, RunnerPromises, PTL

\* An episode that reports its cleanup verified, or not required, left no process on a GPU,
\* and none at all when it has a single turn (turn(), episode(), run_process).
THEOREM VerifiedIsReaped == RunnerSpec => []VerifiedMeansReaped
BY RunnerSafe, RunnerPromises, PTL

-----------------------------------------------------------------------------
(* InputCache: the invariant *)

CacheEntry == [bytes : Nat, tier : {"ram", "disk"}, state : {"generating", "ready"},
          producer : Consumers, leases : SUBSET Nat]
Lease == [id : Nat, key : Keys]
ChildStates == {"new", "idle", "calling", "making", "killed", "gone"}
Calls == {NoCall} \cup [op : {"acquire"}, key : Keys] \cup [op : {"abort"}, key : Keys \cup {NoKey}]
         \cup [op : {"publish"}, key : Keys, size : Nat] \cup [op : {"release"}, lease : Lease]

CacheTypeOK ==
    /\ DOMAIN entries \subseteq Keys /\ entries \in [DOMAIN entries -> CacheEntry]
    /\ DOMAIN cacheLeases \subseteq Consumers
    /\ cacheLeases \in [DOMAIN cacheLeases -> SUBSET Lease]
    /\ issued \in Nat
    /\ call \in [Consumers -> Calls]
    /\ child \in [Consumers -> ChildStates]
    /\ making \in [Consumers -> Keys \cup {NoKey}]
    /\ mapped \in [Consumers -> SUBSET Lease]

\* A lease stands on a ready entry that knows it, and no other lease has its number.
LeasesStand ==
    /\ \A c \in DOMAIN cacheLeases : \A l \in cacheLeases[c] :
           /\ l.id <= issued /\ l.key \in DOMAIN entries
           /\ entries[l.key].state = "ready" /\ l.id \in entries[l.key].leases
    /\ \A c, d \in DOMAIN cacheLeases : \A l \in cacheLeases[c], m \in cacheLeases[d] :
           l.id = m.id => c = d /\ l = m
    /\ \A c \in DOMAIN cacheLeases : IsFiniteSet(cacheLeases[c])

\* A process maps only what it leases, nothing before it starts or after it is gone, and not
\* the storage whose lease it is giving up.
MapsLeased ==
    \A c \in Consumers :
        /\ \A l \in mapped[c] : c \in DOMAIN cacheLeases /\ l \in cacheLeases[c]
        /\ child[c] \in {"new", "gone"} => mapped[c] = {}
        /\ call[c].op = "release" => call[c].lease \notin mapped[c]

CacheInv == CacheTypeOK /\ LeasesStand /\ MapsLeased /\ CacheBounded

-----------------------------------------------------------------------------
(* Storage and copies, counted *)

\* A dict of entries: keys of the cache, natural sizes.
Dict(es) == DOMAIN es \subseteq Keys /\ es \in [DOMAIN es -> CacheEntry]

Sizes(es) == [k \in DOMAIN es |-> es[k].bytes]
OfTier(es, tier) == {k \in DOMAIN es : es[k].tier = tier}

\* The storage of a tier, as units.
LEMMA StorageBlocks ==
    ASSUME NEW es, NEW tier, Dict(es)
    PROVE  /\ IsFiniteSet(DOMAIN es) /\ IsFiniteSet(OfTier(es, tier))
           /\ \A k \in DOMAIN es : Sizes(es)[k] \in Nat
           /\ UsedBy(es, tier) = Cardinality(Blocks(OfTier(es, tier), Sizes(es)))
           /\ UsedBy(es, tier) \in Nat
<1>1. IsFiniteSet(DOMAIN es) /\ IsFiniteSet(OfTier(es, tier))
    BY CacheAssumption, FS_Subset DEF Dict, OfTier
<1>2. \A k \in DOMAIN es : Sizes(es)[k] \in Nat
    BY DEF Dict, Sizes, CacheEntry
<1>3. Storage(es, tier) = Blocks(OfTier(es, tier), Sizes(es))
    BY DEF Storage, Blocks, OfTier, Sizes
<1>4. \A k \in OfTier(es, tier) : Sizes(es)[k] \in Nat
    BY <1>2 DEF OfTier
<1> QED BY <1>1, <1>2, <1>3, <1>4, BlocksFinite DEF UsedBy

\* Fewer and smaller entries take no more storage.
LEMMA StorageShrinks ==
    ASSUME NEW es, NEW fs, NEW tier, Dict(es), Dict(fs), DOMAIN fs \subseteq DOMAIN es,
           \A k \in DOMAIN fs : fs[k].tier = es[k].tier /\ fs[k].bytes <= es[k].bytes
    PROVE  UsedBy(fs, tier) <= UsedBy(es, tier) /\ Cardinality(DOMAIN fs) <= Cardinality(DOMAIN es)
<1>1. OfTier(fs, tier) \in SUBSET OfTier(es, tier)
    BY DEF OfTier
<1>2. \A k \in OfTier(fs, tier) : Sizes(fs)[k] \in Nat /\ Sizes(fs)[k] <= Sizes(es)[k]
    BY StorageBlocks DEF OfTier, Sizes
<1>3. \A k \in OfTier(es, tier) : Sizes(es)[k] \in Nat
    BY StorageBlocks DEF OfTier
<1>4. UsedBy(fs, tier) <= UsedBy(es, tier)
    BY <1>1, <1>2, <1>3, StorageBlocks, BlocksSmaller
<1>5. Cardinality(DOMAIN fs) <= Cardinality(DOMAIN es)
    BY StorageBlocks, FS_Subset
<1> QED BY <1>4, <1>5

\* An entry more takes its reservation of its own tier.
LEMMA StorageGrows ==
    ASSUME NEW es, NEW tier \in {"ram", "disk"}, Dict(es), NEW k \in Keys, k \notin DOMAIN es,
           NEW new \in CacheEntry, NEW fs,
           fs = [x \in DOMAIN es \cup {k} |-> IF x = k THEN new ELSE es[x]]
    PROVE  /\ Dict(fs)
           /\ tier = new.tier => UsedBy(fs, tier) <= UsedBy(es, tier) + new.bytes
           /\ tier # new.tier => UsedBy(fs, tier) <= UsedBy(es, tier)
           /\ Cardinality(DOMAIN fs) = Cardinality(DOMAIN es) + 1
<1>1. DOMAIN fs = DOMAIN es \cup {k} /\ fs[k] = new /\ \A x \in DOMAIN es : fs[x] = es[x]
    OBVIOUS
<1>2. Dict(fs)
    BY <1>1 DEF Dict
<1>3. Cardinality(DOMAIN fs) = Cardinality(DOMAIN es) + 1
    BY <1>1, StorageBlocks, FS_AddElement
<1>4. \A x \in OfTier(es, tier) : Sizes(es)[x] \in Nat /\ Sizes(fs)[x] = Sizes(es)[x] /\ Sizes(fs)[x] \in Nat
    BY <1>1, StorageBlocks DEF OfTier, Sizes
<1>5. Blocks(OfTier(es, tier), Sizes(fs)) = Blocks(OfTier(es, tier), Sizes(es))
    BY <1>4 DEF Blocks
<1>6. CASE tier = new.tier
    <2>1. OfTier(fs, tier) = OfTier(es, tier) \cup {k}
        BY <1>1, <1>6 DEF OfTier
    <2>2. Sizes(fs)[k] = new.bytes /\ new.bytes \in Nat
        BY <1>1 DEF Sizes, CacheEntry
    <2>3. \A x \in OfTier(es, tier) \cup {k} : Sizes(fs)[x] \in Nat
        BY <1>4, <2>2
    <2>4. IsFiniteSet(OfTier(es, tier))
        BY StorageBlocks
    <2>5. Cardinality(Blocks(OfTier(es, tier) \cup {k}, Sizes(fs)))
            <= Cardinality(Blocks(OfTier(es, tier), Sizes(fs))) + Sizes(fs)[k]
        BY <2>3, <2>4, BlocksOneMore
    <2>6. UsedBy(fs, tier) = Cardinality(Blocks(OfTier(fs, tier), Sizes(fs)))
        BY <1>2, StorageBlocks
    <2>7. UsedBy(es, tier) = Cardinality(Blocks(OfTier(es, tier), Sizes(es)))
        BY StorageBlocks
    <2> QED BY <1>2, <1>3, <1>5, <1>6, <2>1, <2>2, <2>5, <2>6, <2>7
<1>7. CASE tier # new.tier
    <2>1. OfTier(fs, tier) = OfTier(es, tier)
        BY <1>1, <1>7 DEF OfTier
    <2>2. UsedBy(fs, tier) = Cardinality(Blocks(OfTier(fs, tier), Sizes(fs)))
        BY <1>2, StorageBlocks
    <2>3. UsedBy(es, tier) = Cardinality(Blocks(OfTier(es, tier), Sizes(es))) /\ UsedBy(es, tier) \in Nat
        BY StorageBlocks
    <2>4. UsedBy(fs, tier) = UsedBy(es, tier)
        BY <1>5, <2>1, <2>2, <2>3
    <2> QED BY <1>2, <1>3, <1>7, <2>3, <2>4
<1> QED BY <1>6, <1>7

\* What the search for room removes is ready and unleased.
LEMMA SpaceEvicts ==
    ASSUME NEW es, NEW tier, NEW size, Dict(es)
    PROVE  \E K \in SUBSET DOMAIN es :
               /\ Space(es, tier, size) = Without(es, K)
               /\ \A k \in K : es[k].state = "ready" /\ es[k].leases = {}
<1>1. ASSUME NEW n
      PROVE  /\ Oldest(es, tier, n) \in SUBSET DOMAIN es
             /\ \A k \in Oldest(es, tier, n) : es[k].state = "ready" /\ es[k].leases = {}
    BY DEF Oldest, Evictable
<1>2. es = Without(es, {})
    BY DEF Without, Dict
<1>3. CASE size > Capacity[tier]
    <2>1. Space(es, tier, size) = es
        BY <1>3 DEF Space
    <2> QED BY <1>2, <2>1
<1>4. CASE ~(size > Capacity[tier])
    <2>1. PICK n : Space(es, tier, size) = Without(es, Oldest(es, tier, n))
        BY <1>4 DEF Space
    <2> QED BY <1>1, <2>1
<1> QED BY <1>3, <1>4

\* A part of the dict is a dict.
LEMMA WithoutDict ==
    ASSUME NEW es, Dict(es), NEW K
    PROVE  /\ Dict(Without(es, K)) /\ DOMAIN Without(es, K) = DOMAIN es \ K
           /\ \A k \in DOMAIN es \ K : Without(es, K)[k] = es[k]
BY DEF Dict, Without

\* The same of the search through both tiers.
LEMMA RoomEvicts ==
    ASSUME CacheTypeOK, NEW size, NEW es \in {AfterRam(size), AfterDisk(size)}
    PROVE  \E K \in SUBSET DOMAIN entries :
               /\ es = Without(entries, K)
               /\ \A k \in K : entries[k].state = "ready" /\ entries[k].leases = {}
<1>1. Dict(entries)
    BY DEF CacheTypeOK, Dict
<1>2. entries = Without(entries, {})
    BY <1>1 DEF Without, Dict
<1>3. \E K \in SUBSET DOMAIN entries :
               /\ AfterRam(size) = Without(entries, K)
               /\ \A k \in K : entries[k].state = "ready" /\ entries[k].leases = {}
    <2>1. CASE Capacity["ram"] > 0
        BY <1>1, <2>1, SpaceEvicts DEF AfterRam
    <2>2. CASE ~(Capacity["ram"] > 0)
        BY <1>2, <2>2 DEF AfterRam
    <2> QED BY <2>1, <2>2
<1>4. CASE es = AfterRam(size)
    BY <1>3, <1>4
<1>5. CASE es = AfterDisk(size) /\ ~(Capacity["disk"] > 0)
    BY <1>3, <1>5 DEF AfterDisk
<1>6. CASE es = AfterDisk(size) /\ Capacity["disk"] > 0
    <2>1. PICK K \in SUBSET DOMAIN entries :
               /\ AfterRam(size) = Without(entries, K)
               /\ \A k \in K : entries[k].state = "ready" /\ entries[k].leases = {}
        BY <1>3
    <2>2. PICK ram : ram = AfterRam(size)
        OBVIOUS
    <2>3. ram = Without(entries, K)
        BY <2>1, <2>2
    <2>4. /\ Dict(ram) /\ DOMAIN ram = DOMAIN entries \ K
          /\ \A k \in DOMAIN entries \ K : ram[k] = entries[k]
        BY <1>1, <2>3, WithoutDict
    <2>5. PICK L \in SUBSET DOMAIN ram :
               /\ Space(ram, "disk", size) = Without(ram, L)
               /\ \A k \in L : ram[k].state = "ready" /\ ram[k].leases = {}
        <3>1. Dict(ram)
            BY <2>4
        <3> QED BY <3>1, SpaceEvicts, SMTT(30)
    <2>6. es = Without(ram, L)
        BY <1>6, <2>2, <2>5 DEF AfterDisk
    <2>7. Without(ram, L) = Without(entries, K \cup L)
        BY <2>4 DEF Without
    <2>8. K \cup L \in SUBSET DOMAIN entries
        BY <2>1, <2>4, <2>5
    <2>9. \A k \in K \cup L : entries[k].state = "ready" /\ entries[k].leases = {}
        BY <2>1, <2>4, <2>5
    <2> QED BY <2>6, <2>7, <2>8, <2>9
<1> QED BY <1>4, <1>5, <1>6

-----------------------------------------------------------------------------
(* The steps *)

\* The dict of a type-correct state.
LEMMA EntriesDict ==
    /\ CacheTypeOK => Dict(entries)
    /\ CacheTypeOK' => Dict(entries')
BY DEF CacheTypeOK, Dict

\* The copies of a consumer, as units.
CopySizes(es, ls) == [l \in ls |-> es[l.key].bytes]

\* They are natural amounts.
LEMMA CopiesBlocks ==
    ASSUME NEW es, Dict(es), NEW ls, IsFiniteSet(ls), \A l \in ls : l.key \in DOMAIN es
    PROVE  /\ \A l \in ls : CopySizes(es, ls)[l] \in Nat
           /\ Cardinality(Blocks(ls, CopySizes(es, ls))) \in Nat
<1>1. \A l \in ls : CopySizes(es, ls)[l] \in Nat
    BY DEF CopySizes, Dict, CacheEntry
<1> QED BY <1>1, BlocksFinite

\* Private counts them, before and after a step.
LEMMA PrivateBlocks ==
    ASSUME NEW c
    PROVE  /\ Private(c) = Cardinality(Blocks(cacheLeases[c], CopySizes(entries, cacheLeases[c])))
           /\ Private(c)' = Cardinality(Blocks(cacheLeases'[c], CopySizes(entries', cacheLeases'[c])))
<1>1. Copies(c) = Blocks(cacheLeases[c], CopySizes(entries, cacheLeases[c]))
    BY DEF Copies, Blocks, CopySizes
<1>2. Copies(c)' = Blocks(cacheLeases'[c], CopySizes(entries', cacheLeases'[c]))
    BY DEF Copies, Blocks, CopySizes
<1> QED BY <1>1, <1>2 DEF Private

\* The limits hold on when entries only go or shrink, and no consumer's copies grow.
LEMMA BoundsKept ==
    ASSUME CacheInv, CacheTypeOK', LeasesStand', DOMAIN entries' \subseteq DOMAIN entries,
           \A k \in DOMAIN entries' : /\ entries'[k].tier = entries[k].tier
                                      /\ entries'[k].bytes <= entries[k].bytes,
           \A c \in DOMAIN cacheLeases' :
               \/ cacheLeases'[c] = {}
               \/ /\ c \in DOMAIN cacheLeases /\ cacheLeases'[c] \subseteq cacheLeases[c]
                  /\ \A l \in cacheLeases'[c] : entries'[l.key].bytes = entries[l.key].bytes,
           \A k \in DOMAIN entries' :
               entries'[k].state = "generating" => entries'[k].producer \in DOMAIN cacheLeases'
    PROVE  CacheBounded'
<1>1. Dict(entries) /\ Dict(entries') /\ CacheTypeOK /\ LeasesStand
    BY EntriesDict DEF CacheInv
<1>2. ASSUME NEW tier \in {"ram", "disk"} PROVE UsedBy(entries', tier) <= Capacity[tier]
    <2>1. UsedBy(entries', tier) <= UsedBy(entries, tier)
        BY <1>1, StorageShrinks
    <2>2. UsedBy(entries, tier) <= Capacity[tier] /\ Capacity[tier] \in Nat
        BY CacheAssumption DEF CacheInv, CacheBounded
    <2>3. UsedBy(entries, tier) \in Nat /\ UsedBy(entries', tier) \in Nat
        BY <1>1, StorageBlocks
    <2> QED BY <2>1, <2>2, <2>3
<1>3. Cardinality(DOMAIN entries') <= MaxEntries
    <2>1. Cardinality(DOMAIN entries') <= Cardinality(DOMAIN entries)
        BY <1>1, StorageShrinks
    <2>2. Cardinality(DOMAIN entries) <= MaxEntries /\ MaxEntries \in Nat
        BY CacheAssumption DEF CacheInv, CacheBounded
    <2>3. Cardinality(DOMAIN entries) \in Nat /\ Cardinality(DOMAIN entries') \in Nat
        BY <1>1, StorageBlocks, FS_CardinalityType
    <2> QED BY <2>1, <2>2, <2>3
<1>4. ASSUME NEW c \in DOMAIN cacheLeases' PROVE Private(c)' <= CopyLimit
    <2> DEFINE new == CopySizes(entries', cacheLeases'[c])
    <2>1. /\ \A l \in cacheLeases'[c] : new[l] \in Nat
          /\ Private(c)' = Cardinality(Blocks(cacheLeases'[c], new))
          /\ Private(c)' \in Nat
        <3>1. IsFiniteSet(cacheLeases'[c]) /\ \A l \in cacheLeases'[c] : l.key \in DOMAIN entries'
            BY <1>4 DEF LeasesStand
        <3> QED BY <1>1, <3>1, CopiesBlocks, PrivateBlocks
    <2>2. CASE cacheLeases'[c] = {}
        <3>1. Blocks({}, new) = {}
            BY DEF Blocks
        <3> HIDE DEF new
        <3>2. Cardinality({}) = 0 /\ CopyLimit \in Nat
            BY FS_EmptySet, CacheAssumption
        <3> QED BY <2>1, <2>2, <3>1, <3>2
    <2>3. CASE cacheLeases'[c] # {}
        <3>1. /\ c \in DOMAIN cacheLeases /\ cacheLeases'[c] \subseteq cacheLeases[c]
              /\ \A l \in cacheLeases'[c] : entries'[l.key].bytes = entries[l.key].bytes
            BY <2>3
        <3> DEFINE old == CopySizes(entries, cacheLeases[c])
        <3>2. /\ IsFiniteSet(cacheLeases[c])
              /\ \A l \in cacheLeases[c] : old[l] \in Nat
              /\ Private(c) = Cardinality(Blocks(cacheLeases[c], old))
              /\ Private(c) \in Nat
            <4>1. IsFiniteSet(cacheLeases[c]) /\ \A l \in cacheLeases[c] : l.key \in DOMAIN entries
                BY <1>1, <3>1 DEF LeasesStand
            <4> QED BY <1>1, <4>1, CopiesBlocks, PrivateBlocks
        <3>3. \A l \in cacheLeases'[c] : new[l] \in Nat /\ new[l] <= old[l]
            <4>1. \A l \in cacheLeases'[c] : new[l] = old[l]
                BY <3>1 DEF CopySizes
            <4> QED BY <2>1, <4>1
        <3> HIDE DEF new, old
        <3>4. Cardinality(Blocks(cacheLeases'[c], new)) <= Cardinality(Blocks(cacheLeases[c], old))
            BY <3>1, <3>2, <3>3, BlocksSmaller
        <3>5. Private(c) <= CopyLimit /\ CopyLimit \in Nat
            BY <3>1, CacheAssumption DEF CacheInv, CacheBounded
        <3> QED BY <2>1, <3>2, <3>4, <3>5
    <2> QED BY <2>2, <2>3
<1> QED BY <1>2, <1>3, <1>4 DEF CacheBounded, Registered, UsedBy, Storage

\* At first nothing is registered, cached or mapped.
LEMMA CacheInitInv == CacheInit => CacheInv
<1> SUFFICES ASSUME CacheInit PROVE CacheInv
    OBVIOUS
<1>1. DOMAIN entries = {} /\ DOMAIN cacheLeases = {}
    BY DEF CacheInit
<1>2. entries \in [DOMAIN entries -> CacheEntry] /\ cacheLeases \in [DOMAIN cacheLeases -> SUBSET Lease]
    BY <1>1 DEF CacheInit
<1>3. CacheTypeOK
    BY <1>1, <1>2 DEF CacheInit, CacheTypeOK, Calls, ChildStates
<1>4. LeasesStand
    BY <1>1 DEF LeasesStand
<1>5. MapsLeased
    BY DEF CacheInit, MapsLeased, NoCall
<1>6. CacheBounded
    <2>1. ASSUME NEW tier \in {"ram", "disk"} PROVE UsedBy(entries, tier) <= Capacity[tier]
        <3>1. Storage(entries, tier) = {}
            BY <1>1 DEF Storage
        <3>2. UsedBy(entries, tier) = Cardinality({})
            BY <3>1 DEF UsedBy
        <3>3. Cardinality({}) = 0 /\ Capacity[tier] \in Nat
            BY FS_EmptySet, CacheAssumption
        <3> QED BY <3>2, <3>3
    <2>2. Cardinality(DOMAIN entries) <= MaxEntries
        <3>1. Cardinality(DOMAIN entries) = Cardinality({})
            BY <1>1
        <3>2. Cardinality({}) = 0 /\ MaxEntries \in Nat
            BY FS_EmptySet, CacheAssumption
        <3> QED BY <3>1, <3>2
    <2> QED BY <1>1, <2>1, <2>2 DEF CacheBounded
<1> QED BY <1>3, <1>4, <1>5, <1>6 DEF CacheInv

\* A handler thread is done and its child, if it lives, goes on: nobody starts to give up
\* a lease, and no process starts or goes.
LEMMA HandlerReplied ==
    ASSUME CacheTypeOK, NEW c \in Consumers, NEW state \in ChildStates \ {"new", "gone"},
           Free(c), Replied(c, state)
    PROVE  /\ call' \in [Consumers -> Calls] /\ child' \in [Consumers -> ChildStates]
           /\ \A d \in Consumers : call'[d].op = "release" => call'[d] = call[d]
           /\ \A d \in Consumers : child'[d] \in {"new", "gone"} => child[d] \in {"new", "gone"}
<1>1. NoCall \in Calls /\ NoCall.op = "none"
    BY DEF Calls, NoCall
<1>2. call' = [call EXCEPT ![c] = NoCall] /\ child' = [child EXCEPT ![c] = IF @ = "calling" THEN state ELSE @]
    BY DEF Free, Replied
<1>3. call \in [Consumers -> Calls] /\ child \in [Consumers -> ChildStates]
    BY DEF CacheTypeOK
<1> QED BY <1>1, <1>2, <1>3

\* A child sends a request: only a release names a lease.
LEMMA Sent ==
    ASSUME CacheTypeOK, NEW c \in Consumers, NEW request \in Calls, Sends(c, request)
    PROVE  /\ call' \in [Consumers -> Calls] /\ child' \in [Consumers -> ChildStates]
           /\ call'[c] = request /\ \A d \in Consumers \ {c} : call'[d] = call[d]
           /\ \A d \in Consumers : child'[d] \in {"new", "gone"} => child[d] \in {"new", "gone"}
BY DEF Sends, CacheTypeOK, ChildStates

\* A step that leaves the entries and the leases alone.
LEMMA QuietCacheInv ==
    ASSUME CacheInv, UNCHANGED <<entries, cacheLeases, issued>>,
           call' \in [Consumers -> Calls], child' \in [Consumers -> ChildStates],
           mapped' \in [Consumers -> SUBSET Lease],
           making' \in [Consumers -> Keys \cup {NoKey}],
           \A d \in Consumers :
               /\ mapped'[d] \subseteq mapped[d]
               /\ call'[d].op = "release" => call'[d] = call[d] \/ call'[d].lease \notin mapped'[d]
               /\ child'[d] \in {"new", "gone"} => child[d] \in {"new", "gone"} \/ mapped'[d] = {}
    PROVE  CacheInv'
<1>1. CacheTypeOK'
    BY DEF CacheInv, CacheTypeOK
<1>2. LeasesStand'
    BY DEF CacheInv, LeasesStand
<1>3. MapsLeased'
    BY DEF CacheInv, MapsLeased
<1>4. CacheBounded'
    BY DEF CacheInv, CacheBounded, UsedBy, Storage, Private, Copies, Registered
<1> QED BY <1>1, <1>2, <1>3, <1>4 DEF CacheInv

\* The child's side: requests, the end of a mapping, its death.
LEMMA ChildInv ==
    ASSUME CacheInv, NEW c \in Consumers,
           \/ Aborts(c) \/ Killed(c) \/ Gone(c)
           \/ \E k \in Keys : Asks(c, k)
           \/ \E k \in Keys : \E size \in 0..Reserve[k] : Publishes(c, k, size)
           \/ \E l \in mapped[c] : Unmaps(c, l)
    PROVE  CacheInv'
<1>1. CacheTypeOK /\ mapped \in [Consumers -> SUBSET Lease] /\ call \in [Consumers -> Calls]
      /\ child \in [Consumers -> ChildStates] /\ making \in [Consumers -> Keys \cup {NoKey}]
    BY DEF CacheInv, CacheTypeOK
<1>2. ASSUME NEW request \in Calls, Sends(c, request), request.op # "release",
             UNCHANGED <<entries, cacheLeases, issued, making, mapped>>
      PROVE  CacheInv'
    BY <1>1, <1>2, Sent, QuietCacheInv
<1>3. CASE Aborts(c)
    <2>1. [op |-> "abort", key |-> making[c]] \in Calls
        BY <1>1 DEF Calls
    <2> QED BY <1>2, <1>3, <2>1 DEF Aborts
<1>4. CASE \E k \in Keys : Asks(c, k)
    <2>1. PICK k \in Keys : Asks(c, k)
        BY <1>4
    <2>2. [op |-> "acquire", key |-> k] \in Calls
        BY DEF Calls
    <2> QED BY <1>2, <2>1, <2>2 DEF Asks
<1>5. CASE \E k \in Keys : \E size \in 0..Reserve[k] : Publishes(c, k, size)
    <2>1. PICK k \in Keys : \E size \in 0..Reserve[k] : Publishes(c, k, size)
        BY <1>5
    <2>2. PICK size \in 0..Reserve[k] : Publishes(c, k, size)
        BY <2>1
    <2>3. size \in Nat
        BY CacheAssumption
    <2>4. [op |-> "publish", key |-> k, size |-> size] \in Calls
        BY <2>3 DEF Calls
    <2> QED BY <1>2, <2>2, <2>4 DEF Publishes
<1>6. CASE \E l \in mapped[c] : Unmaps(c, l)
    <2>1. PICK l \in mapped[c] : Unmaps(c, l)
        BY <1>6
    <2>2. l \in Lease
        BY <1>1
    <2>3. [op |-> "release", lease |-> l] \in Calls
        BY <2>2 DEF Calls
    <2>4. /\ Sends(c, [op |-> "release", lease |-> l]) /\ mapped' = [mapped EXCEPT ![c] = @ \ {l}]
          /\ UNCHANGED <<entries, cacheLeases, issued, making>>
        BY <2>1 DEF Unmaps
    <2>5. /\ call' \in [Consumers -> Calls] /\ child' \in [Consumers -> ChildStates]
          /\ call'[c] = [op |-> "release", lease |-> l]
          /\ \A d \in Consumers \ {c} : call'[d] = call[d]
          /\ \A d \in Consumers : child'[d] \in {"new", "gone"} => child[d] \in {"new", "gone"}
        BY <1>1, <2>3, <2>4, Sent
    <2>6. call'[c].lease \notin mapped'[c]
        BY <1>1, <2>4, <2>5
    <2>7. /\ mapped' \in [Consumers -> SUBSET Lease]
          /\ \A d \in Consumers : mapped'[d] \subseteq mapped[d]
        BY <1>1, <2>4
    <2> QED BY <1>1, <2>4, <2>5, <2>6, <2>7, QuietCacheInv
<1>7. CASE Killed(c)
    <2>1. /\ child' = [child EXCEPT ![c] = "killed"] /\ making' = [making EXCEPT ![c] = NoKey]
          /\ UNCHANGED <<entries, cacheLeases, issued, call, mapped>>
        BY <1>7 DEF Killed
    <2>2. /\ child' \in [Consumers -> ChildStates] /\ making' \in [Consumers -> Keys \cup {NoKey}]
          /\ \A d \in Consumers : child'[d] \in {"new", "gone"} => child[d] \in {"new", "gone"}
        BY <1>1, <2>1 DEF ChildStates
    <2> QED BY <1>1, <2>1, <2>2, QuietCacheInv
<1>8. CASE Gone(c)
    <2>1. /\ child' = [child EXCEPT ![c] = "gone"] /\ mapped' = [mapped EXCEPT ![c] = {}]
          /\ UNCHANGED <<entries, cacheLeases, issued, call, making>>
        BY <1>8 DEF Gone
    <2>2. /\ child' \in [Consumers -> ChildStates] /\ mapped' \in [Consumers -> SUBSET Lease]
          /\ \A d \in Consumers :
               /\ mapped'[d] \subseteq mapped[d]
               /\ child'[d] \in {"new", "gone"} => child[d] \in {"new", "gone"} \/ mapped'[d] = {}
        BY <1>1, <2>1 DEF ChildStates
    <2> QED BY <1>1, <2>1, <2>2, QuietCacheInv
<1> QED BY <1>3, <1>4, <1>5, <1>6, <1>7, <1>8

\* A request that is refused or bypassed changes nothing in the cache.
LEMMA RefusedInv ==
    ASSUME CacheInv, NEW c \in Consumers, Refuses(c) \/ WaitTimesOut(c) \/ OverBudget(c)
    PROVE  CacheInv'
<1>1. PICK state \in ChildStates \ {"new", "gone"} : Free(c) /\ Replied(c, state)
    BY DEF Refuses, WaitTimesOut, OverBudget, ChildStates
<1>2. UNCHANGED <<entries, cacheLeases, issued, making, mapped>>
    BY DEF Refuses, WaitTimesOut, OverBudget
<1>3. /\ CacheTypeOK /\ mapped \in [Consumers -> SUBSET Lease]
      /\ making \in [Consumers -> Keys \cup {NoKey}]
    BY DEF CacheInv, CacheTypeOK
<1>4. /\ call' \in [Consumers -> Calls] /\ child' \in [Consumers -> ChildStates]
      /\ \A d \in Consumers : call'[d].op = "release" => call'[d] = call[d]
      /\ \A d \in Consumers : child'[d] \in {"new", "gone"} => child[d] \in {"new", "gone"}
    BY <1>1, <1>3, HandlerReplied
<1> QED BY <1>2, <1>3, <1>4, QuietCacheInv

\* Leases that are left where they stood still stand.
LEMMA FewerLeases ==
    ASSUME LeasesStand, issued' = issued,
           \A d \in DOMAIN cacheLeases' : IsFiniteSet(cacheLeases'[d]),
           \A d \in DOMAIN cacheLeases' : \A l \in cacheLeases'[d] :
               d \in DOMAIN cacheLeases /\ l \in cacheLeases[d],
           \A d \in DOMAIN cacheLeases' : \A l \in cacheLeases'[d] :
               /\ l.key \in DOMAIN entries' /\ entries'[l.key].state = "ready"
               /\ l.id \in entries'[l.key].leases
    PROVE  LeasesStand'
<1>1. \A d \in DOMAIN cacheLeases' : \A l \in cacheLeases'[d] : l.id <= issued'
    BY DEF LeasesStand
<1>2. ASSUME NEW d \in DOMAIN cacheLeases', NEW e \in DOMAIN cacheLeases',
             NEW l \in cacheLeases'[d], NEW m \in cacheLeases'[e], l.id = m.id
      PROVE  d = e /\ l = m
    <2>1. d \in DOMAIN cacheLeases /\ l \in cacheLeases[d] /\ e \in DOMAIN cacheLeases /\ m \in cacheLeases[e]
        OBVIOUS
    <2> QED BY <1>2, <2>1 DEF LeasesStand
<1> QED BY <1>1, <1>2 DEF LeasesStand

\* A child is launched: its consumer has no leases yet.
LEMMA BeginInv ==
    ASSUME CacheInv, NEW c \in Consumers, Begin(c)
    PROVE  CacheInv'
<1>1. /\ child[c] = "new" /\ child' = [child EXCEPT ![c] = "idle"]
      /\ cacheLeases' = [d \in DOMAIN cacheLeases \cup {c} |-> IF d = c THEN {} ELSE cacheLeases[d]]
      /\ UNCHANGED <<entries, issued, call, making, mapped>>
    BY DEF Begin
<1>2. /\ DOMAIN cacheLeases' = DOMAIN cacheLeases \cup {c} /\ cacheLeases'[c] = {}
      /\ \A d \in DOMAIN cacheLeases : d # c => cacheLeases'[d] = cacheLeases[d]
    BY <1>1
<1>3. CacheTypeOK'
    <2>1. cacheLeases' \in [DOMAIN cacheLeases' -> SUBSET Lease] /\ DOMAIN cacheLeases' \subseteq Consumers
        BY <1>1, <1>2 DEF CacheInv, CacheTypeOK
    <2>2. child' \in [Consumers -> ChildStates]
        BY <1>1 DEF CacheInv, CacheTypeOK, ChildStates
    <2> QED BY <1>1, <2>1, <2>2 DEF CacheInv, CacheTypeOK
<1>4. LeasesStand'
    <2>1. \A d \in DOMAIN cacheLeases' : \A l \in cacheLeases'[d] : d \in DOMAIN cacheLeases /\ l \in cacheLeases[d]
        BY <1>2
    <2>2. \A d \in DOMAIN cacheLeases' : IsFiniteSet(cacheLeases'[d])
        BY <1>2, FS_EmptySet DEF CacheInv, LeasesStand
    <2>3. LeasesStand /\ UNCHANGED <<entries, issued>>
        BY <1>1 DEF CacheInv
    <2>4. \A d \in DOMAIN cacheLeases' : \A l \in cacheLeases'[d] :
               /\ l.key \in DOMAIN entries' /\ entries'[l.key].state = "ready"
               /\ l.id \in entries'[l.key].leases
        BY <2>1, <2>3 DEF LeasesStand
    <2> QED BY <2>1, <2>2, <2>3, <2>4, FewerLeases
<1>5. MapsLeased'
    BY <1>1, <1>2 DEF CacheInv, CacheTypeOK, MapsLeased
<1>6. CacheBounded'
    <2>1. /\ DOMAIN entries' \subseteq DOMAIN entries
          /\ \A k \in DOMAIN entries' : /\ entries'[k].tier = entries[k].tier
                                        /\ entries'[k].bytes <= entries[k].bytes
        BY <1>1 DEF CacheInv, CacheTypeOK, CacheEntry
    <2>2. \A d \in DOMAIN cacheLeases' :
               \/ cacheLeases'[d] = {}
               \/ /\ d \in DOMAIN cacheLeases /\ cacheLeases'[d] \subseteq cacheLeases[d]
                  /\ \A l \in cacheLeases'[d] : entries'[l.key].bytes = entries[l.key].bytes
        BY <1>1, <1>2
    <2>3. \A k \in DOMAIN entries' :
               entries'[k].state = "generating" => entries'[k].producer \in DOMAIN cacheLeases'
        BY <1>1, <1>2 DEF CacheInv, CacheBounded, Registered
    <2> QED BY <1>3, <1>4, <2>1, <2>2, <2>3, BoundsKept
<1> QED BY <1>3, <1>4, <1>5, <1>6 DEF CacheInv

\* Entries nobody leases go: the leases stand on the others.
LEMMA EvictedInv ==
    ASSUME CacheInv, NEW K, entries' = Without(entries, K),
           \A k \in K \cap DOMAIN entries :
               entries[k].state = "generating" \/ entries[k].leases = {},
           UNCHANGED <<cacheLeases, issued, mapped>>,
           call' \in [Consumers -> Calls], child' \in [Consumers -> ChildStates],
           making' \in [Consumers -> Keys \cup {NoKey}],
           \A d \in Consumers : call'[d].op = "release" => call'[d] = call[d],
           \A d \in Consumers : child'[d] \in {"new", "gone"} => child[d] \in {"new", "gone"}
    PROVE  CacheInv'
<1>1. /\ Dict(entries') /\ DOMAIN entries' = DOMAIN entries \ K
      /\ \A k \in DOMAIN entries \ K : entries'[k] = entries[k]
    <2>1. CacheTypeOK
        BY DEF CacheInv
    <2>2. Dict(entries)
        BY <2>1, EntriesDict
    <2>3. PICK es : es = entries
        OBVIOUS
    <2>4. Dict(es) /\ entries' = Without(es, K)
        BY <2>2, <2>3
    <2>5. /\ Dict(Without(es, K)) /\ DOMAIN Without(es, K) = DOMAIN es \ K
          /\ \A k \in DOMAIN es \ K : Without(es, K)[k] = es[k]
        BY <2>4, WithoutDict
    <2> QED BY <2>3, <2>4, <2>5
<1>2. CacheTypeOK'
    BY <1>1 DEF CacheInv, CacheTypeOK, Dict
<1>3. \A d \in DOMAIN cacheLeases : \A l \in cacheLeases[d] : l.key \in DOMAIN entries \ K
    BY DEF CacheInv, LeasesStand
<1>4. LeasesStand'
    BY <1>1, <1>3 DEF CacheInv, LeasesStand
<1>5. MapsLeased'
    BY DEF CacheInv, MapsLeased
<1>6. CacheBounded'
    <2>1. \A k \in DOMAIN entries' : /\ entries'[k].tier = entries[k].tier
                                     /\ entries'[k].bytes <= entries[k].bytes
        BY <1>1 DEF CacheInv, CacheTypeOK, CacheEntry
    <2>2. \A d \in DOMAIN cacheLeases' :
               /\ d \in DOMAIN cacheLeases /\ cacheLeases'[d] \subseteq cacheLeases[d]
               /\ \A l \in cacheLeases'[d] : entries'[l.key].bytes = entries[l.key].bytes
        BY <1>1, <1>3
    <2>3. \A k \in DOMAIN entries' :
               entries'[k].state = "generating" => entries'[k].producer \in DOMAIN cacheLeases'
        BY <1>1 DEF CacheInv, CacheBounded, Registered
    <2> QED BY <1>1, <1>2, <1>4, <2>1, <2>2, <2>3, BoundsKept
<1> QED BY <1>2, <1>4, <1>5, <1>6 DEF CacheInv

\* The producer gives its entry up.
LEMMA AbortInv ==
    ASSUME CacheInv, NEW c \in Consumers, Abort(c)
    PROVE  CacheInv'
<1>1. /\ entries' = Without(entries, {k \in {call[c].key} : Owned(c, k)})
      /\ Free(c) /\ Replied(c, "killed") /\ making' = [making EXCEPT ![c] = NoKey]
      /\ UNCHANGED <<cacheLeases, issued, mapped>>
    BY DEF Abort
<1>2. CacheTypeOK /\ making' \in [Consumers -> Keys \cup {NoKey}] /\ "killed" \in ChildStates \ {"new", "gone"}
    BY <1>1 DEF CacheInv, CacheTypeOK, ChildStates
<1>3. /\ call' \in [Consumers -> Calls] /\ child' \in [Consumers -> ChildStates]
      /\ \A d \in Consumers : call'[d].op = "release" => call'[d] = call[d]
      /\ \A d \in Consumers : child'[d] \in {"new", "gone"} => child[d] \in {"new", "gone"}
    BY <1>1, <1>2, HandlerReplied
<1>4. \A k \in {x \in {call[c].key} : Owned(c, x)} \cap DOMAIN entries : entries[k].state = "generating"
    BY DEF Owned
<1> QED BY <1>1, <1>2, <1>3, <1>4, EvictedInv

\* The entry shrinks to what was generated and can be leased.
LEMMA PublishEntryInv ==
    ASSUME CacheInv, NEW c \in Consumers, PublishEntry(c)
    PROVE  CacheInv'
<1>1. PICK state \in ChildStates \ {"new", "gone"} : Free(c) /\ Replied(c, state)
    BY DEF PublishEntry, ChildStates
<1>2. call[c].op = "publish" /\ UNCHANGED <<cacheLeases, issued, mapped>>
    BY DEF PublishEntry
<1>3. /\ CacheTypeOK /\ mapped \in [Consumers -> SUBSET Lease]
      /\ making \in [Consumers -> Keys \cup {NoKey}]
    BY DEF CacheInv, CacheTypeOK
<1>4. /\ call' \in [Consumers -> Calls] /\ child' \in [Consumers -> ChildStates]
      /\ \A d \in Consumers : call'[d].op = "release" => call'[d] = call[d]
      /\ \A d \in Consumers : child'[d] \in {"new", "gone"} => child[d] \in {"new", "gone"}
    BY <1>1, <1>3, HandlerReplied
<1>5. CASE UNCHANGED <<entries, making>>
    BY <1>2, <1>3, <1>4, <1>5, QuietCacheInv
<1>6. CASE ~UNCHANGED <<entries, making>>
    <2> DEFINE k == call[c].key
               size == call[c].size
    <2>1. /\ k \in DOMAIN entries /\ entries[k].state = "generating" /\ size <= entries[k].bytes
          /\ entries' = [entries EXCEPT ![k] = [@ EXCEPT !.state = "ready", !.bytes = size]]
          /\ making' = [making EXCEPT ![c] = NoKey]
        BY <1>6 DEF PublishEntry, Owned, Present
    <2>2. size \in Nat
        BY <1>2, <1>3 DEF CacheTypeOK, Calls, NoCall
    <2> HIDE DEF k, size
    <2>3. /\ DOMAIN entries' = DOMAIN entries /\ \A x \in DOMAIN entries \ {k} : entries'[x] = entries[x]
          /\ entries'[k] = [entries[k] EXCEPT !.state = "ready", !.bytes = size]
        BY <1>3, <2>1 DEF CacheTypeOK
    <2>4. entries'[k] \in CacheEntry /\ entries'[k].tier = entries[k].tier /\ entries'[k].bytes = size
          /\ entries'[k].state = "ready"
        BY <1>3, <2>1, <2>2, <2>3 DEF CacheTypeOK, CacheEntry
    <2>5. CacheTypeOK'
        <3>1. entries' \in [DOMAIN entries' -> CacheEntry]
            BY <1>3, <2>1, <2>3, <2>4 DEF CacheTypeOK
        <3>2. making' \in [Consumers -> Keys \cup {NoKey}]
            BY <1>3, <2>1
        <3> QED BY <1>2, <1>3, <1>4, <2>3, <3>1, <3>2 DEF CacheTypeOK
    <2>6. \A d \in DOMAIN cacheLeases : \A l \in cacheLeases[d] : l.key \in DOMAIN entries \ {k}
        BY <2>1 DEF CacheInv, LeasesStand
    <2>7. LeasesStand'
        BY <1>2, <2>3, <2>6 DEF CacheInv, LeasesStand
    <2>8. MapsLeased'
        BY <1>2, <1>4 DEF CacheInv, MapsLeased
    <2>9. CacheBounded'
        <3>1. \A x \in DOMAIN entries' : /\ entries'[x].tier = entries[x].tier
                                         /\ entries'[x].bytes <= entries[x].bytes
            BY <1>3, <2>1, <2>3, <2>4 DEF CacheTypeOK, CacheEntry
        <3>2. \A d \in DOMAIN cacheLeases' :
                   /\ d \in DOMAIN cacheLeases /\ cacheLeases'[d] \subseteq cacheLeases[d]
                   /\ \A l \in cacheLeases'[d] : entries'[l.key].bytes = entries[l.key].bytes
            BY <1>2, <2>3, <2>6
        <3>3. \A x \in DOMAIN entries' :
                   entries'[x].state = "generating" => entries'[x].producer \in DOMAIN cacheLeases'
            BY <1>2, <2>3, <2>4 DEF CacheInv, CacheBounded, Registered
        <3> QED BY <2>3, <2>5, <2>7, <3>1, <3>2, <3>3, BoundsKept
    <2> QED BY <2>5, <2>7, <2>8, <2>9 DEF CacheInv
<1> QED BY <1>5, <1>6

\* Leases of one consumer end and entries nobody leases go: the others stand.
LEMMA GivenUpInv ==
    ASSUME CacheInv, NEW c \in DOMAIN cacheLeases, NEW ls \in SUBSET cacheLeases[c], NEW K,
           entries' = Without(Released(ls), K),
           \A k \in K \cap DOMAIN entries : entries[k].state = "generating",
           cacheLeases' \in [DOMAIN cacheLeases' -> SUBSET Lease],
           DOMAIN cacheLeases' \subseteq DOMAIN cacheLeases,
           \A d \in DOMAIN cacheLeases' :
               cacheLeases'[d] = IF d = c THEN cacheLeases[c] \ ls ELSE cacheLeases[d],
           \A d \in Consumers : \A l \in mapped[d] : d \in DOMAIN cacheLeases' /\ l \in cacheLeases'[d],
           \A k \in DOMAIN entries \ K :
               entries[k].state = "generating" => entries[k].producer \in DOMAIN cacheLeases',
           UNCHANGED <<issued, making, mapped>>,
           call' \in [Consumers -> Calls], child' \in [Consumers -> ChildStates],
           \A d \in Consumers : call'[d].op = "release" => call'[d] = call[d],
           \A d \in Consumers : child'[d] \in {"new", "gone"} => child[d] \in {"new", "gone"}
    PROVE  CacheInv'
<1> DEFINE ids == {l.id : l \in ls}
<1>1. /\ CacheTypeOK /\ LeasesStand /\ MapsLeased /\ CacheBounded
    BY DEF CacheInv
<1>2. /\ DOMAIN entries' = DOMAIN entries \ K
      /\ \A k \in DOMAIN entries' : entries'[k] = [entries[k] EXCEPT !.leases = @ \ ids]
    BY DEF Without, Released
<1>3. \A k \in DOMAIN entries' :
          /\ entries'[k] \in CacheEntry /\ entries'[k].tier = entries[k].tier
          /\ entries'[k].bytes = entries[k].bytes /\ entries'[k].state = entries[k].state
          /\ entries'[k].producer = entries[k].producer /\ entries'[k].leases = entries[k].leases \ ids
          /\ entries[k].bytes \in Nat
    BY <1>1, <1>2 DEF CacheTypeOK, CacheEntry
<1>4. entries' \in [DOMAIN entries' -> CacheEntry] /\ DOMAIN entries' \subseteq Keys
    <2>1. entries' = [k \in DOMAIN entries \ K |-> Released(ls)[k]]
        BY DEF Without, Released
    <2>2. \A k \in DOMAIN entries' : entries'[k] \in CacheEntry
        BY <1>3
    <2>3. DOMAIN entries' \subseteq Keys
        BY <1>1, <1>2 DEF CacheTypeOK
    <2> QED BY <2>1, <2>2, <2>3
<1>5. CacheTypeOK'
    BY <1>1, <1>4 DEF CacheTypeOK
<1>6. ASSUME NEW d \in DOMAIN cacheLeases', NEW l \in cacheLeases'[d]
      PROVE  /\ d \in DOMAIN cacheLeases /\ l \in cacheLeases[d] /\ l.id \notin ids
             /\ l.key \in DOMAIN entries'
    <2>1. d \in DOMAIN cacheLeases /\ l \in cacheLeases[d] /\ (d = c => l \notin ls)
        OBVIOUS
    <2>2. ASSUME NEW m \in ls, m.id = l.id PROVE FALSE
        <3>1. m \in cacheLeases[c]
            OBVIOUS
        <3>2. d = c /\ l = m
            BY <1>1, <2>1, <2>2, <3>1 DEF LeasesStand
        <3> QED BY <2>1, <3>2
    <2>3. l.key \in DOMAIN entries /\ entries[l.key].state = "ready"
        BY <1>1, <2>1 DEF LeasesStand
    <2>4. l.key \notin K
        BY <2>3
    <2> QED BY <1>2, <2>1, <2>2, <2>3, <2>4
<1>7. LeasesStand'
    <2>1. \A d \in DOMAIN cacheLeases' : IsFiniteSet(cacheLeases'[d])
        <3>1. ASSUME NEW d \in DOMAIN cacheLeases' PROVE IsFiniteSet(cacheLeases'[d])
            <4>1. cacheLeases'[d] \subseteq cacheLeases[d] /\ d \in DOMAIN cacheLeases
                BY <1>6
            <4>2. IsFiniteSet(cacheLeases[d])
                BY <1>1, <4>1 DEF LeasesStand
            <4> QED BY <4>1, <4>2, FS_Subset
        <3> QED BY <3>1
    <2>2. \A d \in DOMAIN cacheLeases' : \A l \in cacheLeases'[d] :
               d \in DOMAIN cacheLeases /\ l \in cacheLeases[d]
        BY <1>6
    <2>3. \A d \in DOMAIN cacheLeases' : \A l \in cacheLeases'[d] :
               /\ l.key \in DOMAIN entries' /\ entries'[l.key].state = "ready"
               /\ l.id \in entries'[l.key].leases
        <3>1. ASSUME NEW d \in DOMAIN cacheLeases', NEW l \in cacheLeases'[d]
              PROVE  /\ entries'[l.key].state = "ready"
                     /\ l.id \in entries'[l.key].leases
            <4>1. /\ d \in DOMAIN cacheLeases /\ l \in cacheLeases[d] /\ l.id \notin ids
                  /\ l.key \in DOMAIN entries'
                BY <1>6
            <4>2. entries[l.key].state = "ready" /\ l.id \in entries[l.key].leases
                BY <1>1, <4>1 DEF LeasesStand
            <4> HIDE DEF ids
            <4> QED BY <1>3, <4>1, <4>2
        <3> QED BY <1>6, <3>1
    <2> QED BY <1>1, <2>1, <2>2, <2>3, FewerLeases
<1>8. MapsLeased'
    BY <1>1 DEF MapsLeased
<1>9. CacheBounded'
    <2>1. DOMAIN entries' \subseteq DOMAIN entries
        BY <1>2
    <2>2. \A k \in DOMAIN entries' : /\ entries'[k].tier = entries[k].tier
                                     /\ entries'[k].bytes <= entries[k].bytes
        BY <1>3
    <2>3. \A d \in DOMAIN cacheLeases' :
               /\ d \in DOMAIN cacheLeases /\ cacheLeases'[d] \subseteq cacheLeases[d]
               /\ \A l \in cacheLeases'[d] : entries'[l.key].bytes = entries[l.key].bytes
        BY <1>3, <1>6
    <2>4. \A k \in DOMAIN entries' :
               entries'[k].state = "generating" => entries'[k].producer \in DOMAIN cacheLeases'
        BY <1>2, <1>3
    <2> QED BY <1>5, <1>7, <2>1, <2>2, <2>3, <2>4, BoundsKept
<1> QED BY <1>5, <1>7, <1>8, <1>9 DEF CacheInv

\* A child gives a lease up: it has already unmapped the storage.
LEMMA ReleaseInv ==
    ASSUME CacheInv, NEW c \in Consumers, Release(c)
    PROVE  CacheInv'
<1> DEFINE lease == call[c].lease
           ls == cacheLeases[c] \cap {lease}
<1>1. /\ call[c].op = "release" /\ c \in DOMAIN cacheLeases
      /\ cacheLeases' = [cacheLeases EXCEPT ![c] = @ \ {lease}]
      /\ entries' = Released(ls) /\ Free(c) /\ Replied(c, "idle")
      /\ UNCHANGED <<issued, making, mapped>>
    BY DEF Release, Registered
<1>2. /\ CacheTypeOK /\ LeasesStand /\ MapsLeased /\ CacheBounded
    BY DEF CacheInv
<1>3. entries' = Without(Released(ls), {})
    BY <1>1 DEF Without, Released
<1>4. /\ DOMAIN cacheLeases' = DOMAIN cacheLeases /\ cacheLeases'[c] = cacheLeases[c] \ ls
      /\ \A d \in DOMAIN cacheLeases \ {c} : cacheLeases'[d] = cacheLeases[d]
      /\ cacheLeases' \in [DOMAIN cacheLeases' -> SUBSET Lease]
    BY <1>1, <1>2 DEF CacheTypeOK
<1>5. /\ call' \in [Consumers -> Calls] /\ child' \in [Consumers -> ChildStates]
      /\ \A d \in Consumers : call'[d].op = "release" => call'[d] = call[d]
      /\ \A d \in Consumers : child'[d] \in {"new", "gone"} => child[d] \in {"new", "gone"}
    <2>1. "idle" \in ChildStates \ {"new", "gone"}
        BY DEF ChildStates
    <2> QED BY <1>1, <1>2, <2>1, HandlerReplied
<1>6. \A d \in Consumers : \A l \in mapped[d] : d \in DOMAIN cacheLeases' /\ l \in cacheLeases'[d]
    BY <1>1, <1>2, <1>4 DEF MapsLeased
<1>7. \A k \in DOMAIN entries :
          entries[k].state = "generating" => entries[k].producer \in DOMAIN cacheLeases'
    BY <1>2, <1>4 DEF CacheBounded, Registered
<1>8. ls \in SUBSET cacheLeases[c]
    OBVIOUS
<1>9. /\ \A d \in DOMAIN cacheLeases' :
             cacheLeases'[d] = IF d = c THEN cacheLeases[c] \ ls ELSE cacheLeases[d]
      /\ \A k \in {} \cap DOMAIN entries : entries[k].state = "generating"
      /\ \A k \in DOMAIN entries \ {} :
             entries[k].state = "generating" => entries[k].producer \in DOMAIN cacheLeases'
      /\ DOMAIN cacheLeases' \subseteq DOMAIN cacheLeases
    BY <1>4, <1>7
<1>10. c \in DOMAIN cacheLeases /\ UNCHANGED <<issued, making, mapped>>
    BY <1>1
<1>11. cacheLeases' \in [DOMAIN cacheLeases' -> SUBSET Lease]
    BY <1>4
<1> HIDE DEF ls
<1> QED BY <1>3, <1>5, <1>6, <1>8, <1>9, <1>10, <1>11, GivenUpInv

\* The parent retires a consumer whose process is gone: its leases and what it was
\* generating go with it.
LEMMA EndInv ==
    ASSUME CacheInv, NEW c \in Consumers, End(c)
    PROVE  CacheInv'
<1>1. /\ child[c] = "gone" /\ c \in DOMAIN cacheLeases
      /\ entries' = Without(Released(cacheLeases[c]), Orphans(c))
      /\ cacheLeases' = [d \in DOMAIN cacheLeases \ {c} |-> cacheLeases[d]]
      /\ UNCHANGED <<issued, call, child, making, mapped>>
    BY DEF End, MayEnd, Registered
<1>2. /\ CacheTypeOK /\ LeasesStand /\ MapsLeased /\ CacheBounded
    BY DEF CacheInv
<1>3. /\ DOMAIN cacheLeases' = DOMAIN cacheLeases \ {c}
      /\ \A d \in DOMAIN cacheLeases \ {c} : cacheLeases'[d] = cacheLeases[d]
      /\ cacheLeases' \in [DOMAIN cacheLeases' -> SUBSET Lease]
    BY <1>1, <1>2 DEF CacheTypeOK
<1>4. \A k \in Orphans(c) \cap DOMAIN entries : entries[k].state = "generating"
    BY DEF Orphans, Owned
<1>5. \A d \in Consumers : \A l \in mapped[d] : d \in DOMAIN cacheLeases' /\ l \in cacheLeases'[d]
    BY <1>1, <1>2, <1>3 DEF MapsLeased
<1>6. \A k \in DOMAIN entries \ Orphans(c) :
          entries[k].state = "generating" => entries[k].producer \in DOMAIN cacheLeases'
    <2>1. ASSUME NEW k \in DOMAIN entries, k \notin Orphans(c), entries[k].state = "generating"
          PROVE  entries[k].producer # c
        BY <1>2, <2>1 DEF Orphans, Owned, Present, CacheTypeOK
    <2> QED BY <1>2, <1>3, <2>1 DEF CacheBounded, Registered
<1>7. call' \in [Consumers -> Calls] /\ child' \in [Consumers -> ChildStates]
    BY <1>1, <1>2 DEF CacheTypeOK
<1>8. cacheLeases[c] \in SUBSET cacheLeases[c]
    OBVIOUS
<1> QED BY <1>1, <1>3, <1>4, <1>5, <1>6, <1>7, <1>8, GivenUpInv

\* Between runs nobody is registered, and all entries go.
LEMMA ClearInv ==
    ASSUME CacheInv, Clear
    PROVE  CacheInv'
<1>1. /\ DOMAIN cacheLeases = {} /\ entries' = <<>>
      /\ UNCHANGED <<cacheLeases, issued, call, child, making, mapped>>
    BY DEF Clear
<1>2. /\ CacheTypeOK /\ LeasesStand /\ MapsLeased /\ CacheBounded
    BY DEF CacheInv
<1>3. DOMAIN entries' = {} /\ entries' \in [{} -> CacheEntry]
    BY <1>1
<1>4. CacheTypeOK'
    BY <1>1, <1>2, <1>3 DEF CacheTypeOK
<1>5. LeasesStand' /\ MapsLeased'
    BY <1>1, <1>2 DEF LeasesStand, MapsLeased
<1>6. CacheBounded'
    BY <1>1, <1>3, <1>4, <1>5, BoundsKept
<1> QED BY <1>4, <1>5, <1>6 DEF CacheInv

\* A ready entry gets a lease more, and its consumer the copy.
LEMMA HitInv ==
    ASSUME CacheInv, NEW c \in Consumers, Hit(c)
    PROVE  CacheInv'
<1>1. PICK k : k = call[c].key
    OBVIOUS
<1>2. PICK l : l = [id |-> issued + 1, key |-> k]
    OBVIOUS
<1>3. /\ c \in DOMAIN cacheLeases /\ k \in DOMAIN entries /\ entries[k].state = "ready"
      /\ Private(c) + entries[k].bytes <= CopyLimit
      /\ cacheLeases' = [cacheLeases EXCEPT ![c] = @ \cup {l}]
      /\ entries' = [entries EXCEPT ![k].leases = @ \cup {l.id}]
      /\ mapped' = [mapped EXCEPT ![c] = IF Alive(c) THEN @ \cup {l} ELSE @]
      /\ issued' = issued + 1 /\ UNCHANGED making /\ Free(c) /\ Replied(c, "idle")
    BY <1>1, <1>2 DEF Hit, Wanted, Registered, Present, WithinBudget
<1>4. /\ CacheTypeOK /\ LeasesStand /\ MapsLeased /\ CacheBounded
    BY DEF CacheInv
<1>5. /\ call' \in [Consumers -> Calls] /\ child' \in [Consumers -> ChildStates]
      /\ \A d \in Consumers : call'[d].op = "release" => call'[d] = call[d]
      /\ \A d \in Consumers : child'[d] \in {"new", "gone"} => child[d] \in {"new", "gone"}
    <2>1. "idle" \in ChildStates \ {"new", "gone"}
        BY DEF ChildStates
    <2> QED BY <1>3, <1>4, <2>1, HandlerReplied
<1>6. l \in Lease /\ l.id = issued + 1 /\ l.key = k /\ issued \in Nat
    BY <1>2, <1>3, <1>4 DEF Lease, CacheTypeOK
<1>7. /\ DOMAIN entries' = DOMAIN entries
      /\ \A x \in DOMAIN entries \ {k} : entries'[x] = entries[x]
      /\ entries'[k] = [entries[k] EXCEPT !.leases = @ \cup {l.id}]
    BY <1>3, <1>4 DEF CacheTypeOK
<1>8. \A x \in DOMAIN entries :
          /\ entries'[x] \in CacheEntry /\ entries'[x].tier = entries[x].tier
          /\ entries'[x].bytes = entries[x].bytes /\ entries'[x].state = entries[x].state
          /\ entries'[x].producer = entries[x].producer /\ entries[x].leases \subseteq entries'[x].leases
          /\ entries[x].bytes \in Nat
    BY <1>3, <1>4, <1>6, <1>7 DEF CacheTypeOK, CacheEntry
<1>9. l.id \in entries'[k].leases
    BY <1>3, <1>4, <1>7 DEF CacheTypeOK, CacheEntry
<1>10. /\ DOMAIN cacheLeases' = DOMAIN cacheLeases /\ cacheLeases'[c] = cacheLeases[c] \cup {l}
       /\ \A d \in DOMAIN cacheLeases \ {c} : cacheLeases'[d] = cacheLeases[d]
       /\ cacheLeases' \in [DOMAIN cacheLeases' -> SUBSET Lease]
    BY <1>3, <1>4, <1>6 DEF CacheTypeOK
<1>11. /\ mapped' \in [Consumers -> SUBSET Lease]
       /\ \A d \in Consumers : \A m \in mapped'[d] : m \in mapped[d] \/ (d = c /\ m = l /\ child[c] = "calling")
    BY <1>3, <1>4, <1>6 DEF CacheTypeOK, Alive
<1>12. CacheTypeOK'
    <2>1. entries' \in [DOMAIN entries' -> CacheEntry] /\ DOMAIN entries' \subseteq Keys
        BY <1>3, <1>4, <1>7, <1>8 DEF CacheTypeOK
    <2> QED BY <1>3, <1>4, <1>5, <1>6, <1>10, <1>11, <2>1 DEF CacheTypeOK
<1>13. LeasesStand'
    <2>1. \A d \in DOMAIN cacheLeases' : \A m \in cacheLeases'[d] :
              (d \in DOMAIN cacheLeases /\ m \in cacheLeases[d]) \/ (d = c /\ m = l)
        BY <1>10
    <2>2. \A d \in DOMAIN cacheLeases : \A m \in cacheLeases[d] :
              /\ m.id \in Nat /\ m.id <= issued /\ m.key \in DOMAIN entries
              /\ entries[m.key].state = "ready" /\ m.id \in entries[m.key].leases
        BY <1>4 DEF LeasesStand, CacheTypeOK, Lease
    <2>3. \A d \in DOMAIN cacheLeases' : \A m \in cacheLeases'[d] :
              /\ m.id <= issued' /\ m.key \in DOMAIN entries'
              /\ entries'[m.key].state = "ready" /\ m.id \in entries'[m.key].leases
        BY <1>3, <1>6, <1>7, <1>8, <1>9, <2>1, <2>2
    <2>4. ASSUME NEW d \in DOMAIN cacheLeases', NEW e \in DOMAIN cacheLeases',
                 NEW m \in cacheLeases'[d], NEW n \in cacheLeases'[e], m.id = n.id
          PROVE  d = e /\ m = n
        <3>1. CASE d \in DOMAIN cacheLeases /\ m \in cacheLeases[d] /\ e \in DOMAIN cacheLeases /\ n \in cacheLeases[e]
            BY <1>4, <2>4, <3>1 DEF LeasesStand
        <3>2. CASE d = c /\ m = l /\ e = c /\ n = l
            BY <3>2
        <3>3. CASE d = c /\ m = l /\ e \in DOMAIN cacheLeases /\ n \in cacheLeases[e]
            BY <1>6, <2>2, <2>4, <3>3
        <3>4. CASE d \in DOMAIN cacheLeases /\ m \in cacheLeases[d] /\ e = c /\ n = l
            BY <1>6, <2>2, <2>4, <3>4
        <3> QED BY <2>1, <3>1, <3>2, <3>3, <3>4
    <2>5. \A d \in DOMAIN cacheLeases' : IsFiniteSet(cacheLeases'[d])
        <3>1. \A d \in DOMAIN cacheLeases : IsFiniteSet(cacheLeases[d])
            BY <1>4 DEF LeasesStand
        <3>2. IsFiniteSet(cacheLeases[c] \cup {l})
            BY <1>3, <3>1, FS_AddElement
        <3> QED BY <1>10, <3>1, <3>2
    <2> QED BY <2>3, <2>4, <2>5 DEF LeasesStand
<1>14. MapsLeased'
    <2>1. ASSUME NEW d \in Consumers
          PROVE  /\ \A m \in mapped'[d] : d \in DOMAIN cacheLeases' /\ m \in cacheLeases'[d]
                 /\ child'[d] \in {"new", "gone"} => mapped'[d] = {}
        BY <1>3, <1>4, <1>5, <1>10, <1>11 DEF MapsLeased
    <2>2. ASSUME NEW d \in Consumers, call'[d].op = "release"
          PROVE  call'[d].lease \notin mapped'[d]
        <3>1. d # c /\ call'[d] = call[d]
            BY <1>3, <1>4, <1>5, <2>2 DEF Free, NoCall, CacheTypeOK
        <3>2. call[d].lease \notin mapped[d]
            BY <1>4, <2>2, <3>1 DEF MapsLeased
        <3> QED BY <1>11, <3>1, <3>2
    <2> QED BY <2>1, <2>2 DEF MapsLeased
<1>15. CacheBounded'
    <2>1. Dict(entries) /\ Dict(entries')
        BY <1>4, <1>12, EntriesDict
    <2>2. ASSUME NEW tier \in {"ram", "disk"} PROVE UsedBy(entries', tier) <= Capacity[tier]
        <3>1. UsedBy(entries', tier) <= UsedBy(entries, tier)
            BY <1>7, <1>8, <2>1, StorageShrinks
        <3>2. UsedBy(entries, tier) <= Capacity[tier] /\ Capacity[tier] \in Nat
            BY <1>4, CacheAssumption DEF CacheBounded
        <3>3. UsedBy(entries, tier) \in Nat /\ UsedBy(entries', tier) \in Nat
            BY <2>1, StorageBlocks
        <3> QED BY <3>1, <3>2, <3>3
    <2>3. Cardinality(DOMAIN entries') <= MaxEntries
        BY <1>4, <1>7 DEF CacheBounded
    <2>4. ASSUME NEW d \in DOMAIN cacheLeases', d # c PROVE Private(d)' <= CopyLimit
        <3>1. cacheLeases'[d] = cacheLeases[d] /\ d \in DOMAIN cacheLeases
            BY <1>10, <2>4
        <3>2. \A m \in cacheLeases[d] : m.key \in DOMAIN entries
            BY <1>4, <3>1 DEF LeasesStand
        <3>3. CopySizes(entries', cacheLeases'[d]) = CopySizes(entries, cacheLeases[d])
            BY <1>8, <3>1, <3>2 DEF CopySizes
        <3>4. Private(d)' = Private(d)
            BY <3>1, <3>3, PrivateBlocks
        <3> QED BY <1>4, <3>1, <3>4 DEF CacheBounded
    <2>5. Private(c)' <= CopyLimit
        <3>1. PICK ls : ls = cacheLeases[c]
            OBVIOUS
        <3>2. PICK n : n = CopySizes(entries', ls \cup {l})
            OBVIOUS
        <3>3. \A m \in ls : m.key \in DOMAIN entries
            BY <1>3, <1>4, <3>1 DEF LeasesStand
        <3>4. /\ \A m \in ls : n[m] = entries[m.key].bytes /\ n[m] \in Nat
              /\ n[l] = entries[k].bytes /\ n[l] \in Nat
            BY <1>3, <1>6, <1>8, <3>2, <3>3 DEF CopySizes
        <3>5. IsFiniteSet(ls)
            BY <1>3, <1>4, <3>1 DEF LeasesStand
        <3>6. Cardinality(Blocks(ls \cup {l}, n)) <= Cardinality(Blocks(ls, n)) + n[l]
            <4>1. \A m \in ls \cup {l} : n[m] \in Nat
                BY <3>4
            <4> QED BY <3>5, <4>1, BlocksOneMore
        <3>7. Blocks(ls, n) = Blocks(ls, CopySizes(entries, ls))
            <4>1. \A m \in ls : n[m] = CopySizes(entries, ls)[m]
                BY <3>4 DEF CopySizes
            <4> QED BY <4>1 DEF Blocks
        <3>8. Private(c) = Cardinality(Blocks(ls, n))
            BY <3>1, <3>7, PrivateBlocks
        <3>9. Private(c)' = Cardinality(Blocks(ls \cup {l}, n))
            <4>1. Private(c)' = Cardinality(Blocks(cacheLeases'[c], CopySizes(entries', cacheLeases'[c])))
                BY PrivateBlocks
            <4> QED BY <1>10, <3>1, <3>2, <4>1
        <3>10. Cardinality(Blocks(ls, n)) \in Nat /\ Cardinality(Blocks(ls \cup {l}, n)) \in Nat
            <4>1. IsFiniteSet(ls \cup {l}) /\ \A m \in ls \cup {l} : n[m] \in Nat
                BY <3>4, <3>5, FS_AddElement
            <4> QED BY <3>4, <3>5, <4>1, BlocksFinite
        <3>11. CopyLimit \in Nat /\ Private(c) + n[l] <= CopyLimit
            BY <1>3, <3>4, CacheAssumption
        <3> QED BY <3>4, <3>6, <3>8, <3>9, <3>10, <3>11
    <2>6. \A x \in DOMAIN entries' :
               entries'[x].state = "generating" => entries'[x].producer \in DOMAIN cacheLeases'
        BY <1>4, <1>7, <1>8, <1>10 DEF CacheBounded, Registered
    <2> QED BY <2>2, <2>3, <2>4, <2>5, <2>6 DEF CacheBounded, Registered
<1> QED BY <1>12, <1>13, <1>14, <1>15 DEF CacheInv

\* What the search for room evicts, and no more.
LEMMA NotMadeInv ==
    ASSUME CacheInv, NEW c \in Consumers, NEW size, NEW es \in {AfterRam(size), AfterDisk(size)},
           NEW state \in ChildStates \ {"new", "gone"}, NotMade(c, es, state), Free(c),
           UNCHANGED <<cacheLeases, issued, mapped>>
    PROVE  CacheInv'
<1>1. CacheTypeOK /\ making \in [Consumers -> Keys \cup {NoKey}]
    BY DEF CacheInv, CacheTypeOK
<1>2. PICK K \in SUBSET DOMAIN entries :
               /\ es = Without(entries, K)
               /\ \A k \in K : entries[k].state = "ready" /\ entries[k].leases = {}
    BY <1>1, RoomEvicts
<1>3. entries' = Without(entries, K) /\ Replied(c, state) /\ making' \in [Consumers -> Keys \cup {NoKey}]
    BY <1>1, <1>2 DEF NotMade
<1>4. /\ call' \in [Consumers -> Calls] /\ child' \in [Consumers -> ChildStates]
      /\ \A d \in Consumers : call'[d].op = "release" => call'[d] = call[d]
      /\ \A d \in Consumers : child'[d] \in {"new", "gone"} => child[d] \in {"new", "gone"}
    BY <1>1, <1>3, HandlerReplied
<1>5. \A k \in K \cap DOMAIN entries : entries[k].state = "generating" \/ entries[k].leases = {}
    BY <1>2
<1> QED BY <1>3, <1>4, <1>5, EvictedInv

\* The reservation fits what is left after the evictions.
LEMMA MakeInv ==
    ASSUME CacheInv, NEW c \in Consumers, NEW k \in Keys, k \notin DOMAIN entries,
           c \in DOMAIN cacheLeases,
           NEW es \in {AfterRam(Reserve[k]), AfterDisk(Reserve[k])},
           NEW tier \in {"ram", "disk"}, Fits(es, tier, Reserve[k]),
           Make(c, k, es, tier), Free(c),
           UNCHANGED <<cacheLeases, issued, mapped>>
    PROVE  CacheInv'
<1>1. /\ CacheTypeOK /\ LeasesStand /\ MapsLeased /\ CacheBounded
    BY DEF CacheInv
<1>2. PICK new : new = [bytes |-> Reserve[k], tier |-> tier, state |-> "generating",
                        producer |-> c, leases |-> {}]
    OBVIOUS
<1>3. /\ entries' = [x \in DOMAIN es \cup {k} |-> IF x = k THEN new ELSE es[x]]
      /\ making' = [making EXCEPT ![c] = IF Alive(c) THEN k ELSE @]
      /\ Replied(c, "making")
    BY <1>2 DEF Make
<1>4. Reserve[k] \in Nat /\ new \in CacheEntry /\ new.bytes = Reserve[k] /\ new.tier = tier
      /\ new.state = "generating" /\ new.producer = c
    BY <1>2, CacheAssumption DEF CacheEntry
<1>5. /\ call' \in [Consumers -> Calls] /\ child' \in [Consumers -> ChildStates]
      /\ \A d \in Consumers : call'[d].op = "release" => call'[d] = call[d]
      /\ \A d \in Consumers : child'[d] \in {"new", "gone"} => child[d] \in {"new", "gone"}
    <2>1. "making" \in ChildStates \ {"new", "gone"}
        BY DEF ChildStates
    <2> QED BY <1>1, <1>3, <2>1, HandlerReplied
<1>6. PICK K \in SUBSET DOMAIN entries :
               /\ es = Without(entries, K)
               /\ \A x \in K : entries[x].state = "ready" /\ entries[x].leases = {}
    BY <1>1, RoomEvicts
<1>7. Dict(entries)
    BY <1>1, EntriesDict
<1>8. /\ Dict(es) /\ DOMAIN es = DOMAIN entries \ K
      /\ \A x \in DOMAIN entries \ K : es[x] = entries[x]
    <2>1. PICK old : old = entries
        OBVIOUS
    <2>2. Dict(old) /\ es = Without(old, K)
        BY <1>6, <1>7, <2>1
    <2>3. /\ Dict(es) /\ DOMAIN es = DOMAIN old \ K /\ \A x \in DOMAIN old \ K : es[x] = old[x]
        BY <2>2, WithoutDict
    <2> QED BY <2>1, <2>3
<1>9. /\ DOMAIN entries' = DOMAIN es \cup {k} /\ entries'[k] = new
      /\ \A x \in DOMAIN es : x # k /\ entries'[x] = entries[x]
    BY <1>3, <1>8
<1>10. PICK fs : fs = entries'
    OBVIOUS
<1>11. fs = [x \in DOMAIN es \cup {k} |-> IF x = k THEN new ELSE es[x]] /\ k \notin DOMAIN es
    BY <1>3, <1>8, <1>10
<1>12. ASSUME NEW t \in {"ram", "disk"}
       PROVE  /\ Dict(fs)
              /\ t = new.tier => UsedBy(fs, t) <= UsedBy(es, t) + new.bytes
              /\ t # new.tier => UsedBy(fs, t) <= UsedBy(es, t)
              /\ Cardinality(DOMAIN fs) = Cardinality(DOMAIN es) + 1
    <2>1. Dict(es)
        BY <1>8
    <2> QED BY <1>4, <1>11, <2>1, StorageGrows
<1>13. making' \in [Consumers -> Keys \cup {NoKey}]
    BY <1>1, <1>3 DEF CacheTypeOK
<1>14. CacheTypeOK'
    <2>1. Dict(entries')
        BY <1>10, <1>12
    <2> QED BY <1>1, <1>5, <1>13, <2>1 DEF CacheTypeOK, Dict
<1>15. \A d \in DOMAIN cacheLeases : \A l \in cacheLeases[d] : l.key \in DOMAIN es
    BY <1>1, <1>6, <1>8 DEF LeasesStand
<1>16. LeasesStand'
    BY <1>1, <1>9, <1>15 DEF LeasesStand
<1>17. MapsLeased'
    BY <1>1, <1>5 DEF MapsLeased
<1>18. CacheBounded'
    <2>1. ASSUME NEW t \in {"ram", "disk"} PROVE UsedBy(entries', t) <= Capacity[t]
        <3>1. UsedBy(es, t) <= UsedBy(entries, t)
            <4>1. \A x \in DOMAIN es : es[x].tier = entries[x].tier /\ es[x].bytes <= entries[x].bytes
                BY <1>8 DEF Dict, CacheEntry
            <4>2. DOMAIN es \subseteq DOMAIN entries /\ Dict(es)
                BY <1>8
            <4> QED BY <1>7, <4>1, <4>2, StorageShrinks
        <3>2. UsedBy(entries, t) <= Capacity[t] /\ Capacity[t] \in Nat
            BY <1>1, CacheAssumption DEF CacheBounded
        <3>3. UsedBy(entries, t) \in Nat /\ UsedBy(es, t) \in Nat /\ UsedBy(fs, t) \in Nat
            <4>1. Dict(es) /\ Dict(fs)
                BY <1>8, <1>12
            <4> QED BY <1>7, <4>1, StorageBlocks
        <3>4. t = tier => UsedBy(es, t) + Reserve[k] <= Capacity[t]
            BY DEF Fits
        <3>5. UsedBy(fs, t) <= Capacity[t]
            <4>1. CASE t = tier
                BY <1>4, <1>12, <3>2, <3>3, <3>4, <4>1
            <4>2. CASE t # tier
                BY <1>4, <1>12, <3>1, <3>2, <3>3, <4>2
            <4> QED BY <4>1, <4>2
        <3> QED BY <1>10, <3>5
    <2>2. Cardinality(DOMAIN entries') <= MaxEntries
        <3>1. Cardinality(DOMAIN es) \in Nat
            <4>1. IsFiniteSet(DOMAIN es)
                <5>1. Dict(es)
                    BY <1>8
                <5> QED BY <5>1, StorageBlocks
            <4> QED BY <4>1, FS_CardinalityType
        <3>2. Cardinality(DOMAIN es) < MaxEntries /\ MaxEntries \in Nat
            BY CacheAssumption DEF Fits
        <3>3. Cardinality(DOMAIN fs) = Cardinality(DOMAIN es) + 1
            BY <1>12
        <3> QED BY <1>10, <3>1, <3>2, <3>3
    <2>3. ASSUME NEW d \in DOMAIN cacheLeases' PROVE Private(d)' <= CopyLimit
        <3>1. cacheLeases'[d] = cacheLeases[d] /\ d \in DOMAIN cacheLeases
            OBVIOUS
        <3>2. CopySizes(entries', cacheLeases'[d]) = CopySizes(entries, cacheLeases[d])
            BY <1>9, <1>15, <3>1 DEF CopySizes
        <3>3. Private(d)' = Private(d)
            BY <3>1, <3>2, PrivateBlocks
        <3> QED BY <1>1, <3>1, <3>3 DEF CacheBounded
    <2>4. \A x \in DOMAIN entries' :
               entries'[x].state = "generating" => entries'[x].producer \in DOMAIN cacheLeases'
        BY <1>1, <1>4, <1>8, <1>9 DEF CacheBounded, Registered
    <2> QED BY <2>1, <2>2, <2>3, <2>4 DEF CacheBounded, Registered
<1> QED BY <1>14, <1>16, <1>17, <1>18 DEF CacheInv

\* A key that is not there.
LEMMA MissInv ==
    ASSUME CacheInv, NEW c \in Consumers, Miss(c)
    PROVE  CacheInv'
<1>1. PICK k : k = call[c].key
    OBVIOUS
<1>2. /\ call[c].op = "acquire" /\ c \in DOMAIN cacheLeases /\ k \notin DOMAIN entries
      /\ Free(c) /\ UNCHANGED <<cacheLeases, issued, mapped>>
    BY <1>1 DEF Miss, Wanted, Registered, Present
<1>3. PICK ram : ram = AfterRam(Reserve[k])
    OBVIOUS
<1>4. PICK disk : disk = AfterDisk(Reserve[k])
    OBVIOUS
<1>5. \/ Fits(ram, "ram", Reserve[k]) /\ Make(c, k, ram, "ram")
      \/ Fits(disk, "disk", Reserve[k]) /\ Make(c, k, disk, "disk")
      \/ NotMade(c, ram, "killed") \/ NotMade(c, disk, "killed") \/ NotMade(c, disk, "idle")
    BY <1>1, <1>3, <1>4 DEF Miss
<1>6. {"killed", "idle"} \subseteq ChildStates \ {"new", "gone"}
    BY DEF ChildStates
<1>7. ASSUME NEW es \in {ram, disk}, NEW state \in {"killed", "idle"}, NotMade(c, es, state)
      PROVE  CacheInv'
    BY <1>2, <1>3, <1>4, <1>6, <1>7, NotMadeInv
<1>8. k \in Keys
    <2>1. call[c] \in Calls
        BY DEF CacheInv, CacheTypeOK
    <2> QED BY <1>1, <1>2, <2>1 DEF Calls, NoCall
<1>9. ASSUME NEW es \in {ram, disk}, NEW tier \in {"ram", "disk"}, Fits(es, tier, Reserve[k]),
             Make(c, k, es, tier)
      PROVE  CacheInv'
    BY <1>2, <1>3, <1>4, <1>8, <1>9, MakeInv
<1> QED BY <1>5, <1>7, <1>9

\* Every step keeps the invariant.
LEMMA CacheNextInv ==
    ASSUME CacheInv, [CacheNext]_cacheVars
    PROVE  CacheInv'
<1>1. CASE CacheNext
    <2>1. CASE Clear
        BY <2>1, ClearInv
    <2>2. CASE ~Clear
        <3>1. PICK c \in Consumers :
                 \/ Begin(c) \/ Aborts(c) \/ Killed(c) \/ Gone(c)
                 \/ \E k \in Keys : Asks(c, k)
                 \/ \E k \in Keys : \E size \in 0..Reserve[k] : Publishes(c, k, size)
                 \/ \E l \in mapped[c] : Unmaps(c, l)
                 \/ Refuses(c) \/ WaitTimesOut(c) \/ Hit(c) \/ OverBudget(c) \/ Miss(c)
                 \/ PublishEntry(c) \/ Abort(c) \/ Release(c) \/ End(c)
            BY <1>1, <2>2 DEF CacheNext
        <3>2. CASE Begin(c)
            BY <3>2, BeginInv
        <3>3. CASE \/ Aborts(c) \/ Killed(c) \/ Gone(c)
                   \/ \E k \in Keys : Asks(c, k)
                   \/ \E k \in Keys : \E size \in 0..Reserve[k] : Publishes(c, k, size)
                   \/ \E l \in mapped[c] : Unmaps(c, l)
            BY <3>3, ChildInv
        <3>4. CASE Refuses(c) \/ WaitTimesOut(c) \/ OverBudget(c)
            BY <3>4, RefusedInv
        <3>5. CASE Hit(c)
            BY <3>5, HitInv
        <3>6. CASE Miss(c)
            BY <3>6, MissInv
        <3>7. CASE PublishEntry(c)
            BY <3>7, PublishEntryInv
        <3>8. CASE Abort(c)
            BY <3>8, AbortInv
        <3>9. CASE Release(c)
            BY <3>9, ReleaseInv
        <3>10. CASE End(c)
            BY <3>10, EndInv
        <3> QED BY <3>1, <3>2, <3>3, <3>4, <3>5, <3>6, <3>7, <3>8, <3>9, <3>10
    <2> QED BY <2>1, <2>2
<1>2. CASE UNCHANGED cacheVars
    <2>1. UNCHANGED <<entries, cacheLeases, issued, call, child, making, mapped>>
        BY <1>2 DEF cacheVars
    <2>2. /\ call' \in [Consumers -> Calls] /\ child' \in [Consumers -> ChildStates]
          /\ mapped' \in [Consumers -> SUBSET Lease] /\ making' \in [Consumers -> Keys \cup {NoKey}]
        BY <2>1 DEF CacheInv, CacheTypeOK
    <2> QED BY <2>1, <2>2, QuietCacheInv
<1> QED BY <1>1, <1>2

\* What the invariant says of the mappings.
LEMMA InvIsSafe == CacheInv => StorageSafe
<1>1. ASSUME CacheInv, NEW c \in Consumers, NEW l \in mapped[c]
      PROVE  /\ Registered(c) /\ l \in cacheLeases[c] /\ Present(l.key)
             /\ l.id \in entries[l.key].leases /\ entries[l.key].state = "ready"
    <2>1. c \in DOMAIN cacheLeases /\ l \in cacheLeases[c]
        BY <1>1 DEF CacheInv, MapsLeased
    <2> QED BY <1>1, <2>1 DEF CacheInv, LeasesStand, Registered, Present
<1> QED BY <1>1 DEF CacheInv, StorageSafe, MappingsLeased

\* StorageSafe (input_cache.py): no eviction, release or retirement frees storage a process
\* still maps, and the tiers, the entries and the private copies stay within their limits, for
\* any number of consumers, keys and leases and any reservations and capacities.
THEOREM StorageIsSafe == CacheSpec => []StorageSafe
<1>1. CacheSpec => []CacheInv
    BY CacheInitInv, CacheNextInv, PTL DEF CacheSpec
<1> QED BY <1>1, InvIsSafe, PTL
=============================================================================
