---------------------------- MODULE RelayProofs ----------------------------
(***************************************************************************)
(* Proofs about Relay for any set of requests, any capacity and any number *)
(* of faults: the relay implements RequestContract, never has more work at *)
(* the model than it has slots, and drops a completion only when the       *)
(* answer is durable.                                                      *)
(*                                                                         *)
(* The invariant has three parts, proved one after the other: what the GPU *)
(* relay's journal knows of the model, what the CPU side may conclude from *)
(* the messages and completions it holds, and which answers are durable.   *)
(***************************************************************************)
EXTENDS Relay, FiniteSetTheorems, TLAPS

-----------------------------------------------------------------------------
(* The invariant *)

\* The GPU relay: a dispatch is journalled before it is made and the journal forgets none,
\* a worker owns a running request, and a completion kept for the poll is the model's.
Journal ==
    /\ journal \in [Requests -> {"none", "cancelled", "running", "uncertain", "finished", "failed"}]
    /\ thread \in [Requests -> {"none", "connecting", "dispatched"}]
    /\ entry \in [Requests -> {"none", "pending", "ok", "error", "terminal"}]
    /\ model \in [Requests -> {"untouched", "sampling", "sampled", "closed"}]
    /\ \A r \in Requests :
           /\ thread[r] # "none" => journal[r] = "running"
           /\ thread[r] = "connecting" => model[r] = "untouched"
           /\ journal[r] \in {"none", "cancelled"} => model[r] = "untouched" /\ entry[r] = "none"
           /\ model[r] = "sampling" => journal[r] \in {"running", "uncertain"}
           /\ entry[r] = "ok" => model[r] = "sampled"
           /\ entry[r] = "terminal" => model[r] = "closed"

\* The slots of the GPU relay.
Slots == IsFiniteSet(Occupied) /\ Cardinality(Occupied) <= MaxInflight

\* Messages to the CPU page that the model's state bears out.
TrueReports ==
    {m \in {"ok", "error", "terminal", "released", "blocked"} \X Requests :
        /\ m[1] = "ok" => model[m[2]] = "sampled"
        /\ m[1] = "terminal" => model[m[2]] = "closed"}

\* The CPU side: what it was told, what it is about to store and what it has stored.
Evidence ==
    /\ outbox \in [Requests -> {"none", "ok", "error", "terminal"}]
    /\ task \in [Requests -> {"none", "pending", "committing", "failing", "closing", "credit", "kept"}]
    /\ toCpu \in Seq(TrueReports)
    /\ \A r \in Requests :
           /\ outbox[r] = "ok" \/ task[r] = "committing" => model[r] = "sampled"
           /\ outbox[r] = "terminal" \/ task[r] = "closing" => model[r] = "closed"

\* Messages to the GPU page whose reported commit is durable.
TrueCommits ==
    {m \in {"request", "cancel", "committed"} \X Requests :
        m[1] = "committed" => outbox[m[2]] # "none"}

\* Durability: only claimed requests are worked on, and a reported commit has its answer.
Durable ==
    /\ spool \in [Requests -> {"none", "inbox", "inflight"}]
    /\ \A r \in Requests : task[r] # "none" => spool[r] = "inflight"
    /\ toGpu \in Seq(TrueCommits)
    /\ committed \subseteq {r \in Requests : outbox[r] # "none"}
    /\ acked \subseteq {r \in Requests : outbox[r] # "none"}

IndInv == Journal /\ Slots /\ Evidence /\ Durable


-----------------------------------------------------------------------------
(* What a step can do to one part of the state *)

\* Every step of the GPU relay's books is one of seven; the others leave them alone.
LEMMA ServerSteps ==
    ASSUME Next
    PROVE  \/ \E r \in Requests : \/ SubmitArrives(r) \/ CancelArrives(r) \/ Connects(r)
                                  \/ ModelEnds(r) \/ ModelReplies(r) \/ Acknowledge(r)
           \/ GpuServerRestarts
           \/ UNCHANGED <<journal, thread, entry, model>>
<1> DEFINE Kept == UNCHANGED <<journal, thread, entry, model>>
<1>1. ASSUME NEW r \in Requests, CpuSide(r) PROVE Kept
    <2>1. CASE Publish(r) \/ Expire(r)
        BY <2>1 DEF Publish, Expire, gpuServer
    <2>2. CASE Claim(r) \/ CpuCancels(r)
        BY <2>2 DEF Claim, CpuCancels, gpuServer
    <2>3. CASE CommitOk(r) \/ CommitFailure(r) \/ CreditTimeout(r)
        BY <2>3 DEF CommitOk, CommitFailure, CreditTimeout, gpuServer
    <2> QED BY <1>1, <2>1, <2>2, <2>3 DEF CpuSide
<1>2. ASSUME NEW r \in Requests, SubmitReplies(r) \/ PollReturns(r) \/ CommitTimeout(r) \/ GenerationTimer(r)
      PROVE  Kept
    BY <1>2 DEF SubmitReplies, PollReturns, CommitTimeout, GenerationTimer, gpuServer
<1>3. CASE Connect \/ HeartbeatFails \/ ClaimRefused \/ Sweep
    BY <1>3 DEF Connect, HeartbeatFails, ClaimRefused, Sweep, gpuServer
<1>4. CASE CpuReceives \/ GpuReceives
    BY <1>4 DEF CpuReceives, GpuReceives, gpuServer
<1>5. CASE CpuServerRestarts \/ PagesReload
    BY <1>5 DEF CpuServerRestarts, PagesReload, gpuServer
<1> QED BY <1>1, <1>2, <1>3, <1>4, <1>5 DEF Next, Fault, GpuSide

\* The journal stays true to the model, whatever is cancelled, restarted or lost.
LEMMA JournalStep ==
    ASSUME Journal, Next
    PROVE  Journal'
<1>1. ASSUME NEW r \in Requests, SubmitArrives(r) PROVE Journal'
    <2>1. CASE Known(r) \/ Cardinality(Occupied) >= MaxInflight
        BY <1>1, <2>1 DEF SubmitArrives, Journal
    <2>2. CASE ~(Known(r) \/ Cardinality(Occupied) >= MaxInflight)
        BY <1>1, <2>2 DEF SubmitArrives, Journal, Known
    <2> QED BY <2>1, <2>2
<1>2. ASSUME NEW r \in Requests, CancelArrives(r) PROVE Journal'
    BY <1>2 DEF CancelArrives, Journal
<1>3. ASSUME NEW r \in Requests, Connects(r) PROVE Journal'
    BY <1>3 DEF Connects, Finish, Journal
<1>4. ASSUME NEW r \in Requests, ModelEnds(r) PROVE Journal'
    BY <1>4 DEF ModelEnds, gpuServer, Journal
<1>5. ASSUME NEW r \in Requests, ModelReplies(r) PROVE Journal'
    BY <1>5 DEF ModelReplies, Finish, Journal
<1>6. ASSUME NEW r \in Requests, Acknowledge(r) PROVE Journal'
    <2>1. UNCHANGED <<journal, thread, model>> /\ entry' \in {entry, [entry EXCEPT ![r] = "none"]}
        BY <1>6 DEF Acknowledge
    <2> QED BY <2>1 DEF Journal
<1>7. CASE GpuServerRestarts
    BY <1>7 DEF GpuServerRestarts, Recovered, Journal
<1>8. CASE UNCHANGED <<journal, thread, entry, model>>
    BY <1>8 DEF Journal
<1> QED BY <1>1, <1>2, <1>3, <1>4, <1>5, <1>6, <1>7, <1>8, ServerSteps

\* Slots are taken by admission only.
LEMMA SlotsStep ==
    ASSUME Journal, Slots, Next
    PROVE  Slots'
<1>a. ASSUME Occupied' \subseteq Occupied PROVE Slots'
    <2>1. IsFiniteSet(Occupied') /\ Cardinality(Occupied') <= Cardinality(Occupied)
        BY <1>a, FS_Subset DEF Slots
    <2>2. Cardinality(Occupied) \in Nat /\ Cardinality(Occupied') \in Nat
        BY <2>1, FS_CardinalityType DEF Slots
    <2> QED BY <2>1, <2>2, RelayAssumption DEF Slots
<1>1. ASSUME NEW r \in Requests, SubmitArrives(r) PROVE Slots'
    <2>1. CASE Known(r) \/ Cardinality(Occupied) >= MaxInflight
        BY <1>1, <1>a, <2>1 DEF SubmitArrives, Occupied
    <2>2. CASE ~(Known(r) \/ Cardinality(Occupied) >= MaxInflight)
        <3>1. Occupied' = Occupied \cup {r}
            BY <1>1, <2>2 DEF SubmitArrives, Occupied, Journal
        <3>2. /\ IsFiniteSet(Occupied \cup {r})
              /\ Cardinality(Occupied \cup {r}) = Cardinality(Occupied)
                   \/ Cardinality(Occupied \cup {r}) = Cardinality(Occupied) + 1
            BY FS_AddElement DEF Slots
        <3>3. Cardinality(Occupied) \in Nat
            BY FS_CardinalityType DEF Slots
        <3> QED BY <2>2, <3>1, <3>2, <3>3, RelayAssumption DEF Slots
    <2> QED BY <2>1, <2>2
<1>2. ASSUME NEW r \in Requests, CancelArrives(r) PROVE Slots'
    BY <1>2, <1>a DEF CancelArrives, Occupied, Journal
<1>3. ASSUME NEW r \in Requests, Connects(r) PROVE Slots'
    BY <1>3, <1>a DEF Connects, Finish, Occupied, Journal
<1>4. ASSUME NEW r \in Requests, ModelEnds(r) PROVE Slots'
    BY <1>4, <1>a DEF ModelEnds, gpuServer, Occupied
<1>5. ASSUME NEW r \in Requests, ModelReplies(r) PROVE Slots'
    BY <1>5, <1>a DEF ModelReplies, Finish, Occupied, Journal
<1>6. ASSUME NEW r \in Requests, Acknowledge(r) PROVE Slots'
    <2>1. UNCHANGED journal /\ entry' \in {entry, [entry EXCEPT ![r] = "none"]}
        BY <1>6 DEF Acknowledge
    <2> QED BY <1>a, <2>1 DEF Occupied, Journal
<1>7. CASE GpuServerRestarts
    BY <1>7, <1>a DEF GpuServerRestarts, Recovered, Occupied, Journal
<1>8. CASE UNCHANGED <<journal, thread, entry, model>>
    BY <1>8, <1>a DEF Occupied
<1> QED BY <1>1, <1>2, <1>3, <1>4, <1>5, <1>6, <1>7, <1>8, ServerSteps

\* The model is asked once, by a worker that is connecting, and its end is final.
ModelMoves ==
    \A r \in Requests :
        \/ model'[r] = model[r]
        \/ model[r] = "untouched" /\ model'[r] = "sampling" /\ thread[r] = "connecting"
        \/ model[r] = "sampling" /\ model'[r] \in {"sampled", "closed"}

\* Only a connecting worker and the model itself change what the model does.
LEMMA ModelStep ==
    ASSUME Journal, Next
    PROVE  ModelMoves
<1>1. ASSUME NEW r \in Requests, Connects(r) PROVE ModelMoves
    BY <1>1 DEF Connects, Journal, ModelMoves
<1>2. ASSUME NEW r \in Requests, ModelEnds(r) PROVE ModelMoves
    BY <1>2 DEF ModelEnds, Journal, ModelMoves
<1>3. CASE UNCHANGED model
    BY <1>3 DEF ModelMoves
<1>4. (\A r \in Requests : ~Connects(r) /\ ~ModelEnds(r)) => UNCHANGED model
    BY ServerSteps DEF SubmitArrives, CancelArrives, ModelReplies, Acknowledge, GpuServerRestarts
<1> QED BY <1>1, <1>2, <1>3, <1>4


\* An answer is stored once and stays; "ok" and "terminal" only by a task that has the
\* completion they stand for.
AnswerMoves ==
    /\ outbox' \in [Requests -> {"none", "ok", "error", "terminal"}]
    /\ \A r \in Requests :
           \/ outbox'[r] = outbox[r]
           \/ outbox[r] = "none" /\ outbox'[r] = "error"
           \/ outbox[r] = "none" /\ outbox'[r] = "ok" /\ task[r] = "committing"
           \/ outbox[r] = "none" /\ outbox'[r] = "terminal" /\ task[r] = "closing"

\* Failing a set of requests answers only those without answer.
LEMMA FailedMoves ==
    ASSUME Evidence, NEW S, outbox' = Failed(S)
    PROVE  AnswerMoves
BY DEF Evidence, Failed, AnswerMoves

\* No step takes an answer back or answers "ok" or "terminal" without the task for it.
LEMMA AnswerStep ==
    ASSUME Evidence, Next
    PROVE  AnswerMoves
<1>0. ASSUME UNCHANGED outbox PROVE AnswerMoves
    BY <1>0 DEF Evidence, AnswerMoves
<1>1. ASSUME NEW r \in Requests, Claim(r) PROVE AnswerMoves
    <2>1. \E S : outbox' = Failed(S)
        BY <1>1 DEF Claim
    <2> QED BY <2>1, FailedMoves
<1>2. CASE Sweep
    BY <1>2, FailedMoves DEF Sweep
<1>3. ASSUME NEW r \in Requests, CpuCancels(r) PROVE AnswerMoves
    <2>1. outbox' = outbox \/ outbox' = Failed({r})
        BY <1>3 DEF CpuCancels
    <2> QED BY <2>1, <1>0, FailedMoves
<1>4. ASSUME NEW r \in Requests, CommitOk(r) PROVE AnswerMoves
    <2>1. task[r] = "committing"
        BY <1>4 DEF CommitOk
    <2>2. CASE outbox' = [Failed(Unanswered(spool) \cap expired) EXCEPT ![r] = "ok"] /\ Accepts(r)
        BY <2>1, <2>2 DEF Accepts, Failed, Evidence, AnswerMoves
    <2>3. CASE outbox' = [outbox EXCEPT ![r] = "ok"] /\ Accepts(r)
        BY <2>1, <2>3 DEF Accepts, Evidence, AnswerMoves
    <2>4. CASE outbox' = outbox \/ outbox' = Failed(Unanswered(spool) \cap expired)
        BY <2>4, <1>0, FailedMoves
    <2> QED BY <1>4, <2>2, <2>3, <2>4 DEF CommitOk
<1>5. ASSUME NEW r \in Requests, CommitFailure(r) PROVE AnswerMoves
    <2>1. CASE UNCHANGED outbox
        BY <2>1, <1>0
    <2>2. CASE Accepts(r) /\ outbox' = [outbox EXCEPT ![r] = "error"]
        BY <2>2 DEF Accepts, Evidence, AnswerMoves
    <2>3. CASE Accepts(r) /\ outbox' = [outbox EXCEPT ![r] = "terminal"] /\ task[r] = "closing"
        BY <2>3 DEF Accepts, Evidence, AnswerMoves
    <2> QED BY <1>5, <2>1, <2>2, <2>3 DEF CommitFailure
<1>6. CASE CpuServerRestarts
    BY <1>6, FailedMoves DEF CpuServerRestarts
<1>7. ASSUME NEW r \in Requests, Publish(r) \/ Expire(r) \/ CreditTimeout(r) PROVE UNCHANGED outbox
    BY <1>7 DEF Publish, Expire, CreditTimeout, cpuFiles
<1>8. ASSUME NEW r \in Requests, GpuSide(r) PROVE UNCHANGED outbox
    <2>1. CASE SubmitReplies(r) \/ PollReturns(r) \/ Acknowledge(r) \/ CommitTimeout(r)
        BY <2>1 DEF SubmitReplies, PollReturns, Acknowledge, CommitTimeout, cpuFiles
    <2>2. CASE SubmitArrives(r) \/ CancelArrives(r) \/ GenerationTimer(r)
        BY <2>2 DEF SubmitArrives, CancelArrives, GenerationTimer, cpuFiles
    <2>3. CASE Connects(r) \/ ModelEnds(r) \/ ModelReplies(r)
        BY <2>3 DEF Connects, ModelEnds, ModelReplies, cpuFiles
    <2> QED BY <1>8, <2>1, <2>2, <2>3 DEF GpuSide
<1>9. CASE Connect \/ HeartbeatFails \/ ClaimRefused \/ CpuReceives \/ GpuReceives
    <2>1. UNCHANGED outbox
        BY <1>9 DEF Connect, HeartbeatFails, ClaimRefused, CpuReceives, GpuReceives, cpuFiles
    <2> QED BY <2>1, <1>0
<1>10. CASE GpuServerRestarts \/ PagesReload
    <2>1. UNCHANGED outbox
        BY <1>10 DEF GpuServerRestarts, PagesReload, cpuFiles
    <2> QED BY <2>1, <1>0
<1> QED BY <1>0, <1>1, <1>2, <1>3, <1>4, <1>5, <1>6, <1>7, <1>8, <1>9, <1>10 DEF Next, Fault, CpuSide

\* A task begins with a claim, and stores a completion only when a message brought it.
TaskMoves ==
    /\ task' \in [Requests -> {"none", "pending", "committing", "failing", "closing", "credit", "kept"}]
    /\ \A r \in Requests :
           /\ task'[r] # "none" => task[r] # "none" \/ spool'[r] = "inflight"
           /\ task'[r] = "committing" => task[r] = "committing" \/ model[r] = "sampled"
           /\ task'[r] = "closing" => task[r] = "closing" \/ model[r] = "closed"

\* What the CPU page does with the tasks follows from what it was told.
LEMMA TaskStep ==
    ASSUME Journal, Evidence, Durable, Next
    PROVE  TaskMoves
<1>0. ASSUME UNCHANGED task PROVE TaskMoves
    BY <1>0 DEF Evidence, TaskMoves
<1>1. ASSUME NEW r \in Requests, Claim(r) PROVE TaskMoves
    <2>1. spool'[r] = "inflight" /\ (task' = task \/ task' = [task EXCEPT ![r] = "pending"])
        BY <1>1 DEF Claim
    <2> QED BY <2>1 DEF Evidence, TaskMoves
<1>2. ASSUME NEW r \in Requests, CpuCancels(r) PROVE TaskMoves
    BY <1>2 DEF CpuCancels, Evidence, TaskMoves
<1>3. CASE CpuReceives
    <2>1. /\ Head(toCpu) \in TrueReports
          /\ Head(toCpu)[1] \in {"ok", "error", "terminal", "released", "blocked"} /\ Head(toCpu)[2] \in Requests
        BY <1>3 DEF CpuReceives, Evidence, TrueReports
    <2> DEFINE kind == Head(toCpu)[1]
               r == Head(toCpu)[2]
    <2>2. /\ kind = "ok" => model[r] = "sampled"
          /\ kind = "terminal" => model[r] = "closed"
        BY <2>1 DEF TrueReports
    <2>3. \/ /\ kind \in {"ok", "error", "terminal"}
             /\ task' = [task EXCEPT ![r] = IF @ # "pending" THEN @
                                             ELSE CASE kind = "ok" -> "committing"
                                                    [] kind = "error" -> "failing"
                                                    [] kind = "terminal" -> "closing"]
          \/ task' = [task EXCEPT ![r] = IF @ = "credit" THEN "none" ELSE @]
          \/ task[r] = "credit" /\ task' = [task EXCEPT ![r] = "kept"]
          \/ task' = task
        BY <1>3 DEF CpuReceives
    <2>4. CASE task[r] = "pending" /\ kind = "ok" /\ task' = [task EXCEPT ![r] = "committing"]
        BY <2>1, <2>2, <2>4 DEF Evidence, TaskMoves
    <2>5. CASE task[r] = "pending" /\ kind = "error" /\ task' = [task EXCEPT ![r] = "failing"]
        BY <2>1, <2>2, <2>5 DEF Evidence, TaskMoves
    <2>6. CASE task[r] = "pending" /\ kind = "terminal" /\ task' = [task EXCEPT ![r] = "closing"]
        BY <2>1, <2>2, <2>6 DEF Evidence, TaskMoves
    <2>7. CASE task' = [task EXCEPT ![r] = "none"]
        BY <2>1, <2>7 DEF Evidence, TaskMoves
    <2>8. CASE task[r] = "credit" /\ task' = [task EXCEPT ![r] = "kept"]
        BY <2>1, <2>8 DEF Evidence, TaskMoves
    <2>9. CASE task' = task \/ task' = [task EXCEPT ![r] = task[r]]
        BY <2>1, <2>9 DEF Evidence, TaskMoves
    <2> HIDE DEF kind, r
    <2> QED BY <2>3, <2>4, <2>5, <2>6, <2>7, <2>8, <2>9
<1>4. ASSUME NEW r \in Requests, CommitOk(r) PROVE TaskMoves
    <2>1. task[r] = "committing" /\ (task' = [task EXCEPT ![r] = "credit"] \/ task' = [task EXCEPT ![r] = "failing"])
        BY <1>4 DEF CommitOk
    <2> QED BY <2>1 DEF Evidence, TaskMoves
<1>5. ASSUME NEW r \in Requests, CommitFailure(r) PROVE TaskMoves
    <2>1. task[r] # "none" /\ (task' = [task EXCEPT ![r] = "credit"] \/ task' = [task EXCEPT ![r] = "none"])
        BY <1>5 DEF CommitFailure
    <2> QED BY <2>1 DEF Evidence, TaskMoves
<1>6. ASSUME NEW r \in Requests, CreditTimeout(r) PROVE TaskMoves
    BY <1>6 DEF CreditTimeout, Evidence, TaskMoves
<1>7. CASE PagesReload
    BY <1>7 DEF PagesReload, Evidence, TaskMoves
<1>8. ASSUME NEW r \in Requests, Publish(r) \/ Expire(r) PROVE UNCHANGED task
    BY <1>8 DEF Publish, Expire, cpuPage
<1>9. ASSUME NEW r \in Requests, GpuSide(r) PROVE UNCHANGED task
    <2>1. CASE SubmitReplies(r) \/ PollReturns(r) \/ Acknowledge(r) \/ CommitTimeout(r)
        BY <2>1 DEF SubmitReplies, PollReturns, Acknowledge, CommitTimeout, cpuPage
    <2>2. CASE SubmitArrives(r) \/ CancelArrives(r) \/ GenerationTimer(r)
        BY <2>2 DEF SubmitArrives, CancelArrives, GenerationTimer, cpuPage
    <2>3. CASE Connects(r) \/ ModelEnds(r) \/ ModelReplies(r)
        BY <2>3 DEF Connects, ModelEnds, ModelReplies, cpuPage
    <2> QED BY <1>9, <2>1, <2>2, <2>3 DEF GpuSide
<1>10. CASE Connect \/ HeartbeatFails \/ ClaimRefused \/ Sweep \/ GpuReceives
    <2>1. UNCHANGED task
        BY <1>10 DEF Connect, HeartbeatFails, ClaimRefused, Sweep, GpuReceives, cpuPage
    <2> QED BY <2>1, <1>0
<1>11. CASE GpuServerRestarts \/ CpuServerRestarts
    <2>1. UNCHANGED task
        BY <1>11 DEF GpuServerRestarts, CpuServerRestarts, cpuPage
    <2> QED BY <2>1, <1>0
<1> QED BY <1>0, <1>1, <1>2, <1>3, <1>4, <1>5, <1>6, <1>7, <1>8, <1>9, <1>10, <1>11 DEF Next, Fault, CpuSide


-----------------------------------------------------------------------------
(* Messages *)

\* A queue of good messages is one of messages that are good in a wider sense.
LEMMA QueueWider ==
    ASSUME NEW S, NEW T, S \subseteq T, NEW q \in Seq(S)
    PROVE  q \in Seq(T)
OBVIOUS

\* Receiving leaves a queue of good messages, and so does sending a good one.
LEMMA QueueKept ==
    ASSUME NEW S, NEW q \in Seq(S)
    PROVE  /\ \A m \in S : Append(q, m) \in Seq(S)
           /\ \A m, n \in S : Append(q, m) \o <<n>> \in Seq(S)
           /\ \A m \in S : Append(q, m) \o <<>> \in Seq(S)
           /\ q # <<>> => Head(q) \in S /\ Tail(q) \in Seq(S)
<1>1. \A m \in S : Append(q, m) \in Seq(S)
    OBVIOUS
<1>2. \A n \in S : <<n>> \in Seq(S)
    OBVIOUS
<1>3. \A m, n \in S : Append(q, m) \o <<n>> \in Seq(S)
    BY <1>1, <1>2
<1>4. \A m \in S : Append(q, m) \o <<>> \in Seq(S)
    BY <1>1
<1> QED BY <1>1, <1>3, <1>4

\* An error and a release may always be reported.
LEMMA HarmlessReports ==
    ASSUME NEW r \in Requests
    PROVE  <<"error", r>> \in TrueReports /\ <<"released", r>> \in TrueReports /\ <<"blocked", r>> \in TrueReports
BY DEF TrueReports

\* A failure on the GPU page reports it and perhaps the release that was waiting.
LEMMA ErroredReports ==
    ASSUME Evidence, NEW r \in Requests, NEW kind, <<kind, r>> \in TrueReports, Errored(r, kind)
    PROVE  toCpu' \in Seq(TrueReports)
<1>1. <<"released", r>> \in TrueReports
    BY HarmlessReports
<1>2. toCpu \in Seq(TrueReports)
    BY DEF Evidence
<1>3. \/ toCpu' = Append(toCpu, <<kind, r>>) \o <<<<"released", r>>>>
      \/ toCpu' = Append(toCpu, <<kind, r>>) \o <<>>
    BY DEF Errored
<1> QED BY <1>1, <1>2, <1>3, QueueKept

\* Every report that is sent is true when it is sent.
LEMMA ReportsStep ==
    ASSUME Journal, Evidence, Durable, Next
    PROVE  toCpu' \in Seq(TrueReports)
<1>0. toCpu \in Seq(TrueReports)
    BY DEF Evidence
<1>1. ASSUME NEW r \in Requests, NEW kind, <<kind, r>> \in TrueReports, toCpu' = Append(toCpu, <<kind, r>>)
      PROVE  toCpu' \in Seq(TrueReports)
    BY <1>0, <1>1, QueueKept
<1>2. CASE CpuReceives
    BY <1>0, <1>2, QueueKept DEF CpuReceives
<1>3. CASE GpuReceives
    <2> DEFINE r == Head(toGpu)[2]
    <2>1. Head(toGpu) \in TrueCommits
        BY <1>3, QueueKept DEF GpuReceives, Durable
    <2>2. r \in Requests
        BY <2>1 DEF TrueCommits
    <2>3. <<"error", r>> \in TrueReports /\ <<"released", r>> \in TrueReports
        BY <2>2, HarmlessReports
    <2>4. \/ toCpu' = toCpu
          \/ toCpu' = Append(toCpu, <<"error", r>>)
          \/ toCpu' = Append(toCpu, <<"released", r>>)
          \/ Errored(r, "error")
        BY <1>3 DEF GpuReceives
    <2> HIDE DEF r
    <2> QED BY <1>0, <1>1, <2>2, <2>3, <2>4, ErroredReports
<1>4. ASSUME NEW r \in Requests, SubmitReplies(r) PROVE toCpu' \in Seq(TrueReports)
    <2>1. toCpu' = toCpu \/ Errored(r, "error")
        BY <1>4 DEF SubmitReplies
    <2> QED BY <1>0, <2>1, ErroredReports, HarmlessReports
<1>5. ASSUME NEW r \in Requests, PollReturns(r) PROVE toCpu' \in Seq(TrueReports)
    <2>1. \/ entry[r] = "ok" /\ toCpu' = Append(toCpu, <<"ok", r>>)
          \/ entry[r] \in {"error", "terminal"} /\ Errored(r, entry[r])
          \/ Errored(r, "error")
        BY <1>5 DEF PollReturns
    <2>2. entry[r] = "ok" => <<"ok", r>> \in TrueReports
        BY DEF Journal, TrueReports
    <2>3. entry[r] \in {"error", "terminal"} => <<entry[r], r>> \in TrueReports
        BY DEF Journal, TrueReports
    <2> QED BY <1>1, <2>1, <2>2, <2>3, ErroredReports, HarmlessReports
<1>6. ASSUME NEW r \in Requests, Acknowledge(r) PROVE toCpu' \in Seq(TrueReports)
    <2>1. toCpu' = Append(toCpu, <<"released", r>>) \/ toCpu' = Append(toCpu, <<"blocked", r>>)
        BY <1>6 DEF Acknowledge
    <2> QED BY <1>1, <2>1, HarmlessReports
<1>7. CASE PagesReload
    BY <1>7 DEF PagesReload
<1>8. ASSUME NEW r \in Requests, CpuSide(r) PROVE UNCHANGED toCpu
    <2>1. CASE Publish(r) \/ Expire(r) \/ Claim(r) \/ CpuCancels(r)
        BY <2>1 DEF Publish, Expire, Claim, CpuCancels
    <2>2. CASE CommitOk(r) \/ CommitFailure(r) \/ CreditTimeout(r)
        BY <2>2 DEF CommitOk, CommitFailure, CreditTimeout
    <2> QED BY <1>8, <2>1, <2>2 DEF CpuSide
<1>9. ASSUME NEW r \in Requests, \/ CommitTimeout(r) \/ SubmitArrives(r) \/ CancelArrives(r) \/ GenerationTimer(r)
                                 \/ Connects(r) \/ ModelEnds(r) \/ ModelReplies(r)
      PROVE  UNCHANGED toCpu
    BY <1>9 DEF CommitTimeout, SubmitArrives, CancelArrives, GenerationTimer, Connects, ModelEnds, ModelReplies
<1>10. CASE Connect \/ HeartbeatFails \/ ClaimRefused \/ Sweep \/ GpuServerRestarts \/ CpuServerRestarts
    <2>1. UNCHANGED toCpu
        BY <1>10 DEF Connect, HeartbeatFails, ClaimRefused, Sweep, GpuServerRestarts, CpuServerRestarts
    <2> QED BY <1>0, <2>1
<1> QED BY <1>0, <1>2, <1>3, <1>4, <1>5, <1>6, <1>7, <1>8, <1>9, <1>10 DEF Next, Fault, CpuSide, GpuSide

\* What the CPU side holds stays borne out by the model.
LEMMA EvidenceStep ==
    ASSUME Journal, Evidence, Durable, Next
    PROVE  Evidence'
<1>1. AnswerMoves /\ TaskMoves /\ ModelMoves
    BY AnswerStep, TaskStep, ModelStep
<1>2. TrueReports \subseteq TrueReports'
    BY <1>1 DEF ModelMoves, TrueReports
<1>3. toCpu' \in Seq(TrueReports')
    BY <1>2, ReportsStep, QueueWider
<1>4. ASSUME NEW r \in Requests
      PROVE  /\ outbox'[r] = "ok" \/ task'[r] = "committing" => model'[r] = "sampled"
             /\ outbox'[r] = "terminal" \/ task'[r] = "closing" => model'[r] = "closed"
    <2>1. outbox'[r] = "ok" \/ task'[r] = "committing" => model[r] = "sampled"
        BY <1>1 DEF AnswerMoves, TaskMoves, Evidence
    <2>2. outbox'[r] = "terminal" \/ task'[r] = "closing" => model[r] = "closed"
        BY <1>1 DEF AnswerMoves, TaskMoves, Evidence
    <2> QED BY <1>1, <2>1, <2>2 DEF ModelMoves
<1> QED BY <1>1, <1>3, <1>4 DEF Evidence, AnswerMoves, TaskMoves


-----------------------------------------------------------------------------
(* Durability *)

\* Requests with an answer.
Answered == {r \in Requests : outbox[r] # "none"}

\* A page reports a commit only after the answer is stored: by CommitOk, or by
\* CommitFailure, which finds one there already or stores one for the claimed request.
LEMMA CommitsStep ==
    ASSUME Evidence, Durable, Next
    PROVE  toGpu' \in Seq(TrueCommits')
<1>0. toGpu \in Seq(TrueCommits')
    <2>1. TrueCommits \subseteq TrueCommits'
        BY AnswerStep DEF AnswerMoves, TrueCommits
    <2> QED BY <2>1, QueueWider DEF Durable
<1>1. ASSUME NEW r \in Requests, NEW kind, kind \in {"request", "cancel"} \/ (kind = "committed" /\ outbox'[r] # "none"),
             toGpu' = Append(toGpu, <<kind, r>>)
      PROVE  toGpu' \in Seq(TrueCommits')
    <2>1. <<kind, r>> \in TrueCommits'
        BY <1>1 DEF TrueCommits
    <2> QED BY <1>0, <1>1, <2>1, QueueKept
<1>2. CASE CpuReceives
    <2> DEFINE r == Head(toCpu)[2]
    <2>1. Head(toCpu) \in TrueReports
        BY <1>2, QueueKept DEF CpuReceives, Evidence
    <2>2. r \in Requests
        BY <2>1 DEF TrueReports
    <2>3. toGpu' = toGpu \/ toGpu' = Append(toGpu, <<"cancel", r>>)
        BY <1>2 DEF CpuReceives
    <2> HIDE DEF r
    <2> QED BY <1>0, <1>1, <2>2, <2>3
<1>3. CASE GpuReceives
    BY <1>0, <1>3, QueueKept DEF GpuReceives
<1>4. ASSUME NEW r \in Requests, Claim(r) PROVE toGpu' \in Seq(TrueCommits')
    <2>1. toGpu' = toGpu \/ toGpu' = Append(toGpu, <<"request", r>>)
        BY <1>4 DEF Claim
    <2> QED BY <1>0, <1>1, <2>1
<1>5. ASSUME NEW r \in Requests, CpuCancels(r) PROVE toGpu' \in Seq(TrueCommits')
    BY <1>1, <1>5 DEF CpuCancels
<1>6. ASSUME NEW r \in Requests, CommitOk(r) PROVE toGpu' \in Seq(TrueCommits')
    <2>1. CASE /\ outbox' = [Failed(Unanswered(spool) \cap expired) EXCEPT ![r] = "ok"]
               /\ toGpu' = Append(toGpu, <<"committed", r>>)
        <3>1. outbox'[r] # "none"
            BY <2>1 DEF Failed
        <3> QED BY <1>1, <2>1, <3>1
    <2>2. CASE toGpu' = Append(toGpu, <<"cancel", r>>)
        BY <1>1, <2>2
    <2> QED BY <1>6, <2>1, <2>2 DEF CommitOk
<1>7. ASSUME NEW r \in Requests, CommitFailure(r) PROVE toGpu' \in Seq(TrueCommits')
    <2>1. CASE UNCHANGED toGpu
        BY <1>0, <2>1
    <2>2. CASE toGpu' = Append(toGpu, <<"committed", r>>) /\ task'= [task EXCEPT ![r] = "credit"]
        <3>1. spool[r] = "inflight"
            BY <1>7 DEF CommitFailure, Durable
        <3>2. CASE outbox[r] = "none"
            <4>1. \E k \in {"error", "terminal"} : outbox' = [outbox EXCEPT ![r] = k]
                <5>1. Accepts(r)
                    BY <3>1, <3>2 DEF Accepts
                <5>2. task'[r] # "none"
                    BY <2>2 DEF Evidence
                <5>3. task' # [task EXCEPT ![r] = "none"]
                    BY <5>2 DEF Evidence
                <5> QED BY <1>7, <5>1, <5>3 DEF CommitFailure
            <4>2. outbox'[r] # "none"
                BY <4>1 DEF Evidence
            <4> QED BY <1>1, <2>2, <4>2
        <3>3. CASE outbox[r] # "none"
            <4>1. outbox'[r] # "none"
                BY <3>3, AnswerStep DEF AnswerMoves
            <4> QED BY <1>1, <2>2, <4>1
        <3> QED BY <3>2, <3>3
    <2> QED BY <1>7, <2>1, <2>2 DEF CommitFailure
<1>8. CASE PagesReload
    BY <1>8 DEF PagesReload
<1>9. ASSUME NEW r \in Requests, Publish(r) \/ Expire(r) \/ CreditTimeout(r) PROVE UNCHANGED toGpu
    BY <1>9 DEF Publish, Expire, CreditTimeout
<1>10. ASSUME NEW r \in Requests, GpuSide(r) PROVE UNCHANGED toGpu
    <2>1. CASE SubmitReplies(r) \/ PollReturns(r) \/ Acknowledge(r) \/ CommitTimeout(r)
        BY <2>1 DEF SubmitReplies, PollReturns, Acknowledge, CommitTimeout
    <2>2. CASE SubmitArrives(r) \/ CancelArrives(r) \/ GenerationTimer(r)
        BY <2>2 DEF SubmitArrives, CancelArrives, GenerationTimer
    <2>3. CASE Connects(r) \/ ModelEnds(r) \/ ModelReplies(r)
        BY <2>3 DEF Connects, ModelEnds, ModelReplies
    <2> QED BY <1>10, <2>1, <2>2, <2>3 DEF GpuSide
<1>11. CASE Connect \/ HeartbeatFails \/ ClaimRefused \/ Sweep \/ GpuServerRestarts \/ CpuServerRestarts
    <2>1. UNCHANGED toGpu
        BY <1>11 DEF Connect, HeartbeatFails, ClaimRefused, Sweep, GpuServerRestarts, CpuServerRestarts
    <2> QED BY <1>0, <2>1
<1> QED BY <1>0, <1>2, <1>3, <1>4, <1>5, <1>6, <1>7, <1>8, <1>9, <1>10, <1>11 DEF Next, Fault, CpuSide

\* The spool only moves on: a claimed request stays claimed.
LEMMA SpoolStep ==
    ASSUME Durable, Next
    PROVE  /\ spool' \in [Requests -> {"none", "inbox", "inflight"}]
           /\ \A r \in Requests : spool[r] = "inflight" => spool'[r] = "inflight"
<1>1. ASSUME NEW r \in Requests, Publish(r)
      PROVE  /\ spool' \in [Requests -> {"none", "inbox", "inflight"}]
             /\ \A q \in Requests : spool[q] = "inflight" => spool'[q] = "inflight"
    BY <1>1 DEF Publish, Durable
<1>2. ASSUME NEW r \in Requests, Claim(r)
      PROVE  /\ spool' \in [Requests -> {"none", "inbox", "inflight"}]
             /\ \A q \in Requests : spool[q] = "inflight" => spool'[q] = "inflight"
    <2>1. \E B : spool' = [q \in Requests |-> IF q \in B THEN "inflight" ELSE spool[q]]
        BY <1>2 DEF Claim
    <2> QED BY <2>1 DEF Durable
<1>3. ASSUME NEW r \in Requests, Expire(r) \/ CpuCancels(r) \/ CommitOk(r) \/ CommitFailure(r) \/ CreditTimeout(r)
      PROVE  UNCHANGED spool
    BY <1>3 DEF Expire, CpuCancels, CommitOk, CommitFailure, CreditTimeout, cpuFiles
<1>4. ASSUME NEW r \in Requests, GpuSide(r) PROVE UNCHANGED spool
    <2>1. CASE SubmitReplies(r) \/ PollReturns(r) \/ Acknowledge(r) \/ CommitTimeout(r)
        BY <2>1 DEF SubmitReplies, PollReturns, Acknowledge, CommitTimeout, cpuFiles
    <2>2. CASE SubmitArrives(r) \/ CancelArrives(r) \/ GenerationTimer(r)
        BY <2>2 DEF SubmitArrives, CancelArrives, GenerationTimer, cpuFiles
    <2>3. CASE Connects(r) \/ ModelEnds(r) \/ ModelReplies(r)
        BY <2>3 DEF Connects, ModelEnds, ModelReplies, cpuFiles
    <2> QED BY <1>4, <2>1, <2>2, <2>3 DEF GpuSide
<1>5. CASE Connect \/ HeartbeatFails \/ ClaimRefused \/ Sweep \/ CpuReceives \/ GpuReceives
    <2>1. UNCHANGED spool
        BY <1>5 DEF Connect, HeartbeatFails, ClaimRefused, Sweep, CpuReceives, GpuReceives, cpuFiles
    <2> QED BY <2>1 DEF Durable
<1>6. CASE Fault
    <2>1. UNCHANGED spool
        BY <1>6 DEF Fault, GpuServerRestarts, CpuServerRestarts, PagesReload, cpuFiles
    <2> QED BY <2>1 DEF Durable
<1>7. ASSUME UNCHANGED spool
      PROVE  /\ spool' \in [Requests -> {"none", "inbox", "inflight"}]
             /\ \A q \in Requests : spool[q] = "inflight" => spool'[q] = "inflight"
    BY <1>7 DEF Durable
<1> QED BY <1>1, <1>2, <1>3, <1>4, <1>5, <1>6, <1>7 DEF Next, CpuSide

\* What the GPU side takes for committed or has acknowledged had its answer before.
LEMMA AcknowledgedStep ==
    ASSUME Durable, Next
    PROVE  committed' \subseteq Answered /\ acked' \subseteq Answered
<1>0. committed \subseteq Answered /\ acked \subseteq Answered
    BY DEF Durable, Answered
<1>1. CASE GpuReceives
    <2> DEFINE kind == Head(toGpu)[1]
               r == Head(toGpu)[2]
    <2>1. Head(toGpu) \in TrueCommits
        BY <1>1, QueueKept DEF GpuReceives, Durable
    <2>2. kind = "committed" => r \in Answered
        BY <2>1 DEF TrueCommits, Answered
    <2>3. committed' = committed \/ (kind = "committed" /\ committed' = committed \cup {r})
        BY <1>1 DEF GpuReceives
    <2>4. UNCHANGED acked
        BY <1>1 DEF GpuReceives, gpuServer
    <2> HIDE DEF kind, r
    <2> QED BY <1>0, <2>2, <2>3, <2>4
<1>2. ASSUME NEW r \in Requests, Acknowledge(r) PROVE committed' \subseteq Answered /\ acked' \subseteq Answered
    <2>1. r \in committed /\ committed' = committed /\ (acked' = acked \/ acked' = acked \cup {r})
        BY <1>2 DEF Acknowledge
    <2> QED BY <1>0, <2>1
<1>3. CASE PagesReload
    BY <1>0, <1>3 DEF PagesReload, gpuServer
<1>4. ASSUME NEW r \in Requests, CpuSide(r) PROVE UNCHANGED <<committed, acked>>
    <2>1. CASE Publish(r) \/ Expire(r) \/ Claim(r) \/ CpuCancels(r)
        BY <2>1 DEF Publish, Expire, Claim, CpuCancels, gpuPage, gpuServer
    <2>2. CASE CommitOk(r) \/ CommitFailure(r) \/ CreditTimeout(r)
        BY <2>2 DEF CommitOk, CommitFailure, CreditTimeout, gpuPage, gpuServer
    <2> QED BY <1>4, <2>1, <2>2 DEF CpuSide
<1>5. ASSUME NEW r \in Requests, \/ SubmitReplies(r) \/ PollReturns(r) \/ CommitTimeout(r)
                                 \/ SubmitArrives(r) \/ CancelArrives(r) \/ GenerationTimer(r)
      PROVE  UNCHANGED <<committed, acked>>
    BY <1>5 DEF SubmitReplies, PollReturns, CommitTimeout, SubmitArrives, CancelArrives, GenerationTimer, gpuPage, gpuServer
<1>6. ASSUME NEW r \in Requests, Connects(r) \/ ModelEnds(r) \/ ModelReplies(r) PROVE UNCHANGED <<committed, acked>>
    BY <1>6 DEF Connects, ModelEnds, ModelReplies, gpuPage, gpuServer
<1>7. CASE Connect \/ HeartbeatFails \/ ClaimRefused \/ Sweep \/ CpuReceives
    BY <1>0, <1>7 DEF Connect, HeartbeatFails, ClaimRefused, Sweep, CpuReceives, gpuPage, gpuServer
<1>8. CASE GpuServerRestarts \/ CpuServerRestarts
    BY <1>0, <1>8 DEF GpuServerRestarts, CpuServerRestarts, gpuPage, gpuServer
<1> QED BY <1>0, <1>1, <1>2, <1>3, <1>4, <1>5, <1>6, <1>7, <1>8 DEF Next, Fault, GpuSide

\* Commits stay durable.
LEMMA DurableStep ==
    ASSUME Journal, Evidence, Durable, Next
    PROVE  Durable'
<1>1. \A r \in Requests : task'[r] # "none" => spool'[r] = "inflight"
    BY TaskStep, SpoolStep DEF TaskMoves, Durable
<1>2. Answered \subseteq Answered'
    BY AnswerStep DEF AnswerMoves, Answered
<1>3. committed' \subseteq Answered' /\ acked' \subseteq Answered'
    BY <1>2, AcknowledgedStep
<1> QED BY <1>1, <1>3, CommitsStep, SpoolStep DEF Durable, Answered

-----------------------------------------------------------------------------
(* Theorems *)

\* Nothing is known, claimed or occupied in the beginning.
LEMMA InitInv == Init => IndInv
<1> SUFFICES ASSUME Init PROVE IndInv
    OBVIOUS
<1>1. Journal
    BY DEF Init, Journal
<1>2. Slots
    <2>1. Occupied = {}
        BY DEF Init, Occupied
    <2> QED BY <2>1, FS_EmptySet, RelayAssumption DEF Slots
<1>3. Evidence
    <2>1. toCpu \in Seq(TrueReports)
        BY DEF Init
    <2> QED BY <2>1 DEF Init, Evidence
<1>4. Durable
    <2>1. toGpu \in Seq(TrueCommits)
        BY DEF Init
    <2> QED BY <2>1 DEF Init, Durable
<1> QED BY <1>1, <1>2, <1>3, <1>4 DEF IndInv

\* No step breaks the invariant.
LEMMA StepInv == IndInv /\ [Next]_vars => IndInv'
<1> SUFFICES ASSUME IndInv, [Next]_vars PROVE IndInv'
    OBVIOUS
<1>1. CASE Next
    BY <1>1, JournalStep, SlotsStep, EvidenceStep, DurableStep DEF IndInv
<1>2. CASE UNCHANGED vars
    <2> USE <1>2 DEF vars, cpuFiles, cpuPage, gpuPage, gpuServer
    <2>1. Journal'
        BY DEF IndInv, Journal
    <2>2. Slots'
        BY DEF IndInv, Slots, Occupied
    <2>3. Evidence'
        <3>1. TrueReports' = TrueReports
            BY DEF TrueReports
        <3> QED BY <3>1 DEF IndInv, Evidence
    <2>4. Durable'
        <3>1. TrueCommits' = TrueCommits
            BY DEF TrueCommits
        <3> QED BY <3>1 DEF IndInv, Durable
    <2> QED BY <2>1, <2>2, <2>3, <2>4 DEF IndInv
<1> QED BY <1>1, <1>2

\* The invariant holds in every reachable state.
THEOREM RelayInvariant == Spec => []IndInv
<1> QED BY InitInv, StepInv, PTL DEF Spec

\* For any requests, capacity and faults, the model never works on more requests than the
\* relay has slots, and a delivery is acknowledged only when its answer is durable
\* (admit_generation, recover, finishCommittedCompletion).
THEOREM RelayIsSafe == Spec => []RelaySafe
<1>1. IndInv => RelaySafe
    <2> SUFFICES ASSUME IndInv PROVE RelaySafe
        OBVIOUS
    <2> DEFINE Sampling == {r \in Requests : model[r] = "sampling"}
    <2>1. Sampling \subseteq Occupied
        BY DEF IndInv, Journal, Occupied
    <2>2. IsFiniteSet(Occupied) /\ Cardinality(Occupied) <= MaxInflight
        BY DEF IndInv, Slots
    <2>3. IsFiniteSet(Sampling) /\ Cardinality(Sampling) <= Cardinality(Occupied)
        BY <2>1, <2>2, FS_Subset
    <2>4. Cardinality(Sampling) \in Nat /\ Cardinality(Occupied) \in Nat
        BY <2>2, <2>3, FS_CardinalityType
    <2>5. ModelSlotsRespected
        BY <2>2, <2>3, <2>4, RelayAssumption DEF ModelSlotsRespected
    <2>6. AcknowledgedIsDurable
        BY DEF IndInv, Durable, AcknowledgedIsDurable
    <2> QED BY <2>5, <2>6 DEF RelaySafe
<1> QED BY <1>1, RelayInvariant, PTL

\* The relay starts as the contract does.
LEMMA RefinesInit == Init => Contract!Init
BY DEF Init, Contract!Init

\* A request is withdrawn when its tombstone is written, and stays withdrawn.
Withdrawn == {r \in Requests : journal[r] = "cancelled"}

\* A step that only answers is a step of the contract: all it answers, it may answer.
LEMMA RefinesAnswer ==
    ASSUME IndInv, Next, UNCHANGED <<model, Withdrawn>>
    PROVE  Contract!Next
<1>1. AnswerMoves /\ outbox \in [Requests -> {"none", "ok", "error", "terminal"}]
    BY AnswerStep DEF IndInv, Evidence
<1> DEFINE S == {r \in Requests : outbox'[r] # outbox[r]}
           what == [r \in S |-> outbox'[r]]
<1>2. what \in [S -> {"ok", "error", "terminal"}]
    BY <1>1 DEF AnswerMoves
<1>3. ASSUME NEW r \in S
      PROVE  /\ outbox[r] = "none"
             /\ what[r] = "ok" => model[r] = "sampled"
             /\ what[r] = "terminal" => model[r] = "closed"
    BY <1>1 DEF AnswerMoves, IndInv, Evidence
<1>4. outbox' = [r \in Requests |-> IF r \in S THEN what[r] ELSE outbox[r]]
    BY <1>1 DEF AnswerMoves
<1>5. Contract!Answer(S, what)
    <2> HIDE DEF S, what
    <2> QED BY <1>3, <1>4 DEF Contract!Answer, Withdrawn
<1>6. S \in SUBSET Requests
    OBVIOUS
<1> HIDE DEF S, what
<1> QED BY <1>2, <1>5, <1>6 DEF Contract!Next

\* Every step of the relay is one of the contract, or leaves its state alone.
LEMMA RefinesStep == IndInv /\ [Next]_vars => [Contract!Next]_<<model, outbox, Withdrawn>>
<1> SUFFICES ASSUME IndInv, Next PROVE Contract!Next \/ UNCHANGED <<model, outbox, Withdrawn>>
    BY DEF vars, cpuFiles, gpuServer, Withdrawn
<1>1. ASSUME NEW r \in Requests, Connects(r) PROVE Contract!Next \/ UNCHANGED <<model, outbox, Withdrawn>>
    <2>1. CASE thread' = [thread EXCEPT ![r] = "dispatched"] /\ model' = [model EXCEPT ![r] = "sampling"] /\ UNCHANGED journal
        <3>1. model[r] = "untouched" /\ outbox[r] \in {"none", "error"} /\ journal[r] # "cancelled"
            BY <1>1 DEF Connects, IndInv, Journal, Evidence
        <3>2. UNCHANGED outbox
            BY <1>1 DEF Connects, cpuFiles
        <3>3. Contract!Ask(r)
            BY <2>1, <3>1, <3>2 DEF Contract!Ask
        <3> QED BY <3>3 DEF Contract!Next
    <2>2. CASE Finish(r, "failed", "error") /\ UNCHANGED model
        <3>1. journal[r] = "running" /\ journal' = [journal EXCEPT ![r] = "failed"]
            BY <1>1, <2>2 DEF Connects, Finish, IndInv, Journal
        <3>2. UNCHANGED Withdrawn
            BY <3>1 DEF Withdrawn, IndInv, Journal
        <3> QED BY <2>2, <3>2, RefinesAnswer
    <2> QED BY <1>1, <2>1, <2>2 DEF Connects
<1>2. ASSUME NEW r \in Requests, ModelEnds(r) PROVE Contract!Next \/ UNCHANGED <<model, outbox, Withdrawn>>
    <2>1. PICK how \in {"sampled", "closed"} : model' = [model EXCEPT ![r] = how]
        BY <1>2 DEF ModelEnds
    <2>2. model[r] = "sampling" /\ outbox[r] \in {"none", "error"} /\ UNCHANGED <<outbox, journal>>
        BY <1>2 DEF ModelEnds, IndInv, Evidence, cpuFiles, gpuServer
    <2>3. Contract!End(r, how)
        BY <2>1, <2>2 DEF Contract!End
    <2> QED BY <2>1, <2>3 DEF Contract!Next
<1>3. ASSUME NEW r \in Requests, CancelArrives(r) PROVE Contract!Next \/ UNCHANGED <<model, outbox, Withdrawn>>
    <2>1. UNCHANGED <<model, outbox>> /\ journal' = [journal EXCEPT ![r] = IF @ = "none" THEN "cancelled" ELSE @]
        BY <1>3 DEF CancelArrives, cpuFiles
    <2>2. CASE journal[r] = "none"
        <3>1. Withdrawn' = Withdrawn \cup {r} /\ model[r] = "untouched"
            BY <2>1, <2>2 DEF Withdrawn, IndInv, Journal
        <3>2. Contract!Withdraw(r)
            BY <2>1, <3>1 DEF Contract!Withdraw, Withdrawn
        <3> QED BY <3>2 DEF Contract!Next
    <2>3. CASE journal[r] # "none"
        <3>1. UNCHANGED Withdrawn
            BY <2>1, <2>3 DEF Withdrawn, IndInv, Journal
        <3> QED BY <2>1, <3>1
    <2> QED BY <2>2, <2>3
<1>4. ASSUME NEW r \in Requests, SubmitArrives(r) PROVE UNCHANGED <<model, Withdrawn>>
    <2>1. CASE UNCHANGED journal
        BY <1>4, <2>1 DEF SubmitArrives, Withdrawn
    <2>2. CASE journal[r] = "none" /\ journal' = [journal EXCEPT ![r] = "running"]
        BY <1>4, <2>2 DEF SubmitArrives, Withdrawn, IndInv, Journal
    <2> QED BY <1>4, <2>1, <2>2 DEF SubmitArrives, Known
<1>5. ASSUME NEW r \in Requests, ModelReplies(r) PROVE UNCHANGED <<model, Withdrawn>>
    <2>1. \E status \in {"finished", "failed", "uncertain"} : journal' = [journal EXCEPT ![r] = status]
        BY <1>5 DEF ModelReplies, Finish
    <2>2. journal[r] = "running"
        BY <1>5 DEF ModelReplies, IndInv, Journal
    <2> QED BY <1>5, <2>1, <2>2 DEF ModelReplies, Withdrawn, IndInv, Journal
<1>6. ASSUME NEW r \in Requests, Acknowledge(r) PROVE UNCHANGED <<model, Withdrawn>>
    BY <1>6 DEF Acknowledge, Withdrawn
<1>7. CASE GpuServerRestarts
    <2>1. UNCHANGED <<model, Withdrawn>>
        BY <1>7 DEF GpuServerRestarts, Recovered, Withdrawn, IndInv, Journal
    <2> QED BY <2>1, RefinesAnswer
<1>8. CASE UNCHANGED <<journal, thread, entry, model>>
    <2>1. UNCHANGED <<model, Withdrawn>>
        BY <1>8 DEF Withdrawn
    <2> QED BY <2>1, RefinesAnswer
<1> QED BY <1>1, <1>2, <1>3, <1>4, <1>5, <1>6, <1>7, <1>8, ServerSteps, RefinesAnswer

\* The relay implements the contract its agents rely on: the model is asked at most once for
\* a request and never for a withdrawn one, the first answer is final, "ok" is a completion
\* the model made and "terminal" an end it proved, whatever is lost, cancelled, overtaken,
\* reloaded or restarted (admit_generation, cancel_generation, result, recover).
THEOREM RelayImplementsContract == Spec => ImplementsContract
<1>1. Init => Contract!Init
    BY RefinesInit
<1>2. IndInv /\ [Next]_vars => [Contract!Next]_<<model, outbox, {r \in Requests : journal[r] = "cancelled"}>>
    BY RefinesStep DEF Withdrawn
<1> QED BY <1>1, <1>2, RelayInvariant, PTL DEF Spec, ImplementsContract, Contract!Spec
=============================================================================
