------------------------------- MODULE Relay -------------------------------
(***************************************************************************)
(* The way of one generation request from an agent to the model and back:  *)
(* the agent publishes a file in the CPU spool (AsyncFileRelay), the page  *)
(* of the CPU relay claims it and posts it to the page of the GPU relay,   *)
(* that page submits it to the GPU relay server, whose worker thread calls *)
(* the model.  Nothing is ever sent twice: after a fault the outcome is    *)
(* left uncertain instead.                                                 *)
(*                                                                         *)
(* postMessage is FIFO.  An HTTP call of a page may be served and its      *)
(* reply lost; submissions and cancellations may arrive late, overtake     *)
(* each other or, as nothing is fair here, never arrive.  The files are    *)
(* durable, the rest dies with its process or page.  Readiness, which      *)
(* stops claims, is in RelayReadiness: here a paired page may claim.       *)
(***************************************************************************)
EXTENDS Naturals, FiniteSets, Sequences

CONSTANTS
    Requests,       \* request ids, ordered: the spool is claimed in file name order
    MaxInflight,    \* max_inflight of both relays
    MaxFaults       \* bound: restarts of a relay server and reloads of the two pages

ASSUME RelayAssumption == Requests \subseteq Nat /\ MaxInflight \in Nat \ {0} /\ MaxFaults \in Nat

VARIABLES
    expired,        \* requests whose deadline has passed
    spool, outbox,  \* files of the CPU relay: where the request is, its answer
    running,        \* CPU page: the relay loop is on
    task,           \* CPU page: [request -> where processJob is]
    paired, recovery,   \* [page -> flag]
    stale,          \* pages whose server has restarted since they were opened
    toGpu, toCpu,   \* messages between the pages
    item,           \* GPU page: [request -> where gpuRequest is]
    completion, committed,  \* GPU page: completion read, commit reported by the CPU page
    wire,           \* HTTP calls of the GPU page that are under way
    journal, acked, \* files of the GPU relay: dispatch journal, delivery acknowledged
    thread, cancel, \* GPU relay: its worker threads and their cancel events
    entry,          \* GPU relay: completions kept for the poll
    model,          \* [request -> what the model did of it]
    faults

cpuFiles == <<spool, outbox>>
cpuPage == <<running, task>>
pages == <<paired, recovery, stale>>
gpuPage == <<item, completion, committed>>
gpuServer == <<journal, acked, thread, cancel, entry>>
vars == <<expired, cpuFiles, cpuPage, pages, toGpu, toCpu, gpuPage, wire, gpuServer, model, faults>>

Init ==
    /\ expired = {}
    /\ spool = [r \in Requests |-> "none"] /\ outbox = [r \in Requests |-> "none"]
    /\ running = FALSE
    /\ task = [r \in Requests |-> "none"]
    /\ paired = [p \in {"cpu", "gpu"} |-> FALSE] /\ recovery = [p \in {"cpu", "gpu"} |-> FALSE]
    /\ stale = {} /\ toGpu = <<>> /\ toCpu = <<>>
    /\ item = [r \in Requests |-> "none"] /\ completion = {} /\ committed = {} /\ wire = {}
    /\ journal = [r \in Requests |-> "none"] /\ acked = {}
    /\ thread = [r \in Requests |-> "none"] /\ cancel = {}
    /\ entry = [r \in Requests |-> "none"]
    /\ model = [r \in Requests |-> "untouched"] /\ faults = 0

-----------------------------------------------------------------------------
(* The agent *)

\* The request is linked into the inbox once, with its deadline.
Publish(r) ==
    /\ spool[r] = "none" /\ spool' = [spool EXCEPT ![r] = "inbox"]
    /\ UNCHANGED <<expired, outbox, cpuPage, pages, toGpu, toCpu, gpuPage, wire, gpuServer, model, faults>>

\* The deadline passes, before there is an answer; afterwards it plays no part.
Expire(r) ==
    /\ spool[r] # "none" /\ outbox[r] = "none" /\ r \notin expired /\ expired' = expired \cup {r}
    /\ UNCHANGED <<cpuFiles, cpuPage, pages, toGpu, toCpu, gpuPage, wire, gpuServer, model, faults>>

-----------------------------------------------------------------------------
(* The CPU relay: server calls and the page that makes them *)

Tasks == {r \in Requests : task[r] # "none"}
Items == {r \in Requests : item[r] # "none"}
Unanswered(s) == {r \in Requests : s[r] = "inflight" /\ outbox[r] = "none"}
Failed(S) == [r \in Requests |-> IF r \in S /\ outbox[r] = "none" THEN "error" ELSE outbox[r]]

\* #connect and #start: both pages drained and nothing to reconcile.
Connect ==
    /\ Tasks = {} /\ Items = {} /\ \A p \in {"cpu", "gpu"} : ~recovery[p]
    /\ ~running \/ \E p \in {"cpu", "gpu"} : ~paired[p]
    /\ paired' = [p \in {"cpu", "gpu"} |-> TRUE] /\ running' = TRUE
    /\ UNCHANGED <<expired, cpuFiles, task, recovery, stale, toGpu, toCpu, gpuPage, wire, gpuServer, model, faults>>

\* The boot identity of the GPU relay has changed: the pages part.
HeartbeatFails ==
    /\ running /\ paired["cpu"] /\ paired["gpu"] /\ "gpu" \in stale
    /\ paired' = [p \in {"cpu", "gpu"} |-> FALSE]
    /\ UNCHANGED <<expired, cpuFiles, running, task, recovery, stale, toGpu, toCpu, gpuPage, wire, gpuServer, model, faults>>

\* claim: expired claims are failed, then the first file of the inbox is taken that is not
\* expired itself; expired ones before it are moved and failed.  The reply, or the receipt
\* looked up instead, makes the page post the request (processJob).  A page that has
\* stopped meanwhile cancels the claim.  When reply, receipt or cancellation fail the page
\* asks for reconciliation and never replays.
Claim(r) ==
    LET before == {q \in Requests : spool[q] = "inbox" /\ q < r}
        swept == before \cup (Unanswered(spool) \cap expired)
    IN  /\ running /\ paired["cpu"] /\ ~recovery["cpu"] /\ "cpu" \notin stale
        /\ Cardinality(Tasks) < MaxInflight
        /\ Cardinality(Unanswered(spool) \ expired) < MaxInflight
        /\ spool[r] = "inbox" /\ r \notin expired /\ before \subseteq expired
        /\ spool' = [q \in Requests |-> IF q \in before \cup {r} THEN "inflight" ELSE spool[q]]
        /\ \/ /\ outbox' = Failed(swept)
              /\ task' = [task EXCEPT ![r] = "pending"] /\ toGpu' = Append(toGpu, <<"request", r>>)
              /\ UNCHANGED <<running, recovery>>
           \/ outbox' = Failed(swept \cup {r}) /\ running' = FALSE /\ UNCHANGED <<task, toGpu, recovery>>
           \/ /\ outbox' = Failed(swept) /\ running' = FALSE
              /\ recovery' = [recovery EXCEPT !["cpu"] = TRUE] /\ UNCHANGED <<task, toGpu>>
        /\ UNCHANGED <<expired, paired, stale, toCpu, gpuPage, wire, gpuServer, model, faults>>

\* A claim that finds nothing to do still fails the claims whose deadline has passed.
Sweep ==
    /\ Failed(Unanswered(spool) \cap expired) # outbox
    /\ outbox' = Failed(Unanswered(spool) \cap expired)
    /\ UNCHANGED <<expired, spool, cpuPage, pages, toGpu, toCpu, gpuPage, wire, gpuServer, model, faults>>

\* The server has another boot identity: the claim is refused.
ClaimRefused ==
    /\ "cpu" \in stale /\ running /\ paired["cpu"] /\ ~recovery["cpu"]
    /\ recovery' = [recovery EXCEPT !["cpu"] = TRUE] /\ running' = FALSE
    /\ UNCHANGED <<expired, cpuFiles, task, paired, stale, toGpu, toCpu, gpuPage, wire, gpuServer, model, faults>>

\* The timer of the page, or the operator: the claim is cancelled on both sides.
CpuCancels(r) ==
    /\ task[r] = "pending" \/ (task[r] = "committing" /\ running)
    /\ task' = [task EXCEPT ![r] = IF @ = "pending" THEN "failing" ELSE @]
    /\ toGpu' = Append(toGpu, <<"cancel", r>>) /\ running' = FALSE
    /\ outbox' \in {outbox, Failed({r})}
    /\ UNCHANGED <<expired, spool, pages, toCpu, gpuPage, wire, gpuServer, model, faults>>

\* A message from the GPU page.  A result or an error without waiter is dropped.
CpuReceives ==
    /\ toCpu # <<>> /\ toCpu' = Tail(toCpu)
    /\ LET kind == Head(toCpu)[1]
           r == Head(toCpu)[2]
       IN  \/ /\ kind \in {"ok", "error", "terminal"}
              /\ task' = [task EXCEPT ![r] = IF @ # "pending" THEN @
                                             ELSE CASE kind = "ok" -> "committing"
                                                    [] kind = "error" -> "failing"
                                                    [] kind = "terminal" -> "closing"]
              /\ running' = (running /\ (task[r] # "pending" \/ kind = "ok"))
              /\ toGpu' = IF task[r] = "pending" /\ kind # "ok" THEN Append(toGpu, <<"cancel", r>>) ELSE toGpu
              /\ UNCHANGED pages
           \/ /\ kind = "released"
              /\ task' = [task EXCEPT ![r] = IF @ = "credit" THEN "none" ELSE @]
              /\ UNCHANGED <<running, pages, toGpu>>
           \/ /\ kind = "blocked" /\ task[r] = "credit" /\ task' = [task EXCEPT ![r] = "kept"]
              /\ paired' = [paired EXCEPT !["cpu"] = FALSE] /\ recovery' = [recovery EXCEPT !["cpu"] = TRUE]
              /\ running' = FALSE
              /\ UNCHANGED <<stale, toGpu>>
           \/ /\ kind = "blocked" /\ task[r] # "credit"
              /\ UNCHANGED <<task, running, pages, toGpu>>
    /\ UNCHANGED <<expired, cpuFiles, gpuPage, wire, gpuServer, model, faults>>

\* result: an answer is committed once, for a claimed request.
Accepts(r) == outbox[r] = "none" /\ spool[r] = "inflight"

\* The page stores the completion.  Expired claims are failed first; on any doubt the page
\* goes on to store a failure.
CommitOk(r) ==
    /\ task[r] = "committing"
    /\ \/ /\ Accepts(r) /\ r \notin expired
          /\ outbox' = [Failed(Unanswered(spool) \cap expired) EXCEPT ![r] = "ok"]
          /\ task' = [task EXCEPT ![r] = "credit"] /\ toGpu' = Append(toGpu, <<"committed", r>>)
          /\ UNCHANGED running
       \/ /\ outbox' \in {outbox, Failed(Unanswered(spool) \cap expired)}
                  \cup (IF Accepts(r) /\ r \notin expired THEN {[outbox EXCEPT ![r] = "ok"]} ELSE {})
          /\ task' = [task EXCEPT ![r] = "failing"] /\ toGpu' = Append(toGpu, <<"cancel", r>>)
          /\ running' = FALSE
    /\ UNCHANGED <<expired, spool, pages, toCpu, gpuPage, wire, gpuServer, model, faults>>

\* The page stores a failure, or cancels the claim: either way an answer exists.  When both
\* calls get no reply the page gives the request up and is no longer paired.
CommitFailure(r) ==
    /\ task[r] \in {"failing", "closing"}
    /\ LET stored == {[outbox EXCEPT ![r] = k] : k \in {"error"} \cup IF task[r] = "closing" THEN {"terminal"} ELSE {}}
           after == IF Accepts(r) THEN stored ELSE {outbox}
       IN  \/ /\ outbox' \in after
              /\ task' = [task EXCEPT ![r] = "credit"] /\ toGpu' = Append(toGpu, <<"committed", r>>)
              /\ UNCHANGED paired
           \/ /\ outbox' \in after \cup {outbox}
              /\ task' = [task EXCEPT ![r] = "none"] /\ paired' = [paired EXCEPT !["cpu"] = FALSE]
              /\ UNCHANGED toGpu
    /\ UNCHANGED <<expired, spool, running, recovery, stale, toCpu, gpuPage, wire, gpuServer, model, faults>>

\* No credit in ten seconds: the task is kept and the page stops.
CreditTimeout(r) ==
    /\ task[r] = "credit" /\ task' = [task EXCEPT ![r] = "kept"]
    /\ recovery' = [recovery EXCEPT !["cpu"] = TRUE] /\ paired' = [paired EXCEPT !["cpu"] = FALSE]
    /\ running' = FALSE
    /\ UNCHANGED <<expired, cpuFiles, stale, toGpu, toCpu, gpuPage, wire, gpuServer, model, faults>>

-----------------------------------------------------------------------------
(* The GPU page *)

\* api/cancel.  Once the journal has a final status the call changes nothing.
CancelCall(r) == IF journal[r] \in {"none", "running"} THEN {<<"cancel", r>>} ELSE {}

\* The request fails on this page: an error is posted and the server is told to cancel.
Errored(r, kind) ==
    /\ item' = [item EXCEPT ![r] = IF r \in committed /\ r \notin completion' THEN "none" ELSE "sent"]
    /\ toCpu' = Append(toCpu, <<kind, r>>) \o IF r \in committed /\ r \notin completion' THEN <<<<"released", r>>>> ELSE <<>>
    /\ wire' = wire \cup CancelCall(r)

\* A message from the CPU page.
GpuReceives ==
    /\ toGpu # <<>> /\ toGpu' = Tail(toGpu)
    /\ LET kind == Head(toGpu)[1]
           r == Head(toGpu)[2]
       IN  \/ /\ kind = "request" /\ paired["gpu"] /\ ~recovery["gpu"] /\ Cardinality(Items) < MaxInflight
              /\ item' = [item EXCEPT ![r] = "submitting"] /\ wire' = wire \cup {<<"submit", r>>}
              /\ UNCHANGED <<toCpu, completion, committed>>
           \/ /\ kind = "request" /\ ~(paired["gpu"] /\ ~recovery["gpu"] /\ Cardinality(Items) < MaxInflight)
              /\ toCpu' = Append(toCpu, <<"error", r>>)
              /\ UNCHANGED <<item, wire, completion, committed>>
           \/ /\ kind = "cancel" /\ item[r] \in {"submitting", "polling"}
              /\ completion' = completion /\ Errored(r, "error") /\ UNCHANGED committed
           \/ /\ kind = "cancel" /\ item[r] \notin {"submitting", "polling"}
              /\ wire' = wire \cup CancelCall(r)
              /\ UNCHANGED <<item, toCpu, completion, committed>>
           \/ /\ kind = "committed"
              /\ committed' = IF item[r] = "none" THEN committed ELSE committed \cup {r}
              /\ item' = [item EXCEPT ![r] = IF @ = "sent" /\ r \notin completion THEN "none" ELSE @]
              /\ toCpu' = IF item[r] = "sent" /\ r \notin completion THEN Append(toCpu, <<"released", r>>) ELSE toCpu
              /\ UNCHANGED <<completion, wire>>
    /\ UNCHANGED <<expired, cpuFiles, cpuPage, pages, gpuServer, model, faults>>

\* The reply of api/submit arrives, or does not: then the request fails here although the
\* call may still be under way.
SubmitReplies(r) ==
    /\ item[r] = "submitting" /\ completion' = completion
    /\ \/ /\ entry[r] # "none" /\ item' = [item EXCEPT ![r] = "polling"] /\ UNCHANGED <<toCpu, wire>>
       \/ Errored(r, "error")
    /\ UNCHANGED <<expired, cpuFiles, cpuPage, pages, toGpu, committed, gpuServer, model, faults>>

\* The poll returns a completion, or fails for good: restarted server, deadline, no reply.
PollReturns(r) ==
    /\ item[r] = "polling"
    /\ \/ /\ "gpu" \notin stale /\ entry[r] \in {"ok", "error", "terminal"} /\ completion' = completion \cup {r}
          /\ IF entry[r] = "ok"
             THEN item' = [item EXCEPT ![r] = "sent"] /\ toCpu' = Append(toCpu, <<"ok", r>>) /\ UNCHANGED wire
             ELSE Errored(r, entry[r])
       \/ completion' = completion /\ Errored(r, "error")
    /\ UNCHANGED <<expired, cpuFiles, cpuPage, pages, toGpu, committed, gpuServer, model, faults>>

\* complete-ack: only after the CPU page reported its durable commit; retried three times.
Acknowledge(r) ==
    /\ item[r] = "sent" /\ r \in committed /\ r \in completion
    /\ \/ /\ entry[r] # "none" \/ r \in acked
          /\ acked' = acked \cup {r} /\ entry' = [entry EXCEPT ![r] = "none"]
          /\ item' = [item EXCEPT ![r] = "none"] /\ toCpu' = Append(toCpu, <<"released", r>>)
          /\ UNCHANGED pages
       \/ /\ IF entry[r] # "none"
             THEN \/ acked' = acked \cup {r} /\ entry' = [entry EXCEPT ![r] = "none"]
                  \/ UNCHANGED <<acked, entry>>
             ELSE UNCHANGED <<acked, entry>>
          /\ item' = [item EXCEPT ![r] = "blocked"] /\ toCpu' = Append(toCpu, <<"blocked", r>>)
          /\ recovery' = [recovery EXCEPT !["gpu"] = TRUE] /\ paired' = [paired EXCEPT !["gpu"] = FALSE]
          /\ UNCHANGED stale
    /\ UNCHANGED <<expired, cpuFiles, cpuPage, toGpu, completion, committed, wire, journal, thread, cancel, model, faults>>

\* No commit reported in ten seconds.
CommitTimeout(r) ==
    /\ item[r] = "sent" /\ r \notin committed /\ ~recovery["gpu"]
    /\ recovery' = [recovery EXCEPT !["gpu"] = TRUE] /\ paired' = [paired EXCEPT !["gpu"] = FALSE]
    /\ UNCHANGED <<expired, cpuFiles, cpuPage, stale, toGpu, toCpu, gpuPage, wire, gpuServer, model, faults>>

-----------------------------------------------------------------------------
(* The GPU relay server *)

Occupied == {r \in Requests : journal[r] \in {"running", "uncertain"} \/ entry[r] # "none"}

\* Mutant: an id that only has a tombstone may be admitted.
KnownId(r) == journal[r] \notin {"none", "cancelled"}
Known(r) == journal[r] # "none"

\* admit_generation and submit_generation; a refused submission changes nothing.
SubmitArrives(r) ==
    /\ <<"submit", r>> \in wire /\ wire' = wire \ {<<"submit", r>>}
    /\ IF Known(r) \/ Cardinality(Occupied) >= MaxInflight
       THEN UNCHANGED <<journal, thread, entry>>
       ELSE /\ journal' = [journal EXCEPT ![r] = "running"] /\ thread' = [thread EXCEPT ![r] = "connecting"]
            /\ entry' = [entry EXCEPT ![r] = "pending"]
    /\ UNCHANGED <<expired, cpuFiles, cpuPage, pages, toGpu, toCpu, gpuPage, acked, cancel, model, faults>>

\* cancel_generation: a tombstone when the submission has not come yet, else the event.
CancelArrives(r) ==
    /\ <<"cancel", r>> \in wire /\ wire' = wire \ {<<"cancel", r>>}
    /\ journal' = [journal EXCEPT ![r] = IF @ = "none" THEN "cancelled" ELSE @]
    /\ cancel' = IF thread[r] = "none" THEN cancel ELSE cancel \cup {r}
    /\ UNCHANGED <<expired, cpuFiles, cpuPage, pages, toGpu, toCpu, gpuPage, acked, thread, entry, model, faults>>

\* The timer of execute_generation.
GenerationTimer(r) ==
    /\ thread[r] # "none" /\ r \notin cancel /\ cancel' = cancel \cup {r}
    /\ UNCHANGED <<expired, cpuFiles, cpuPage, pages, toGpu, toCpu, gpuPage, wire, journal, acked, thread, entry, model, faults>>

\* finish_generation and the completion of the worker.
Finish(r, status, value) ==
    /\ journal' = [journal EXCEPT ![r] = status] /\ thread' = [thread EXCEPT ![r] = "none"]
    /\ cancel' = cancel \ {r} /\ entry' = [entry EXCEPT ![r] = value]

\* The worker connects; a cancellation seen now proves that nothing was dispatched.
Connects(r) ==
    /\ thread[r] = "connecting"
    /\ \/ /\ r \notin cancel /\ thread' = [thread EXCEPT ![r] = "dispatched"]
          /\ model' = [model EXCEPT ![r] = "sampling"]
          /\ UNCHANGED <<journal, cancel, entry>>
       \/ Finish(r, "failed", "error") /\ UNCHANGED model
    /\ UNCHANGED <<expired, cpuFiles, cpuPage, pages, toGpu, toCpu, gpuPage, wire, acked, faults>>

\* The model ends on its own: a completion, or an end it can prove.
ModelEnds(r) ==
    /\ model[r] = "sampling" /\ \E how \in {"sampled", "closed"} : model' = [model EXCEPT ![r] = how]
    /\ UNCHANGED <<expired, cpuFiles, cpuPage, pages, toGpu, toCpu, gpuPage, wire, gpuServer, faults>>

\* The reply: a completion in time, a failure with its receipt, a rejection, which ends
\* the request without one where the model has no controller (vllm-v1), or anything else.
ModelReplies(r) ==
    /\ thread[r] = "dispatched"
    /\ \/ model[r] = "sampled" /\ r \notin cancel /\ Finish(r, "finished", "ok")
       \/ model[r] = "closed" /\ r \notin cancel /\ Finish(r, "failed", "terminal")
       \/ model[r] = "closed" /\ r \notin cancel /\ Finish(r, "failed", "error")
       \/ Finish(r, "uncertain", "error")
    /\ UNCHANGED <<expired, cpuFiles, cpuPage, pages, toGpu, toCpu, gpuPage, wire, acked, model, faults>>

-----------------------------------------------------------------------------
(* Faults *)

\* recover: claims without an answer are failed; receipts of claims are gone.
CpuServerRestarts ==
    /\ faults < MaxFaults /\ faults' = faults + 1
    /\ outbox' = Failed(Unanswered(spool)) /\ stale' = stale \cup {"cpu"}
    /\ UNCHANGED <<expired, spool, cpuPage, paired, recovery, toGpu, toCpu, gpuPage, wire, gpuServer, model>>

\* Mutant: a restart forgets what was dispatched.
RecoveredForgetful(status) == IF status = "running" THEN "failed" ELSE status
Recovered(status) == IF status = "running" THEN "uncertain" ELSE status

\* recover: running requests become uncertain; threads and completions are gone.
GpuServerRestarts ==
    /\ faults < MaxFaults /\ faults' = faults + 1
    /\ journal' = [r \in Requests |-> Recovered(journal[r])]
    /\ thread' = [r \in Requests |-> "none"] /\ cancel' = {} /\ entry' = [r \in Requests |-> "none"]
    /\ stale' = stale \cup {"gpu"}
    /\ UNCHANGED <<expired, cpuFiles, cpuPage, paired, recovery, toGpu, toCpu, gpuPage, wire, acked, model>>

\* The operator opens both pages anew: all they knew is gone, flags to reconcile too.
PagesReload ==
    /\ faults < MaxFaults /\ faults' = faults + 1
    /\ running' = FALSE /\ task' = [r \in Requests |-> "none"]
    /\ paired' = [p \in {"cpu", "gpu"} |-> FALSE] /\ recovery' = [p \in {"cpu", "gpu"} |-> FALSE]
    /\ stale' = {} /\ toGpu' = <<>> /\ toCpu' = <<>>
    /\ item' = [r \in Requests |-> "none"] /\ completion' = {} /\ committed' = {}
    /\ UNCHANGED <<expired, cpuFiles, wire, gpuServer, model>>

-----------------------------------------------------------------------------
CpuSide(r) ==
    \/ Publish(r) \/ Expire(r) \/ Claim(r) \/ CpuCancels(r)
    \/ CommitOk(r) \/ CommitFailure(r) \/ CreditTimeout(r)

GpuSide(r) ==
    \/ SubmitReplies(r) \/ PollReturns(r) \/ Acknowledge(r) \/ CommitTimeout(r)
    \/ SubmitArrives(r) \/ CancelArrives(r) \/ GenerationTimer(r)
    \/ Connects(r) \/ ModelEnds(r) \/ ModelReplies(r)

Fault == CpuServerRestarts \/ GpuServerRestarts \/ PagesReload

Next ==
    \/ Connect \/ HeartbeatFails \/ ClaimRefused \/ Sweep \/ CpuReceives \/ GpuReceives \/ Fault
    \/ \E r \in Requests : CpuSide(r) \/ GpuSide(r)

Spec == Init /\ [][Next]_vars

-----------------------------------------------------------------------------
(* Properties *)

\* Whatever is lost, cancelled or restarted, the model never works on more requests than
\* the relay has slots: a dispatch of unknown outcome keeps its slot (admit_generation,
\* recover, execute_generation).
ModelSlotsRespected == Cardinality({r \in Requests : model[r] = "sampling"}) <= MaxInflight

\* A delivery is acknowledged only when the CPU relay holds a durable answer, so that the
\* completion, the only copy of it, may be dropped (finishCommittedCompletion).
AcknowledgedIsDurable == \A r \in acked : outbox[r] # "none"

\* The relay's books are safe to act on: neither a slot nor the only copy of a completion is
\* given up while it is needed.
RelaySafe == ModelSlotsRespected /\ AcknowledgedIsDurable

\* The contract the agents rely on, of which this is an implementation.  A cancellation
\* that overtakes its submission leaves a tombstone, which withdraws the request
\* (cancel_generation, admit_generation).
Contract == INSTANCE RequestContract WITH
    answer <- outbox, withdrawn <- {r \in Requests : journal[r] = "cancelled"}

\* Every behaviour of the relay is one the contract allows: one question to the model, one
\* final answer, and no work after a terminal one (admit_generation, result, cancel_generation).
ImplementsContract == Contract!Spec
=============================================================================
