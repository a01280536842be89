--------------------------- MODULE NativeRequests ---------------------------
(***************************************************************************)
(* Model requests of native episodes: NativeBackend.execute, the RPC       *)
(* transport with its durable request ledger (transports.py), RpcClient    *)
(* and the relay server of network.py, and the model behind it.            *)
(*                                                                         *)
(* Pool threads run episodes one after the other over one persistent       *)
(* connection each.  Either process may die and be started again: the      *)
(* ledger survives the client's deaths, the server starts with an empty    *)
(* results directory, and the model goes on with what it was given.        *)
(***************************************************************************)
EXTENDS Naturals, FiniteSets, Sequences

CONSTANTS
    Threads,       \* threads of the native pool
    Jobs,          \* trial ids
    Turns,         \* args.turns
    MaxCrashes, MaxFaults    \* bounds: process deaths, failed writes or sends

ASSUME NativeRequestsAssumption ==
    Turns \in Nat \ {0} /\ MaxCrashes \in Nat /\ MaxFaults \in Nat

Ids == Jobs \X (1 .. Turns)        \* request ids: job, job-t1, job-t2, ...
None == [none |-> TRUE]
IdleThread == [pc |-> "idle"]
NoBinding == [bound |-> FALSE, closed |-> FALSE, traces |-> <<>>]

VARIABLES
    training,      \* execution_profile = "training"
    work,          \* thread -> the episode it runs
    conn,          \* thread -> [open, epoch, reply]: its RpcClient's connection
    binding,       \* job -> the transport's episode binding (this process)
    started,       \* jobs this process has executed
    fatal,         \* the runner's stop flag
    claims, ledger,          \* the .claim files, id -> the .json record
    result,        \* job -> what execute returned
    used,          \* ids in the server's results directory
    handlers,      \* requests in the server: [id, thread, epoch]
    generating,    \* ids the model works on
    runs,          \* id -> times the model was given it
    crashes, faults

client == <<work, conn, binding, started, fatal>>
files == <<claims, ledger>>
server == <<used, handlers, generating, runs>>
requestsVars == <<training, client, files, result, server, crashes, faults>>

Closed(t) == [open |-> FALSE, epoch |-> conn[t].epoch + 1, reply |-> None]

RequestsInit ==
    /\ training \in BOOLEAN
    /\ work = [t \in Threads |-> IdleThread]
    /\ conn = [t \in Threads |-> [open |-> FALSE, epoch |-> 0, reply |-> None]]
    /\ binding = [j \in Jobs |-> NoBinding] /\ started = {} /\ fatal = FALSE
    /\ claims = {} /\ ledger = [i \in Ids |-> None] /\ result = [j \in Jobs |-> None]
    /\ used = {} /\ handlers = {} /\ generating = {} /\ runs = [i \in Ids |-> 0]
    /\ crashes = 0 /\ faults = 0

\* A write succeeds, or one of the bounded number of faults happens.
Written(ok) == IF ok THEN faults' = faults ELSE faults < MaxFaults /\ faults' = faults + 1

Id(t) == <<work[t].job, work[t].turn>>
At(t, pc) == work[t].pc = pc

----------------------------------------------------------------------------
(* NativeBackend.execute and the runner's turns.                           *)

\* A failed turn sets fatal; `failure` is the error's rpc_failure.
Fails(t, failure) ==
    /\ work' = [work EXCEPT ![t] = [@ EXCEPT !.pc = "finish", !.failure = failure]]
    /\ fatal' = TRUE

Failure(dispatched, received) == [dispatched |-> dispatched, received |-> received]
Unattributed == None               \* an error without rpc_failure

\* After a fatal failure an episode is returned as not admitted.
Execute(t, j) ==
    /\ At(t, "idle") /\ j \notin started
    /\ started' = started \cup {j}
    /\ result' = [result EXCEPT ![j] = None]
    /\ IF fatal THEN UNCHANGED <<binding, work>>
       ELSE /\ binding' = IF training THEN [binding EXCEPT ![j] = [NoBinding EXCEPT !.bound = TRUE]] ELSE binding
            /\ work' = [work EXCEPT ![t] = [pc |-> "claim", job |-> j, turn |-> 1, failure |-> Unattributed,
                                            completed |-> FALSE, body |-> None]]
    /\ UNCHANGED <<training, conn, fatal, files, server, crashes, faults>>

\* The tools of the turn ran; fatal and missing feedback end the episode.
NextTurn(t, feedback) ==
    /\ At(t, "tools")
    /\ work' = [work EXCEPT ![t] =
           IF fatal \/ (work[t].turn < Turns /\ ~feedback) THEN [@ EXCEPT !.pc = "finish"]
           ELSE IF work[t].turn < Turns THEN [@ EXCEPT !.pc = "claim", !.turn = work[t].turn + 1]
           ELSE [@ EXCEPT !.pc = "finish", !.completed = TRUE]]
    /\ UNCHANGED <<training, conn, binding, started, fatal, files, result, server, crashes, faults>>

UncertainByError(t) ==
    work[t].failure # None /\ work[t].failure.dispatched /\ ~work[t].failure.received

\* The error of this attempt, or the durable record of any attempt.
Uncertain(t) ==
    \/ UncertainByError(t)
    \/ \E n \in 1 .. Turns : LET r == ledger[<<work[t].job, n>>] IN r # None /\ r.uncertain

Eligible(t) ==
    LET records == {<<work[t].job, n>> : n \in 1 .. Turns} \cap {i \in Ids : ledger[i] # None} IN
    /\ work[t].completed /\ binding[work[t].job].traces # <<>>
    /\ records # {} /\ ~Uncertain(t)
    /\ \A i \in records : ledger[i].state = "response_received" /\ ledger[i].evidence = "validated"

\* future.result, episode_traces(close=True), the result.
FinishEpisode(t) ==
    /\ At(t, "finish")
    /\ LET j == work[t].job IN
        /\ result' = [result EXCEPT ![j] = [uncertain |-> Uncertain(t), eligible |-> training /\ Eligible(t),
                                            traces |-> binding[j].traces]]
        /\ binding' = [binding EXCEPT ![j].closed = TRUE]
    /\ work' = [work EXCEPT ![t] = IdleThread]
    /\ UNCHANGED <<training, conn, started, fatal, files, server, crashes, faults>>

----------------------------------------------------------------------------
(* RpcTransport's client: admission, claim, dispatch, receipt, evidence.   *)

ClaimableAgain(i) == ledger[i] = None \/ ledger[i].state # "response_received"

\* open("x"): an id is claimed once, by whatever process.
Claimable(i) == i \notin claims

\* A closed binding, or an id that was claimed before, is refused.
ClaimRequest(t) ==
    /\ At(t, "claim")
    /\ IF (training => binding[work[t].job].bound /\ ~binding[work[t].job].closed) /\ Claimable(Id(t))
       THEN /\ claims' = claims \cup {Id(t)}
            /\ work' = [work EXCEPT ![t].pc = "state"] /\ fatal' = fatal
       ELSE Fails(t, Failure(FALSE, FALSE)) /\ UNCHANGED claims
    /\ UNCHANGED <<training, conn, binding, started, ledger, result, server, crashes, faults>>

Record(state, uncertain, evidence) == [state |-> state, uncertain |-> uncertain, evidence |-> evidence]

\* ledger.claim's record, then ledger.update(dispatching).
WriteState(t, ok) ==
    /\ work[t].pc \in {"state", "dispatching"} /\ Written(ok)
    /\ IF ok
       THEN /\ ledger' = [ledger EXCEPT ![Id(t)] =
                  IF At(t, "state") THEN Record("claimed", FALSE, "none") ELSE Record("dispatching", TRUE, "none")]
            /\ work' = [work EXCEPT ![t].pc = IF At(t, "state") THEN "dispatching" ELSE "connect"]
            /\ fatal' = fatal
       ELSE Fails(t, Failure(FALSE, FALSE)) /\ UNCHANGED ledger
    /\ UNCHANGED <<training, conn, binding, started, claims, result, server, crashes>>

\* RpcClient.call reuses a connection, unless it has idled too long.
Connect(t, refresh, ok) ==
    /\ At(t, "connect") /\ Written(ok)
    /\ IF conn[t].open /\ ~refresh
       THEN ok /\ conn' = conn
       ELSE conn' = [conn EXCEPT ![t] = [Closed(t) EXCEPT !.open = ok]]
    /\ work' = [work EXCEPT ![t].pc = IF ok THEN "send" ELSE "undispatched"]
    /\ UNCHANGED <<training, binding, started, fatal, files, result, server, crashes>>

\* connection.request: the bytes arrive, or are lost with the connection.
Send(t, arrives) ==
    /\ At(t, "send") /\ (conn[t].open /\ arrives => faults' = faults)
    /\ (~(conn[t].open /\ arrives) => Written(FALSE))
    /\ handlers' = IF conn[t].open /\ arrives
                   THEN handlers \cup {[id |-> Id(t), thread |-> t, epoch |-> conn[t].epoch]} ELSE handlers
    /\ work' = [work EXCEPT ![t].pc = "wait"]
    /\ UNCHANGED <<training, conn, binding, started, fatal, files, result, used, generating, runs, crashes>>

\* A timeout, a reset, or a status other than 200: the connection is closed.
CallFails(t) ==
    /\ At(t, "wait")
    /\ conn' = [conn EXCEPT ![t] = Closed(t)]
    /\ work' = [work EXCEPT ![t].pc = "unknown"]
    /\ UNCHANGED <<training, binding, started, fatal, files, result, server, crashes, faults>>

\* The except branch records what the failure proves.
RecordFailure(t, ok) ==
    /\ work[t].pc \in {"undispatched", "unknown"} /\ Written(ok)
    /\ LET sent == At(t, "unknown") IN
       IF ok
       THEN /\ ledger' = [ledger EXCEPT ![Id(t)] =
                  Record(IF sent THEN "outcome_unknown" ELSE "not_dispatched", sent, "none")]
            /\ Fails(t, Failure(sent, FALSE))
       ELSE Fails(t, Unattributed) /\ UNCHANGED ledger
    /\ UNCHANGED <<training, conn, binding, started, claims, result, server, crashes>>

Receive(t, ok) ==
    /\ At(t, "wait") /\ conn[t].reply # None /\ conn[t].reply.status = 200 /\ Written(ok)
    /\ conn' = [conn EXCEPT ![t].reply = None]
    /\ IF ok
       THEN /\ ledger' = [ledger EXCEPT ![Id(t)] = Record("response_received", FALSE, "none")]
            /\ work' = [work EXCEPT ![t] = [@ EXCEPT !.pc = IF training THEN "evidence" ELSE "tools",
                                                     !.body = [id |-> conn[t].reply.id]]]
            /\ fatal' = fatal
       ELSE Fails(t, Failure(TRUE, FALSE)) /\ UNCHANGED ledger
    /\ UNCHANGED <<training, binding, started, claims, result, server, crashes>>

\* contract.validate: the evidence must name this request.
Evidence(t, genuine) ==
    /\ At(t, "evidence")
    /\ IF genuine /\ work[t].body.id = Id(t)
       THEN /\ ledger' = [ledger EXCEPT ![Id(t)].evidence = "validated"]
            /\ binding' = [binding EXCEPT ![work[t].job].traces = Append(@, work[t].body.id)]
            /\ work' = [work EXCEPT ![t].pc = "tools"] /\ fatal' = fatal
       ELSE /\ ledger' = [ledger EXCEPT ![Id(t)].evidence = "rejected"]
            /\ Fails(t, Failure(TRUE, TRUE)) /\ UNCHANGED binding
    /\ UNCHANGED <<training, conn, started, claims, result, server, crashes, faults>>

----------------------------------------------------------------------------
(* The relay server and the model.                                         *)

Reply(h, status) ==
    conn' = IF conn[h.thread].open /\ conn[h.thread].epoch = h.epoch
            THEN [conn EXCEPT ![h.thread].reply = [id |-> h.id, status |-> status]] ELSE conn

\* do_POST: a used id is refused, a new one is recorded and passed on.
Accept(h) ==
    /\ h \in handlers /\ h.id \notin generating
    /\ h.id \notin used
    /\ used' = used \cup {h.id}
    /\ generating' = generating \cup {h.id} /\ runs' = [runs EXCEPT ![h.id] = @ + 1]
    /\ UNCHANGED <<training, client, files, result, handlers, crashes, faults>>

ModelEnds(i) ==
    /\ i \in generating /\ generating' = generating \ {i}
    /\ UNCHANGED <<training, client, files, result, used, handlers, runs, crashes, faults>>

\* The answer, or a 502 when the model takes longer than generation_timeout.
Answer(h, status) ==
    /\ h \in handlers /\ h.id \in used
    /\ status = 200 => h.id \notin generating
    /\ handlers' = handlers \ {h} /\ Reply(h, status)
    /\ UNCHANGED <<training, work, binding, started, fatal, files, result, used, generating, runs, crashes, faults>>

----------------------------------------------------------------------------
(* Deaths.                                                                 *)

ClientDies ==
    /\ crashes < MaxCrashes /\ crashes' = crashes + 1
    /\ work' = [t \in Threads |-> IdleThread] /\ conn' = [t \in Threads |-> Closed(t)]
    /\ binding' = [j \in Jobs |-> NoBinding] /\ started' = {} /\ fatal' = FALSE
    /\ UNCHANGED <<training, files, result, server, faults>>

\* serve refuses an existing results directory: a new one starts empty.
ServerDies ==
    /\ crashes < MaxCrashes /\ crashes' = crashes + 1
    /\ used' = {} /\ handlers' = {}
    /\ conn' = [t \in Threads |-> Closed(t)]
    /\ UNCHANGED <<training, work, binding, started, fatal, files, result, generating, runs, faults>>

RequestsNext ==
    \/ \E t \in Threads :
         \/ \E j \in Jobs : Execute(t, j)
         \/ ClaimRequest(t) \/ CallFails(t) \/ FinishEpisode(t)
         \/ \E ok \in BOOLEAN : NextTurn(t, ok) \/ WriteState(t, ok) \/ Send(t, ok) \/ RecordFailure(t, ok)
                                \/ Receive(t, ok) \/ Evidence(t, ok)
         \/ \E refresh, ok \in BOOLEAN : Connect(t, refresh, ok)
    \/ \E h \in handlers : Accept(h)
    \/ \E h \in handlers, status \in {200, 502} : Answer(h, status)
    \/ \E i \in Ids : ModelEnds(i)
    \/ ClientDies \/ ServerDies

RequestsSpec == RequestsInit /\ [][RequestsNext]_requestsVars

----------------------------------------------------------------------------
(* Properties.                                                             *)

\* The model has, or can still be given, request i.
Outstanding(i) == i \in generating \/ \E h \in handlers : h.id = i

(* No replay (RequestLedger, RpcClient, NativeBackend.execute).  A request *)
(* id reaches the model at most once, however often the episode, the       *)
(* client and the server are started.  An episode reported certain leaves  *)
(* nothing running for it, and one eligible for training has one trace per *)
(* turn, in order, each from the one generation of that turn.              *)
NoReplay ==
    /\ \A i \in Ids : runs[i] <= 1
    /\ \A j \in Jobs : result[j] # None =>
         /\ ~result[j].uncertain => \A n \in 1 .. Turns : ~Outstanding(<<j, n>>)
         /\ result[j].eligible =>
              /\ ~result[j].uncertain
              /\ result[j].traces = [n \in 1 .. Turns |-> <<j, n>>]
              /\ \A n \in 1 .. Turns : runs[<<j, n>>] = 1
=============================================================================
