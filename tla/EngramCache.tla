----------------------------- MODULE EngramCache -----------------------------
(***************************************************************************)
(* The GPU row cache in front of a CPU Engram table                        *)
(* (dsv41_train/engram_offload.py): _RowCache.read on the host thread, a   *)
(* copy stream and the callers' streams that execute asynchronously and in *)
(* order, events between them, and the optimizer step that rewrites rows.  *)
(*                                                                         *)
(* A stream holds the commands not executed yet, each at its place: the    *)
(* first command ever issued to it has place 1.  A command starts when its *)
(* predecessors have executed and the event it comes `after' has happened  *)
(* (wait_event, just before it).  An event is a place in a stream: it has  *)
(* happened when the stream has got that far.  A row's value is            *)
(* <<row, number of writes>>.                                              *)
(***************************************************************************)
EXTENDS Integers, FiniteSets, Sequences

CONSTANTS
    NumRows,       \* rows of the owner's table
    CacheRows,     \* rows the cache holds (self.tags.numel())
    StagingRows,   \* rows of the pinned and of the staging buffer
    Streams,       \* CUDA streams lookups are issued from
    MaxReads, MaxWrites, MaxReadFaults      \* bounds on a behaviour

ASSUME EngramCacheAssumption ==
    /\ NumRows \in Nat \ {0} /\ CacheRows \in 1 .. NumRows /\ StagingRows \in Nat \ {0}
    /\ "copy" \notin Streams
    /\ MaxReads \in Nat /\ MaxWrites \in Nat /\ MaxReadFaults \in Nat

TableRows == 0 .. NumRows - 1
Places == 0 .. CacheRows - 1
Buffer == 1 .. StagingRows
Queues == Streams \cup {"copy"}
Empty == -1                         \* an unused tag, no version
Garbage == <<-1, 0>>
NoEvent == <<"copy", 0>>            \* None: nothing to wait for

VARIABLES
    writes,      \* row -> number of writes: the CPU weight
    wversion,    \* weight._version
    tags, version,                   \* _RowCache.tags, .version
    ticket,      \* _ticket is not None
    event, copyDone, consumerDone,   \* _event, _copy_done, _consumer_done
    values, pinned, staging,         \* cache rows and the two transfer buffers
    queue,       \* stream -> place -> command not executed yet
    issued, executed,                \* stream -> number of commands
    host,        \* the read in progress
    out,         \* read -> [want, got, last]: its output tensor
    readFaults

rowVars == <<writes, wversion>>
rowCacheVars == <<tags, version, ticket, event, copyDone, consumerDone>>
bufferVars == <<values, pinned, staging>>
streamVars == <<queue, issued, executed>>
engramVars == <<rowVars, rowCacheVars, bufferVars, streamVars, host, out, readFaults>>

IdleHost == [pc |-> "idle", s |-> "copy", ids |-> {}, hits |-> {}, missing |-> <<>>, start |-> 0]

EngramInit ==
    /\ writes = [r \in TableRows |-> 0] /\ wversion = 0
    /\ tags = [t \in Places |-> Empty] /\ version = 0 /\ ticket = FALSE
    /\ event = NoEvent /\ copyDone = NoEvent /\ consumerDone = NoEvent
    /\ values = [t \in Places |-> Garbage]
    /\ pinned = [i \in Buffer |-> Garbage] /\ staging = [i \in Buffer |-> Garbage]
    /\ queue = [s \in Queues |-> <<>>]
    /\ issued = [s \in Queues |-> 0] /\ executed = [s \in Queues |-> 0]
    /\ host = IdleHost /\ out = <<>> /\ readFaults = 0

----------------------------------------------------------------------------
(* Streams and events.                                                     *)

Happened(e) == executed[e[1]] >= e[2]

\* What is issued for read k: to wait, to copy the first rows of the pinned buffer to the
\* staging buffer, to copy hits to the output, or to install staged rows.
Command(op, k, after, rows, chunk) == [op |-> op, k |-> k, after |-> after, rows |-> rows, chunk |-> chunk]

Issue(s, c) ==
    /\ queue' = [queue EXCEPT ![s] = [p \in DOMAIN queue[s] \cup {issued[s] + 1} |->
                                         IF p = issued[s] + 1 THEN c ELSE queue[s][p]]]
    /\ issued' = [issued EXCEPT ![s] = issued[s] + 1]
    /\ UNCHANGED executed

\* event.record(s), when n more commands have been issued to s.
Recorded(s, n) == <<s, issued[s] + n>>

\* Direct mapping.  Of the rows of a chunk that share a place the last one stays.
PlaceOf(r) == r % CacheRows
Stays(chunk, t, i) ==
    /\ i \in DOMAIN chunk /\ PlaceOf(chunk[i]) = t
    /\ \A j \in DOMAIN chunk : PlaceOf(chunk[j]) = t => j <= i
Replaces(chunk, t) == \E i \in DOMAIN chunk : Stays(chunk, t, i)
Chosen(chunk, t) == CHOOSE i \in DOMAIN chunk : Stays(chunk, t, i)

Delivers(chunk, r) == \E i \in DOMAIN chunk : chunk[i] = r
IndexOf(chunk, r) == CHOOSE i \in DOMAIN chunk : chunk[i] = r

\* out[k] once the rows that f gives are copied to it.
Filled(k, S, f(_)) ==
    [out EXCEPT ![k] = [out[k] EXCEPT !.got =
        [r \in DOMAIN out[k].got |-> IF r \in S THEN f(r) ELSE out[k].got[r]]]]

\* What command c does.
Passes(c) == c.op = "wait" /\ UNCHANGED <<values, staging, out>>

Transfers(c) ==
    /\ c.op = "dma"
    /\ staging' = [i \in Buffer |-> IF i \in DOMAIN c.chunk THEN pinned[i] ELSE staging[i]]
    /\ UNCHANGED <<values, out>>

CopiesHits(c) ==
    /\ c.op = "hits"
    /\ out' = Filled(c.k, c.rows, LAMBDA r : values[PlaceOf(r)])
    /\ UNCHANGED <<values, staging>>

InstallsRows(c) ==
    /\ c.op = "install"
    /\ out' = Filled(c.k, {r \in TableRows : Delivers(c.chunk, r)}, LAMBDA r : staging[IndexOf(c.chunk, r)])
    /\ values' = [t \in Places |-> IF Replaces(c.chunk, t) THEN staging[Chosen(c.chunk, t)] ELSE values[t]]
    /\ UNCHANGED staging

\* The next command of stream s executes.
Execute(s) ==
    LET here == executed[s] + 1
        c == queue[s][here]
    IN  /\ executed[s] < issued[s] /\ Happened(c.after)
        /\ Passes(c) \/ Transfers(c) \/ CopiesHits(c) \/ InstallsRows(c)
        /\ queue' = [queue EXCEPT ![s] = [p \in DOMAIN queue[s] \ {here} |-> queue[s][p]]]
        /\ executed' = [executed EXCEPT ![s] = here]
        /\ UNCHANGED <<rowVars, rowCacheVars, pinned, issued, host, readFaults>>

----------------------------------------------------------------------------
(* _RowCache.                                                              *)

\* wait(): the host blocks until all the cache's events have happened.
Drained == Happened(event) /\ Happened(copyDone) /\ Happened(consumerDone)
Waited == event' = NoEvent /\ copyDone' = NoEvent /\ consumerDone' = NoEvent /\ ticket' = FALSE
Untagged == tags' = [t \in Places |-> Empty]

\* read begins on stream s: it follows whatever stream used the cache last.
Read(s, ids) ==
    /\ host.pc = "idle" /\ Len(out) < MaxReads
    /\ Issue(s, Command("wait", Len(out) + 1, event, {}, <<>>))
    /\ host' = [pc |-> "validate", s |-> s, ids |-> ids, hits |-> {}, missing |-> <<>>, start |-> 0]
    /\ out' = Append(out, [want |-> [r \in ids |-> <<r, writes[r]>>],
                           got |-> [r \in ids |-> Garbage], last |-> NoEvent])
    /\ UNCHANGED <<rowVars, rowCacheVars, bufferVars, readFaults>>

Fresh == version = wversion

\* _validate: a weight written since the last read invalidates everything.
Validate ==
    /\ host.pc = "validate"
    /\ \/ Fresh /\ UNCHANGED rowCacheVars
       \/ ~Fresh /\ Drained /\ Waited /\ Untagged /\ version' = wversion
    /\ host' = [host EXCEPT !.pc = "plan"]
    /\ UNCHANGED <<rowVars, bufferVars, streamVars, out, readFaults>>

Hits == {r \in host.ids : tags[PlaceOf(r)] = r}

\* unique(sorted=True): q lists S in order.
Lists(q, S) ==
    /\ \A r \in S : \E i \in DOMAIN q : q[i] = r
    /\ \A i, j \in DOMAIN q : i < j => q[i] < q[j]

HitsCommand(rows) == Command("hits", Len(out), NoEvent, rows, <<>>)

\* The read has issued everything: its event stands for its cache operations.
Returned ==
    /\ event' = Recorded(host.s, 1)
    /\ out' = [out EXCEPT ![Len(out)] = [out[Len(out)] EXCEPT !.last = Recorded(host.s, 1)]]
    /\ host' = IdleHost

\* Hits only: copied now, and read returns.
PlanHits ==
    /\ host.pc = "plan" /\ Hits = host.ids
    /\ Issue(host.s, HitsCommand(Hits)) /\ Returned
    /\ UNCHANGED <<rowVars, tags, version, ticket, copyDone, consumerDone, bufferVars, readFaults>>

\* With misses the hits are copied after the first transfer has begun and before a
\* colliding miss replaces their place.
PlanMisses ==
    /\ host.pc = "plan" /\ Hits # host.ids
    /\ \E q \in [1 .. Cardinality(host.ids \ Hits) -> host.ids \ Hits] :
          /\ Lists(q, host.ids \ Hits)
          /\ host' = [host EXCEPT !.pc = "begin", !.hits = Hits, !.missing = q]
    /\ UNCHANGED <<rowVars, rowCacheVars, bufferVars, streamVars, out, readFaults>>

Width == IF Len(host.missing) - host.start < StagingRows THEN Len(host.missing) - host.start ELSE StagingRows
Chunk == [i \in 1 .. Width |-> host.missing[host.start + i]]

\* Host writes may reuse pinned memory only after its previous DMA ended.
PinnedFree == Happened(copyDone)

StagingAlwaysFree == NoEvent     \* mutant

\* The copy stream may overwrite staging only after its last consumer.
StagingFree == consumerDone

\* _begin_transfer; the hits are next, at start == 0 and if there are any.
BeginTransfer ==
    /\ host.pc = "begin" /\ ~ticket /\ PinnedFree
    /\ pinned' = [i \in Buffer |-> IF i \in DOMAIN Chunk THEN <<Chunk[i], writes[Chunk[i]]>> ELSE pinned[i]]
    /\ Issue("copy", Command("dma", Len(out), StagingFree, {}, Chunk))
    /\ copyDone' = Recorded("copy", 1) /\ ticket' = TRUE
    /\ host' = [host EXCEPT !.pc = IF host.hits = {} THEN "install" ELSE "hits"]
    /\ UNCHANGED <<rowVars, tags, version, event, consumerDone, values, staging, out, readFaults>>

CopyHits ==
    /\ host.pc = "hits"
    /\ Issue(host.s, HitsCommand(host.hits))
    /\ host' = [host EXCEPT !.pc = "install", !.hits = {}]
    /\ UNCHANGED <<rowVars, rowCacheVars, bufferVars, out, readFaults>>

\* _consume_transfer, _install_rows, _finish_transfer.  One caller at a time:
\* the ticket is always the current one.
ConsumeTransfer ==
    /\ host.pc = "install"
    /\ Issue(host.s, Command("install", Len(out), copyDone, {}, Chunk))
    /\ tags' = [t \in Places |-> IF Replaces(Chunk, t) THEN Chunk[Chosen(Chunk, t)] ELSE tags[t]]
    /\ consumerDone' = Recorded(host.s, 1) /\ ticket' = FALSE
    /\ IF host.start + Width = Len(host.missing) THEN Returned
       ELSE host' = [host EXCEPT !.pc = "begin", !.start = host.start + Width] /\ UNCHANGED <<event, out>>
    /\ UNCHANGED <<rowVars, version, copyDone, bufferVars, readFaults>>

\* An exception inside read (an allocation, a kernel launch): the cache is
\* distrusted; whatever was issued still executes.
ReadRaises ==
    /\ readFaults < MaxReadFaults /\ readFaults' = readFaults + 1
    /\ Untagged /\ version' = Empty /\ host' = IdleHost
    /\ UNCHANGED <<rowVars, copyDone, bufferVars, out>>

ReadFails ==
    /\ host.pc \in {"plan", "begin", "hits", "install"}
    /\ ReadRaises /\ event' = Recorded(host.s, 0)
    /\ UNCHANGED <<streamVars, consumerDone, ticket>>

\* An error of _install_rows, after which _finish_transfer still runs.
InstallFails ==
    /\ host.pc = "install"
    /\ ReadRaises /\ event' = Recorded(host.s, 1)
    /\ Issue(host.s, Command("wait", 0, copyDone, {}, <<>>))
    /\ consumerDone' = Recorded(host.s, 1) /\ ticket' = FALSE

----------------------------------------------------------------------------
(* Writers.                                                                *)

\* before_step waits for the cache, SGD writes the touched rows in place,
\* after_step clears the cache; `cleared` is FALSE when the step raises
\* between the two.  load_state_dict of a checkpoint has the same shape.
OptimizerStep(touched, cleared) ==
    /\ host.pc = "idle" /\ wversion < MaxWrites /\ Drained
    /\ writes' = [r \in TableRows |-> IF r \in touched THEN writes[r] + 1 ELSE writes[r]]
    /\ wversion' = wversion + 1
    /\ Waited
    /\ IF cleared THEN Untagged /\ version' = Empty ELSE UNCHANGED <<tags, version>>
    /\ UNCHANGED <<bufferVars, streamVars, host, out, readFaults>>

EngramNext ==
    \/ \E s \in Queues : Execute(s)
    \/ \E s \in Streams, ids \in SUBSET TableRows \ {{}} : Read(s, ids)
    \/ Validate \/ PlanHits \/ PlanMisses \/ BeginTransfer \/ CopyHits \/ ConsumeTransfer
    \/ ReadFails \/ InstallFails
    \/ \E touched \in SUBSET TableRows \ {{}}, c \in BOOLEAN : OptimizerStep(touched, c)

EngramSpec == EngramInit /\ [][EngramNext]_engramVars

----------------------------------------------------------------------------
(* Properties.                                                             *)

(* Every lookup that returns delivers, once its stream has executed it,    *)
(* exactly the rows the CPU weight held when it was called: no row of      *)
(* before an optimizer step, no row of another transfer that reused the    *)
(* pinned or the staging buffer, no place replaced by a colliding miss     *)
(* (_RowCache.read, _begin_transfer, _consume_transfer, clear).  And no    *)
(* transfer is refused because an abandoned one is still outstanding.      *)
LookupsExact ==
    /\ \A k \in DOMAIN out :
           out[k].last # NoEvent /\ Happened(out[k].last) => out[k].got = out[k].want
    /\ host.pc = "begin" => ~ticket
=============================================================================
