-------------------------- MODULE ArtifactTransfer --------------------------
(***************************************************************************)
(* Files that travel over the relay pages (browser_relay/artifacts.py and  *)
(* artifactPump of relay.html): policy leases to the CPU side, sealed      *)
(* groups and capsules to the GPU side.  The sender's queue is durable,    *)
(* the pump of the sender's page pushes one artifact after the other in    *)
(* chunks, the receiver keeps chunks, rebuilds the file, compares it with  *)
(* the manifest and writes a receipt, which the sender stores as delivery. *)
(*                                                                         *)
(* A file written by write_new exists before its bytes do: a receiver that *)
(* dies in between leaves it torn.                                         *)
(***************************************************************************)
EXTENDS Naturals, Sequences

CONSTANTS
    Artifacts,      \* ordered: the queue is served in the order of the ids
    Chunks,         \* chunks of an artifact
    MaxDeaths      \* bound: deaths of the receiver

ASSUME ArtifactAssumption == Artifacts \subseteq Nat /\ Chunks \in Nat \ {0} /\ MaxDeaths \in Nat

VARIABLES
    published, delivered,   \* sender: outgoing entries, those with delivery.json
    incoming,                \* receiver: incoming entries with their manifest
    chunk,                  \* [artifact -> sequence of "whole" and "torn" chunk files]
    blob, receipt,          \* [artifact -> "none", "whole", "torn"]
    pump,                   \* the page: what it does, for which artifact, at which chunk
    deaths

transferVars == <<published, delivered, incoming, chunk, blob, receipt, pump, deaths>>

PumpIdle == [step |-> "idle", id |-> 0, index |-> 0]

TransferInit ==
    /\ published = {} /\ delivered = {} /\ incoming = {}
    /\ chunk = [a \in Artifacts |-> <<>>]
    /\ blob = [a \in Artifacts |-> "none"] /\ receipt = [a \in Artifacts |-> "none"]
    /\ pump = PumpIdle /\ deaths = 0

\* publish: copied, compared with its hash and renamed into the queue at once.
PublishArtifact(a) ==
    /\ a \notin published /\ published' = published \cup {a}
    /\ UNCHANGED <<delivered, incoming, chunk, blob, receipt, pump, deaths>>

\* next: the first entry without delivery.json.
NextArtifact ==
    /\ pump.step = "idle"
    /\ \E a \in published \ delivered :
           /\ \A b \in published \ delivered : a <= b
           /\ pump' = [step |-> "start", id |-> a, index |-> 0]
    /\ UNCHANGED <<published, delivered, incoming, chunk, blob, receipt, deaths>>

\* start: the manifest is renamed into place; the answer counts the chunk files there are.
Start ==
    /\ pump.step = "start" /\ incoming' = incoming \cup {pump.id}
    /\ pump' = [pump EXCEPT !.step = "chunk", !.index = Len(chunk[pump.id])]
    /\ UNCHANGED <<published, delivered, chunk, blob, receipt, deaths>>

\* receive_chunk: in order, once; a chunk file that exists must have the same bytes.
Accepted(a, index) == index <= Len(chunk[a]) /\ (index < Len(chunk[a]) => chunk[a][index + 1] = "whole")
Chunk ==
    /\ pump.step = "chunk" /\ pump.index < Chunks /\ Accepted(pump.id, pump.index)
    /\ chunk' = IF pump.index < Len(chunk[pump.id]) THEN chunk
                ELSE [chunk EXCEPT ![pump.id] = Append(@, "whole")]
    /\ pump' = [pump EXCEPT !.index = @ + 1]
    /\ UNCHANGED <<published, delivered, incoming, blob, receipt, deaths>>

ChunksSent ==
    /\ pump.step = "chunk" /\ pump.index = Chunks /\ pump' = [pump EXCEPT !.step = "commit"]
    /\ UNCHANGED <<published, delivered, incoming, chunk, blob, receipt, deaths>>

\* Mutant: the rebuilt file is not compared with the manifest.
MatchesUnchecked(a) == TRUE
Matches(a) == \A k \in 1..Chunks : chunk[a][k] = "whole"

\* commit: an existing receipt is answered again; else rebuilt, compared, renamed, receipt.
Commit ==
    /\ pump.step = "commit"
    /\ \/ receipt[pump.id] = "whole" /\ UNCHANGED <<blob, receipt>>
       \/ /\ receipt[pump.id] = "none" /\ Matches(pump.id)
          /\ blob' = [blob EXCEPT ![pump.id] = IF \A k \in 1..Chunks : chunk[pump.id][k] = "whole" THEN "whole" ELSE "torn"]
          /\ receipt' = [receipt EXCEPT ![pump.id] = "whole"]
    /\ pump' = [pump EXCEPT !.step = "ack"]
    /\ UNCHANGED <<published, delivered, incoming, chunk, deaths>>

\* acknowledge: only a receipt with the hash of the manifest.
Acknowledge ==
    /\ pump.step = "ack" /\ delivered' = delivered \cup {pump.id} /\ pump' = PumpIdle
    /\ UNCHANGED <<published, incoming, chunk, blob, receipt, deaths>>

\* A call is refused, or its reply is lost three times: the pump starts over, a lost reply
\* after the receiver has done its part.
PumpFails ==
    /\ pump.step # "idle" /\ pump' = PumpIdle
    /\ \/ UNCHANGED <<incoming, chunk>>
       \/ pump.step = "start" /\ incoming' = incoming \cup {pump.id} /\ UNCHANGED chunk
       \/ /\ pump.step = "chunk" /\ pump.index = Len(chunk[pump.id]) /\ pump.index < Chunks
          /\ chunk' = [chunk EXCEPT ![pump.id] = Append(@, "whole")] /\ UNCHANGED incoming
    /\ UNCHANGED <<published, delivered, blob, receipt, deaths>>

\* The receiver dies inside write_new of a chunk or of the receipt, after the rename of
\* the rebuilt file; or anywhere else, which leaves nothing behind.
ReceiverDies ==
    /\ deaths < MaxDeaths /\ deaths' = deaths + 1 /\ pump' = PumpIdle
    /\ \/ UNCHANGED <<chunk, blob, receipt>>
       \/ /\ pump.step = "chunk" /\ pump.index = Len(chunk[pump.id]) /\ pump.index < Chunks
          /\ chunk' = [chunk EXCEPT ![pump.id] = Append(@, "torn")] /\ UNCHANGED <<blob, receipt>>
       \/ /\ pump.step = "commit" /\ receipt[pump.id] = "none" /\ Matches(pump.id)
          /\ blob' = [blob EXCEPT ![pump.id] = "whole"]
          /\ receipt' \in {receipt, [receipt EXCEPT ![pump.id] = "torn"]} /\ UNCHANGED chunk
    /\ UNCHANGED <<published, delivered, incoming>>

Pump == NextArtifact \/ Start \/ Chunk \/ ChunksSent \/ Commit \/ Acknowledge
Idling == published = Artifacts /\ delivered = Artifacts /\ pump = PumpIdle /\ UNCHANGED transferVars
TransferNext == (\E a \in Artifacts : PublishArtifact(a)) \/ Pump \/ PumpFails \/ ReceiverDies \/ Idling

TransferSpec == TransferInit /\ [][TransferNext]_transferVars

-----------------------------------------------------------------------------
\* Whatever calls are repeated and wherever the receiver dies, an artifact counts as
\* delivered only when the receiver holds all its bytes under a receipt, and a receipt
\* never stands for anything else (commit, acknowledge, received).
DeliveredIsExact ==
    /\ \A a \in delivered : receipt[a] = "whole"
    /\ \A a \in Artifacts : receipt[a] # "none" => blob[a] = "whole"
=============================================================================
