------------------------------ MODULE MCRelay ------------------------------
(* Two requests through relays of capacity one, one fault. *)
EXTENDS Relay

\* Calls under way that would change nothing any more when they arrive.
Spent(r) ==
    (IF Known(r) THEN {<<"submit", r>>} ELSE {})
        \cup (IF CancelCall(r) = {} THEN {<<"cancel", r>>} ELSE {})

\* What the future of a state depends on: not on the deadline of a request that has its
\* answer, nor on what the GPU page noted of a request it has released, nor on spent calls.
Relevant ==
    <<{r \in expired : outbox[r] = "none"}, cpuFiles, cpuPage, pages, toGpu, toCpu,
      item, completion \cap Items, committed \cap Items,
      wire \ UNION {Spent(r) : r \in Requests}, gpuServer, model, faults>>
=============================================================================
