-------------------------- MODULE MCPolicyServing --------------------------
(***************************************************************************)
(* The three ways a policy is served, one per behaviour: the cfg describes *)
(* an actor process behind shim and relay, D the in-process controller, A  *)
(* an actor process called directly.                                       *)
(***************************************************************************)
EXTENDS PolicyServing

VARIABLE stack

A == INSTANCE PolicyServing WITH Shim <- FALSE
D == INSTANCE PolicyServing WITH Remote <- FALSE, Shim <- FALSE

MCInit == Init /\ stack \in {"relay", "actor", "direct"}

MCNext ==
    \/ stack = "relay" /\ Next /\ UNCHANGED stack
    \/ stack = "actor" /\ A!Next /\ UNCHANGED stack
    \/ stack = "direct" /\ D!Next /\ UNCHANGED stack

MCWaiting ==
    \/ stack = "relay" /\ Waiting
    \/ stack = "actor" /\ A!Waiting
    \/ stack = "direct" /\ D!Waiting

MCHandler(r) ==
    \/ stack = "relay" /\ Handler(r)
    \/ stack = "actor" /\ A!Handler(r)
    \/ stack = "direct" /\ D!Handler(r)

MCSpec ==
    /\ MCInit /\ [][MCNext]_<<vars, stack>>
    /\ WF_vars(MCWaiting)
    /\ \A r \in Requests : WF_vars(thread[r] # "new" /\ MCHandler(r))
=============================================================================
