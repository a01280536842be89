------------------------ MODULE MCCoordinatorStream ------------------------
(* Small streams for CoordinatorStream. *)
EXTENDS CoordinatorStream, TLC

\* A group of three episodes in one backend and one of two in another.
MCPlans == 1 :> {1, 2, 3} @@ 2 :> {4, 5}
MCNeed == 1 :> 1 @@ 2 :> 2 @@ 3 :> 1 @@ 4 :> 1 @@ 5 :> 1

Calm == [waves |-> {}, failing |-> FALSE]
CalmWaves == [waves |-> Groups, failing |-> FALSE]
FailingWaves == [waves |-> Groups, failing |-> TRUE]
Failing == [waves |-> {}, failing |-> TRUE]
MCSettings == {Calm, CalmWaves, FailingWaves}
JustFailing == {Failing}
=============================================================================
