--------------------------- MODULE MCTrainingSide ---------------------------
(***************************************************************************)
(* The components of training and of the model that share no state,        *)
(* checked side by side: `part' names the one a behaviour is about.  The   *)
(* variables of all others are Idle, or what an invariant can read.        *)
(***************************************************************************)
EXTENDS PolicyRoles, EngramCache, SupervisedRun, TLC

CONSTANTS dir1, dir2, s1, s2

\* Examples that read different Engram rows: some rows are touched once and never again.
TouchedRows == [e \in 0..4 |-> CASE e = 0 -> {0} [] e = 1 -> {2} [] OTHER -> {1, 2}]

\* A dense layer, a source of pairs that selects candidates, a layer that indexes anew among
\* them, one that reuses them, and a source of triples with its reuse.
Layer(ratio, kv, index, source) == [ratio |-> ratio, kv |-> kv, index |-> index, source |-> source]
SixLayers == <<Layer(0, FALSE, FALSE, FALSE), Layer(2, TRUE, TRUE, TRUE), Layer(2, FALSE, TRUE, FALSE),
               Layer(2, FALSE, FALSE, FALSE), Layer(3, TRUE, TRUE, FALSE), Layer(3, FALSE, FALSE, FALSE)>>

\* Learners of two or three samples, by chunks of any width or in packed micro-batches.
Cell(batch, tokens) == [batch |-> batch, tokens |-> tokens]
AllLearners ==
    [route : {"chunks"}, size : {2}, profile : {"teacher", "replay", "cache"}, width : {2}, head : {FALSE},
     engram : {FALSE}]
    \cup [route : {"chunks"}, size : {2}, profile : {"teacher"}, width : {0, 1}, head : {TRUE},
          engram : {FALSE}]
    \cup [route : {"chunks"}, size : {2}, profile : {"teacher"}, width : {0}, head : {FALSE},
          engram : {TRUE}]
    \cup [route : {"batch"}, size : {2}, profile : {"teacher"}, fixed : {1, 2}, shapes : {{}, {Cell(2, 3), Cell(1, 4)}}]
    \cup [route : {"batch"}, size : {3}, profile : {"teacher"}, fixed : {2}, shapes : {{Cell(2, 3), Cell(1, 4)}}]

\* Samples of the policy roles that share a row of the Engram table.
SampleReads == <<{"a", "b"}, {"b", "c"}>>

VARIABLES
    part,    \* the component of this behaviour
    \* ExpertDispatch
    variant, ids, stage, recvCounts, received, returned, dispatchOut,
    \* SparseContext
    window, seq, layer, ngrams, shadow, reads, grads, sparsePhase,
    \* ResponseScoring
    learner, prompt, turn, cache, turns, samples, drawn, plan, terms, scoringPhase

Dispatch == INSTANCE ExpertDispatch WITH
    Size <- 2, Units <- 4, Rows <- 5, TopK <- 2, MaxTokens <- 2, MaxTotal <- 3,
    out <- dispatchOut
Sparse == INSTANCE SparseContext WITH
    Size <- 3, Length <- 6, Windows <- {1, 2, 3, 5}, Layers <- SixLayers, TopK <- 1,
    TopKBlocks <- 1, BlockSize <- 2, MaxNgram <- 3, ChunkQueries <- 1, phase <- sparsePhase
Scoring == INSTANCE ResponseScoring WITH
    Vocab <- {0, 1}, EosIds <- {1}, Stops <- {<<0, 1>>, <<0, 0, 1>>},
    Prompts <- {<<0, 1>>}, Tools <- {<<0>>}, MaxNew <- 3, MaxTurns <- 2,
    Learners <- AllLearners, phase <- scoringPhase

\* What the constants of the components have to satisfy.
ASSUME BoundsAccepted ==
    /\ Dispatch!DispatchAssumption /\ Sparse!SparseContextAssumption /\ Sparse!LayersIndexed
    /\ Scoring!ResponseScoringAssumption

dispatchVars ==
    <<variant, ids, stage, recvCounts, received, returned, dispatchOut>>
sparseVars ==
    <<window, seq, layer, ngrams, shadow, reads, grads, sparsePhase>>
scoringVars ==
    <<learner, prompt, turn, cache, turns, samples, drawn, plan, terms, scoringPhase>>

Idle == "idle"
SupervisedIdle ==
    /\ mode = Idle /\ phase = Idle /\ done = Idle /\ failed = Idle /\ args = Idle
    /\ atStep = Idle /\ cursor = Idle /\ initial = Idle /\ saved = Idle /\ dense = Idle
    /\ rows = Idle /\ dirty = Idle /\ launches = Idle
    /\ ckpt = [p \in Paths |-> NoFile] /\ bundle = [p \in Paths |-> NoFile]
EngramIdle ==
    /\ writes = Idle /\ wversion = Idle /\ tags = Idle /\ version = Idle
    /\ ticket = Idle /\ event = Idle /\ copyDone = Idle /\ consumerDone = Idle
    /\ values = Idle /\ pinned = Idle /\ staging = Idle /\ queue = Idle
    /\ issued = Idle /\ executed = Idle /\ host = IdleHost /\ out = <<>> /\ readFaults = Idle
RolesIdle ==
    /\ baseline = Idle /\ identity = Idle /\ role = [r \in Roles |-> Down] /\ grad = Idle
    /\ replayed = Idle /\ artifacts = <<>> /\ installed = Idle /\ updates = Idle
    /\ starts = Idle
DispatchIdle ==
    /\ variant = Idle /\ ids = Idle /\ stage = Idle /\ recvCounts = Idle
    /\ received = Idle /\ returned = Idle /\ dispatchOut = Idle
SparseIdle ==
    /\ window = Idle /\ seq = Idle /\ layer = Idle /\ ngrams = Idle /\ shadow = Idle
    /\ reads = Idle /\ grads = Idle /\ sparsePhase = Idle
ScoringIdle ==
    /\ learner = Idle /\ prompt = Idle /\ turn = Idle /\ cache = Idle /\ turns = Idle
    /\ samples = Idle /\ drawn = Idle /\ plan = Idle /\ terms = Idle
    /\ scoringPhase = Idle

StartSupervised == part = "supervised" /\ SupervisedInit
    /\ EngramIdle /\ RolesIdle /\ DispatchIdle /\ SparseIdle
    /\ ScoringIdle
StartEngram == part = "engram" /\ EngramInit
    /\ SupervisedIdle /\ RolesIdle /\ DispatchIdle /\ SparseIdle
    /\ ScoringIdle
StartRoles == part = "roles" /\ RolesInit
    /\ SupervisedIdle /\ EngramIdle /\ DispatchIdle /\ SparseIdle
    /\ ScoringIdle
StartDispatch == part = "dispatch" /\ Dispatch!Init
    /\ SupervisedIdle /\ EngramIdle /\ RolesIdle /\ SparseIdle
    /\ ScoringIdle
StartSparse == part = "sparse" /\ Sparse!Init
    /\ SupervisedIdle /\ EngramIdle /\ RolesIdle /\ DispatchIdle
    /\ ScoringIdle
StartScoring == part = "scoring" /\ Scoring!Init
    /\ SupervisedIdle /\ EngramIdle /\ RolesIdle /\ DispatchIdle
    /\ SparseIdle
Init ==
    \/ StartSupervised \/ StartEngram \/ StartRoles \/ StartDispatch
    \/ StartSparse \/ StartScoring

\* The last launch happens only when at most one output directory was used before and with it.
UsedPaths == {p \in Paths : ckpt[p] # NoFile \/ bundle[p] # NoFile}
LastLaunchAtHome == launches' = MaxLaunches => Cardinality({args'.dir} \cup {p[1] : p \in UsedPaths}) = 1

StepSupervised == part = "supervised" /\ SupervisedNext /\ LastLaunchAtHome
    /\ UNCHANGED <<part, engramVars, rolesVars, dispatchVars, sparseVars, scoringVars>>
StepEngram == part = "engram" /\ EngramNext
    /\ UNCHANGED <<part, supervisedVars, rolesVars, dispatchVars, sparseVars,
                     scoringVars>>
StepRoles == part = "roles" /\ RolesNext
    /\ UNCHANGED <<part, supervisedVars, engramVars, dispatchVars, sparseVars,
                     scoringVars>>
StepDispatch == part = "dispatch" /\ Dispatch!Next
    /\ UNCHANGED <<part, supervisedVars, engramVars, rolesVars, sparseVars,
                     scoringVars>>
StepSparse == part = "sparse" /\ Sparse!Next
    /\ UNCHANGED <<part, supervisedVars, engramVars, rolesVars, dispatchVars,
                     scoringVars>>
StepScoring == part = "scoring" /\ Scoring!Next
    /\ UNCHANGED <<part, supervisedVars, engramVars, rolesVars, dispatchVars,
                     sparseVars>>

vars == <<part, supervisedVars, engramVars, rolesVars, dispatchVars, sparseVars,
          scoringVars>>

\* Every component may come to an end.
Stopped == UNCHANGED vars

Next ==
    \/ StepSupervised \/ StepEngram \/ StepRoles \/ StepDispatch
    \/ StepSparse \/ StepScoring \/ Stopped

Spec == Init /\ [][Next]_vars

Symmetric == Permutations({dir1, dir2}) \cup Permutations({s1, s2})

(* Properties *)

\* Dispatch and combine return to every token the results of the experts it asked for,
\* for every routing (models/dsv4/moe/dispatch.py).
DispatchRestores == part = "dispatch" => Dispatch!DispatchRestores

\* A token reads, on whatever rank it lives, what it would read in the uncut sequence, and
\* returns one gradient per read (cp.py, models/dsv4/attention).
ContextExact == part = "sparse" => Sparse!ContextExact

\* Every sampled token is scored once, in its own context and with its own probability and
\* weight (rl/algorithm.py, rl/runtime.py, rl/learner_batch_planner.py).
ScoredAsSampled == part = "scoring" => Scoring!ScoredAsSampled
=============================================================================
