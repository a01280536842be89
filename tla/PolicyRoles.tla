----------------------------- MODULE PolicyRoles -----------------------------
(***************************************************************************)
(* The three copies of a trainable policy: the learner and its reference   *)
(* in the training process, the actor in the rollout process.  They share  *)
(* one sealed Engram baseline (rl/engram_state.py), each behind a private  *)
(* copy-on-write view; the learner publishes policies as its trainable     *)
(* weights plus the rows it has touched since the baseline, and an actor   *)
(* or a resumed learner installs any published policy over whatever its    *)
(* own view holds (rl/checkpoint.py, rl/policy.py, runtime.train_groups).  *)
(*                                                                         *)
(* A row's value is where it came from and the updates applied to it since *)
(* then; an update is the set of samples whose backward reached the row.   *)
(***************************************************************************)
EXTENDS Integers, FiniteSets, Sequences

CONSTANTS
    EngramRows,  \* rows of the Engram table
    Samples,     \* samples a group may hold
    Reads,       \* sample -> rows its replay looks up
    Initials,    \* initial Engram rows a configuration may name (a delta or
                 \* an SFT snapshot); {} is the released table
    MaxUpdates,  \* bound: optimizer steps in a behaviour
    MaxStarts    \* bound: starts of the training and of the rollout process

ASSUME PolicyRolesAssumption ==
    /\ IsFiniteSet(EngramRows) /\ IsFiniteSet(Samples)
    /\ Reads \in [Samples -> SUBSET EngramRows] /\ Initials \subseteq SUBSET EngramRows
    /\ MaxUpdates \in Nat /\ MaxStarts \in Nat

Roles == {"learner", "reference", "actor"}
Down == [up |-> FALSE]

VARIABLES
    baseline,    \* row -> origin: the sealed pages every view maps
    identity,    \* the initial rows its identity names
    role,        \* role -> Down, or its view, touched rows and dense weights
    grad,        \* row -> samples accumulated since zero_grad
    replayed,    \* samples replayed since zero_grad
    artifacts,   \* published policies, oldest first
    installed,   \* role -> index of the artifact it holds (0: the initial policy)
    updates, starts

rolesVars == <<baseline, identity, role, grad, replayed, artifacts, installed, updates, starts>>

NoGrad == [g \in EngramRows |-> {}]

\* EngramBaseline.create: the released rows, then the initial rows over them.
Created(initial) == [g \in EngramRows |-> IF g \in initial THEN "sft" ELSE "base"]

\* A private view of baseline b, nothing touched, initial dense weights.
View(b) == [up |-> TRUE, table |-> [g \in EngramRows |-> <<b[g]>>], dirty |-> {}, dense |-> <<>>]

RolesInit ==
    /\ identity \in Initials /\ baseline = Created(identity)
    /\ role = [r \in Roles |-> Down] /\ grad = NoGrad /\ replayed = {}
    /\ artifacts = <<>> /\ installed = [r \in Roles |-> 0]
    /\ updates = 0 /\ starts = 0

----------------------------------------------------------------------------
(* Saved policies.                                                         *)

\* policy_state: trainable weights and the cumulative rows.
PolicyState(m) ==
    [dense |-> m.dense, base |-> identity, ids |-> m.dirty,
     values |-> [g \in m.dirty |-> m.table[g]]]

UndoneNever(m, b, ids) == m.table

\* Undo every private edit before a cumulative snapshot is installed, also
\* when it is older than what the view holds.
Undone(m, b, ids) == [g \in EngramRows |-> IF g \in ids THEN <<b[g]>> ELSE m.table[g]]

\* load_policy: validated as a whole, then installed.
Loaded(m, p) ==
    [m EXCEPT !.dense = p.dense, !.dirty = p.ids,
              !.table = [g \in EngramRows |-> IF g \in p.ids THEN p.values[g]
                                        ELSE Undone(m, baseline, m.dirty)[g]]]

\* validate_delta: the payload must name this baseline.
Loadable(p) == p.base = identity

----------------------------------------------------------------------------
(* The training process.                                                   *)

\* run_training builds the learner, and the reference over the learner's
\* baseline.  A resume loads a checkpoint: the policy of some publication.
\* A configuration with other initial rows makes another baseline; the old
\* checkpoints and the old actor do not match it.
Start(initial, reference, resume) ==
    /\ ~role["learner"].up /\ starts < MaxStarts /\ starts' = starts + 1
    /\ resume # 0 => artifacts[resume].policy.base = initial       \* else the load raises
    /\ identity' = initial /\ baseline' = Created(initial)
    /\ LET fresh == View(Created(initial)) IN
        role' = [r \in Roles |->
                   CASE r = "learner" ->
                          IF resume = 0 THEN fresh
                          ELSE [fresh EXCEPT !.dense = artifacts[resume].policy.dense,
                                             !.dirty = artifacts[resume].policy.ids,
                                             !.table = [g \in EngramRows |->
                                                 IF g \in artifacts[resume].policy.ids
                                                 THEN artifacts[resume].policy.values[g] ELSE fresh.table[g]]]
                     [] r = "reference" -> IF reference THEN fresh ELSE Down
                     [] r = "actor" -> Down]
    /\ installed' = [r \in Roles |-> IF r = "learner" THEN resume ELSE 0]
    /\ grad' = NoGrad /\ replayed' = {}
    /\ UNCHANGED <<artifacts, updates>>

\* A sample is scored and differentiated; its rows' gradients join those of
\* the samples before it (preserve_occurrences keeps every occurrence).
Replay(s) ==
    /\ role["learner"].up /\ s \notin replayed /\ updates < MaxUpdates
    /\ replayed' = replayed \cup {s}
    /\ grad' = [g \in EngramRows |-> IF g \in Reads[s] THEN grad[g] \cup {s} ELSE grad[g]]
    /\ UNCHANGED <<baseline, identity, role, artifacts, installed, updates, starts>>

\* mark_touched: cumulative over updates.
Touched(m) == m.dirty \cup {g \in EngramRows : grad[g] # {}}

\* Clip, mark, step.  zero_grad of the next train_groups empties the gradients.
Step ==
    LET m == role["learner"] IN
    /\ m.up /\ replayed # {}
    /\ role' = [role EXCEPT !["learner"].dirty = Touched(m),
                            !["learner"].dense = Append(@, replayed),
                            !["learner"].table =
                                [g \in EngramRows |-> IF grad[g] # {} THEN Append(@[g], grad[g]) ELSE @[g]]]
    /\ grad' = NoGrad /\ replayed' = {} /\ updates' = updates + 1
    /\ UNCHANGED <<baseline, identity, artifacts, installed, starts>>

\* publish_policy_artifact: an immutable file; the checkpoint of the step
\* holds the same policy state.  `truth` is the learner's memory, for the
\* properties only.
Publish ==
    LET m == role["learner"] IN
    /\ m.up /\ replayed = {} /\ Len(artifacts) < updates + starts
    /\ artifacts # <<>> => artifacts[Len(artifacts)].truth # m
    /\ artifacts' = Append(artifacts, [policy |-> PolicyState(m), truth |-> m])
    /\ UNCHANGED <<baseline, identity, role, grad, replayed, installed, updates, starts>>

\* A raised error (a non-finite loss or norm, a failed control call) or a
\* crash ends the training process and the rollout process it owns.
TrainerDies ==
    /\ role["learner"].up
    /\ role' = [r \in Roles |-> Down] /\ grad' = NoGrad /\ replayed' = {}
    /\ UNCHANGED <<baseline, identity, artifacts, installed, updates, starts>>

----------------------------------------------------------------------------
(* The rollout process.                                                    *)

\* The manager builds the actor over the shared baseline.
BuildActor ==
    /\ role["learner"].up /\ ~role["actor"].up
    /\ role' = [role EXCEPT !["actor"] = View(baseline)]
    /\ installed' = [installed EXCEPT !["actor"] = 0]
    /\ UNCHANGED <<baseline, identity, grad, replayed, artifacts, updates, starts>>

\* Activation of any staged policy, an older one too.
Activate(a) ==
    /\ role["actor"].up /\ Loadable(artifacts[a].policy)
    /\ role' = [role EXCEPT !["actor"] = Loaded(@, artifacts[a].policy)]
    /\ installed' = [installed EXCEPT !["actor"] = a]
    /\ UNCHANGED <<baseline, identity, grad, replayed, artifacts, updates, starts>>

RolesNext ==
    \/ \E initial \in Initials, reference \in BOOLEAN, resume \in 0 .. Len(artifacts) :
           Start(initial, reference, resume)
    \/ \E s \in Samples : Replay(s)
    \/ Step \/ Publish \/ TrainerDies \/ BuildActor
    \/ \E a \in DOMAIN artifacts : Activate(a)

RolesSpec == RolesInit /\ [][RolesNext]_rolesVars

----------------------------------------------------------------------------
(* Properties.                                                             *)

(* The copies agree.  An actor that activated a policy samples with        *)
(* exactly the rows and weights the learner had when it published it,      *)
(* whatever it held before; a learner that resumed and has not stepped     *)
(* since is the learner that published; the KL reference is the initial    *)
(* policy for as long as it lives (EngramState.load_state_dict,            *)
(* load_policy, EngramBaseline.view).                                      *)
RolesAgree ==
    /\ role["actor"].up =>
         role["actor"] = IF installed["actor"] = 0 THEN View(baseline)
                         ELSE artifacts[installed["actor"]].truth
    /\ role["reference"].up => role["reference"] = View(baseline)
    /\ LET m == role["learner"]
           a == installed["learner"] IN
         m.up /\ a # 0 /\ Len(m.dense) = Len(artifacts[a].truth.dense) => m = artifacts[a].truth
=============================================================================
