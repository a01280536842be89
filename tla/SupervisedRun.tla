--------------------------- MODULE SupervisedRun ---------------------------
(***************************************************************************)
(* Supervised fine-tuning of train_sft.py: a launch of ranks that move     *)
(* from collective to collective, the sharded checkpoints of               *)
(* sft_checkpoint.py and sft_engram.py, the bundle of sft_export.py and    *)
(* the reconstruction of sft_source.py.                                    *)
(*                                                                         *)
(* The value of a parameter row is the sequence of optimizer updates that  *)
(* were applied to it since the base weights, an update being the set of   *)
(* data positions of its batch: numbers are abstracted, which update       *)
(* reached which row in which order is not.  The dense tensor is sharded   *)
(* as FSDP does; an Engram table is split by rows and only its touched     *)
(* rows are saved.  Between two collectives the ranks work independently;  *)
(* an error of any rank is raised by all of them at the next one, and a    *)
(* crash ends the launch wherever its ranks are.                           *)
(***************************************************************************)
EXTENDS Integers, FiniteSets, Sequences

CONSTANTS
    World,       \* number of ranks
    CpSize,      \* ranks that share a batch (args.cp_size)
    BatchSize,   \* examples per microbatch
    Examples,    \* number of training examples
    DenseSize,   \* rows of the dense tensor
    EngramSize,  \* rows of the Engram table
    Touches,     \* example -> Engram rows its tokens read
    Dirs,        \* output directories
    SaveEvery,   \* args.save_every (0: only the final checkpoint)
    MaxTarget,   \* bound: largest args.steps
    MaxLaunches  \* bound: times the program is started

ASSUME SupervisedAssumption ==
    /\ World \in Nat \ {0} /\ CpSize \in Nat \ {0} /\ World % CpSize = 0
    /\ BatchSize \in Nat \ {0} /\ Examples \in Nat \ {0}
    /\ DenseSize \in Nat /\ EngramSize \in Nat /\ SaveEvery \in Nat
    /\ Touches \in [0 .. Examples - 1 -> SUBSET (0 .. EngramSize - 1)]
    /\ MaxTarget \in Nat /\ MaxLaunches \in Nat

Ranks == 0 .. World - 1
Paths == Dirs \X (1 .. MaxTarget)   \* output_dir / checkpoint-<step>
NoFile == [made |-> FALSE]          \* no file, no directory
NoResume == <<>>                       \* no --resume path

VARIABLES
    mode,        \* [lora, inBackward, accumulate]: the training configuration
    phase,       \* what the ranks do up to the next collective
    done,        \* ranks that have done it
    failed,      \* ranks that report an error to that collective
    args,        \* [resume, steps, dir, save] of this launch
    atStep, cursor, initial, saved,  \* the training loop's locals (`step' and the others)
    dense, rows, \* parameter row -> sequence of updates (live memory)
    dirty,       \* rank -> local ids of the Engram rows touched since the base
    ckpt,        \* path -> directory of a checkpoint: rank files and manifest
    bundle,      \* path -> directory of an exported bundle
    launches

loop == <<atStep, cursor, initial, saved>>
memory == <<dense, rows, dirty>>
directories == <<ckpt, bundle>>
supervisedVars == <<mode, phase, done, failed, args, loop, memory, directories, launches>>

----------------------------------------------------------------------------
(* Layout.                                                                 *)

Least(a, b) == IF a < b THEN a ELSE b

\* FSDP's S(0) shard of a rank: ceil-sized slices, the last ones may be short.
DenseStart(r) == Least(DenseSize, r * ((DenseSize + World - 1) \div World))
DenseOf(r) == DenseStart(r) .. Least(DenseSize, DenseStart(r) + (DenseSize + World - 1) \div World) - 1

\* Engram owners: the first EngramSize % World ranks hold one row more.
RowStart(r) == r * (EngramSize \div World) + Least(r, EngramSize % World)
RowStop(r) == RowStart(r) + (EngramSize \div World) + (IF r < EngramSize % World THEN 1 ELSE 0)
RowsOf(r) == RowStart(r) .. RowStop(r) - 1

----------------------------------------------------------------------------
(* One optimizer update.                                                   *)

Micros == IF mode.accumulate THEN 2 ELSE 1
DataSize == World \div CpSize

\* Positions of all ranks' microbatches at cursor c: those of a context-
\* parallel group are the same, those of different groups are disjoint.
MakeBatches(c) ==
    {c + (m * DataSize + (r \div CpSize)) * BatchSize + i :
        m \in 0 .. Micros - 1, r \in Ranks, i \in 0 .. BatchSize - 1}

NextCursor(c) == c + Micros * DataSize * BatchSize

\* Engram rows with a gradient: lookups are routed to the rows' owners.
TouchedBy(b) == UNION {Touches[p % Examples] : p \in b}

SupervisedInit ==
    /\ mode \in {m \in [lora : BOOLEAN, inBackward : BOOLEAN, accumulate : BOOLEAN] :
                    ~(m.inBackward /\ m.accumulate)}
    /\ phase = "down" /\ done = {} /\ failed = {}
    /\ args = [resume |-> NoResume, steps |-> 0, dir |-> NoResume, save |-> FALSE]
    /\ atStep = 0 /\ cursor = 0 /\ initial = 0 /\ saved = 0
    /\ dense = [d \in 0 .. DenseSize - 1 |-> <<>>] /\ rows = [g \in 0 .. EngramSize - 1 |-> <<>>]
    /\ dirty = [r \in Ranks |-> {}]
    /\ ckpt = [p \in Paths |-> NoFile] /\ bundle = [p \in Paths |-> NoFile]
    /\ launches = 0

\* A launch loads the base weights; --resume may name any checkpoint directory.
LaunchRun(resume, steps, dir, save) ==
    /\ phase = "down" /\ launches < MaxLaunches
    /\ launches' = launches + 1
    /\ args' = [resume |-> resume, steps |-> steps, dir |-> dir, save |-> save]
    /\ dense' = [d \in 0 .. DenseSize - 1 |-> <<>>] /\ rows' = [g \in 0 .. EngramSize - 1 |-> <<>>]
    /\ dirty' = [r \in Ranks |-> {}]
    /\ atStep' = 0 /\ cursor' = 0 /\ initial' = 0 /\ saved' = 0
    /\ phase' = (IF resume = NoResume THEN "ready" ELSE "validate")
    /\ done' = {} /\ failed' = {}
    /\ UNCHANGED <<mode, directories>>

\* The ranks of a launch stop for good: a crash, a kill, or an error outside
\* any collective on one rank that leaves the others waiting.
Crash ==
    /\ phase # "down" /\ phase' = "down" /\ done' = {} /\ failed' = {}
    /\ UNCHANGED <<mode, args, loop, memory, directories, launches>>

\* Rank r reaches the collective that ends the phase.
Arrives(r) == done' = done \cup {r}
Collected(p) == phase = p /\ done = Ranks
Ends == phase' = "down" /\ done' = {} /\ failed' = {}
Proceed(p) == phase' = p /\ done' = {} /\ failed' = {}

----------------------------------------------------------------------------
(* load_checkpoint.                                                        *)

Manifest(p) == ckpt[p] # NoFile /\ ckpt[p].manifest

\* Every rank checks the manifest and its own file before any rank changes
\* its live state; the manifest names every rank's file and checksum.
ValidateFile(r) ==
    /\ phase = "validate" /\ r \notin done /\ Arrives(r)
    /\ failed' = IF Manifest(args.resume) /\ ckpt[args.resume].files[r] # NoFile
                 THEN failed ELSE failed \cup {r}
    /\ UNCHANGED <<mode, phase, args, loop, memory, directories, launches>>

Validated ==
    /\ Collected("validate")
    /\ IF failed = {} THEN Proceed("restore") ELSE Ends
    /\ UNCHANGED <<mode, args, loop, memory, directories, launches>>

DirtyUnrestored(r, ids) == dirty[r]

\* load_state_dict adopts the snapshot's touched rows as its own.
RestoredDirty(r, ids) == ids

\* Dense shards are copied; an Engram row comes from the snapshot, or from
\* the base when it was touched before and the snapshot does not hold it.
Restore(r) ==
    LET p == ckpt[args.resume].files[r]
    IN  /\ phase = "restore" /\ r \notin done /\ Arrives(r)
        /\ dense' = [d \in DOMAIN dense |-> IF d \in DenseOf(r) THEN p.dense[d] ELSE dense[d]]
        /\ rows' = [g \in DOMAIN rows |->
                       IF g \notin RowsOf(r) THEN rows[g]
                       ELSE IF g - RowStart(r) \in p.ids THEN p.values[g - RowStart(r)]
                       ELSE IF g - RowStart(r) \in dirty[r] THEN <<>> ELSE rows[g]]
        /\ dirty' = [dirty EXCEPT ![r] = RestoredDirty(r, p.ids)]
        /\ UNCHANGED <<mode, phase, failed, args, loop, directories, launches>>

\* step and cursor come from the files; a cursor that is not the one of that
\* many updates, or a step beyond the target, ends the launch.
Restored ==
    LET s == args.resume[2]
        c == ckpt[args.resume].files[0].cursor
    IN  /\ Collected("restore")
        /\ atStep' = s /\ cursor' = c /\ initial' = s
        /\ IF c # s * Micros * BatchSize * DataSize \/ (args.steps > 0 /\ s > args.steps)
           THEN Ends ELSE Proceed("ready")
        /\ UNCHANGED <<mode, args, saved, memory, directories, launches>>

----------------------------------------------------------------------------
(* train_update.                                                           *)

Applied(f, at, b) == [x \in DOMAIN f |-> IF x \in at THEN Append(f[x], b) ELSE f[x]]

BeginStep ==
    /\ phase = "ready" /\ atStep < args.steps
    /\ Proceed("backward")
    /\ UNCHANGED <<mode, args, loop, memory, directories, launches>>

\* Backward of rank r.  With the optimizer in backward, the hooks change the
\* dense shard here, before anyone knows whether the gradients are finite.
Backward(r, finite) ==
    /\ phase = "backward" /\ r \notin done /\ Arrives(r)
    /\ dense' = IF mode.inBackward THEN Applied(dense, DenseOf(r), MakeBatches(cursor)) ELSE dense
    /\ failed' = IF finite THEN failed ELSE failed \cup {r}
    /\ UNCHANGED <<mode, phase, args, loop, rows, dirty, directories, launches>>

CheckGradients ==
    /\ Collected("backward")
    /\ IF failed = {} THEN Proceed("optimize") ELSE Ends
    /\ UNCHANGED <<mode, args, loop, memory, directories, launches>>

\* _after_step: the touched rows are cumulative over updates.
AfterStep(r, ids) == dirty[r] \cup ids

\* optimizer.step of rank r with its post hook.
Optimize(r) ==
    LET b == MakeBatches(cursor)
        mine == TouchedBy(b) \cap RowsOf(r)
    IN  /\ phase = "optimize" /\ r \notin done /\ Arrives(r)
        /\ dense' = IF mode.inBackward THEN dense ELSE Applied(dense, DenseOf(r), b)
        /\ rows' = Applied(rows, mine, b)
        /\ dirty' = [dirty EXCEPT ![r] = AfterStep(r, {g - RowStart(r) : g \in mine})]
        /\ UNCHANGED <<mode, phase, failed, args, loop, directories, launches>>

EndStep ==
    /\ Collected("optimize")
    /\ atStep' = atStep + 1 /\ cursor' = NextCursor(cursor)
    /\ Proceed(IF args.save /\ SaveEvery > 0 /\ (atStep + 1) % SaveEvery = 0 THEN "make" ELSE "ready")
    /\ UNCHANGED <<mode, args, initial, saved, memory, directories, launches>>

----------------------------------------------------------------------------
(* save_checkpoint.                                                        *)

Here == <<args.dir, atStep>>        \* output_dir / checkpoint-<step>

\* Rank 0 creates the directory, and must be the one that creates it.
MakeDirectory ==
    /\ phase = "make"
    /\ IF ckpt[Here] = NoFile
       THEN /\ ckpt' = [ckpt EXCEPT ![Here] = [files |-> [r \in Ranks |-> NoFile], manifest |-> FALSE]]
            /\ Proceed("write")
       ELSE UNCHANGED ckpt /\ Ends
    /\ UNCHANGED <<mode, args, loop, memory, bundle, launches>>

Payload(r) ==
    [dense |-> [d \in DenseOf(r) |-> dense[d]], ids |-> dirty[r],
     values |-> [i \in dirty[r] |-> rows[RowStart(r) + i]], cursor |-> cursor]

\* atomic_save: a reader sees the whole file or none.
WriteRank(r, ok) ==
    /\ phase = "write" /\ r \notin done /\ Arrives(r)
    /\ IF ok
       THEN /\ ckpt' = [ckpt EXCEPT ![Here] =
                          [ckpt[Here] EXCEPT !.files = [ckpt[Here].files EXCEPT ![r] = Payload(r)]]]
            /\ failed' = failed
       ELSE ckpt' = ckpt /\ failed' = failed \cup {r}
    /\ UNCHANGED <<mode, phase, args, loop, memory, bundle, launches>>

\* Rank 0 publishes after every rank has reported its file.
MayPublish == Collected("write") /\ failed = {}

PublishManifest ==
    /\ MayPublish
    /\ ckpt' = [ckpt EXCEPT ![Here] = [ckpt[Here] EXCEPT !.manifest = TRUE]]
    /\ saved' = atStep
    /\ Proceed(IF atStep = args.steps THEN "exporting" ELSE "ready")
    /\ UNCHANGED <<mode, args, atStep, cursor, initial, memory, bundle, launches>>

WriteFails ==
    /\ Collected("write") /\ failed # {} /\ Ends
    /\ UNCHANGED <<mode, args, loop, memory, directories, launches>>

----------------------------------------------------------------------------
(* The end of train: final checkpoint, evaluation, export.                 *)

FinishLoop ==
    /\ phase = "ready" /\ atStep >= args.steps
    /\ Proceed(IF args.save /\ atStep > initial /\ atStep # saved THEN "make" ELSE "exporting")
    /\ UNCHANGED <<mode, args, loop, memory, directories, launches>>

\* The checkpoint a bundle is paired with.
Paired == IF atStep = initial THEN args.resume ELSE Here

Exports == args.save /\ mode.lora /\ atStep > 0 /\ (atStep > initial \/ args.resume # NoResume)

\* Each rank compares its live state with its file of the paired checkpoint.
Matching(r) ==
    /\ Manifest(Paired)
    /\ LET p == ckpt[Paired].files[r] IN
        p.dense = Payload(r).dense /\ p.ids = dirty[r] /\ p.values = Payload(r).values

\* Global rows of a checkpoint: the owners' ranges must tile the table.
Covers == RowStart(0) = 0 /\ RowStop(World - 1) = EngramSize
          /\ \A r \in Ranks : r > 0 => RowStart(r) = RowStop(r - 1)
GlobalRows(p) ==
    [g \in 0 .. EngramSize - 1 |->
        LET r == CHOOSE o \in Ranks : g \in RowsOf(o)
            f == ckpt[p].files[r]
        IN  IF g - RowStart(r) \in f.ids THEN f.values[g - RowStart(r)] ELSE <<>>]

ExportStarts ==
    /\ phase = "exporting"
    /\ IF ~Exports THEN Ends /\ UNCHANGED bundle      \* train returns
       ELSE IF (\A r \in Ranks : Matching(r)) /\ Covers /\ bundle[Here] = NoFile
       THEN /\ bundle' = [bundle EXCEPT ![Here] =
                             [delta |-> GlobalRows(Paired), adapter |-> NoFile, manifest |-> FALSE]]
            /\ Proceed("adapter")
       ELSE Ends /\ UNCHANGED bundle
    /\ UNCHANGED <<mode, args, loop, memory, ckpt, launches>>

\* save_adapter gathers the live shards.
SaveAdapter ==
    /\ phase = "adapter" /\ Proceed("bundle")
    /\ bundle' = [bundle EXCEPT ![Here] = [bundle[Here] EXCEPT !.adapter = dense]]
    /\ UNCHANGED <<mode, args, loop, memory, ckpt, launches>>

PublishBundle ==
    /\ phase = "bundle" /\ Ends                       \* train returns
    /\ bundle' = [bundle EXCEPT ![Here] = [bundle[Here] EXCEPT !.manifest = TRUE]]
    /\ UNCHANGED <<mode, args, loop, memory, ckpt, launches>>

----------------------------------------------------------------------------
(* sft_source: a full checkpoint read back without its topology.           *)

SourceDense(p) ==
    [d \in 0 .. DenseSize - 1 |->
        LET r == CHOOSE o \in Ranks : d \in DenseOf(o) IN ckpt[p].files[r].dense[d]]

SupervisedNext ==
    \/ \E resume \in {p \in Paths : ckpt[p] # NoFile} \cup {NoResume},
          steps \in 0 .. MaxTarget, dir \in Dirs, save \in BOOLEAN : LaunchRun(resume, steps, dir, save)
    \/ Crash
    \/ \E r \in Ranks : ValidateFile(r) \/ Restore(r) \/ Optimize(r)
    \/ \E r \in Ranks, ok \in BOOLEAN : Backward(r, ok) \/ WriteRank(r, ok)
    \/ Validated \/ Restored \/ BeginStep \/ CheckGradients \/ EndStep
    \/ MakeDirectory \/ PublishManifest \/ WriteFails
    \/ FinishLoop \/ ExportStarts \/ SaveAdapter \/ PublishBundle

SupervisedSpec == SupervisedInit /\ [][SupervisedNext]_supervisedVars

----------------------------------------------------------------------------
(* Properties.                                                             *)

\* The run a reader has in mind: update k consumes the k-th stretch of the
\* data, in order, whatever the ranks, crashes and resumes.
PerUpdate == Micros * DataSize * BatchSize
Update(k, size) == {p \in 0 .. k * size - 1 : p >= (k - 1) * size}
Hitting(g, n, size) == {k \in 1 .. n : g \in TouchedBy(Update(k, size))}

\* h consists of the updates S, in order.
Applies(h, S, size) ==
    h \in Seq(SUBSET Nat) /\ \E w \in [DOMAIN h -> S] :
        /\ \A k \in S : \E i \in DOMAIN h : w[i] = k
        /\ \A i, j \in DOMAIN h : i < j => w[i] < w[j]
        /\ \A i \in DOMAIN h : h[i] = Update(w[i], size)

\* The dense tensor f and the table f after n updates.
DenseAfter(f, n) ==
    DOMAIN f = 0 .. DenseSize - 1 /\ \A d \in 0 .. DenseSize - 1 : Applies(f[d], 1 .. n, PerUpdate)
RowsAfter(f, n) ==
    DOMAIN f = 0 .. EngramSize - 1
    /\ \A g \in 0 .. EngramSize - 1 : Applies(f[g], Hitting(g, n, PerUpdate), PerUpdate)

(* Exactness of supervised fine-tuning (train_sft.train, sft_checkpoint,   *)
(* sft_engram, sft_export, sft_source).  Between updates the live          *)
(* parameters are those of an uninterrupted run of `step` updates; so is   *)
(* what sft_source reads from any published checkpoint, and the adapter    *)
(* and Engram rows of any published bundle, after any crashes and resumes. *)
SnapshotsExact ==
    /\ phase = "ready" => DenseAfter(dense, atStep) /\ RowsAfter(rows, atStep)
    /\ \A p \in Paths : Manifest(p) => DenseAfter(SourceDense(p), p[2]) /\ RowsAfter(GlobalRows(p), p[2])
    /\ \A p \in Paths : bundle[p] # NoFile /\ bundle[p].manifest =>
           DenseAfter(bundle[p].adapter, p[2]) /\ RowsAfter(bundle[p].delta, p[2])
=============================================================================
