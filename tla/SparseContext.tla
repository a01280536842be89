---------------------------- MODULE SparseContext ----------------------------
(***************************************************************************)
(* What a token of the DeepSeek V4.1 model reads and who gets gradients    *)
(* for it: the sharded context of dsv41_train/cp.py, the n-gram windows of *)
(* the Engram hash, the compressed groups, the sparse indexer and the      *)
(* shadow state of models/dsv4/attention, and the fixed-order backward of  *)
(* ordered_kv.py.  Values are abstracted to the tokens they come from; a   *)
(* gradient is the sequence of the edges <<layer, query>> summed into it.  *)
(* The ranks of a context-parallel group run the same layers and meet in   *)
(* its collectives, so one step is one layer on all ranks.                 *)
(***************************************************************************)
EXTENDS Integers, FiniteSets, Sequences, SequencesExt

CONSTANTS
    Size,          \* ranks of the context-parallel group
    Length,        \* tokens of a row, a multiple of Size
    Windows,       \* values of config.sliding_window
    Layers,        \* sequence of [ratio, kv, index, source]: a layer's place in
                   \* compress_ratios, kv_source, index_source, candidate_source
    TopK, TopKBlocks, BlockSize,        \* index_topk, candidate_topk_blocks, _block_size
    MaxNgram,      \* engram_max_ngram_size
    ChunkQueries   \* queries per launch of the ordered backward

SparseContextAssumption ==
    /\ Size \in Nat \ {0} /\ Length \in Nat \ {0} /\ Length % Size = 0
    /\ Windows \subseteq Nat \ {0} /\ MaxNgram \in Nat \ {0}
    /\ TopK \in Nat \ {0} /\ TopKBlocks \in Nat \ {0} /\ BlockSize \in Nat \ {0}
    /\ ChunkQueries \in Nat \ {0}
    /\ \A l \in DOMAIN Layers :
         /\ Layers[l].kv \/ Layers[l].index => Layers[l].ratio > 0
         /\ Layers[l].source => Layers[l].index
         /\ Layers[l].ratio > 0 => \E s \in 1 .. l : Layers[s].kv

\* The configuration classes validate no more than that.  The configurations of the
\* repository also have, for every compressed layer, a source that indexes and has the
\* layer's ratio; without it the layer finds no selection, or one of other groups.
LayersIndexed ==
    \A l \in DOMAIN Layers : Layers[l].ratio > 0 =>
        \E s \in 1 .. l : Layers[s].kv /\ Layers[s].index
                          /\ \A m \in s .. l : Layers[m].ratio \in {0, Layers[s].ratio}

Tokens == 0 .. Length - 1
Ranks == 0 .. Size - 1
Local == Length \div Size
None == [none |-> TRUE]
Missing == -1                   \* an index outside the tensor

VARIABLES
    window,        \* sliding_window
    seq,           \* token -> its sequence, -1 for padding
    layer,         \* layers done
    ngrams,        \* rank -> local token -> tokens hashed for it, nearest first
    shadow,        \* rank -> ShadowIndexers
    reads,         \* sequence over layers of query -> [window, groups] read
    grads,         \* token -> [window, groups] edges summed into its gradient
    phase

vars == <<window, seq, layer, ngrams, shadow, reads, grads, phase>>

Least(a, b) == IF a < b THEN a ELSE b
Greatest(S) == CHOOSE x \in S : \A y \in S : y <= x

\* Token g of the row on rank r, and the shard of a rank.
Shard(r) == [i \in 1 .. Local |-> r * Local + i - 1]
RankOf(q) == q \div Local

----------------------------------------------------------------------------
(* ModelContext.build.                                                     *)

Live(i) == seq[i] >= 0
Begins(i) == Live(i) /\ seq[i] # (IF i = 0 THEN -1 ELSE seq[i - 1])
Position(i) == IF Live(i) THEN i - Greatest({IF Begins(j) THEN j ELSE 0 : j \in 0 .. i}) ELSE 0

\* The key of slot w of query q, before and after the clamp.
GlobalKey(q, w) == q - (window - 1 - w)
Clamped(q, w) == IF GlobalKey(q, w) >= 0 THEN GlobalKey(q, w) ELSE 0

Halo == IF Size > 1 /\ window - 1 <= Local THEN window - 1 ELSE 0

PrefixEverywhere(r) == Halo

\* The first rank has nothing in front of its shard.
Prefix(r) == IF r = 0 THEN 0 ELSE Halo

AttentionIndex(q, w) ==
    IF Halo > 0 THEN Clamped(q, w) - RankOf(q) * Local + Prefix(RankOf(q)) ELSE Clamped(q, w)

AttentionMask(q, w) ==
    GlobalKey(q, w) >= 0 /\ Live(Clamped(q, w)) /\ Live(q) /\ seq[q] = seq[Clamped(q, w)]

----------------------------------------------------------------------------
(* Collectives.                                                            *)

Gathered(parts) == FlattenSeq([s \in 1 .. Size |-> parts[s - 1]])

\* One slice to rank send[r], one from rank recv[r].
RingExchange(slices, send, recv) ==
    [r \in Ranks |-> IF send[recv[r]] = r THEN slices[recv[r]] ELSE <<>>]
Right == [r \in Ranks |-> (r + 1) % Size]
Left == [r \in Ranks |-> (r + Size - 1) % Size]

LastOf(part, n) == SubSeq(part, Len(part) - n + 1, Len(part))

\* gather_attention: the left halo, or everything.
Buffer(r) ==
    LET parts == [s \in Ranks |-> Shard(s)]
        prefix == RingExchange([s \in Ranks |-> LastOf(parts[s], Halo)], Right, Left)
    IN  IF Halo = 0 THEN Gathered(parts) ELSE IF r = 0 THEN parts[r] ELSE prefix[r] \o parts[r]

At(part, i) == IF i \in 0 .. Len(part) - 1 THEN part[i + 1] ELSE Missing

----------------------------------------------------------------------------
(* NgramHash: nearest token first; once blocked, padding all the way.      *)

BlockedFrom(i, d) == i - d < 0 \/ ~Live(i - d) \/ seq[i - d] # seq[i]
Ngram(i) ==
    [d \in 1 .. MaxNgram |-> IF \E e \in 0 .. d - 1 : BlockedFrom(i, e) THEN Missing ELSE i - d + 1]

\* Hashed over the whole row, then sharded.
Embed ==
    /\ phase = "embed" /\ phase' = "forward"
    /\ ngrams' = [r \in Ranks |-> [i \in 1 .. Local |-> Ngram(Shard(r)[i])]]
    /\ UNCHANGED <<window, seq, layer, shadow, reads, grads>>

----------------------------------------------------------------------------
(* Compressor, over the gathered row.                                      *)

Complete(i, ratio) ==
    /\ Live(i) /\ Position(i) % ratio = 0 /\ i + ratio - 1 < Length
    /\ Live(i + ratio - 1) /\ seq[i] = seq[i + ratio - 1]

Latent(ratio) ==
    IF Length \div ratio = 0 THEN None
    ELSE [starts |-> SelectSeq([i \in 1 .. Length |-> i - 1], LAMBDA i : Complete(i, ratio)), ratio |-> ratio]

Members(latent, g) == latent.starts[g + 1] .. latent.starts[g + 1] + latent.ratio - 1

----------------------------------------------------------------------------
(* SparseIndexer on the rank of query q; `order` ranks the groups by score. *)

KeyStart(q, latent) ==
    IF Live(q) THEN Len(SelectSeq(latent.starts, LAMBDA i : seq[i] < seq[q])) ELSE 0
KeyStop(q, latent) ==
    IF Live(q) THEN Len(SelectSeq(latent.starts, LAMBDA i : seq[i] <= seq[q])) ELSE 0

\* Groups that end at or before the query.
Visible(q, ratio) == (Position(q) + 1) \div ratio

KeyEnd(q, latent) == Least(KeyStop(q, latent), KeyStart(q, latent) + Visible(q, latent.ratio))

\* Columns of a rank's score matrix.
Width(r, latent) == Greatest({KeyStop(q, latent) - KeyStart(q, latent) : q \in ToSet(Shard(r))})

\* index_scores: the columns whose score is above -inf.
Scored(q, latent, candidates) ==
    {k \in 0 .. Width(RankOf(q), latent) - 1 :
        KeyStart(q, latent) + k < KeyEnd(q, latent)
        /\ (candidates # None => k \in candidates.columns[q])}

Best(S, n, place) ==
    SubSeq(SetToSortSeq(S, LAMBDA a, b : place[a] < place[b]), 1, Least(n, Cardinality(S)))

\* The block of the newest visible group comes first, then by best score.
Candidates(r, latent, order) ==
    [width |-> Width(r, latent),
     columns |-> [q \in ToSet(Shard(r)) |->
        LET scored == Scored(q, latent, None)
            last == (KeyEnd(q, latent) - KeyStart(q, latent) - 1) \div BlockSize
            blocks == {k \div BlockSize : k \in scored}
            score == [b \in blocks |-> IF b = last THEN 0
                        ELSE 1 + CHOOSE n \in DOMAIN order : \E k \in scored :
                                 k \div BlockSize = b /\ order[n] = KeyStart(q, latent) + k
                                 /\ \A j \in scored : j \div BlockSize = b =>
                                      \E m \in DOMAIN order : m >= n /\ order[m] = KeyStart(q, latent) + j]
            kept == Best(blocks, TopKBlocks, score)
        IN  {k \in 0 .. Width(r, latent) - 1 : k \div BlockSize \in ToSet(kept)}]]

Selected(q, latent, candidates, order) ==
    LET scored == Scored(q, latent, candidates)
        place == [k \in scored |-> CHOOSE n \in DOMAIN order : order[n] = KeyStart(q, latent) + k]
        best == Best(scored, TopK, place)
    IN  [n \in DOMAIN best |-> KeyStart(q, latent) + best[n]]

\* ShadowIndexers.load after dump: an empty tensor comes back as None.
Stored(r, latent, value) == IF latent = None \/ Width(r, latent) = 0 THEN None ELSE value

Emptied == [latent |-> None, topk |-> None, candidates |-> None]

\* A source layer replaces the shadow, an index layer selects anew.
Indexed(r, here, order) ==
    LET latent == IF here.kv THEN Latent(here.ratio) ELSE shadow[r].latent
        before == IF here.kv THEN Emptied ELSE shadow[r]
        masked == IF here.source THEN None ELSE before.candidates
    IN  IF here.ratio = 0 THEN shadow[r]
        ELSE IF ~here.index THEN [before EXCEPT !.latent = latent]
        ELSE [latent |-> latent,
              topk |-> Stored(r, latent, [q \in ToSet(Shard(r)) |-> Selected(q, latent, masked, order)]),
              candidates |-> IF here.source THEN Stored(r, latent, Candidates(r, latent, order))
                             ELSE before.candidates]

\* index_scores refuses candidates of another width.
Fits(r, here) ==
    here.index /\ ~here.kv /\ ~here.source /\ shadow[r].candidates # None =>
        shadow[r].candidates.width = Width(r, shadow[r].latent)

----------------------------------------------------------------------------
(* One layer on every rank.                                                *)

WindowRead(q) ==
    LET slots == SelectSeq([w \in 1 .. window |-> w - 1], LAMBDA w : AttentionMask(q, w))
    IN  [n \in DOMAIN slots |-> At(Buffer(RankOf(q)), AttentionIndex(q, slots[n]))]

GroupRead(q, here, s) ==
    IF here.ratio = 0 \/ s.latent = None \/ s.topk = None THEN <<>> ELSE s.topk[q]

ForwardLayer(order) ==
    LET here == Layers[layer + 1]
        after == [r \in Ranks |-> Indexed(r, here, order)]
    IN  /\ phase = "forward" /\ layer < Len(Layers)
        /\ layer' = layer + 1
        /\ shadow' = after
        /\ reads' = Append(reads, [q \in Tokens |->
               [window |-> WindowRead(q), groups |-> GroupRead(q, here, after[RankOf(q)])]])
        /\ phase' = IF \A r \in Ranks : Fits(r, here) THEN "forward" ELSE "raised"
        /\ UNCHANGED <<window, seq, ngrams, grads>>

----------------------------------------------------------------------------
(* Backward.                                                               *)

\* _inverse_adjacency: the edges of a key, by ascending edge id.
Adjacent(r, j) ==
    SelectSeq([e \in 1 .. Local * window |-> e - 1],
              LAMBDA e : LET q == Shard(r)[(e \div window) + 1] IN
                         AttentionMask(q, e % window) /\ AttentionIndex(q, e % window) = j)

\* The edges of a launch, then all launches in order.
ChunkEdges(r, j, c) ==
    SelectSeq(Adjacent(r, j), LAMBDA e : e >= c * ChunkQueries * window
                                         /\ e < Least((c + 1) * ChunkQueries, Local) * window)
OrderedBackward(r, j) ==
    LET edges == FlattenSeq([c \in 1 .. (Local + ChunkQueries - 1) \div ChunkQueries |->
                                ChunkEdges(r, j, c - 1)])
    IN  [n \in DOMAIN edges |-> Shard(r)[(edges[n] \div window) + 1]]

BufferGrad(r) == [j \in 1 .. Len(Buffer(r)) |-> OrderedBackward(r, j - 1)]

\* Queries that read local token i of rank r through the window.
WindowGrad(r, i) ==
    LET prefix == RingExchange([s \in Ranks |-> IF s = 0 THEN [j \in 1 .. Halo |-> <<>>]
                                                ELSE SubSeq(BufferGrad(s), 1, Halo)], Left, Right)
        own == IF r = 0 THEN BufferGrad(r) ELSE SubSeq(BufferGrad(r), Halo + 1, Halo + Local)
    IN  IF Halo = 0
        THEN FlattenSeq([s \in 1 .. Size |-> BufferGrad(s - 1)[r * Local + i]])     \* _AllGather.backward
        ELSE own[i] \o (IF r < Size - 1 /\ i > Local - Halo THEN prefix[r][i - (Local - Halo)] ELSE <<>>)

\* Every rank compresses the gathered row and takes the gradients of its own
\* queries to every token of it; the gather's backward sums over the ranks.
GroupEdges(s, t) ==
    FlattenSeq([l \in 1 .. Len(Layers) |->
        SelectSeq([i \in 1 .. Local |-> <<l, Shard(s)[i]>>],
                  LAMBDA e : \E n \in DOMAIN reads[l][e[2]].groups :
                                 t \in Members(Latent(Layers[l].ratio), reads[l][e[2]].groups[n]))])
GroupGrad(t) == FlattenSeq([s \in 1 .. Size |-> GroupEdges(s - 1, t)])

Backward ==
    /\ phase = "forward" /\ layer = Len(Layers) /\ phase' = "done"
    /\ grads' = [t \in Tokens |-> [window |-> WindowGrad(RankOf(t), (t % Local) + 1), groups |-> GroupGrad(t)]]
    /\ UNCHANGED <<window, seq, layer, ngrams, shadow, reads>>

\* A row: padding on either side, packed sequences in ascending order.
Rows ==
    {s \in [Tokens -> -1 .. 2] :
        \E first, last \in Tokens : first <= last /\ s[first] = 0
            /\ \A i \in Tokens : IF i < first \/ i > last THEN s[i] = -1
                                 ELSE i > first => s[i] \in {s[i - 1], s[i - 1] + 1}}

Init ==
    /\ window \in Windows /\ seq \in Rows
    /\ layer = 0 /\ ngrams = <<>> /\ shadow = [r \in Ranks |-> Emptied]
    /\ reads = <<>> /\ grads = <<>> /\ phase = "embed"

\* Scores are arbitrary: any order of the groups.
Orders(here) == IF here.index THEN SetToSeqs(0 .. Length \div here.ratio - 1) ELSE {<<>>}

Next ==
    \/ Embed
    \/ \E order \in UNION {Orders(Layers[l]) : l \in {layer + 1} \cap DOMAIN Layers} : ForwardLayer(order)
    \/ Backward

Spec == Init /\ [][Next]_vars

----------------------------------------------------------------------------
(* Properties.  The reference knows only which tokens form a sequence.     *)

Mates(q) == {i \in Tokens : seq[q] >= 0 /\ seq[i] = seq[q]}
Nth(i) == Cardinality({k \in Mates(i) : k < i})
RefWindow(q) == {k \in Mates(q) : k <= q /\ q - k < window}
RefGroups(q, ratio) ==
    {g \in {{i \in Mates(q) : Nth(i) \div ratio = j} : j \in 0 .. Length \div ratio} :
        Cardinality(g) = ratio /\ \A i \in g : i <= q}
Chosen(l, q) == LET read == reads[l][q].groups IN
    [n \in DOMAIN read |-> Members(Latent(Layers[l].ratio), read[n])]
Distinct(s) == Cardinality(ToSet(s)) = Len(s)

\* Some layer up to l restricts the selection of layer l to candidates.
Restricted(l) == \E c \in 1 .. l - 1 : Layers[c].source /\ \A m \in c + 1 .. l : ~Layers[m].kv

(* Sharding is invisible and attention is causal (ModelContext.build,      *)
(* gather_attention, Compressor, SparseIndexer, ShadowIndexers, NgramHash, *)
(* _LeftHalo and _AllGather backward, ordered_backward).  On whatever rank *)
(* a token lives, whichever layer selected its groups, and however the row *)
(* is packed and padded, it reads exactly the live tokens of its own       *)
(* sequence in its window and only complete, earlier groups of its own     *)
(* sequence, as many as exist up to the top-k; and each of its reads       *)
(* returns exactly one gradient to the token that was read.                *)
ContextExact ==
    /\ phase # "raised"
    /\ ngrams # <<>> => \A i \in Tokens, d \in 1 .. MaxNgram :
           ngrams[RankOf(i)][(i % Local) + 1][d] =
               (IF i - d + 1 >= 0 /\ i - d + 1 \in Mates(i) THEN i - d + 1 ELSE Missing)
    /\ \A l \in DOMAIN reads, q \in Tokens :
         /\ ToSet(reads[l][q].window) = RefWindow(q) /\ Distinct(reads[l][q].window)
         /\ Layers[l].ratio > 0 =>
              LET ref == RefGroups(q, Layers[l].ratio) IN
              /\ ToSet(Chosen(l, q)) \subseteq ref /\ Distinct(Chosen(l, q))
              /\ IF Restricted(l) THEN ref # {} => Chosen(l, q) # <<>>
                 ELSE Len(Chosen(l, q)) = Least(TopK, Cardinality(ref))
    /\ phase = "done" => \A t \in Tokens :
         /\ Distinct(grads[t].window) /\ ToSet(grads[t].window) = {q \in Tokens : t \in RefWindow(q)}
         /\ Distinct(grads[t].groups)
         /\ ToSet(grads[t].groups) = {e \in (DOMAIN Layers) \X Tokens :
                \E n \in DOMAIN Chosen(e[1], e[2]) : t \in Chosen(e[1], e[2])[n]}
=============================================================================
