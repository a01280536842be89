--------------------------- MODULE ExpertDispatch ---------------------------
(***************************************************************************)
(* The three all-to-all exchanges of the model code: the grouped expert    *)
(* dispatcher of models/dsv4/moe/dispatch.py, the owner-sorted one of      *)
(* dispatch.py, and the row-sharded embedding of models/dsv4/model.py.     *)
(* Every rank sorts its assignments, tells the others how many each gets,  *)
(* sends them, computes on what it received, and sends the results back.   *)
(*                                                                         *)
(* A token is <<rank, position>>, an assignment also has its slot among    *)
(* the token's experts; what an expert computes is the triple of its       *)
(* token, its own number and the routing weight, so that any mixed-up      *)
(* order shows.  Indices of sequences start at 1, ranks and experts at 0.  *)
(***************************************************************************)
EXTENDS Integers, FiniteSets, Sequences, SequencesExt, FiniteSetsExt

CONSTANTS
    Size,        \* ranks of the mesh
    Units,       \* number of experts
    Rows,        \* number of embedding rows
    TopK,        \* experts per token
    MaxTokens,   \* bound: tokens of a rank
    MaxTotal     \* bound: tokens of all ranks

DispatchAssumption ==
    /\ Size \in Nat \ {0} /\ Units \in Nat /\ Units >= Size /\ Rows \in Nat /\ Rows >= Size
    /\ TopK \in 1 .. Units /\ MaxTokens \in Nat /\ MaxTotal \in Nat

Ranks == 0 .. Size - 1
Variants == {"embedding"} \cup (IF Units % Size = 0 THEN {"grouped", "owner"} ELSE {})

VARIABLES
    variant,     \* which of the three exchanges
    ids,         \* rank -> flat sequence of expert ids (or row ids)
    stage,       \* the next collective
    recvCounts,  \* rank -> sender -> count per unit of this rank
    received,    \* rank -> what the others sent it, sender-major
    returned,    \* rank -> the results of its own assignments, as sent
    out          \* rank -> result of dispatch, compute and combine

vars == <<variant, ids, stage, recvCounts, received, returned, out>>

Experts == 0 .. (IF variant = "embedding" THEN Rows ELSE Units) - 1
Slots == IF variant = "embedding" THEN 1 ELSE TopK

----------------------------------------------------------------------------
(* Ownership.                                                              *)

LocalUnits == Units \div Size

\* Rows of the embedding: the first Rows % Size ranks own one row more.
Base == Rows \div Size
Remainder == Rows % Size
RowStart(r) == r * Base + (IF r < Remainder THEN r ELSE Remainder)
RowOwner(g) ==
    LET large == (Base + 1) * Remainder
    IN  IF g < large THEN g \div (Base + 1) ELSE Remainder + (g - large) \div Base

Owner(u) == IF variant = "embedding" THEN RowOwner(u) ELSE u \div LocalUnits
Start(r) == IF variant = "embedding" THEN RowStart(r) ELSE r * LocalUnits
Held(r) == Start(r) .. Start(r + 1) - 1       \* units rank r has weights for

----------------------------------------------------------------------------
(* Orders.                                                                 *)

ArgSortOf(place) == [p \in DOMAIN place |-> CHOOSE i \in DOMAIN place : place[i] = p]

\* argsort(keys, stable=True): the positions of keys in sorted order.
ArgSort(keys) ==
    ArgSortOf([i \in DOMAIN keys |->
        Cardinality({j \in DOMAIN keys : keys[j] < keys[i] \/ (keys[j] = keys[i] /\ j <= i)})])

\* argsort of a permutation is its inverse.
Inverted(order) == ArgSortOf(order)

Permuted(q, order) == [p \in DOMAIN order |-> q[order[p]]]

\* The grouped dispatcher sorts by expert, the others by owner.
Order(r) == ArgSort([i \in DOMAIN ids[r] |->
                        IF variant = "grouped" THEN ids[r][i] ELSE Owner(ids[r][i])])

----------------------------------------------------------------------------
(* Collectives.                                                            *)

Total(f, S) == MapThenSumSet(LAMBDA x : f[x], S)

\* How many assignments rank r has for unit u of rank o.
Count(r, u) == Cardinality({i \in DOMAIN ids[r] : ids[r][i] = u})
UnitsOf(o) == {u \in Experts : Owner(u) = o}
SendSplits(r) == [o \in Ranks |-> Total([u \in UnitsOf(o) |-> Count(r, u)], UnitsOf(o))]
RecvSplits(r) == [s \in Ranks |-> Total(recvCounts[r][s], UnitsOf(r))]

\* all_to_all_single: sender s's o-th segment arrives at o, by sender.
Segment(q, splits, o) ==
    LET before == Total(splits, 0 .. o - 1) IN SubSeq(q, before + 1, before + splits[o])
Exchange(q, splits) ==
    [o \in Ranks |-> FlattenSeq([s \in 1 .. Size |-> Segment(q[s - 1], splits[s - 1], o)])]

----------------------------------------------------------------------------
(* The exchange, one action per collective.                                *)

\* Any routing: top-k experts of a token are distinct.
Routings ==
    {q \in UNION {[1 .. n * Slots -> Experts] : n \in 0 .. MaxTokens} :
        \A i, j \in DOMAIN q : i # j /\ (i - 1) \div Slots = (j - 1) \div Slots => q[i] # q[j]}

Init ==
    /\ variant \in Variants /\ stage = "counts"
    /\ ids \in {q \in [Ranks -> Routings] : Total([r \in Ranks |-> Len(q[r])], Ranks) <= MaxTotal * Slots}
    /\ recvCounts = [r \in Ranks |-> <<>>] /\ received = [r \in Ranks |-> <<>>]
    /\ returned = [r \in Ranks |-> <<>>] /\ out = [r \in Ranks |-> <<>>]

ExchangeCounts ==
    /\ stage = "counts" /\ stage' = "route"
    /\ recvCounts' = [r \in Ranks |-> [s \in Ranks |-> [u \in UnitsOf(r) |-> Count(s, u)]]]
    /\ UNCHANGED <<variant, ids, received, returned, out>>

\* What an assignment carries: its token and weight, and, except for the
\* grouped dispatcher, the unit it asks for.
Carried(r, i) ==
    [token |-> <<r, (i - 1) \div Slots>>, weight |-> <<r, i>>,
     unit |-> IF variant = "grouped" THEN -1 ELSE ids[r][i]]

Route ==
    /\ stage = "route" /\ stage' = "compute"
    /\ received' = Exchange([r \in Ranks |-> Permuted([i \in DOMAIN ids[r] |-> Carried(r, i)], Order(r))],
                            [r \in Ranks |-> SendSplits(r)])
    /\ UNCHANGED <<variant, ids, recvCounts, returned, out>>

\* Segment <<s, u>> of what r received holds sender s's tokens for unit u.
Before(r, s, u) == Total([o \in Ranks |-> Total(recvCounts[r][o], UnitsOf(r))], 0 .. s - 1)
                   + Total(recvCounts[r][s], {v \in UnitsOf(r) : v < u})

ExpertMajorUntransposed(r) == [p \in 1 .. Len(received[r]) |-> p]

\* _expert_major_order: segments <<s, u>> of the input, by u and then by s.
ExpertMajor(r) ==
    LET starts(u, s) == Total([v \in UnitsOf(r) |-> Total([o \in Ranks |-> recvCounts[r][o][v]], Ranks)],
                              {v \in UnitsOf(r) : v < u})
                        + Total([o \in Ranks |-> recvCounts[r][o][u]], 0 .. s - 1)
        segment(p) == CHOOSE x \in UnitsOf(r) \X Ranks :
                          starts(x[1], x[2]) < p /\ p <= starts(x[1], x[2]) + recvCounts[r][x[2]][x[1]]
    IN  [p \in 1 .. Len(received[r]) |->
            LET x == segment(p) IN Before(r, x[2], x[1]) + p - starts(x[1], x[2])]

\* The grouped matmul of row p of the expert-major order: offsets are the
\* cumulative counts over all senders.
GroupedUnit(r, p) ==
    CHOOSE u \in UnitsOf(r) :
        LET upto(S) == Total([v \in UnitsOf(r) |-> Total([o \in Ranks |-> recvCounts[r][o][v]], Ranks)], S)
        IN  upto({v \in UnitsOf(r) : v < u}) < p /\ p <= upto({v \in UnitsOf(r) : v <= u})

\* Results in the order the rows were received.
Computed(r) ==
    LET run(x, u) == [token |-> x.token, weight |-> x.weight, unit |-> u]
    IN  IF variant = "grouped"
        THEN LET rows == Permuted(received[r], ExpertMajor(r))
             IN  Permuted([p \in DOMAIN rows |-> run(rows[p], GroupedUnit(r, p))], Inverted(ExpertMajor(r)))
        ELSE [p \in DOMAIN received[r] |->
                run(received[r][p], Start(r) + (received[r][p].unit - Start(r)))]

ReturnResults ==
    /\ stage = "compute" /\ stage' = "combine"
    /\ returned' = Exchange([r \in Ranks |-> Computed(r)], [r \in Ranks |-> RecvSplits(r)])
    /\ UNCHANGED <<variant, ids, recvCounts, received, out>>

\* Undo the sort, then view(token_count, topk).
Combine ==
    /\ stage = "combine" /\ stage' = "done"
    /\ out' = [r \in Ranks |-> Permuted(returned[r], Inverted(Order(r)))]
    /\ UNCHANGED <<variant, ids, recvCounts, received, returned>>

Next == ExchangeCounts \/ Route \/ ReturnResults \/ Combine

Spec == Init /\ [][Next]_vars

----------------------------------------------------------------------------
(* Properties.                                                             *)

(* Dispatch followed by combine is the identity on assignments: every slot *)
(* of every token gets back, in its own place, the result of the expert    *)
(* (or the row) it asked for, computed on its token with its weight, and   *)
(* by a rank that holds its weights; for any routing, empty ranks included *)
(* (dispatch, _expert_major_order, combine, RowShardedEmbedding.forward).  *)
DispatchRestores ==
    /\ stage = "done" => \A r \in Ranks :
           out[r] = [i \in DOMAIN ids[r] |->
                        [token |-> <<r, (i - 1) \div Slots>>, weight |-> <<r, i>>, unit |-> ids[r][i]]]
    /\ stage = "compute" => \A r \in Ranks :
           /\ Total(RecvSplits(r), Ranks) = Len(received[r])
           /\ \A p \in DOMAIN received[r] : received[r][p].unit = -1 \/ received[r][p].unit \in Held(r)
=============================================================================
