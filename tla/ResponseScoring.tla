--------------------------- MODULE ResponseScoring ---------------------------
(***************************************************************************)
(* From sampled tokens to optimizer terms: the sampler and its request KV  *)
(* cache (rl/rollout.py, qwen_kv_cache.py), the recorded turns             *)
(* (rollout_manager/training.py), and the learner's scoring of them        *)
(* (rl/algorithm.py, rl/runtime.py, learner_batch_planner.py).             *)
(*                                                                         *)
(* A log-probability is the pair <<tokens attended to, token>>: the model  *)
(* computes one number per such pair, and a gradient term is right when    *)
(* the pair that is scored is the pair that was sampled.                   *)
(***************************************************************************)
EXTENDS Integers, FiniteSets, Sequences, SequencesExt

CONSTANTS
    Vocab, EosIds,      \* token ids; 0 is a token like any other
    Stops,              \* set of stop token sequences
    Prompts, Tools,     \* prompts of a group, tool outputs between turns
    MaxNew, MaxTurns,
    Learners            \* configurations of the group size and of the learner

ResponseScoringAssumption ==
    /\ Vocab \subseteq Nat /\ EosIds \subseteq Vocab
    /\ MaxNew \in Nat \ {0} /\ MaxTurns \in Nat \ {0}
    /\ \A s \in Stops \cup Prompts : s # <<>>
    \* width: backprop_chunk_tokens (0: the whole trajectory, or each turn when engram is
    \* TRUE: train_engram); head: only the head is trained; fixed:
    \* learner_microbatch_size; shapes: cells [batch, tokens] (none: {})
    /\ \A l \in Learners :
         /\ l.size \in Nat \ {0, 1} /\ l.profile \in {"teacher", "replay", "cache"}
         /\ \/ l.route = "chunks" /\ l.width \in Nat /\ l.head \in BOOLEAN
                /\ l.engram \in BOOLEAN
            \/ l.route = "batch" /\ l.profile = "teacher" /\ l.fixed \in Nat \ {0}
               /\ \A c \in l.shapes : c.batch \in Nat \ {0} /\ c.tokens \in Nat \ {0}

VARIABLES
    learner,       \* the run's configuration, fixed
    prompt,
    turn,          \* the turn being sampled: [context, response, behavior, finish, stop]
    cache,         \* tokens whose keys and values the request's cache holds
    turns,         \* completed turns of the trajectory
    samples,       \* completed trajectories: [turns, reward]
    drawn,         \* history: per sample, the pairs really drawn
    plan,          \* backward passes to do
    terms,         \* gradient terms so far
    phase

vars == <<learner, prompt, turn, cache, turns, samples, drawn, plan, terms, phase>>

NewTurn(context) == [context |-> context, response |-> <<>>, behavior |-> <<>>, finish |-> "none", stop |-> 0]

Init ==
    /\ learner \in Learners
    /\ prompt \in Prompts /\ turn = NewTurn(prompt) /\ cache = <<>> /\ turns = <<>>
    /\ samples = <<>> /\ drawn = <<>> /\ plan = <<>> /\ terms = <<>> /\ phase = "sampling"

----------------------------------------------------------------------------
(* Sampling.                                                               *)

\* next_hidden: a prefill, or exactly one token more than the cache holds.
Appends(held, tokens) == held = <<>> \/ (Len(tokens) = Len(held) + 1 /\ IsPrefix(held, tokens))

\* What the logits of the last position have attended to.
Attended(held, tokens) ==
    IF learner.profile = "cache" THEN held \o SubSeq(tokens, Len(held) + 1, Len(tokens)) ELSE tokens

\* The longest stop sequence at the end of the response.
Matching(response) == {s \in Stops : IsSuffix(s, response)}
Longest(S) == CHOOSE s \in S : \A t \in S : Len(t) <= Len(s)

Ended(t) ==
    IF Matching(t.response) # {} THEN [t EXCEPT !.finish = "stop", !.stop = Len(Longest(Matching(t.response)))]
    ELSE IF Last(t.response) \in EosIds THEN [t EXCEPT !.finish = "eos", !.stop = 1]
    ELSE IF Len(t.response) = MaxNew THEN [t EXCEPT !.finish = "length"] ELSE t

Draw(token) ==
    LET tokens == turn.context \o turn.response
        pair == <<Attended(cache, tokens), token>>
    IN  /\ phase = "sampling" /\ turn.finish = "none"
        /\ turn' = Ended([turn EXCEPT !.response = Append(@, token), !.behavior = Append(@, pair)])
        /\ cache' = tokens
        /\ phase' = IF learner.profile = "cache" /\ ~Appends(cache, tokens) THEN "raised" ELSE phase
        /\ drawn' = [n \in 1 .. Len(samples) + 1 |->
                        IF n <= Len(samples) THEN drawn[n]
                        ELSE (IF n \in DOMAIN drawn THEN drawn[n] ELSE <<>>) \o <<<<tokens, token>>>>]
        /\ UNCHANGED <<learner, prompt, turns, samples, plan, terms>>

\* The environment answers a turn: the next one is a request of its own.
Continue(tool) ==
    /\ phase = "sampling" /\ turn.finish # "none"
    /\ learner.route = "chunks" /\ Len(turns) + 1 < MaxTurns
    /\ turns' = Append(turns, turn)
    /\ turn' = NewTurn(turn.context \o turn.response \o tool) /\ cache' = <<>>
    /\ UNCHANGED <<learner, prompt, samples, drawn, plan, terms, phase>>

\* The reward ends the trajectory.
Reward(reward) ==
    /\ phase = "sampling" /\ turn.finish # "none"
    /\ samples' = Append(samples, [turns |-> Append(turns, turn), reward |-> reward])
    /\ turn' = NewTurn(prompt) /\ turns' = <<>> /\ cache' = <<>>
    /\ phase' = IF Len(samples') = learner.size THEN "collected" ELSE phase
    /\ UNCHANGED <<learner, prompt, drawn, plan, terms>>

----------------------------------------------------------------------------
(* Scoring.                                                                *)

Shifted(context, response) == [n \in DOMAIN response |-> Len(context) + n]

\* Input position that scores action n, counted from 1.
Aligned(context, response) == [n \in DOMAIN response |-> Len(context) + n - 1]

\* What position p of a row of prompt + response[:-1] attends to.
Row(context, response) == context \o Front(response)
Causal(row, p) == SubSeq(row, 1, IF p <= Len(row) THEN p ELSE Len(row))

RECURSIVE Replayed(_, _, _, _)

\* The replay hooks run one forward per action; the cached one through a
\* cache of its own.
Replayed(context, response, n, held) ==
    IF n > Len(response) THEN <<>>
    ELSE LET tokens == context \o SubSeq(response, 1, n - 1) IN
         <<IF learner.profile = "cache" /\ ~Appends(held, tokens) THEN <<<<>>, response[n]>>
           ELSE <<Attended(held, tokens), response[n]>>>>
         \o Replayed(context, response, n + 1, tokens)

ResponseLogProbs(context, response) ==
    IF learner.profile # "teacher" THEN Replayed(context, response, 1, <<>>)
    ELSE [n \in DOMAIN response |->
            <<Causal(Row(context, response), Aligned(context, response)[n]), response[n]>>]

\* One right-padded forward: the target mask selects row by row, the split
\* takes the rows apart again.
ResponseLogProbsBatch(pairs) ==
    LET selected == FlattenSeq([b \in DOMAIN pairs |->
            LET c == pairs[b].context
                r == pairs[b].response
            IN  [n \in DOMAIN r |-> <<Causal(Row(c, r), Aligned(c, r)[n]), r[n]>>]])
        before(b) == Len(FlattenSeq([a \in 1 .. b - 1 |-> pairs[a].response]))
    IN  [b \in DOMAIN pairs |-> SubSeq(selected, before(b) + 1, before(b) + Len(pairs[b].response))]

----------------------------------------------------------------------------
(* The backward passes of one update.  A pass has members: the pieces of   *)
(* trajectories whose token means it adds up, each with its share.         *)

Actions(s) == FlattenSeq([k \in DOMAIN s.turns |-> s.turns[k].response])

\* _training_chunks: a piece is [turn, start, stop], tokens start+1 .. stop.
Pieces(s, width) ==
    FlattenSeq([k \in DOMAIN s.turns |->
        LET n == Len(s.turns[k].response)
            w == IF width = 0 THEN n ELSE width
        IN  [c \in 1 .. (n + w - 1) \div w |->
                [turn |-> k, start |-> (c - 1) * w, stop |-> IF c * w < n THEN c * w ELSE n]]])

Chunks(i) ==
    LET s == samples[i] IN
    IF learner.width = 0 /\ ~learner.engram
    THEN <<[sample |-> i, pieces |-> Pieces(s, 0), share |-> <<1, 1>>]>>
    ELSE [c \in DOMAIN Pieces(s, learner.width) |->
            LET piece == Pieces(s, learner.width)[c] IN
            [sample |-> i, pieces |-> <<piece>>, share |-> <<piece.stop - piece.start, Len(Actions(s))>>]]

\* plan_learner_microbatches over the input lengths.
InputLength(i) == Len(samples[i].turns[1].context) + Len(samples[i].turns[1].response) - 1
ByLength == SetToSortSeq(1 .. learner.size, LAMBDA a, b : InputLength(a) < InputLength(b)
                                              \/ (InputLength(a) = InputLength(b) /\ a < b))
Covered == \A i \in 1 .. learner.size : \E cell \in learner.shapes : InputLength(i) <= cell.tokens
Fit(cursor, cell) ==
    Cardinality({n \in 1 .. cell.batch : cursor + n - 1 <= learner.size
                                          /\ InputLength(ByLength[cursor + n - 1]) <= cell.tokens})
Better(cursor, a, b) ==
    \/ Fit(cursor, a) > Fit(cursor, b)
    \/ Fit(cursor, a) = Fit(cursor, b) /\ (a.tokens < b.tokens \/ (a.tokens = b.tokens /\ a.batch <= b.batch))

RECURSIVE Packed(_)
Packed(cursor) ==
    IF cursor > learner.size THEN <<>>
    ELSE LET cell == CHOOSE a \in learner.shapes : \A b \in learner.shapes : Better(cursor, a, b)
             stop == cursor + Fit(cursor, cell)
         IN  <<SubSeq(ByLength, cursor, stop - 1)>> \o Packed(stop)

MicroBatches ==
    IF learner.shapes = {}
    THEN [c \in 1 .. (learner.size + learner.fixed - 1) \div learner.fixed |->
            [n \in 1 .. (IF c * learner.fixed <= learner.size THEN learner.fixed
                         ELSE learner.size - (c - 1) * learner.fixed) |-> (c - 1) * learner.fixed + n]]
    ELSE Packed(1)

\* group_advantages are zero exactly when the rewards are equal.
NoAdvantage == \A i, j \in DOMAIN samples : samples[i].reward = samples[j].reward

\* train_groups, and run around train_group: skip a group without a signal,
\* refuse what the shapes do not cover, do not replay a constant objective
\* of the head.
Plan ==
    /\ phase = "collected"
    /\ phase' = IF learner.route = "batch" /\ NoAdvantage THEN "skipped"
                ELSE IF learner.route = "batch" /\ learner.shapes # {} /\ ~Covered THEN "refused"
                ELSE "scoring"
    /\ plan' = IF phase' # "scoring" THEN <<>>
               ELSE IF learner.route = "batch" THEN MicroBatches
               ELSE IF learner.head /\ NoAdvantage THEN <<>>
               ELSE FlattenSeq([i \in 1 .. learner.size |-> Chunks(i)])
    /\ UNCHANGED <<learner, prompt, turn, cache, turns, samples, drawn, terms>>

\* The loss's token mean: one term per token, weighted share / length.
TermsOf(sample, scores, behavior, share) ==
    [n \in DOMAIN scores |-> [sample |-> sample, score |-> scores[n], behavior |-> behavior[n],
                              weight |-> <<share[1], share[2] * Len(scores)>>]]

\* The loss refuses vectors of different lengths.
Matched(scores, behavior) == Len(scores) = Len(behavior)

ScoreChunk ==
    LET item == Head(plan)
        turn_(p) == samples[item.sample].turns[p.turn]
        scores == FlattenSeq([k \in DOMAIN item.pieces |-> LET p == item.pieces[k] IN
            ResponseLogProbs(turn_(p).context \o SubSeq(turn_(p).response, 1, p.start),
                             SubSeq(turn_(p).response, p.start + 1, p.stop))])
        behavior == FlattenSeq([k \in DOMAIN item.pieces |-> LET p == item.pieces[k] IN
            SubSeq(turn_(p).behavior, p.start + 1, p.stop)])
    IN  /\ phase = "scoring" /\ plan # <<>> /\ learner.route = "chunks"
        /\ IF Matched(scores, behavior)
           THEN terms' = terms \o TermsOf(item.sample, scores, behavior, item.share) /\ phase' = phase
           ELSE phase' = "raised" /\ UNCHANGED terms
        /\ plan' = Tail(plan)
        /\ UNCHANGED <<learner, prompt, turn, cache, turns, samples, drawn>>

ScoreBatch ==
    LET batch == Head(plan)
        first(b) == samples[batch[b]].turns[1]
        scores == ResponseLogProbsBatch([b \in DOMAIN batch |->
                      [context |-> first(b).context, response |-> first(b).response]])
    IN  /\ phase = "scoring" /\ plan # <<>> /\ learner.route = "batch"
        /\ IF \A b \in DOMAIN batch : Matched(scores[b], first(b).behavior)
           THEN /\ terms' = terms \o FlattenSeq([b \in DOMAIN batch |->
                       TermsOf(batch[b], scores[b], first(b).behavior, <<1, 1>>)])
                /\ phase' = phase
           ELSE phase' = "raised" /\ UNCHANGED terms
        /\ plan' = Tail(plan)
        /\ UNCHANGED <<learner, prompt, turn, cache, turns, samples, drawn>>

Step ==
    /\ phase = "scoring" /\ plan = <<>> /\ phase' = "stepped"
    /\ UNCHANGED <<learner, prompt, turn, cache, turns, samples, drawn, plan, terms>>

Next ==
    \/ \E token \in Vocab : Draw(token)
    \/ \E tool \in Tools : Continue(tool)
    \/ \E reward \in {0, 1} : Reward(reward)
    \/ Plan \/ ScoreChunk \/ ScoreBatch \/ Step

Spec == Init /\ [][Next]_vars

----------------------------------------------------------------------------
(* Properties.                                                             *)

\* Terms of a sample whose scored pair is p.
Count(i, p) == Cardinality({n \in DOMAIN terms : terms[n].sample = i /\ terms[n].score = p})

(* Every sampled token is trained on once, as it was sampled (generate_    *)
(* group, QwenRequestKVCache, response_log_probs, response_log_probs_batch, *)
(* _training_chunks, plan_learner_microbatches).  Whatever the turns, the  *)
(* stops, the chunk width, the micro-batches and the scoring path, an      *)
(* update has one term per action of every sample; its score and its       *)
(* behavior probability are those of that token after exactly the tokens   *)
(* it was sampled after, and its weight is one over the actions of its     *)
(* sample.  An update without terms had a constant objective.              *)
ScoredAsSampled ==
    /\ phase # "raised"
    /\ phase = "stepped" =>
         IF terms = <<>> THEN NoAdvantage
         ELSE \A i \in DOMAIN samples :
              LET mine == {n \in DOMAIN terms : terms[n].sample = i} IN
              /\ Cardinality(mine) = Len(drawn[i]) /\ Len(drawn[i]) = Len(Actions(samples[i]))
              /\ \A n \in mine : terms[n].score = terms[n].behavior
                                 /\ terms[n].weight[1] * Len(drawn[i]) = terms[n].weight[2]
              /\ \A k \in DOMAIN drawn[i] : Count(i, drawn[i][k]) =
                    Cardinality({m \in DOMAIN drawn[i] : drawn[i][m] = drawn[i][k]})
=============================================================================
