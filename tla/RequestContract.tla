-------------------------- MODULE RequestContract --------------------------
(***************************************************************************)
(* What a relay promises for each generation request: the model is asked   *)
(* at most once, the first answer is final, an answer "ok" is a completion *)
(* the model made, and after an answer "terminal" the model does nothing   *)
(* more for the request.  An answer "error" promises nothing: the model    *)
(* may be at work or may even be asked later, unless the request was       *)
(* withdrawn before it was submitted: then it is never asked.              *)
(***************************************************************************)
CONSTANT Requests
VARIABLES model, answer, withdrawn

Init ==
    /\ model = [r \in Requests |-> "untouched"]
    /\ answer = [r \in Requests |-> "none"]
    /\ withdrawn = {}

Ask(r) ==
    /\ model[r] = "untouched" /\ answer[r] \in {"none", "error"} /\ r \notin withdrawn
    /\ model' = [model EXCEPT ![r] = "sampling"] /\ UNCHANGED <<answer, withdrawn>>

End(r, how) ==
    /\ model[r] = "sampling" /\ answer[r] \in {"none", "error"}
    /\ model' = [model EXCEPT ![r] = how] /\ UNCHANGED <<answer, withdrawn>>

Withdraw(r) ==
    /\ model[r] = "untouched" /\ withdrawn' = withdrawn \cup {r} /\ UNCHANGED <<model, answer>>

\* Several requests may be answered at once: a sweep or a restart.
Answer(S, what) ==
    /\ \A r \in S : /\ answer[r] = "none"
                    /\ what[r] = "ok" => model[r] = "sampled"
                    /\ what[r] = "terminal" => model[r] = "closed"
    /\ answer' = [r \in Requests |-> IF r \in S THEN what[r] ELSE answer[r]]
    /\ UNCHANGED <<model, withdrawn>>

Next ==
    \/ \E r \in Requests : Ask(r) \/ Withdraw(r) \/ End(r, "sampled") \/ End(r, "closed")
    \/ \E S \in SUBSET Requests : \E what \in [S -> {"ok", "error", "terminal"}] : Answer(S, what)

Spec == Init /\ [][Next]_<<model, answer, withdrawn>>
=============================================================================
