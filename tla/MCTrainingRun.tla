--------------------------- MODULE MCTrainingRun ---------------------------
(* A small training run: only its last step is evaluated. *)
EXTENDS TrainingRun

EvaluateLast == {MaxSteps}
=============================================================================
