--------------------------- MODULE MCLoraTraining ---------------------------
(* LoraTraining for TLC: the workers are model values of the cfg. *)
EXTENDS LoraTraining
=============================================================================
