----------------------- MODULE MCBenchmarkProvider -----------------------
(* Instances of BenchmarkProvider; the constants are in the configurations. *)
EXTENDS BenchmarkProvider
=============================================================================
