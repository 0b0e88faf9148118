---------------------------- MODULE MCEvalHarness ----------------------------
(* EvalHarness for TLC: a queue of two runs. *)
EXTENDS EvalHarness

TwoRuns == <<"p1_k16", "v2_wide">>

=============================================================================
