----------------------------- MODULE MCAicModel -----------------------------
(* AicModel for TLC: the goals are interchangeable model values. *)
EXTENDS AicModel, TLC

GoalSymmetry == Permutations(Goal)

=============================================================================
