----------------------------- MODULE MCAicEngine -----------------------------
(* AicEngine for TLC: the scene has one cable. *)
EXTENDS AicEngine

OneCable == <<"cable_0">>

=============================================================================
