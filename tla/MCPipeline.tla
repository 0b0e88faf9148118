------------------------------ MODULE MCPipeline ------------------------------
EXTENDS Pipeline

MCModes == {"campaign", "dagger", "disasm"}

(* A robot that faces the board the other way round, and two ports on it.   *)
MCWorld == [world |-> <<1, 0>>, aic_world |-> <<1, 0>>,
            base_link |-> <<-1, 3>>, tool |-> <<1, 4>>, board |-> <<-1, 1>>,
            sc_entrance |-> <<1, 2>>, sfp_entrance |-> <<-1, 5>>]

(* The tree is cut between world and aic_world, one child is re-parented,   *)
(* and one pair of transforms makes a cycle.                                *)
MCTfLinks == {<<"world", "base_link">>, <<"aic_world", "board">>, <<"world", "board">>,
              <<"board", "sc_entrance">>, <<"board", "sfp_entrance">>,
              <<"base_link", "tool">>, <<"sc_entrance", "board">>}
MCScoringLinks == {<<"aic_world", "sc_entrance">>, <<"aic_world", "base_link">>}

MCNeighbours == {[src |-> <<7, 8, 9>>, time |-> <<7, 8, 9>>,
                  moves |-> <<TRUE, FALSE, FALSE>>, seat |-> 0]}

(* The default plan, one cell drawn twice, and a name there is no cell of.  *)
MCOverrides == {<<>>, [s \in {Strata[11]} |-> 2],
                [s \in {[plug |-> "sc", rail |-> 7, port |-> "sc_port_base"]} |-> 2]}

(* An insertion; a collision near the port; a forced partial insertion.     *)
MCGrades == {[rest |-> 20, tier_3 |-> 75, contacts |-> 0, force |-> 0],
             [rest |-> -10, tier_3 |-> 20, contacts |-> -24, force |-> 0],
             [rest |-> 1, tier_3 |-> 40, contacts |-> 0, force |-> -12]}

===============================================================================
