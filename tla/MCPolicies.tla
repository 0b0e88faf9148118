------------------------------ MODULE MCPolicies ------------------------------
EXTENDS Policies

Plain == [guarded |-> FALSE, aux |-> FALSE, reaim |-> FALSE, specialist |-> FALSE,
          search |-> FALSE, vertical |-> FALSE, ensemble |-> FALSE]

(* The launches of the repository's scripts, and the flags that meet. *)
MCConfigs ==
  { [Plain EXCEPT !.ensemble = TRUE],
    [Plain EXCEPT !.guarded = TRUE],
    [Plain EXCEPT !.guarded = TRUE, !.aux = TRUE, !.reaim = TRUE],
    [Plain EXCEPT !.search = TRUE],
    [Plain EXCEPT !.search = TRUE, !.specialist = TRUE, !.vertical = TRUE],
    [Plain EXCEPT !.specialist = TRUE, !.aux = TRUE, !.reaim = TRUE] }

MCPorts == {-2, 2}

MCPolicyNames == {"CheatCode", "DisassembleCode", "Oracle", "Specialist",
                  "RunACT", "WaveArm", "Gentle", "Wall"}

===============================================================================
