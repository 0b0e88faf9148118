------------------------------ MODULE EvalQueue ------------------------------
(***************************************************************************)
(* What eval_batch.sh promises about its queue: at most one run is being   *)
(* evaluated at any time, a run is reported by the evaluation that is in   *)
(* progress, and a run that was reported is never evaluated again.         *)
(***************************************************************************)
CONSTANT Runs       \* the names of the queue

VARIABLES running,  \* the runs being evaluated
          reported  \* the runs that have a summary.json

qvars == <<running, reported>>

Init == running = {} /\ reported = {}

Begin(n) ==
  /\ running = {} /\ n \notin reported
  /\ running' = {n}
  /\ UNCHANGED reported

Report(n) ==
  /\ running = {n}
  /\ reported' = reported \cup {n}
  /\ UNCHANGED running

Leave(n) ==
  /\ running = {n}
  /\ running' = {}
  /\ UNCHANGED reported

Next == \E n \in Runs : Begin(n) \/ Report(n) \/ Leave(n)

Spec == Init /\ [][Next]_qvars

=============================================================================
