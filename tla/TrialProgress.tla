---------------------------- MODULE TrialProgress ----------------------------
(***************************************************************************)
(* What aic_engine promises about its trials: they run one after the       *)
(* other, each climbs the ladder of TrialState one rung at a time, a run   *)
(* that completes has brought every trial as far as executing its tasks,   *)
(* and a run that ends in Error stopped at the first trial that did not    *)
(* get there.                                                              *)
(***************************************************************************)
EXTENDS Naturals

CONSTANT NTrials    \* trials of the configuration, run in order

VARIABLES engine_state, trial, trial_state

pvars == <<engine_state, trial, trial_state>>

Rung == {"Uninitialized", "ModelReady", "EndpointsReady", "SimulatorReady",
         "ScoringReady", "TasksExecuting", "AllTasksCompleted"}

Above(s) ==
  CASE s = "Uninitialized"  -> "ModelReady"
    [] s = "ModelReady"     -> "EndpointsReady"
    [] s = "EndpointsReady" -> "SimulatorReady"
    [] s = "SimulatorReady" -> "ScoringReady"
    [] s = "ScoringReady"   -> "TasksExecuting"
    [] OTHER                -> "AllTasksCompleted"

\* The tasks of trial t were started; vacuous before the first trial.
TasksReached(t) == t # 0 => trial_state[t] \in {"TasksExecuting", "AllTasksCompleted"}

Init ==
  /\ engine_state = "Initialized"
  /\ trial = 0
  /\ trial_state = [t \in 1..NTrials |-> "Uninitialized"]

Begin ==
  /\ engine_state = "Initialized"
  /\ engine_state' = "Running"
  /\ UNCHANGED <<trial, trial_state>>

StartTrial ==
  /\ engine_state = "Running"
  /\ trial < NTrials
  /\ TasksReached(trial)
  /\ trial' = trial + 1
  /\ UNCHANGED <<engine_state, trial_state>>

Climb ==
  /\ engine_state = "Running"
  /\ trial # 0
  /\ trial_state[trial] # "AllTasksCompleted"
  /\ trial_state' = [trial_state EXCEPT ![trial] = Above(@)]
  /\ UNCHANGED <<engine_state, trial>>

Stop ==
  /\ engine_state = "Running"
  /\ ~TasksReached(trial)
  /\ engine_state' = "Error"
  /\ UNCHANGED <<trial, trial_state>>

Complete ==
  /\ engine_state = "Running"
  /\ trial = NTrials
  /\ TasksReached(trial)
  /\ engine_state' = "Completed"
  /\ UNCHANGED <<trial, trial_state>>

Next == Begin \/ StartTrial \/ Climb \/ Stop \/ Complete

Spec == Init /\ [][Next]_pvars

=============================================================================
