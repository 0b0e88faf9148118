------------------------------ MODULE AicEngine ------------------------------
(***************************************************************************)
(* The engine of aic_engine/src/aic_engine.cpp: run(), handle_trial() and  *)
(* the calls it makes, on one thread, to the participant's lifecycle node, *)
(* the simulator, the controller manager and the scoring recorder.         *)
(*                                                                         *)
(* Every action is one blocking call with its answer, or one decision      *)
(* between two calls.  A call that times out was only abandoned: the       *)
(* server may still carry it out, at any later moment.  The flags          *)
(* skip_model_ready and skip_ready_simulator are false.                    *)
(***************************************************************************)
EXTENDS Naturals, Sequences, FiniteSets

CONSTANTS
  NTrials,      \* trials of the configuration, which is refused without any
  NTasks,       \* tasks of each trial
  Cables,       \* the cables of each scene: distinct keys, in the order of the file
  MAX_RETRIES,  \* attempts at a stage that is retried
  MaxLate       \* bound: abandoned requests not yet served

ASSUME EngineAssumption ==
  /\ NTrials \in Nat \ {0} /\ NTasks \in Nat \ {0}
  /\ MAX_RETRIES \in Nat \ {0} /\ MaxLate \in Nat
  /\ Cables \in Seq(STRING) /\ \A i \in DOMAIN Cables : Cables[i] # "task_board"
  /\ \A i, j \in DOMAIN Cables : Cables[i] = Cables[j] => i = j

VARIABLES
  engine_state,      \* Engine.engine_state_
  trial,             \* the trial run() is at, 0 before the first
  trial_state,       \* Trial.state of each trial
  pc,                \* the call or decision the engine is at
  attempt,           \* the retry loops' counter
  cursor,            \* index into Cables, or into spawned_entities
  stop,              \* handle_trial has decided to set EngineState::Error
  model_discovered,  \* Engine.model_discovered_
  is_first_trial,    \* Engine.is_first_trial_
  attempts,          \* Trial.attempts: the states of the tasks sent
  spawned,           \* Trial.spawned_entities
  scored,            \* the trials score_trial computed a score for
  recording,         \* the recorder of ScoringTier2 is recording
  model,             \* lifecycle state of the participant's node
  late_transitions,  \* abandoned change_state requests, in order
  world,             \* entities in the simulator, by the name asked for
  late,              \* abandoned spawn and delete requests
  controller,        \* aic_controller is active
  late_switches,     \* abandoned switch_controller requests, in order
  slow_simulator,    \* what it was asked and did not answer in time, or refused to delete
  failed             \* some call failed or timed out without need

trialVars == <<engine_state, trial, trial_state, attempts, scored>>
flagVars  == <<stop, model_discovered, is_first_trial>>
modelVars == <<model, late_transitions>>
simVars   == <<world, late, slow_simulator>>
controlVars == <<controller, late_switches>>
vars == <<trialVars, pc, attempt, cursor, flagVars, spawned, recording, modelVars,
          simVars, controlVars, failed>>

Name == {Cables[i] : i \in DOMAIN Cables} \cup {"task_board"}

Pc == {"begin", "run", "discover", "get_state", "configure", "probe", "activate",
       "endpoints", "retry_reset", "board", "tare", "cables", "scoring",
       "send_goal", "goal_response", "hung", "result", "check_tasks", "score",
       "deactivate", "delete", "home_off", "home_joints", "home_on", "trial_end",
       "cleanup", "shutdown", "validate", "finished"}

TaskState == {"TaskRequested", "TaskStarted", "TaskCompleted", "TaskRejected",
              "TaskFailed", "TimeLimitExceeded"}

Transition == {"configure", "activate", "deactivate", "cleanup", "shutdown"}

TypeOK ==
  /\ engine_state \in {"Initialized", "Running", "Error", "Completed"}
  /\ trial \in 0..NTrials
  /\ trial_state \in [1..NTrials ->
       {"Uninitialized", "ModelReady", "EndpointsReady", "SimulatorReady",
        "ScoringReady", "TasksExecuting", "AllTasksCompleted"}]
  /\ pc \in Pc
  /\ attempt \in 1..MAX_RETRIES
  /\ cursor \in Nat \ {0}
  /\ stop \in BOOLEAN /\ model_discovered \in BOOLEAN /\ is_first_trial \in BOOLEAN
  /\ attempts \in [1..NTrials -> Seq(TaskState)]
  /\ \A t \in 1..NTrials : Len(attempts[t]) <= NTasks
  /\ spawned \in Seq(Name)
  /\ scored \subseteq 1..NTrials
  /\ recording \in BOOLEAN
  /\ model \in {"unconfigured", "inactive", "active", "finalized"}
  /\ late_transitions \in Seq(Transition)
  /\ world \in [Name -> [plain : BOOLEAN, renamed : BOOLEAN]]
  /\ late \subseteq {"spawn", "delete"} \X Name
  /\ controller \in BOOLEAN /\ late_switches \in Seq(BOOLEAN)
  /\ slow_simulator \subseteq {"spawn", "delete"} /\ failed \in BOOLEAN

Init ==
  /\ engine_state = "Initialized"
  /\ trial = 0
  /\ trial_state = [t \in 1..NTrials |-> "Uninitialized"]
  /\ pc = "begin"
  /\ attempt = 1
  /\ cursor = 1
  /\ stop = FALSE
  /\ model_discovered = FALSE
  /\ is_first_trial = TRUE
  /\ attempts = [t \in 1..NTrials |-> <<>>]
  /\ spawned = <<>>
  /\ scored = {}
  /\ recording = FALSE
  /\ model = "unconfigured"
  /\ late_transitions = <<>>
  /\ world = [n \in Name |-> [plain |-> FALSE, renamed |-> FALSE]]
  /\ late = {}
  /\ controller = TRUE
  /\ late_switches = <<>>
  /\ slow_simulator = {}
  /\ failed = FALSE

\* A callee fails, refuses or is slow although it need not.
Fault == failed' = TRUE

NoFault == UNCHANGED failed

\* A call times out; the request is abandoned and will be served unheard.
TimesOut ==
  /\ Len(late_transitions) + Cardinality(late) + Len(late_switches) < MaxLate
  /\ failed' = TRUE

State(s) == trial_state' = [trial_state EXCEPT ![trial] = s]

\* An early return of handle_trial: reset_after_trial, then EngineState::Error.
GiveUp == pc' = "deactivate" /\ stop' = TRUE

-----------------------------------------------------------------------------
(***************************************************************************)
(* The participant's lifecycle node, as the engine uses it.                *)
(***************************************************************************)

\* Where transition t leads from state s: nowhere if it is invalid there.
Target(s, t) ==
  {e[3] : e \in {e \in {<<"unconfigured", "configure", "inactive">>,
                       <<"inactive", "activate", "active">>,
                       <<"active", "deactivate", "inactive">>,
                       <<"inactive", "cleanup", "unconfigured">>,
                       <<"unconfigured", "shutdown", "finalized">>} :
                   e[1] = s /\ e[2] = t}}

Valid(t) == Target(model, t) # {}

\* The node serves requests in order; one it was late with is served unheard.
LateTransition ==
  /\ late_transitions # <<>>
  /\ late_transitions' = Tail(late_transitions)
  /\ LET t == Head(late_transitions) IN
       IF Valid(t) THEN model' \in Target(model, t) ELSE UNCHANGED model
  /\ UNCHANGED <<trialVars, pc, attempt, cursor, flagVars, spawned, recording,
                 simVars, controlVars, failed>>

\* transition_model_lifecycle_node returns true.
TransitionDone(t) ==
  /\ late_transitions = <<>>
  /\ model' \in Target(model, t)
  /\ UNCHANGED late_transitions /\ NoFault

\* It returns false: the request is invalid, the participant's callback fails
\* (its error handling leads to unconfigured or finalized), or the answer does
\* not come in time.
TransitionFails(t) ==
  \/ late_transitions = <<>> /\ ~Valid(t) /\ UNCHANGED modelVars /\ NoFault
  \/ /\ late_transitions = <<>> /\ Valid(t) /\ Fault
     /\ model' \in {model, "unconfigured", "finalized"} /\ UNCHANGED late_transitions
  \/ /\ TimesOut
     /\ late_transitions' = Append(late_transitions, t) /\ UNCHANGED model

-----------------------------------------------------------------------------
(***************************************************************************)
(* run() and check_model().                                                *)
(***************************************************************************)

Begin ==
  /\ pc = "begin"
  /\ engine_state' = "Running"
  /\ pc' = "run"
  /\ UNCHANGED <<trial, trial_state, attempts, scored, attempt, cursor, flagVars,
                 spawned, recording, modelVars, simVars, controlVars, failed>>

\* The loop over the trials; each Trial has its own list of entities.
NextTrial ==
  /\ pc = "run"
  /\ IF trial < NTrials
       THEN /\ trial' = trial + 1
            /\ pc' = "discover"
            /\ spawned' = <<>>
       ELSE pc' = "cleanup" /\ UNCHANGED <<trial, spawned>>
  /\ UNCHANGED <<engine_state, trial_state, attempts, scored, attempt, cursor, flagVars,
                 recording, modelVars, simVars, controlVars, failed>>

\* The node is configured in the first trial only.
Discover ==
  /\ pc = "discover"
  /\ \/ /\ NoFault
        /\ model_discovered' = TRUE
        /\ pc' = IF is_first_trial THEN "get_state" ELSE "activate"
        /\ UNCHANGED stop
     \/ /\ Fault
        /\ model_discovered' = FALSE
        /\ GiveUp
  /\ UNCHANGED <<trialVars, attempt, cursor, is_first_trial, spawned, recording,
                 modelVars, simVars, controlVars>>

ModelIsUnconfigured ==
  /\ pc = "get_state"
  /\ \/ model = "unconfigured" /\ NoFault /\ pc' = "configure" /\ UNCHANGED stop
     \/ model # "unconfigured" /\ NoFault /\ GiveUp
     \/ Fault /\ GiveUp
  /\ UNCHANGED <<trialVars, attempt, cursor, model_discovered, is_first_trial, spawned,
                 recording, modelVars, simVars, controlVars>>

Configure ==
  /\ pc = "configure"
  /\ \/ TransitionDone("configure") /\ pc' = "probe" /\ UNCHANGED stop
     \/ TransitionFails("configure") /\ GiveUp
  /\ UNCHANGED <<trialVars, attempt, cursor, model_discovered, is_first_trial, spawned,
                 recording, simVars, controlVars>>

\* configure_model_node sends an empty goal and wants it rejected within 1 s.
ProbeGoal ==
  /\ pc = "probe"
  /\ \/ NoFault /\ pc' = "activate" /\ UNCHANGED stop
     \/ Fault /\ GiveUp
  /\ UNCHANGED <<trialVars, attempt, cursor, model_discovered, is_first_trial, spawned,
                 recording, modelVars, simVars, controlVars>>

Activate ==
  /\ pc = "activate"
  /\ \/ /\ TransitionDone("activate")
        /\ State("ModelReady")
        /\ pc' = "endpoints"
        /\ UNCHANGED stop
     \/ TransitionFails("activate") /\ GiveUp /\ UNCHANGED trial_state
  /\ UNCHANGED <<engine_state, trial, attempts, scored, attempt, cursor, model_discovered,
                 is_first_trial, spawned, recording, simVars, controlVars>>

-----------------------------------------------------------------------------
(***************************************************************************)
(* The retried stages: check_endpoints, ready_simulator, ready_scoring.    *)
(***************************************************************************)

\* The stage succeeded: on to the next one, whose loop starts afresh.
StageDone(s, next) ==
  /\ State(s)
  /\ pc' = next
  /\ attempt' = 1
  /\ UNCHANGED stop

StageFailed_Forgets(retry) ==
  /\ pc' = retry /\ UNCHANGED <<attempt, stop, trial_state>>

\* The stage failed: another attempt from retry, or the end of the run.
StageFailed(retry) ==
  /\ IF attempt < MAX_RETRIES
       THEN pc' = retry /\ attempt' = attempt + 1 /\ UNCHANGED stop
       ELSE GiveUp /\ attempt' = 1
  /\ UNCHANGED trial_state

CheckEndpoints ==
  /\ pc = "endpoints"
  /\ \/ NoFault /\ StageDone("EndpointsReady", "board")
     \/ Fault /\ StageFailed("endpoints")
  /\ UNCHANGED <<engine_state, trial, attempts, scored, cursor, model_discovered,
                 is_first_trial, spawned, recording, modelVars, simVars, controlVars>>

\* The simulator gives a taken name a suffix (allow_renaming).
Spawned(n) ==
  [world EXCEPT ![n] = IF @.plain THEN [@ EXCEPT !.renamed = TRUE]
                                  ELSE [@ EXCEPT !.plain = TRUE]]

Deleted(n) == [world EXCEPT ![n].plain = FALSE]

\* spawn_entity returns true.
SpawnDone(n) ==
  /\ spawned' = Append(spawned, n)
  /\ world' = Spawned(n)
  /\ UNCHANGED <<late, slow_simulator>> /\ NoFault

\* It returns false: xacro failed, before the name is recorded; the simulator
\* refused; or no answer came in time, or a failure was reported, and the entity
\* may all the same appear in the background.
SpawnFails(n) ==
  \/ Fault /\ UNCHANGED <<spawned, simVars>>
  \/ Fault /\ spawned' = Append(spawned, n) /\ UNCHANGED simVars
  \/ /\ TimesOut
     /\ spawned' = Append(spawned, n)
     /\ late' = late \cup {<<"spawn", n>>}
     /\ slow_simulator' = slow_simulator \cup {"spawn"}
     /\ UNCHANGED world

LateSpawn(n) ==
  /\ <<"spawn", n>> \in late
  /\ late' = late \ {<<"spawn", n>>}
  /\ world' = Spawned(n)
  /\ UNCHANGED <<trialVars, pc, attempt, cursor, flagVars, spawned, recording, modelVars,
                 slow_simulator, controlVars, failed>>

LateDelete(n) ==
  /\ <<"delete", n>> \in late
  /\ late' = late \ {<<"delete", n>>}
  /\ world' = Deleted(n)
  /\ UNCHANGED <<trialVars, pc, attempt, cursor, flagVars, spawned, recording, modelVars,
                 slow_simulator, controlVars, failed>>

\* A task board that fails to spawn is logged, nothing more.
SpawnBoard ==
  /\ pc = "board"
  /\ SpawnDone("task_board") \/ SpawnFails("task_board")
  /\ pc' = "tare"
  /\ UNCHANGED <<trialVars, attempt, cursor, flagVars, recording, modelVars, controlVars>>

\* Tare the force sensor, then look up the gripper's pose.
Tare ==
  /\ pc = "tare"
  /\ \/ NoFault /\ pc' = "cables" /\ UNCHANGED <<attempt, stop, trial_state>>
     \/ Fault /\ StageFailed("retry_reset")
  /\ UNCHANGED <<engine_state, trial, attempts, scored, cursor, model_discovered,
                 is_first_trial, spawned, recording, modelVars, simVars, controlVars>>

SpawnCable ==
  /\ pc = "cables"
  /\ cursor <= Len(Cables)
  /\ \/ /\ SpawnDone(Cables[cursor])
        /\ cursor' = cursor + 1
        /\ UNCHANGED <<pc, attempt, stop, trial_state>>
     \/ SpawnFails(Cables[cursor]) /\ StageFailed("retry_reset") /\ cursor' = 1
  /\ UNCHANGED <<engine_state, trial, attempts, scored, model_discovered, is_first_trial,
                 recording, modelVars, controlVars>>

\* The wait for the joints to settle ends, settled or not.
Settle ==
  /\ pc = "cables"
  /\ cursor > Len(Cables)
  /\ StageDone("SimulatorReady", "scoring")
  /\ cursor' = 1
  /\ UNCHANGED <<engine_state, trial, attempts, scored, model_discovered, is_first_trial,
                 spawned, recording, modelVars, simVars, controlVars, failed>>

\* StartRecording resets the recorder, whatever it was doing.  It fails when the
\* bag cannot be opened, or, with the recorder running, when no transforms come.
ReadyScoring_NotStarted ==
  /\ pc = "scoring"
  /\ \/ NoFault /\ StageDone("ScoringReady", "send_goal")
     \/ Fault /\ StageFailed("scoring")
  /\ UNCHANGED <<engine_state, trial, attempts, scored, cursor, model_discovered,
                 is_first_trial, spawned, recording, modelVars, simVars, controlVars>>

ReadyScoring ==
  /\ pc = "scoring"
  /\ \/ NoFault /\ recording' = TRUE /\ StageDone("ScoringReady", "send_goal")
     \/ Fault /\ recording' \in BOOLEAN /\ StageFailed("scoring")
  /\ UNCHANGED <<engine_state, trial, attempts, scored, cursor, model_discovered,
                 is_first_trial, spawned, modelVars, simVars, controlVars>>

-----------------------------------------------------------------------------
(***************************************************************************)
(* tasks_started, tasks_completed_successfully, score_trial.               *)
(***************************************************************************)

LastTask(s) == attempts' = [attempts EXCEPT ![trial][Len(attempts[trial])] = s]

SendGoal ==
  /\ pc = "send_goal"
  /\ attempts' = [attempts EXCEPT ![trial] = Append(@, "TaskRequested")]
  /\ pc' = "goal_response"
  /\ UNCHANGED <<engine_state, trial, trial_state, scored, attempt, cursor, flagVars,
                 spawned, recording, modelVars, simVars, controlVars, failed>>

\* The future of the goal response is awaited without a timeout: an answer
\* that never comes hangs the engine.  A rejected first goal ends the run, a
\* rejected later one only its trial.
GoalResponse ==
  /\ pc = "goal_response"
  /\ \/ /\ model = "active" /\ NoFault
        /\ LastTask("TaskStarted")
        /\ State("TasksExecuting")
        /\ pc' = "result"
        /\ UNCHANGED stop
     \/ /\ (model # "active" /\ NoFault) \/ Fault
        /\ LastTask("TaskRejected")
        /\ IF trial_state[trial] = "TasksExecuting"
             THEN pc' = "check_tasks" /\ UNCHANGED stop
             ELSE GiveUp
        /\ UNCHANGED trial_state
     \/ Fault /\ pc' = "hung" /\ UNCHANGED <<attempts, stop, trial_state>>
  /\ UNCHANGED <<engine_state, trial, scored, attempt, cursor, model_discovered,
                 is_first_trial, spawned, recording, modelVars, simVars, controlVars>>

\* A policy may fail or overrun its limit; the cancel request that follows an
\* overrun is not awaited.
GoalResult ==
  /\ pc = "result"
  /\ \/ /\ LastTask("TaskCompleted")
        /\ pc' = IF Len(attempts[trial]) < NTasks THEN "send_goal" ELSE "check_tasks"
     \/ /\ (LastTask("TaskFailed") \/ LastTask("TimeLimitExceeded"))
        /\ pc' = "check_tasks"
  /\ UNCHANGED <<engine_state, trial, trial_state, scored, attempt, cursor, flagVars,
                 spawned, recording, modelVars, simVars, controlVars, failed>>

AllTasksDone(t) ==
  Len(attempts[t]) = NTasks /\ \A i \in 1..NTasks : attempts[t][i] = "TaskCompleted"

CheckTasks_LastOnly ==
  /\ pc = "check_tasks"
  /\ IF attempts[trial][Len(attempts[trial])] # "TaskFailed"
       THEN State("AllTasksCompleted")
       ELSE UNCHANGED trial_state
  /\ pc' = "score"
  /\ UNCHANGED <<engine_state, trial, attempts, scored, attempt, cursor, flagVars,
                 spawned, recording, modelVars, simVars, controlVars, failed>>

\* A task that ended at the very time it started counts as not completed.
CheckTasks ==
  /\ pc = "check_tasks"
  /\ \/ AllTasksDone(trial) /\ State("AllTasksCompleted") /\ NoFault
     \/ ~AllTasksDone(trial) /\ UNCHANGED trial_state /\ NoFault
     \/ AllTasksDone(trial) /\ UNCHANGED trial_state /\ Fault
  /\ pc' = "score"
  /\ UNCHANGED <<engine_state, trial, attempts, scored, attempt, cursor, flagVars,
                 spawned, recording, modelVars, simVars, controlVars>>

\* StopRecording fails when the recording lacks what scoring needs.
ScoreTrial ==
  /\ pc = "score"
  /\ \/ NoFault /\ recording' = FALSE /\ scored' = scored \cup {trial}
     \/ Fault /\ UNCHANGED <<recording, scored>>
  /\ pc' = "deactivate"
  /\ UNCHANGED <<engine_state, trial, trial_state, attempts, attempt, cursor, flagVars,
                 spawned, modelVars, simVars, controlVars>>

-----------------------------------------------------------------------------
(***************************************************************************)
(* reset_after_trial, reset_simulator, home_robot.  Failures are logged.   *)
(***************************************************************************)

ResetAfterTrial ==
  /\ pc = "deactivate"
  /\ IF model_discovered
       THEN TransitionDone("deactivate") \/ TransitionFails("deactivate")
       ELSE UNCHANGED modelVars /\ NoFault
  /\ is_first_trial' = FALSE
  /\ pc' = "delete"
  /\ UNCHANGED <<trialVars, attempt, cursor, stop, model_discovered, spawned, recording, simVars,
                 controlVars>>

DeleteIsSlow == slow_simulator' = slow_simulator \cup {"delete"}

DeleteEntity ==
  LET n == spawned[cursor] IN
  /\ pc \in {"delete", "retry_reset"}
  /\ cursor <= Len(spawned)
  /\ cursor' = cursor + 1
  /\ \/ NoFault /\ world' = Deleted(n) /\ UNCHANGED <<late, slow_simulator>>
     \/ Fault /\ DeleteIsSlow /\ UNCHANGED <<world, late>>
     \/ TimesOut /\ DeleteIsSlow /\ late' = late \cup {<<"delete", n>>} /\ UNCHANGED world
  /\ UNCHANGED <<trialVars, pc, attempt, flagVars, spawned, recording, modelVars, controlVars>>

\* A retry that goes straight back to spawning.
SimulatorReset_Skipped ==
  /\ cursor' = 1
  /\ \/ pc = "delete" /\ cursor > Len(spawned) /\ pc' = "home_off"
     \/ pc = "retry_reset" /\ pc' = "board"
  /\ UNCHANGED <<trialVars, attempt, flagVars, spawned, recording, modelVars,
                 simVars, controlVars, failed>>

\* Between attempts the robot is not homed; after a trial it is.  The list of
\* spawned entities is kept either way.
SimulatorReset ==
  /\ cursor > Len(spawned)
  /\ cursor' = 1
  /\ \/ pc = "delete" /\ pc' = "home_off"
     \/ pc = "retry_reset" /\ pc' = "board"
  /\ UNCHANGED <<trialVars, attempt, flagVars, spawned, recording, modelVars,
                 simVars, controlVars, failed>>

\* The controller manager serves requests in order, like the model's node.
LateSwitch ==
  /\ late_switches # <<>>
  /\ controller' = Head(late_switches)
  /\ late_switches' = Tail(late_switches)
  /\ UNCHANGED <<trialVars, pc, attempt, cursor, flagVars, spawned, recording, modelVars,
                 simVars, failed>>

\* home_robot turns the controller off, resets the joints and turns it on
\* again; a step that fails is the last one.
Switch(on, next) ==
  /\ \/ /\ NoFault /\ late_switches = <<>> /\ UNCHANGED late_switches
        /\ controller' = on
        /\ pc' = next
     \/ /\ Fault /\ late_switches = <<>> /\ UNCHANGED controlVars
        /\ pc' = "trial_end"
     \/ /\ TimesOut
        /\ late_switches' = Append(late_switches, on) /\ UNCHANGED controller
        /\ pc' = "trial_end"
  /\ UNCHANGED <<trialVars, attempt, cursor, flagVars, spawned, recording, modelVars, simVars>>

HomeOff == pc = "home_off" /\ Switch(FALSE, "home_joints")

HomeJoints ==
  /\ pc = "home_joints"
  /\ \/ NoFault /\ pc' = "home_on"
     \/ Fault /\ pc' = "trial_end"
  /\ UNCHANGED <<trialVars, attempt, cursor, flagVars, spawned, recording, modelVars, simVars,
                 controlVars>>

HomeOn == pc = "home_on" /\ Switch(TRUE, "trial_end")

TrialEnd_KeepsGoing ==
  /\ pc = "trial_end"
  /\ pc' = "run"
  /\ UNCHANGED <<trialVars, attempt, cursor, flagVars, spawned, recording, modelVars, simVars,
                 controlVars, failed>>

\* Back in run(): an Error leaves the loop, anything else goes on.
TrialEnd ==
  /\ pc = "trial_end"
  /\ IF stop
       THEN engine_state' = "Error" /\ pc' = "cleanup"
       ELSE pc' = "run" /\ UNCHANGED engine_state
  /\ UNCHANGED <<trial, trial_state, attempts, scored, attempt, cursor, flagVars, spawned,
                 recording, modelVars, simVars, controlVars, failed>>

\* cleanup_model_node and shutdown_model_node; their results are ignored.
EndModel(at, t, next) ==
  /\ pc = at
  /\ IF model_discovered
       THEN TransitionDone(t) \/ TransitionFails(t)
       ELSE UNCHANGED modelVars /\ NoFault
  /\ pc' = next
  /\ UNCHANGED <<trialVars, attempt, cursor, flagVars, spawned, recording, simVars, controlVars>>

CleanupModel_Skipped == EndModel("cleanup", "deactivate", "shutdown")

CleanupModel == EndModel("cleanup", "cleanup", "shutdown")

ShutdownModel == EndModel("shutdown", "shutdown", "validate")

\* validate_model_shutdown only warns; then scoring.yaml is written and a run
\* without Error is Completed.
FinishRun ==
  /\ pc = "validate"
  /\ engine_state' = IF engine_state = "Running" THEN "Completed" ELSE engine_state
  /\ pc' = "finished"
  /\ UNCHANGED <<trial, trial_state, attempts, scored, attempt, cursor, flagVars, spawned,
                 recording, modelVars, simVars, controlVars, failed>>

-----------------------------------------------------------------------------
Engine ==
  \/ Begin
  \/ NextTrial
  \/ Discover
  \/ ModelIsUnconfigured
  \/ Configure
  \/ ProbeGoal
  \/ Activate
  \/ CheckEndpoints
  \/ SpawnBoard
  \/ Tare
  \/ SpawnCable
  \/ Settle
  \/ ReadyScoring
  \/ SendGoal
  \/ GoalResponse
  \/ GoalResult
  \/ CheckTasks
  \/ ScoreTrial
  \/ ResetAfterTrial
  \/ DeleteEntity
  \/ SimulatorReset
  \/ HomeOff
  \/ HomeJoints
  \/ HomeOn
  \/ TrialEnd
  \/ CleanupModel
  \/ ShutdownModel
  \/ FinishRun

Environment ==
  \/ LateTransition
  \/ LateSwitch
  \/ \E n \in Name : LateSpawn(n) \/ LateDelete(n)

Next == Engine \/ Environment

\* The engine's thread runs; every call it makes with a timeout returns.
Spec == Init /\ [][Next]_vars /\ WF_vars(Engine) /\ WF_vars(LateTransition) /\ WF_vars(LateSwitch)

-----------------------------------------------------------------------------
(***************************************************************************)
(* Properties.                                                             *)
(***************************************************************************)

\* A trial is AllTasksCompleted only if every task of it was sent, accepted
\* and reported successful: no rejected, failed or overrun task hides behind
\* a later success.
CompletedTrialDidAllTasks ==
  \A t \in 1..NTrials : trial_state[t] = "AllTasksCompleted" => AllTasksDone(t)

\* While a goal is out each cable is in the scene, whatever was refused or
\* retried on the way and however late a spawn given up before is carried out,
\* as long as no deletion was refused or late; and as long as no spawn was
\* either, no cable and no task board is there twice.
SceneAtGoal ==
  pc \in {"goal_response", "result"} =>
    \A n \in Name :
      /\ slow_simulator = {} => ~world[n].renamed
      /\ "delete" \notin slow_simulator /\ n # "task_board" => world[n].plain

\* A run in which no call failed, whatever the policy did with its tasks, ends
\* Completed, with every trial scored and everything given back: the model
\* shut down, the recorder idle, the simulator empty, the controller active.
CleanFinish ==
  pc = "finished" /\ ~failed =>
    /\ engine_state = "Completed"
    /\ scored = 1..NTrials
    /\ model = "finalized"
    /\ ~recording
    /\ \A n \in Name : world[n] = [plain |-> FALSE, renamed |-> FALSE]
    /\ controller

\* The run always ends, except for a goal response that never comes.
RunEnds == <>(pc \in {"finished", "hung"})

\* The engine implements the abstract account of its trials.
Promise == INSTANCE TrialProgress WITH
  engine_state <- engine_state, trial <- trial, trial_state <- trial_state
ImplementsTrialProgress == Promise!Spec

\* The engine keeps its side of what the recorder and it promise each other: it
\* scores a trial from a recording that was started for it and still runs.
Recording == INSTANCE TrialRecording WITH
  trial <- trial, recording <- recording, scored <- scored
ImplementsTrialRecording == Recording!Spec

(***************************************************************************)
(* What aic_engine.hpp says of TrialState and the code does not do.        *)
(***************************************************************************)

\* "SimulatorReady: Simulator is ready with the task board and cables spawned."
SimulatorReadyHasBoard ==
  trial # 0 /\ slow_simulator = {} =>
    (trial_state[trial] = "SimulatorReady" => world["task_board"].plain)

=============================================================================
