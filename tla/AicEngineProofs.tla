--------------------------- MODULE AicEngineProofs ---------------------------
(***************************************************************************)
(* The engine implements the abstract account of its trials, for any       *)
(* number of trials, tasks, cables and retries, and whatever the node, the *)
(* simulator and the recorder do.                                          *)
(***************************************************************************)
EXTENDS AicEngine, TLAPS

\* The pcs of a trial, by the rung it has climbed to.
ModelPc == {"discover", "get_state", "configure", "probe", "activate"}
SimulatorPc == {"board", "tare", "cables", "retry_reset"}
GoalPc == {"send_goal", "goal_response", "hung"}
ResetPc == {"deactivate", "delete", "home_off", "home_joints", "home_on", "trial_end"}
TrialPc == ModelPc \cup {"endpoints", "scoring"} \cup SimulatorPc \cup GoalPc
             \cup {"result", "check_tasks", "score"} \cup ResetPc
EndPc == {"cleanup", "shutdown", "validate"}

\* The part of the type invariant that the argument needs.
Shape ==
  /\ trial \in 0..NTrials
  /\ trial_state \in [1..NTrials -> Promise!Rung]
  /\ pc \in Pc
  /\ stop \in BOOLEAN

\* What the engine has established by the time it gets to a pc.
RunShape ==
  /\ pc = "begin" <=> engine_state = "Initialized"
  /\ pc = "begin" => trial = 0
  /\ pc \in TrialPc \cup {"run"} => engine_state = "Running"
  /\ pc \in TrialPc => trial \in 1..NTrials
  /\ pc = "run" => Promise!TasksReached(trial)
  /\ pc \in EndPc => engine_state \in {"Running", "Error"}
  /\ pc \in EndPc /\ engine_state = "Running" => trial = NTrials /\ Promise!TasksReached(trial)
  /\ pc \in {"begin", "run"} => ~stop

Ladder ==
  /\ \A t \in 1..NTrials : t > trial => trial_state[t] = "Uninitialized"
  /\ pc \in ModelPc => trial_state[trial] = "Uninitialized"
  /\ pc = "endpoints" => trial_state[trial] = "ModelReady"
  /\ pc \in SimulatorPc => trial_state[trial] = "EndpointsReady"
  /\ pc = "scoring" => trial_state[trial] = "SimulatorReady"
  /\ pc \in GoalPc => trial_state[trial] \in {"ScoringReady", "TasksExecuting"}
  /\ pc \in {"result", "check_tasks"} => trial_state[trial] = "TasksExecuting"
  /\ pc = "score" => Promise!TasksReached(trial)
  /\ pc \in ResetPc => (stop <=> ~Promise!TasksReached(trial))
  /\ pc \in TrialPc \ ResetPc => ~stop

IInv == Shape /\ RunShape /\ Ladder

-----------------------------------------------------------------------------
(***************************************************************************)
(* One action at a time: IInv is preserved, and the step is a step of      *)
(* TrialProgress or leaves its variables alone.                            *)
(***************************************************************************)

Refines == IInv' /\ [Promise!Next]_(Promise!pvars)

\* The engine moves to another pc below the rung it is on, or gives up.
LEMMA InnerStep ==
  ASSUME IInv, UNCHANGED trialVars,
         \/ /\ pc \in ModelPc \/ pc \in SimulatorPc \/ pc \in {"endpoints", "scoring"}
            /\ \/ pc' = pc /\ stop' = stop
               \/ pc' = "deactivate" /\ stop' = TRUE
         \/ pc \in ModelPc /\ pc' \in ModelPc /\ stop' = stop
         \/ pc \in SimulatorPc /\ pc' \in SimulatorPc /\ stop' = stop
         \/ pc \in ResetPc /\ pc' \in ResetPc /\ stop' = stop
         \/ pc \in {"cleanup", "shutdown"} /\ pc' \in EndPc /\ stop' = stop
         \/ pc' = pc /\ stop' = stop
  PROVE  Refines
<1> USE DEF IInv, Shape, RunShape, Ladder, trialVars, ModelPc, SimulatorPc, GoalPc,
            ResetPc, TrialPc, EndPc, Promise!TasksReached
<1>1. Shape' BY DEF Pc
<1>2. RunShape' OBVIOUS
<1>3. Ladder' OBVIOUS
<1>4. QED BY <1>1, <1>2, <1>3 DEF Refines, Promise!pvars

LEMMA ModelStep ==
  ASSUME IInv,
         Discover \/ ModelIsUnconfigured \/ Configure \/ ProbeGoal
  PROVE  Refines
<1> USE DEF GiveUp, ModelPc
<1>1. CASE Discover BY <1>1, InnerStep DEF Discover
<1>2. CASE ModelIsUnconfigured BY <1>2, InnerStep DEF ModelIsUnconfigured
<1>3. CASE Configure BY <1>3, InnerStep DEF Configure
<1>4. CASE ProbeGoal BY <1>4, InnerStep DEF ProbeGoal
<1>5. QED BY <1>1, <1>2, <1>3, <1>4

\* A rung is climbed.
LEMMA ClimbStep ==
  ASSUME IInv, UNCHANGED <<engine_state, trial, stop>>,
         \/ pc = "activate" /\ State("ModelReady") /\ pc' = "endpoints"
         \/ pc = "endpoints" /\ State("EndpointsReady") /\ pc' = "board"
         \/ pc = "cables" /\ State("SimulatorReady") /\ pc' = "scoring"
         \/ pc = "scoring" /\ State("ScoringReady") /\ pc' = "send_goal"
         \/ pc = "goal_response" /\ State("TasksExecuting") /\ pc' = "result"
         \/ pc = "check_tasks" /\ State("AllTasksCompleted") /\ pc' = "score"
  PROVE  Refines
<1> USE DEF State, IInv, Shape, RunShape, Ladder, Pc, ModelPc, SimulatorPc, GoalPc, ResetPc,
            TrialPc, EndPc, Promise!TasksReached, Promise!Rung
<1>1. pc \in TrialPc /\ trial \in 1..NTrials /\ engine_state = "Running"
  OBVIOUS
<1>2. IInv'
  <2>1. Shape' BY <1>1
  <2>2. RunShape' BY <1>1
  <2>3. \A t \in 1..NTrials : t > trial => trial_state'[t] = trial_state[t]
    <3>1. ASSUME NEW t \in 1..NTrials, t > trial
          PROVE  trial_state'[t] = trial_state[t]
      <4>1. t # trial BY <1>1, <3>1
      <4>2. QED BY <4>1
    <3>2. QED BY <3>1
  <2>4. trial_state'[trial] = CASE pc = "activate"  -> "ModelReady"
                                [] pc = "endpoints" -> "EndpointsReady"
                                [] pc = "cables"    -> "SimulatorReady"
                                [] pc = "scoring"   -> "ScoringReady"
                                [] pc = "goal_response" -> "TasksExecuting"
                                [] OTHER            -> "AllTasksCompleted"
    BY <1>1
  <2>5. trial' = trial /\ Ladder' BY <1>1, <2>3, <2>4
  <2>6. QED BY <2>1, <2>2, <2>5
<1>3. trial_state' = [trial_state EXCEPT ![trial] = Promise!Above(@)] \/ UNCHANGED trial_state
  <2>1. trial_state[trial] \in Promise!Rung
    BY <1>1
  <2>2. CASE pc = "goal_response" /\ trial_state[trial] = "TasksExecuting"
    BY <2>1, <2>2
  <2>3. CASE ~(pc = "goal_response" /\ trial_state[trial] = "TasksExecuting")
    <3>1. State(Promise!Above(trial_state[trial]))
      BY <1>1, <2>3 DEF Promise!Above
    <3>2. QED BY <3>1
  <2>4. QED BY <2>2, <2>3
<1>4. trial_state[trial] # "AllTasksCompleted"
  BY <1>1
<1>5. QED
  BY <1>1, <1>2, <1>3, <1>4 DEF Refines, Promise!Next, Promise!Climb, Promise!pvars

LEMMA RetriedStep ==
  ASSUME IInv,
         Activate \/ CheckEndpoints \/ Tare \/ SpawnCable \/ Settle \/ ReadyScoring
  PROVE  Refines
<1> USE DEF GiveUp, StageDone, StageFailed, trialVars, ModelPc, SimulatorPc
<1>1. CASE Activate BY <1>1, InnerStep, ClimbStep DEF Activate
<1>2. CASE CheckEndpoints BY <1>2, InnerStep, ClimbStep DEF CheckEndpoints
<1>3. CASE Tare BY <1>3, InnerStep DEF Tare
<1>4. CASE SpawnCable BY <1>4, InnerStep DEF SpawnCable
<1>5. CASE Settle BY <1>5, ClimbStep DEF Settle
<1>6. CASE ReadyScoring BY <1>6, InnerStep, ClimbStep DEF ReadyScoring
<1>7. QED BY <1>1, <1>2, <1>3, <1>4, <1>5, <1>6

\* The engine moves to another pc among the tasks.
LEMMA InnerTaskStep ==
  ASSUME IInv, UNCHANGED <<engine_state, trial, trial_state>>,
         \/ pc = "send_goal" /\ pc' = "goal_response" /\ stop' = stop
         \/ pc = "goal_response" /\ pc' = "hung" /\ stop' = stop
         \/ /\ pc = "goal_response" /\ trial_state[trial] = "TasksExecuting"
            /\ pc' = "check_tasks" /\ stop' = stop
         \/ /\ pc = "goal_response" /\ trial_state[trial] # "TasksExecuting"
            /\ pc' = "deactivate" /\ stop' = TRUE
         \/ pc = "result" /\ pc' \in {"send_goal", "check_tasks"} /\ stop' = stop
         \/ pc = "check_tasks" /\ pc' = "score" /\ stop' = stop
         \/ pc = "score" /\ pc' = "deactivate" /\ stop' = stop
  PROVE  Refines
<1> USE DEF IInv, Shape, RunShape, Ladder, ModelPc, SimulatorPc, GoalPc,
            ResetPc, TrialPc, EndPc, Promise!TasksReached
<1>1. Shape' BY DEF Pc
<1>2. RunShape' OBVIOUS
<1>3. Ladder' OBVIOUS
<1>4. QED BY <1>1, <1>2, <1>3 DEF Refines, Promise!pvars

LEMMA TaskStep ==
  ASSUME IInv,
         SendGoal \/ GoalResponse \/ GoalResult \/ CheckTasks \/ ScoreTrial
  PROVE  Refines
<1> USE DEF flagVars
<1>1. CASE SendGoal BY <1>1, InnerTaskStep DEF SendGoal
<1>2. CASE GoalResponse
  <2>1. CASE State("TasksExecuting") /\ pc' = "result" /\ UNCHANGED stop
    BY <1>2, <2>1, ClimbStep DEF GoalResponse
  <2>2. CASE UNCHANGED trial_state /\ pc' # "result"
    BY <1>2, <2>2, InnerTaskStep DEF GoalResponse, GiveUp
  <2>3. QED BY <1>2, <2>1, <2>2 DEF GoalResponse, GiveUp
<1>3. CASE GoalResult BY <1>3, InnerTaskStep DEF GoalResult
<1>4. CASE CheckTasks BY <1>4, ClimbStep, InnerTaskStep DEF CheckTasks
<1>5. CASE ScoreTrial BY <1>5, InnerTaskStep DEF ScoreTrial
<1>6. QED BY <1>1, <1>2, <1>3, <1>4, <1>5

LEMMA ResetStep ==
  ASSUME IInv,
         \/ SpawnBoard \/ ResetAfterTrial \/ DeleteEntity \/ SimulatorReset
         \/ HomeOff \/ HomeJoints \/ HomeOn
  PROVE  Refines
<1> USE DEF SimulatorPc, ResetPc, flagVars
<1>1. CASE SpawnBoard BY <1>1, InnerStep DEF SpawnBoard
<1>2. CASE ResetAfterTrial BY <1>2, InnerStep DEF ResetAfterTrial
<1>3. CASE DeleteEntity BY <1>3, InnerStep DEF DeleteEntity
<1>4. CASE SimulatorReset BY <1>4, InnerStep DEF SimulatorReset
<1>5. CASE HomeOff BY <1>5, InnerStep DEF HomeOff, Switch
<1>6. CASE HomeJoints BY <1>6, InnerStep DEF HomeJoints
<1>7. CASE HomeOn BY <1>7, InnerStep DEF HomeOn, Switch
<1>8. QED BY <1>1, <1>2, <1>3, <1>4, <1>5, <1>6, <1>7

LEMMA RunStep ==
  ASSUME IInv,
         Begin \/ NextTrial \/ TrialEnd \/ CleanupModel \/ ShutdownModel \/ FinishRun
  PROVE  Refines
<1> USE EngineAssumption
    DEF Refines, IInv, Shape, RunShape, Ladder, trialVars, flagVars, Pc, ModelPc,
        SimulatorPc, GoalPc, ResetPc, TrialPc, EndPc, Promise!TasksReached, Promise!pvars,
        Promise!Next, Promise!Rung
<1>1. CASE Begin BY <1>1 DEF Begin, Promise!Begin
<1>2. CASE NextTrial
  <2>1. CASE trial < NTrials
    BY <1>2, <2>1 DEF NextTrial, Promise!StartTrial
  <2>2. CASE ~(trial < NTrials)
    BY <1>2, <2>2 DEF NextTrial
  <2>3. QED BY <2>1, <2>2
<1>3. CASE TrialEnd BY <1>3 DEF TrialEnd, Promise!Stop
<1>4. CASE CleanupModel BY <1>4, InnerStep DEF CleanupModel, EndModel
<1>5. CASE ShutdownModel BY <1>5, InnerStep DEF ShutdownModel, EndModel
<1>6. CASE FinishRun BY <1>6 DEF FinishRun, Promise!Complete
<1>7. QED BY <1>1, <1>2, <1>3, <1>4, <1>5, <1>6

LEMMA EnvironmentStep ==
  ASSUME IInv, Environment \/ UNCHANGED vars
  PROVE  Refines
<1> UNCHANGED trialVars /\ pc' = pc /\ stop' = stop
  BY DEF Environment, LateTransition, LateSwitch, LateSpawn, LateDelete, flagVars, vars
<1> QED
  BY InnerStep

LEMMA ProgressStep == IInv /\ [Next]_vars => Refines
<1> SUFFICES ASSUME IInv, [Next]_vars PROVE Refines
  OBVIOUS
<1>1. CASE Engine
  BY <1>1, ModelStep, RetriedStep, TaskStep, ResetStep, RunStep DEF Engine
<1>2. CASE Environment \/ UNCHANGED vars
  BY <1>2, EnvironmentStep
<1>3. QED
  BY <1>1, <1>2 DEF Next

LEMMA ProgressInit == Init => IInv /\ Promise!Init
<1> SUFFICES ASSUME Init PROVE IInv /\ Promise!Init
  OBVIOUS
<1>1. /\ engine_state = "Initialized" /\ trial = 0 /\ pc = "begin" /\ stop = FALSE
      /\ trial_state = [t \in 1..NTrials |-> "Uninitialized"]
  BY DEF Init
<1>2. Promise!Init
  BY <1>1 DEF Promise!Init
<1>3. Shape
  <2>1. NTrials \in Nat /\ 0 \in 0..NTrials /\ "Uninitialized" \in Promise!Rung
    BY EngineAssumption DEF Promise!Rung
  <2>2. trial_state \in [1..NTrials -> Promise!Rung]
    BY <1>1, <2>1
  <2>3. pc \in Pc
    BY <1>1 DEF Pc
  <2>4. QED BY <1>1, <2>1, <2>2, <2>3 DEF Shape
<1>4. RunShape /\ Ladder
  BY <1>1 DEF RunShape, Ladder, ModelPc, SimulatorPc, GoalPc, ResetPc, TrialPc, EndPc
<1>5. QED BY <1>2, <1>3, <1>4 DEF IInv

LEMMA ProgressInvariant == Spec => []IInv
<1>1. IInv /\ [Next]_vars => IInv'
  BY ProgressStep DEF Refines
<1>2. QED
  BY ProgressInit, <1>1, PTL DEF Spec

\* run() and handle_trial() keep the promise TrialProgress states: trials in
\* order, one rung at a time, Completed only when every trial executed its
\* tasks, Error only at a trial that did not.
THEOREM EngineImplementsTrialProgress == Spec => ImplementsTrialProgress
<1>1. IInv /\ [Next]_vars => [Promise!Next]_(Promise!pvars)
  BY ProgressStep DEF Refines
<1>2. QED
  BY ProgressInit, ProgressInvariant, <1>1, PTL DEF Spec, ImplementsTrialProgress, Promise!Spec

-----------------------------------------------------------------------------
(***************************************************************************)
(* Type correctness, with what is known of the tasks sent: a trial has     *)
(* none before its first goal, and one is out while the engine waits.      *)
(***************************************************************************)

BeforeGoals == ModelPc \cup SimulatorPc \cup {"endpoints", "scoring"}

Sent ==
  /\ \A t \in 1..NTrials : t > trial => attempts[t] = <<>>
  /\ pc \in BeforeGoals => attempts[trial] = <<>>
  /\ pc = "send_goal" => Len(attempts[trial]) < NTasks
  /\ pc \in {"goal_response", "result"} => Len(attempts[trial]) # 0

TInv == TypeOK /\ IInv /\ Sent

LEMMA SetLast ==
  ASSUME NEW S, NEW s \in Seq(S), Len(s) # 0, NEW e \in S
  PROVE  /\ [s EXCEPT ![Len(s)] = e] \in Seq(S)
         /\ Len([s EXCEPT ![Len(s)] = e]) = Len(s)
<1>1. Len(s) \in 1..Len(s)
  OBVIOUS
<1>2. QED
  BY <1>1

\* TypeOK, the tasks and pc apart.
OtherTypes ==
  /\ attempt \in 1..MAX_RETRIES
  /\ cursor \in Nat \ {0}
  /\ model_discovered \in BOOLEAN /\ is_first_trial \in BOOLEAN
  /\ spawned \in Seq(Name)
  /\ recording \in BOOLEAN
  /\ model \in {"unconfigured", "inactive", "active", "finalized"}
  /\ late_transitions \in Seq(Transition)
  /\ world \in [Name -> [plain : BOOLEAN, renamed : BOOLEAN]]
  /\ late \subseteq {"spawn", "delete"} \X Name
  /\ controller \in BOOLEAN /\ late_switches \in Seq(BOOLEAN)
  /\ slow_simulator \subseteq {"spawn", "delete"} /\ failed \in BOOLEAN

TrialTypes ==
  /\ engine_state \in {"Initialized", "Running", "Error", "Completed"}
  /\ attempts \in [1..NTrials -> Seq(TaskState)]
  /\ \A t \in 1..NTrials : Len(attempts[t]) <= NTasks
  /\ scored \subseteq 1..NTrials

LEMMA TypeParts == TypeOK <=> OtherTypes /\ TrialTypes /\ Shape
BY DEF TypeOK, OtherTypes, TrialTypes, Shape, Promise!Rung

LEMMA TypeTransition ==
  ASSUME OtherTypes, NEW t \in Transition, TransitionDone(t) \/ TransitionFails(t)
  PROVE  /\ model' \in {"unconfigured", "inactive", "active", "finalized"}
         /\ late_transitions' \in Seq(Transition)
         /\ failed' \in BOOLEAN
<1>1. Target(model, t) \subseteq {"unconfigured", "inactive", "active", "finalized"}
  BY DEF Target
<1>2. Append(late_transitions, t) \in Seq(Transition)
  BY DEF OtherTypes
<1>3. failed' \in BOOLEAN
  BY DEF OtherTypes, TransitionDone, TransitionFails, Fault, NoFault, TimesOut
<1>4. model' \in {"unconfigured", "inactive", "active", "finalized"}
  BY <1>1 DEF OtherTypes, TransitionDone, TransitionFails, modelVars
<1>5. late_transitions' \in Seq(Transition)
  BY <1>2 DEF OtherTypes, TransitionDone, TransitionFails, modelVars
<1>6. QED BY <1>3, <1>4, <1>5

LEMMA TypeWorld ==
  ASSUME OtherTypes, NEW n \in Name
  PROVE  /\ Spawned(n) \in [Name -> [plain : BOOLEAN, renamed : BOOLEAN]]
         /\ Deleted(n) \in [Name -> [plain : BOOLEAN, renamed : BOOLEAN]]
<1> DEFINE Entity == [plain : BOOLEAN, renamed : BOOLEAN]
           w == world[n]
<1>1. world \in [Name -> Entity] /\ w \in Entity
  BY DEF OtherTypes
<1>2. /\ [w EXCEPT !.renamed = TRUE] \in Entity
      /\ [w EXCEPT !.plain = TRUE] \in Entity
      /\ [w EXCEPT !.plain = FALSE] \in Entity
  BY <1>1
<1> HIDE DEF Entity
<1>3. [world EXCEPT ![n] = IF w.plain THEN [w EXCEPT !.renamed = TRUE]
                                      ELSE [w EXCEPT !.plain = TRUE]] \in [Name -> Entity]
  BY <1>1, <1>2
<1>4. [world EXCEPT ![n] = [w EXCEPT !.plain = FALSE]] \in [Name -> Entity]
  BY <1>1, <1>2
<1>5. QED BY <1>3, <1>4 DEF Spawned, Deleted, Entity

LEMMA TypeSpawn ==
  ASSUME OtherTypes, NEW n \in Name, SpawnDone(n) \/ SpawnFails(n)
  PROVE  /\ spawned' \in Seq(Name)
         /\ world' \in [Name -> [plain : BOOLEAN, renamed : BOOLEAN]]
         /\ late' \subseteq {"spawn", "delete"} \X Name
         /\ slow_simulator' \subseteq {"spawn", "delete"}
         /\ failed' \in BOOLEAN
<1>1. Append(spawned, n) \in Seq(Name)
  BY DEF OtherTypes
<1>2. late \cup {<<"spawn", n>>} \subseteq {"spawn", "delete"} \X Name
  BY DEF OtherTypes
<1>3. spawned' \in Seq(Name) /\ failed' \in BOOLEAN
  BY <1>1 DEF OtherTypes, SpawnDone, SpawnFails, Fault, NoFault, TimesOut
<1>4. world' \in [Name -> [plain : BOOLEAN, renamed : BOOLEAN]]
  BY TypeWorld DEF OtherTypes, SpawnDone, SpawnFails, simVars
<1>5. late' \subseteq {"spawn", "delete"} \X Name /\ slow_simulator' \subseteq {"spawn", "delete"}
  BY <1>2 DEF OtherTypes, SpawnDone, SpawnFails, simVars
<1>6. QED BY <1>3, <1>4, <1>5

\* The retry loops stay within MAX_RETRIES.
LEMMA TypeAttempt ==
  ASSUME OtherTypes, NEW s, NEW next,
         StageDone(s, next) \/ StageFailed(next)
  PROVE  attempt' \in 1..MAX_RETRIES
<1>1. MAX_RETRIES \in Nat \ {0}
  BY EngineAssumption
<1>2. attempt \in 1..MAX_RETRIES
  BY DEF OtherTypes
<1>3. QED BY <1>1, <1>2 DEF StageDone, StageFailed

LEMMA TypeSwitch ==
  ASSUME OtherTypes, NEW on \in BOOLEAN, NEW next, Switch(on, next)
  PROVE  OtherTypes'
<1>1. Append(late_switches, on) \in Seq(BOOLEAN)
  BY DEF OtherTypes
<1>2. controller' \in BOOLEAN /\ late_switches' \in Seq(BOOLEAN) /\ failed' \in BOOLEAN
  BY <1>1 DEF OtherTypes, Switch, Fault, NoFault, TimesOut, controlVars
<1>3. QED
  BY <1>2 DEF OtherTypes, Switch, trialVars, flagVars, simVars, modelVars

LEMMA OtherTypesModel ==
  ASSUME OtherTypes, \/ Discover \/ ModelIsUnconfigured \/ Configure \/ ProbeGoal \/ Activate
                     \/ ResetAfterTrial \/ CleanupModel \/ ShutdownModel \/ LateTransition
  PROVE  OtherTypes'
<1> USE DEF OtherTypes, GiveUp, Fault, NoFault, trialVars, flagVars, simVars, modelVars,
            controlVars, Transition
<1>1. CASE Discover BY <1>1 DEF Discover
<1>2. CASE ModelIsUnconfigured BY <1>2 DEF ModelIsUnconfigured
<1>3. CASE Configure BY <1>3, TypeTransition DEF Configure
<1>4. CASE ProbeGoal BY <1>4 DEF ProbeGoal
<1>5. CASE Activate BY <1>5, TypeTransition DEF Activate
<1>6. CASE ResetAfterTrial BY <1>6, TypeTransition DEF ResetAfterTrial
<1>7. CASE CleanupModel BY <1>7, TypeTransition DEF CleanupModel, EndModel
<1>8. CASE ShutdownModel BY <1>8, TypeTransition DEF ShutdownModel, EndModel
<1>9. CASE LateTransition BY <1>9 DEF LateTransition, Target, Valid
<1>10. QED BY <1>1, <1>2, <1>3, <1>4, <1>5, <1>6, <1>7, <1>8, <1>9

LEMMA OtherTypesSimulator ==
  ASSUME OtherTypes, \/ CheckEndpoints \/ SpawnBoard \/ Tare \/ SpawnCable \/ Settle
                     \/ ReadyScoring \/ DeleteEntity \/ SimulatorReset
                     \/ \E n \in Name : LateSpawn(n) \/ LateDelete(n)
  PROVE  OtherTypes'
<1> USE DEF OtherTypes, Fault, NoFault, TimesOut, trialVars, flagVars, simVars, modelVars,
            controlVars
<1>1. CASE CheckEndpoints BY <1>1, TypeAttempt DEF CheckEndpoints
<1>2. CASE SpawnBoard
  <2>1. "task_board" \in Name BY DEF Name
  <2>2. QED BY <1>2, <2>1, TypeSpawn DEF SpawnBoard
<1>3. CASE Tare BY <1>3, TypeAttempt DEF Tare
<1>4. CASE SpawnCable
  <2>1. Cables[cursor] \in Name BY <1>4 DEF SpawnCable, Name
  <2>2. /\ spawned' \in Seq(Name)
        /\ world' \in [Name -> [plain : BOOLEAN, renamed : BOOLEAN]]
        /\ late' \subseteq {"spawn", "delete"} \X Name
        /\ slow_simulator' \subseteq {"spawn", "delete"}
        /\ failed' \in BOOLEAN
    BY <1>4, <2>1, TypeSpawn DEF SpawnCable
  <2>3. attempt' \in 1..MAX_RETRIES
    BY <1>4, TypeAttempt DEF SpawnCable
  <2>4. cursor \in Nat \ {0} /\ cursor' \in {1, cursor + 1}
    BY <1>4 DEF SpawnCable
  <2>5. cursor' \in Nat \ {0}
    BY <2>4
  <2>6. QED BY <1>4, <2>2, <2>3, <2>5 DEF SpawnCable
<1>5. CASE Settle BY <1>5, TypeAttempt DEF Settle
<1>6. CASE ReadyScoring BY <1>6, TypeAttempt DEF ReadyScoring
<1>7. CASE DeleteEntity
  <2>1. spawned[cursor] \in Name BY <1>7 DEF DeleteEntity
  <2>2. late' \subseteq {"spawn", "delete"} \X Name
    BY <1>7, <2>1 DEF DeleteEntity
  <2>3. world' \in [Name -> [plain : BOOLEAN, renamed : BOOLEAN]]
    BY <1>7, <2>1, TypeWorld DEF DeleteEntity
  <2>4. cursor' = cursor + 1 /\ cursor \in Nat \ {0}
    BY <1>7 DEF DeleteEntity
  <2>5. slow_simulator' \subseteq {"spawn", "delete"} /\ failed' \in BOOLEAN
    BY <1>7 DEF DeleteEntity, DeleteIsSlow
  <2>6. cursor' \in Nat \ {0}
    BY <2>4
  <2>7. QED BY <1>7, <2>2, <2>3, <2>5, <2>6 DEF DeleteEntity
<1>8. CASE SimulatorReset BY <1>8 DEF SimulatorReset
<1>9. CASE \E n \in Name : LateSpawn(n) \/ LateDelete(n)
  <2>1. PICK n \in Name : LateSpawn(n) \/ LateDelete(n) BY <1>9
  <2>2. /\ late' \subseteq late
        /\ UNCHANGED <<pc, attempt, cursor, spawned, recording, trialVars, flagVars, modelVars,
                       controlVars, slow_simulator, failed>>
    BY <2>1 DEF LateSpawn, LateDelete
  <2>3. world' \in [Name -> [plain : BOOLEAN, renamed : BOOLEAN]]
    BY <2>1, TypeWorld DEF LateSpawn, LateDelete
  <2>4. QED BY <2>2, <2>3
<1>10. QED BY <1>1, <1>2, <1>3, <1>4, <1>5, <1>6, <1>7, <1>8, <1>9

LEMMA OtherTypesRest ==
  ASSUME OtherTypes, \/ Begin \/ NextTrial \/ SendGoal \/ GoalResponse \/ GoalResult
                     \/ CheckTasks \/ ScoreTrial \/ HomeOff \/ HomeJoints \/ HomeOn
                     \/ TrialEnd \/ FinishRun \/ LateSwitch \/ UNCHANGED vars
  PROVE  OtherTypes'
<1> USE DEF OtherTypes, GiveUp, Fault, NoFault, TimesOut, trialVars, flagVars, simVars,
            modelVars, controlVars
<1>1. CASE Begin BY <1>1 DEF Begin
<1>2. CASE NextTrial
  <2>1. spawned' = spawned \/ spawned' = <<>> BY <1>2 DEF NextTrial
  <2>2. <<>> \in Seq(Name) OBVIOUS
  <2>3. spawned' \in Seq(Name) BY <2>1, <2>2
  <2>4. QED BY <1>2, <2>3 DEF NextTrial
<1>3. CASE SendGoal BY <1>3 DEF SendGoal
<1>4. CASE GoalResponse BY <1>4 DEF GoalResponse
<1>5. CASE GoalResult BY <1>5 DEF GoalResult
<1>6. CASE CheckTasks BY <1>6 DEF CheckTasks
<1>7. CASE ScoreTrial BY <1>7 DEF ScoreTrial
<1>8. CASE HomeOff BY <1>8, TypeSwitch DEF HomeOff
<1>9. CASE HomeJoints BY <1>9 DEF HomeJoints
<1>10. CASE HomeOn BY <1>10, TypeSwitch DEF HomeOn
<1>11. CASE TrialEnd BY <1>11 DEF TrialEnd
<1>12. CASE FinishRun BY <1>12 DEF FinishRun
<1>13. CASE LateSwitch BY <1>13 DEF LateSwitch
<1>14. CASE UNCHANGED vars BY <1>14 DEF vars
<1>15. QED
  BY <1>1, <1>2, <1>3, <1>4, <1>5, <1>6, <1>7, <1>8, <1>9, <1>10, <1>11, <1>12, <1>13, <1>14

LEMMA OtherTypesStep == OtherTypes /\ [Next]_vars => OtherTypes'
<1> SUFFICES ASSUME OtherTypes, [Next]_vars PROVE OtherTypes'
  OBVIOUS
<1>1. CASE Engine
  BY <1>1, OtherTypesModel, OtherTypesSimulator, OtherTypesRest DEF Engine
<1>2. CASE Environment \/ UNCHANGED vars
  BY <1>2, OtherTypesModel, OtherTypesSimulator, OtherTypesRest DEF Environment
<1>3. QED BY <1>1, <1>2 DEF Next

\* A step that leaves the tasks alone and waits for none.
LEMMA QuietStep ==
  ASSUME TrialTypes, IInv, Sent, UNCHANGED <<trial, attempts>>,
         pc' \in BeforeGoals => pc \in BeforeGoals,
         pc' = "send_goal" => pc \in {"send_goal", "scoring"},
         pc' \in {"goal_response", "result"} => pc' = pc
  PROVE  Sent'
<1>1. pc = "scoring" => attempts[trial] = <<>>
  BY DEF Sent, BeforeGoals
<1>2. NTasks \in Nat \ {0}
  BY EngineAssumption
<1>3. pc' = "send_goal" => Len(attempts[trial]) < NTasks
  BY <1>1, <1>2 DEF Sent
<1>4. QED
  BY <1>3 DEF Sent

LEMMA TasksQuiet ==
  ASSUME TrialTypes, IInv, Sent, Next, ~SendGoal, ~GoalResponse, ~GoalResult, ~NextTrial
  PROVE  UNCHANGED attempts /\ Sent'
<1> USE DEF trialVars, GiveUp, StageDone, StageFailed, BeforeGoals, ModelPc, SimulatorPc
<1>1. CASE \/ Begin \/ Discover \/ ModelIsUnconfigured \/ Configure \/ ProbeGoal \/ Activate
  BY <1>1, QuietStep
     DEF Begin, Discover, ModelIsUnconfigured, Configure, ProbeGoal, Activate
<1>2. CASE CheckEndpoints \/ SpawnBoard \/ Tare \/ SpawnCable \/ Settle \/ ReadyScoring
  BY <1>2, QuietStep DEF CheckEndpoints, SpawnBoard, Tare, SpawnCable, Settle, ReadyScoring
<1>3. CASE CheckTasks \/ ScoreTrial \/ ResetAfterTrial \/ DeleteEntity \/ SimulatorReset
  BY <1>3, QuietStep DEF CheckTasks, ScoreTrial, ResetAfterTrial, DeleteEntity, SimulatorReset
<1>4. CASE HomeOff \/ HomeJoints \/ HomeOn
  BY <1>4, QuietStep DEF HomeOff, HomeJoints, HomeOn, Switch
<1>5. CASE TrialEnd \/ CleanupModel \/ ShutdownModel \/ FinishRun
  BY <1>5, QuietStep DEF TrialEnd, CleanupModel, ShutdownModel, EndModel, FinishRun
<1>6. CASE Environment
  BY <1>6, QuietStep DEF Environment, LateTransition, LateSwitch, LateSpawn, LateDelete
<1>7. QED
  BY <1>1, <1>2, <1>3, <1>4, <1>5, <1>6 DEF Next, Engine

\* A task is sent, or its state changes.
LEMMA TasksStep ==
  ASSUME TrialTypes, IInv, Sent, SendGoal \/ GoalResponse \/ GoalResult
  PROVE  /\ trial \in 1..NTrials /\ trial_state[trial] # "AllTasksCompleted"
         /\ attempts' \in [1..NTrials -> Seq(TaskState)]
         /\ \A t \in 1..NTrials : Len(attempts'[t]) <= NTasks
         /\ \A t \in 1..NTrials : t # trial => attempts'[t] = attempts[t]
         /\ Sent'
<1>1. /\ pc \in {"send_goal", "goal_response", "result"}
      /\ trial' = trial
  BY DEF SendGoal, GoalResponse, GoalResult
<1>2. trial \in 1..NTrials /\ trial_state[trial] # "AllTasksCompleted"
  BY <1>1 DEF IInv, RunShape, Ladder, TrialPc, GoalPc
<1>3. NTasks \in Nat \ {0} /\ NTrials \in Nat
  BY EngineAssumption
<1> DEFINE tasks == attempts[trial]
<1>4. tasks \in Seq(TaskState) /\ Len(tasks) <= NTasks
  BY <1>2 DEF TrialTypes
<1>5. CASE SendGoal
  <2>1. /\ Append(tasks, "TaskRequested") \in Seq(TaskState)
        /\ Len(Append(tasks, "TaskRequested")) = Len(tasks) + 1
    BY <1>4 DEF TaskState
  <2>2. Len(tasks) < NTasks
    BY <1>5 DEF SendGoal, Sent
  <2>3. attempts' = [attempts EXCEPT ![trial] = Append(tasks, "TaskRequested")]
    BY <1>5 DEF SendGoal
  <2>4. \A t \in 1..NTrials : t # trial => attempts'[t] = attempts[t]
    BY <2>3 DEF TrialTypes
  <2>5. attempts'[trial] = Append(tasks, "TaskRequested")
    BY <1>2, <2>3 DEF TrialTypes
  <2>6. Len(attempts'[trial]) <= NTasks /\ Len(attempts'[trial]) # 0
    BY <1>3, <1>4, <2>1, <2>2, <2>5
  <2>7. attempts' \in [1..NTrials -> Seq(TaskState)]
    BY <2>1, <2>3 DEF TrialTypes
  <2>8. \A t \in 1..NTrials : Len(attempts'[t]) <= NTasks
    BY <2>4, <2>6 DEF TrialTypes
  <2>9. \A t \in 1..NTrials : t > trial => t # trial
    BY <1>2
  <2>10. Sent'
    BY <1>1, <1>5, <2>4, <2>6, <2>9
       DEF Sent, SendGoal, BeforeGoals, ModelPc, SimulatorPc
  <2>11. QED BY <1>2, <2>4, <2>7, <2>8, <2>10
<1>6. CASE GoalResponse \/ GoalResult
  <2>1. Len(tasks) # 0
    BY <1>6 DEF GoalResponse, GoalResult, Sent
  <2>2. \A e \in TaskState : /\ [tasks EXCEPT ![Len(tasks)] = e] \in Seq(TaskState)
                             /\ Len([tasks EXCEPT ![Len(tasks)] = e]) = Len(tasks)
    BY <1>4, <2>1, SetLast
  <2>3. \/ \E e \in TaskState : attempts' = [attempts EXCEPT ![trial][Len(tasks)] = e]
        \/ attempts' = attempts
    BY <1>6 DEF GoalResponse, GoalResult, LastTask, TaskState
  <2>4. PICK new \in Seq(TaskState) :
          attempts' = [attempts EXCEPT ![trial] = new] /\ Len(new) = Len(tasks)
    <3>1. CASE attempts' = attempts
      <4>1. attempts = [attempts EXCEPT ![trial] = tasks] BY <1>2 DEF TrialTypes
      <4>2. QED BY <1>4, <3>1, <4>1
    <3>2. CASE \E e \in TaskState : attempts' = [attempts EXCEPT ![trial][Len(tasks)] = e]
      <4>1. PICK e \in TaskState : attempts' = [attempts EXCEPT ![trial][Len(tasks)] = e]
        BY <3>2
      <4>2. attempts' = [attempts EXCEPT ![trial] = [tasks EXCEPT ![Len(tasks)] = e]]
        BY <4>1
      <4>3. QED BY <2>2, <4>2
    <3>3. QED BY <2>3, <3>1, <3>2
  <2>5. \A t \in 1..NTrials : t # trial => attempts'[t] = attempts[t]
    BY <2>4 DEF TrialTypes
  <2>6. attempts'[trial] = new
    BY <1>2, <2>4 DEF TrialTypes
  <2>7. attempts' \in [1..NTrials -> Seq(TaskState)]
    BY <2>4 DEF TrialTypes
  <2>8. \A t \in 1..NTrials : Len(attempts'[t]) <= NTasks
    BY <1>4, <2>4, <2>5, <2>6 DEF TrialTypes
  <2>9. \A t \in 1..NTrials : t > trial => t # trial
    BY <1>2
  <2>10. pc' = "send_goal" => Len(new) < NTasks
    <3>1. pc' = "send_goal" => Len(tasks) < NTasks
      BY <1>6 DEF GoalResponse, GoalResult, GiveUp
    <3>2. QED BY <2>4, <3>1
  <2>11. pc' \notin BeforeGoals
    BY <1>6 DEF GoalResponse, GoalResult, GiveUp, BeforeGoals, ModelPc, SimulatorPc
  <2>12. Sent'
    BY <1>1, <2>1, <2>4, <2>5, <2>6, <2>9, <2>10, <2>11 DEF Sent
  <2>13. QED BY <1>2, <2>5, <2>7, <2>8, <2>12
<1>7. QED BY <1>5, <1>6

LEMMA SentNextTrial ==
  ASSUME TrialTypes, IInv, Sent, NextTrial
  PROVE  UNCHANGED attempts /\ Sent'
<1>1. NTrials \in Nat /\ trial \in 0..NTrials
  BY EngineAssumption DEF IInv, Shape
<1>2. UNCHANGED attempts
  BY DEF NextTrial
<1>3. CASE trial < NTrials
  <2>1. trial' = trial + 1 /\ pc' = "discover"
    BY <1>3 DEF NextTrial
  <2>2. trial' \in 1..NTrials /\ trial' > trial
    BY <1>1, <1>3, <2>1
  <2>3. \A t \in 1..NTrials : t > trial' => t > trial
    BY <1>1, <2>1
  <2>4. QED BY <1>2, <2>1, <2>2, <2>3 DEF Sent
<1>4. CASE ~(trial < NTrials)
  BY <1>4 DEF NextTrial, Sent, BeforeGoals, ModelPc, SimulatorPc
<1>5. QED BY <1>2, <1>3, <1>4

LEMMA TypeInvariantStep == TInv /\ [Next]_vars => TInv'
<1> SUFFICES ASSUME TInv, [Next]_vars PROVE TInv'
  OBVIOUS
<1>1. OtherTypes /\ TrialTypes /\ Shape /\ IInv /\ Sent
  BY TypeParts DEF TInv
<1>2. OtherTypes' /\ IInv'
  BY <1>1, OtherTypesStep, ProgressStep DEF Refines
<1>3. /\ attempts' \in [1..NTrials -> Seq(TaskState)]
      /\ \A t \in 1..NTrials : Len(attempts'[t]) <= NTasks
      /\ Sent'
  <2>1. CASE UNCHANGED vars BY <1>1, <2>1 DEF vars, trialVars, TrialTypes, Sent
  <2>2. CASE SendGoal \/ GoalResponse \/ GoalResult BY <1>1, <2>2, TasksStep
  <2>3. CASE NextTrial BY <1>1, <2>3, SentNextTrial DEF TrialTypes
  <2>4. CASE Next /\ ~SendGoal /\ ~GoalResponse /\ ~GoalResult /\ ~NextTrial
    BY <1>1, <2>4, TasksQuiet DEF TrialTypes
  <2>5. QED BY <2>1, <2>2, <2>3, <2>4
<1>4. engine_state' \in {"Initialized", "Running", "Error", "Completed"}
  <2>1. [Promise!Next]_(Promise!pvars)
    BY <1>1, ProgressStep DEF Refines
  <2>2. QED
    BY <1>1, <2>1 DEF TrialTypes, Promise!Next, Promise!Begin, Promise!StartTrial,
       Promise!Climb, Promise!Stop, Promise!Complete, Promise!pvars
<1>5. scored' \subseteq 1..NTrials
  <2>1. CASE ScoreTrial
    BY <1>1, <2>1 DEF ScoreTrial, TrialTypes, IInv, RunShape, TrialPc
  <2>2. CASE ~ScoreTrial
    <3>1. UNCHANGED scored
      BY <2>2 DEF Next, Engine, Environment, trialVars, vars, Begin, NextTrial, Discover,
         ModelIsUnconfigured, Configure, ProbeGoal, Activate, CheckEndpoints, SpawnBoard,
         Tare, SpawnCable, Settle, ReadyScoring, SendGoal, GoalResponse, GoalResult,
         CheckTasks, ResetAfterTrial, DeleteEntity, SimulatorReset, HomeOff, HomeJoints,
         HomeOn, Switch, TrialEnd, CleanupModel, ShutdownModel, EndModel, FinishRun,
         LateTransition, LateSwitch, LateSpawn, LateDelete
    <3>2. QED BY <1>1, <3>1 DEF TrialTypes
  <2>3. QED BY <2>1, <2>2
<1>6. TrialTypes'
  BY <1>3, <1>4, <1>5 DEF TrialTypes
<1>7. Shape'
  BY <1>2 DEF IInv
<1>8. TypeOK'
  BY <1>2, <1>6, <1>7 DEF TypeOK, OtherTypes, TrialTypes, Shape, Promise!Rung
<1>9. QED BY <1>2, <1>3, <1>8 DEF TInv

LEMMA TypeInit == Init => TInv
<1> SUFFICES ASSUME Init PROVE TInv
  OBVIOUS
<1>1. MAX_RETRIES \in Nat \ {0} /\ NTasks \in Nat
  BY EngineAssumption
<1>2. IInv
  BY ProgressInit
<1>3. /\ <<>> \in Seq(Name) /\ <<>> \in Seq(Transition) /\ <<>> \in Seq(BOOLEAN)
      /\ <<>> \in Seq(TaskState) /\ Len(<<>>) = 0
  OBVIOUS
<1>4. attempts = [t \in 1..NTrials |-> <<>>]
  BY DEF Init
<1>5. /\ attempts \in [1..NTrials -> Seq(TaskState)]
      /\ \A t \in 1..NTrials : attempts[t] = <<>>
  BY <1>3, <1>4
<1>6. \A t \in 1..NTrials : Len(attempts[t]) <= NTasks
  BY <1>1, <1>3, <1>5
<1>7. TrialTypes
  BY <1>5, <1>6 DEF Init, TrialTypes
<1>8. attempt \in 1..MAX_RETRIES
  BY <1>1 DEF Init
<1>9. world \in [Name -> [plain : BOOLEAN, renamed : BOOLEAN]]
  BY DEF Init
<1>10. OtherTypes
  <2>1. spawned = <<>> /\ late_transitions = <<>> /\ late_switches = <<>> /\ late = {}
    BY DEF Init
  <2>2. /\ spawned \in Seq(Name) /\ late_transitions \in Seq(Transition)
        /\ late_switches \in Seq(BOOLEAN)
    BY <1>3, <2>1
  <2>3. late \subseteq {"spawn", "delete"} \X Name
    BY <2>1
  <2>4. /\ cursor \in Nat \ {0}
        /\ model \in {"unconfigured", "inactive", "active", "finalized"}
    BY DEF Init
  <2>5. /\ model_discovered \in BOOLEAN /\ is_first_trial \in BOOLEAN /\ recording \in BOOLEAN
        /\ controller \in BOOLEAN /\ slow_simulator \subseteq {"spawn", "delete"} /\ failed \in BOOLEAN
    BY DEF Init
  <2>6. QED BY <1>8, <1>9, <2>2, <2>3, <2>4, <2>5 DEF OtherTypes
<1>11. Sent
  BY <1>5 DEF Init, Sent, BeforeGoals, ModelPc, SimulatorPc
<1>12. QED
  BY <1>2, <1>7, <1>10, <1>11, TypeParts DEF TInv, IInv

LEMMA TypeInvariant == Spec => []TInv
BY TypeInit, TypeInvariantStep, PTL DEF Spec

\* Every variable of the engine keeps its type; in particular a retry loop
\* never passes MAX_RETRIES and no trial sends more tasks than it has.
THEOREM EngineTypeCorrect == Spec => []TypeOK
<1>1. TInv => TypeOK
  BY DEF TInv
<1>2. QED BY <1>1, TypeInvariant, PTL

-----------------------------------------------------------------------------
(***************************************************************************)
(* AllTasksCompleted is earned.                                            *)
(***************************************************************************)

LEMMA CompletedStep ==
  ASSUME TInv, CompletedTrialDidAllTasks, [Next]_vars
  PROVE  CompletedTrialDidAllTasks'
<1>1. TrialTypes /\ IInv /\ Sent
  BY TypeParts DEF TInv
<1>2. CASE SendGoal \/ GoalResponse \/ GoalResult
  <2>1. /\ trial_state[trial] # "AllTasksCompleted" /\ trial \in 1..NTrials
        /\ \A t \in 1..NTrials : t # trial => attempts'[t] = attempts[t]
    BY <1>1, <1>2, TasksStep
  <2>2. /\ trial_state'[trial] # "AllTasksCompleted"
        /\ \A t \in 1..NTrials : t # trial => trial_state'[t] = trial_state[t]
    BY <1>1, <1>2, <2>1 DEF SendGoal, GoalResponse, GoalResult, State, IInv, Shape
  <2>3. QED
    BY <2>1, <2>2 DEF CompletedTrialDidAllTasks, AllTasksDone
<1>3. CASE CheckTasks
  <2>1. UNCHANGED attempts
    BY <1>3 DEF CheckTasks
  <2>2. \A t \in 1..NTrials : trial_state'[t] = trial_state[t] \/ (t = trial /\ AllTasksDone(trial))
    BY <1>1, <1>3 DEF CheckTasks, State, IInv, Shape
  <2>3. QED
    BY <2>1, <2>2 DEF CompletedTrialDidAllTasks, AllTasksDone
<1>4. CASE UNCHANGED vars
  BY <1>4 DEF vars, trialVars, CompletedTrialDidAllTasks, AllTasksDone
<1>5. CASE Next /\ ~SendGoal /\ ~GoalResponse /\ ~GoalResult /\ ~CheckTasks
  <2>1. UNCHANGED attempts
    BY <1>1, <1>5, TasksQuiet, SentNextTrial
  <2>2. \/ UNCHANGED trial_state
        \/ \E s \in Promise!Rung \ {"AllTasksCompleted"} : State(s)
    BY <1>5 DEF Next, Engine, Environment, trialVars, Begin, NextTrial, Discover,
       ModelIsUnconfigured, Configure, ProbeGoal, Activate, CheckEndpoints, SpawnBoard,
       Tare, SpawnCable, Settle, ReadyScoring, StageDone, StageFailed, ScoreTrial,
       ResetAfterTrial, DeleteEntity, SimulatorReset, HomeOff, HomeJoints, HomeOn, Switch,
       TrialEnd, CleanupModel, ShutdownModel, EndModel, FinishRun, LateTransition,
       LateSwitch, LateSpawn, LateDelete, Promise!Rung
  <2>3. \A t \in 1..NTrials :
          trial_state'[t] = "AllTasksCompleted" => trial_state[t] = "AllTasksCompleted"
    BY <1>1, <2>2 DEF State, IInv, Shape
  <2>4. QED
    BY <2>1, <2>3 DEF CompletedTrialDidAllTasks, AllTasksDone
<1>6. QED BY <1>2, <1>3, <1>4, <1>5

\* handle_trial never calls a trial AllTasksCompleted unless each of its tasks
\* was sent and came back successful.
THEOREM CompletedTrials == Spec => []CompletedTrialDidAllTasks
<1>1. Init => CompletedTrialDidAllTasks
  BY DEF Init, CompletedTrialDidAllTasks
<1>2. TInv /\ CompletedTrialDidAllTasks /\ [Next]_vars => CompletedTrialDidAllTasks'
  BY CompletedStep
<1>3. QED
  BY <1>1, <1>2, TypeInvariant, PTL DEF Spec

-----------------------------------------------------------------------------
(***************************************************************************)
(* What the engine leaves in the simulator and hands back at the end, for  *)
(* any number of trials, cables and retries.                               *)
(***************************************************************************)
\* Where the scene is empty, and where all its cables stand.
BarePc == {"begin", "run", "endpoints", "board", "home_off", "home_joints", "home_on",
           "trial_end", "finished"} \cup ModelPc \cup EndPc
StandingPc == GoalPc \cup {"scoring", "result", "check_tasks", "score"}
DeletePc == {"delete", "retry_reset"}

\* What stands in the simulator by the name asked for will still be deleted.
Owed(n) ==
  \E i \in DOMAIN spawned : spawned[i] = n /\ (pc \in DeletePc => i >= cursor)

Scene ==
  /\ late = {}
  /\ pc \notin DeletePc \cup {"cables"} => cursor = 1
  /\ \A n \in Name : ~world[n].renamed /\ (world[n].plain => Owed(n))
  /\ pc \in BarePc => \A n \in Name : ~world[n].plain
  /\ pc = "tare" => \A i \in DOMAIN Cables : ~world[Cables[i]].plain
  /\ pc = "cables" => \A i \in DOMAIN Cables : world[Cables[i]].plain <=> i < cursor
  /\ pc \in StandingPc => \A i \in DOMAIN Cables : world[Cables[i]].plain

\* The invariant: it is about a simulator that answers in time.
SceneInv == slow_simulator # {} \/ Scene

\* No cable that stands goes: it is about a simulator that deletes in time.
CablesStand ==
  /\ \A n \in Name : <<"delete", n>> \notin late
  /\ pc \notin DeletePc \cup {"cables"} => cursor = 1
  /\ pc = "cables" => \A i \in DOMAIN Cables : i < cursor => world[Cables[i]].plain
  /\ pc \in StandingPc => \A i \in DOMAIN Cables : world[Cables[i]].plain

StandInv == "delete" \in slow_simulator \/ CablesStand

\* A run in which no call failed, at each pc.
Unfailed ==
  /\ slow_simulator = {} /\ late_transitions = <<>> /\ late_switches = <<>> /\ ~stop
  /\ pc = "begin" => is_first_trial
  /\ pc \in {"begin", "run", "discover"} =>
       model = IF is_first_trial THEN "unconfigured" ELSE "inactive"
  /\ pc = "run" /\ trial # 0 => ~is_first_trial /\ model_discovered
  /\ pc \in {"get_state", "configure"} => model = "unconfigured"
  /\ pc \in {"probe", "activate"} => model = "inactive"
  /\ pc \in SimulatorPc \cup StandingPc \cup {"endpoints", "deactivate"} => model = "active"
  /\ pc \in TrialPc \ {"discover"} => model_discovered
  /\ pc \in ResetPc \ {"deactivate"} => model = "inactive" /\ ~is_first_trial
  /\ pc \in EndPc => model_discovered
  /\ pc = "cleanup" => model = "inactive"
  /\ pc = "shutdown" => model = "unconfigured"
  /\ pc \in {"validate", "finished"} => model = "finalized"
  /\ recording => pc \in (StandingPc \ {"scoring"})
  /\ pc \notin {"home_joints", "home_on"} => controller
  /\ pc \in TrialPc \ ResetPc => scored = 1..(trial - 1)
  /\ pc \in ResetPc \cup {"begin", "run"} => scored = 1..trial
  /\ pc \in EndPc => scored = 1..NTrials /\ engine_state = "Running"
  /\ pc = "finished" => scored = 1..NTrials /\ engine_state = "Completed"

CleanInv == failed \/ Unfailed

-----------------------------------------------------------------------------
(***************************************************************************)
(* The scene.                                                              *)
(***************************************************************************)

LEMMA CableNames ==
  /\ \A i \in DOMAIN Cables : Cables[i] \in Name /\ Cables[i] # "task_board"
  /\ \A i, j \in DOMAIN Cables : Cables[i] = Cables[j] => i = j
  /\ "task_board" \in Name
  /\ \A n \in Name : n # "task_board" => \E i \in DOMAIN Cables : n = Cables[i]
BY EngineAssumption DEF Name

\* The engine moves on and neither the simulator nor the list changes.
LEMMA QuietScene ==
  ASSUME TInv, Scene, UNCHANGED <<late, world, cursor, spawned>>,
         \/ pc' = pc
         \/ pc \in BarePc /\ pc' \in BarePc \cup {"deactivate"}
         \/ pc = "tare" /\ pc' \in {"deactivate", "retry_reset", "cables"}
         \/ pc \in StandingPc /\ pc' \in StandingPc \cup {"deactivate"}
         \/ pc = "deactivate" /\ pc' = "delete"
  PROVE  Scene'
<1> USE DEF Scene, BarePc, StandingPc, DeletePc, ModelPc, EndPc, GoalPc
<1>1. late' = {}
  OBVIOUS
<1>2. pc' \notin DeletePc \cup {"cables"} => cursor' = 1
  OBVIOUS
<1>3. \A n \in Name : ~world'[n].renamed /\ (world'[n].plain => Owed(n)')
  <2>1. pc' \in DeletePc /\ pc' # pc => cursor = 1
    OBVIOUS
  <2>2. ASSUME NEW n \in Name, Owed(n)
        PROVE  Owed(n)'
    <3>1. PICK i \in DOMAIN spawned : spawned[i] = n /\ (pc \in DeletePc => i >= cursor)
      BY <2>2 DEF Owed
    <3>2. pc' \in DeletePc => i >= cursor
      <4>1. i >= 1
        BY DEF TInv, TypeOK
      <4>2. QED BY <2>1, <3>1, <4>1
    <3>3. QED BY <3>1, <3>2 DEF Owed
  <2>3. QED BY <2>2
<1>4. pc' \in BarePc => \A n \in Name : ~world'[n].plain
  OBVIOUS
<1>5. \A i \in DOMAIN Cables : pc' = "tare" => ~world'[Cables[i]].plain
  OBVIOUS
<1>6. pc' = "cables" => \A i \in DOMAIN Cables : world'[Cables[i]].plain <=> i < cursor'
  <2>1. CASE pc = "cables" BY <2>1
  <2>2. CASE pc = "tare" /\ pc' = "cables"
    <3>1. \A i \in DOMAIN Cables : ~(i < 1)
      BY EngineAssumption
    <3>2. QED BY <2>2, <3>1
  <2>3. QED BY <2>1, <2>2
<1>7. pc' \in StandingPc => \A i \in DOMAIN Cables : world'[Cables[i]].plain
  OBVIOUS
<1>8. QED BY <1>1, <1>2, <1>3, <1>4, <1>5, <1>6, <1>7

LEMMA SceneOtherStep ==
  ASSUME TInv, SceneInv, [Next]_vars,
         ~NextTrial, ~SpawnBoard, ~SpawnCable, ~Settle, ~DeleteEntity, ~SimulatorReset,
         ~\E n \in Name : LateSpawn(n) \/ LateDelete(n)
  PROVE  SceneInv'
<1> USE QuietScene
    DEF SceneInv, simVars, trialVars, flagVars, GiveUp, StageDone, StageFailed, BarePc,
        StandingPc, DeletePc, ModelPc, EndPc, GoalPc
<1>1. CASE Begin \/ Discover \/ ModelIsUnconfigured \/ Configure \/ ProbeGoal \/ Activate
  BY <1>1 DEF Begin, Discover, ModelIsUnconfigured, Configure, ProbeGoal, Activate
<1>2. CASE CheckEndpoints \/ Tare \/ ReadyScoring
  BY <1>2 DEF CheckEndpoints, Tare, ReadyScoring
<1>3. CASE SendGoal \/ GoalResponse \/ GoalResult \/ CheckTasks \/ ScoreTrial
  BY <1>3 DEF SendGoal, GoalResponse, GoalResult, CheckTasks, ScoreTrial
<1>4. CASE ResetAfterTrial \/ HomeOff \/ HomeJoints \/ HomeOn \/ TrialEnd
  BY <1>4 DEF ResetAfterTrial, HomeOff, HomeJoints, HomeOn, Switch, TrialEnd
<1>5. CASE CleanupModel \/ ShutdownModel \/ FinishRun
  BY <1>5 DEF CleanupModel, ShutdownModel, EndModel, FinishRun
<1>6. CASE LateTransition \/ LateSwitch \/ UNCHANGED vars
  BY <1>6 DEF LateTransition, LateSwitch, vars
<1>7. QED
  BY <1>1, <1>2, <1>3, <1>4, <1>5, <1>6 DEF Next, Engine, Environment

\* One entity appears under the name asked for.
LEMMA SpawnedScene ==
  ASSUME TInv, Scene, NEW n \in Name, ~world[n].plain, SpawnDone(n)
  PROVE  /\ late' = {}
         /\ \A m \in Name : ~world'[m].renamed
         /\ \A m \in Name : world'[m].plain <=> m = n \/ world[m].plain
         /\ \A i \in DOMAIN spawned : i \in DOMAIN spawned' /\ spawned'[i] = spawned[i]
         /\ \E i \in DOMAIN spawned' : spawned'[i] = n
<1>1. world \in [Name -> [plain : BOOLEAN, renamed : BOOLEAN]] /\ spawned \in Seq(Name)
  BY DEF TInv, TypeOK
<1>2. world' = [world EXCEPT ![n] = [@ EXCEPT !.plain = TRUE]]
  BY DEF SpawnDone, Spawned
<1>3. \A m \in Name : /\ world'[m].renamed = world[m].renamed
                      /\ world'[m].plain <=> m = n \/ world[m].plain
  BY <1>1, <1>2
<1>4. spawned' = Append(spawned, n)
  BY DEF SpawnDone
<1>5. /\ \A i \in DOMAIN spawned : i \in DOMAIN spawned' /\ spawned'[i] = spawned[i]
      /\ Len(spawned) + 1 \in DOMAIN spawned' /\ spawned'[Len(spawned) + 1] = n
  <2>1. Len(spawned) \in Nat /\ DOMAIN spawned' = 1..(Len(spawned) + 1)
    BY <1>1, <1>4
  <2>2. \A i \in 1..Len(spawned) : spawned'[i] = spawned[i]
    BY <1>1, <1>4
  <2>3. spawned'[Len(spawned) + 1] = n
    BY <1>1, <1>4
  <2>4. QED BY <1>1, <2>1, <2>2, <2>3
<1>6. \E i \in DOMAIN spawned' : spawned'[i] = n
  BY <1>5
<1>7. QED BY <1>3, <1>5, <1>6 DEF SpawnDone, Scene

\* One that does not appear, though asked for, is in the list all the same.
LEMMA UnspawnedScene ==
  ASSUME TInv, Scene, NEW n \in Name, SpawnFails(n), slow_simulator' = {}
  PROVE  /\ UNCHANGED <<late, world>>
         /\ \A i \in DOMAIN spawned : i \in DOMAIN spawned' /\ spawned'[i] = spawned[i]
<1>1. spawned \in Seq(Name) /\ spawned' \in {spawned, Append(spawned, n)}
  BY DEF TInv, TypeOK, SpawnFails
<1>2. QED BY <1>1 DEF SpawnFails, simVars

LEMMA SceneSpawnBoard ==
  ASSUME TInv, SceneInv, SpawnBoard
  PROVE  SceneInv'
<1> SUFFICES ASSUME slow_simulator' = {} PROVE Scene'
  BY DEF SceneInv
<1>1. slow_simulator = {} /\ Scene /\ pc = "board" /\ pc' = "tare" /\ cursor' = cursor
  BY DEF SpawnBoard, SpawnDone, SpawnFails, simVars, SceneInv
<1>2. cursor' = 1 /\ \A m \in Name : ~world[m].renamed /\ ~world[m].plain
  BY <1>1 DEF Scene, DeletePc, BarePc
<1>3. /\ late' = {}
      /\ \A m \in Name : ~world'[m].renamed
      /\ \A m \in Name : world'[m].plain =>
            m = "task_board" /\ \E i \in DOMAIN spawned' : spawned'[i] = m
  <2>1. CASE SpawnDone("task_board")
    BY <1>1, <1>2, <2>1, CableNames, SpawnedScene
  <2>2. CASE SpawnFails("task_board")
    BY <1>1, <1>2, <2>2, CableNames, UnspawnedScene DEF Scene
  <2>3. QED BY <2>1, <2>2 DEF SpawnBoard
<1>4. QED
  BY <1>1, <1>2, <1>3, CableNames
     DEF Scene, Owed, DeletePc, BarePc, StandingPc, ModelPc, EndPc, GoalPc

LEMMA SceneSpawnCable ==
  ASSUME TInv, SceneInv, SpawnCable
  PROVE  SceneInv'
<1> SUFFICES ASSUME slow_simulator' = {} PROVE Scene'
  BY DEF SceneInv
<1> DEFINE n == Cables[cursor]
<1>1. slow_simulator = {} /\ Scene /\ pc = "cables"
  BY DEF SpawnCable, SpawnDone, SpawnFails, simVars, SceneInv
<1>2. cursor \in DOMAIN Cables /\ n \in Name /\ cursor \in Nat
  <2>1. cursor \in Nat \ {0} /\ Cables \in Seq(STRING)
    BY EngineAssumption DEF TInv, TypeOK
  <2>2. cursor \in DOMAIN Cables
    BY <2>1 DEF SpawnCable
  <2>3. QED BY <2>1, <2>2, CableNames
<1>3. /\ \A m \in Name : ~world[m].renamed /\ (world[m].plain => Owed(m))
      /\ \A i \in DOMAIN Cables : world[Cables[i]].plain <=> i < cursor
  BY <1>1 DEF Scene
<1>4. CASE SpawnDone(n) /\ cursor' = cursor + 1 /\ pc' = "cables"
  <2>1. /\ late' = {}
        /\ \A m \in Name : ~world'[m].renamed
        /\ \A m \in Name : world'[m].plain <=> m = n \/ world[m].plain
        /\ \A i \in DOMAIN spawned : i \in DOMAIN spawned' /\ spawned'[i] = spawned[i]
        /\ \E i \in DOMAIN spawned' : spawned'[i] = n
    BY <1>1, <1>2, <1>3, <1>4, SpawnedScene
  <2>2. \A m \in Name : world'[m].plain => Owed(m)'
    BY <1>1, <1>3, <1>4, <2>1 DEF Owed, DeletePc
  <2>3. \A i \in DOMAIN Cables : world'[Cables[i]].plain <=> i < cursor'
    <3>1. ASSUME NEW i \in DOMAIN Cables
          PROVE  world'[Cables[i]].plain <=> i < cursor'
      <4>1. i \in Nat /\ Cables[i] \in Name /\ (Cables[i] = n => i = cursor)
        BY <1>2, CableNames, EngineAssumption
      <4>2. world'[Cables[i]].plain <=> i = cursor \/ i < cursor
        BY <1>3, <2>1, <4>1
      <4>3. QED BY <1>2, <1>4, <4>1, <4>2
    <3>2. QED BY <3>1
  <2>4. QED
    BY <1>4, <2>1, <2>2, <2>3
       DEF Scene, DeletePc, BarePc, StandingPc, ModelPc, EndPc, GoalPc
<1>5. CASE SpawnFails(n) /\ StageFailed("retry_reset") /\ cursor' = 1
  <2>1. /\ UNCHANGED <<late, world>>
        /\ \A i \in DOMAIN spawned : i \in DOMAIN spawned' /\ spawned'[i] = spawned[i]
    BY <1>1, <1>2, <1>5, UnspawnedScene
  <2>2. pc' \in {"retry_reset", "deactivate"}
    BY <1>5 DEF StageFailed, GiveUp
  <2>3. \A m \in Name : world'[m].plain => Owed(m)'
    <3>1. \A i \in DOMAIN spawned : i >= 1
      BY DEF TInv, TypeOK
    <3>2. ASSUME NEW m \in Name, world'[m].plain
          PROVE  Owed(m)'
      <4>1. PICK i \in DOMAIN spawned : spawned[i] = m
        BY <1>3, <2>1, <3>2 DEF Owed
      <4>2. QED BY <1>5, <2>1, <3>1, <4>1 DEF Owed
    <3>3. QED BY <3>2
  <2>4. QED
    BY <1>1, <1>3, <1>5, <2>1, <2>2, <2>3
       DEF Scene, DeletePc, BarePc, StandingPc, ModelPc, EndPc, GoalPc
<1>6. QED BY <1>4, <1>5, <1>1 DEF SpawnCable

LEMMA SceneDelete ==
  ASSUME TInv, SceneInv, DeleteEntity
  PROVE  SceneInv'
<1> SUFFICES ASSUME slow_simulator' = {} PROVE Scene'
  BY DEF SceneInv
<1> DEFINE n == spawned[cursor]
<1>1. /\ slow_simulator = {} /\ Scene /\ pc \in DeletePc /\ pc' = pc /\ cursor' = cursor + 1
      /\ world' = [world EXCEPT ![n].plain = FALSE] /\ UNCHANGED <<late, spawned>>
  BY DEF DeleteEntity, DeleteIsSlow, Deleted, SceneInv, DeletePc
<1>2. world \in [Name -> [plain : BOOLEAN, renamed : BOOLEAN]] /\ cursor \in Nat /\ spawned \in Seq(Name)
  BY DEF TInv, TypeOK
<1>3. \A m \in Name : /\ world'[m].renamed = world[m].renamed
                      /\ world'[m].plain => m # n /\ world[m].plain
  BY <1>1, <1>2
<1>4. \A m \in Name : world'[m].plain => Owed(m)'
  <2>1. ASSUME NEW m \in Name, world'[m].plain
        PROVE  Owed(m)'
    <3>1. PICK i \in DOMAIN spawned : spawned[i] = m /\ i >= cursor
      BY <1>1, <1>3, <2>1 DEF Scene, Owed
    <3>2. m # n
      BY <1>3, <2>1
    <3>3. i # cursor
      BY <3>1, <3>2
    <3>4. i >= cursor + 1
      BY <1>2, <3>1, <3>3
    <3>5. QED BY <1>1, <3>1, <3>4 DEF Owed
  <2>2. QED BY <2>1
<1>5. QED
  BY <1>1, <1>3, <1>4 DEF Scene, DeletePc, BarePc, StandingPc, ModelPc, EndPc, GoalPc

LEMMA SceneReset ==
  ASSUME TInv, SceneInv, NextTrial \/ Settle \/ SimulatorReset
  PROVE  SceneInv'
<1> SUFFICES ASSUME Scene, UNCHANGED <<late, world>> PROVE Scene'
  BY DEF SceneInv, NextTrial, Settle, SimulatorReset, simVars
<1> USE DEF DeletePc, BarePc, StandingPc, ModelPc, EndPc, GoalPc
<1>1. CASE NextTrial
  <2>1. \A m \in Name : ~world[m].plain
    BY <1>1 DEF NextTrial, Scene
  <2>2. QED BY <1>1, <2>1 DEF NextTrial, Scene
<1>2. CASE Settle
  <2>1. \A i \in DOMAIN Cables : i < cursor
    BY <1>2, EngineAssumption DEF Settle, TInv, TypeOK
  <2>2. \A i \in DOMAIN Cables : world[Cables[i]].plain
    BY <1>2, <2>1 DEF Settle, Scene
  <2>3. \A m \in Name : world[m].plain => Owed(m)'
    BY <1>2 DEF Settle, StageDone, Scene, Owed
  <2>4. QED BY <1>2, <2>2, <2>3 DEF Settle, StageDone, Scene
<1>3. CASE SimulatorReset
  <2>1. \A i \in DOMAIN spawned : ~(i >= cursor)
    BY <1>3 DEF SimulatorReset, TInv, TypeOK
  <2>2. \A m \in Name : ~world[m].plain
    BY <1>3, <2>1 DEF SimulatorReset, Scene, Owed
  <2>3. QED BY <1>3, <2>2 DEF SimulatorReset, Scene
<1>4. QED BY <1>1, <1>2, <1>3

LEMMA SceneStep == TInv /\ SceneInv /\ [Next]_vars => SceneInv'
<1> SUFFICES ASSUME TInv, SceneInv, [Next]_vars PROVE SceneInv'
  OBVIOUS
<1>1. CASE \E n \in Name : LateSpawn(n) \/ LateDelete(n)
  BY <1>1 DEF LateSpawn, LateDelete, SceneInv, Scene
<1>2. QED
  BY <1>1, SceneOtherStep, SceneSpawnBoard, SceneSpawnCable, SceneDelete, SceneReset

LEMMA SceneInvariant == Spec => []SceneInv
<1>1. Init => SceneInv
  BY DEF Init, SceneInv, Scene, DeletePc, BarePc, StandingPc, ModelPc, EndPc, GoalPc
<1>2. QED
  BY <1>1, SceneStep, TypeInvariant, PTL DEF Spec

\* The engine moves on and the simulator takes at most more cables.
LEMMA QuietStand ==
  ASSUME TInv, CablesStand, \A n \in Name : <<"delete", n>> \notin late',
         \A n \in Name : world[n].plain => world'[n].plain, cursor' = cursor,
         \/ pc' = pc
         \/ /\ pc \notin DeletePc \cup StandingPc \cup {"cables"}
            /\ pc' \notin StandingPc \cup {"cables"}
         \/ pc = "tare" /\ pc' = "cables"
         \/ pc \in StandingPc /\ pc' \in StandingPc \cup {"deactivate"}
  PROVE  CablesStand'
<1> USE DEF CablesStand, DeletePc, StandingPc, GoalPc
<1>1. pc' \notin DeletePc \cup {"cables"} => cursor' = 1
  OBVIOUS
<1>2. ASSUME pc' = "cables", NEW i \in DOMAIN Cables, i < cursor' PROVE world'[Cables[i]].plain
  <2>1. CASE pc = "cables" BY <1>2, <2>1, CableNames
  <2>2. CASE pc = "tare"
    <3>1. ~(i < 1) BY EngineAssumption
    <3>2. QED BY <1>2, <2>2, <3>1
  <2>3. QED BY <1>2, <2>1, <2>2
<1>3. ASSUME pc' \in StandingPc, NEW i \in DOMAIN Cables PROVE world'[Cables[i]].plain
  BY <1>3, CableNames
<1>4. QED BY <1>1, <1>2, <1>3

LEMMA SpawnedStands ==
  ASSUME TInv, NEW n \in Name, world' = Spawned(n)
  PROVE  world'[n].plain /\ \A m \in Name : world[m].plain => world'[m].plain
<1>1. world \in [Name -> [plain : BOOLEAN, renamed : BOOLEAN]]
  BY DEF TInv, TypeOK
<1>2. world' = [world EXCEPT ![n] = IF @.plain THEN [@ EXCEPT !.renamed = TRUE]
                                    ELSE [@ EXCEPT !.plain = TRUE]]
  BY DEF Spawned
<1>3. QED BY <1>1, <1>2

LEMMA StandStep == TInv /\ StandInv /\ [Next]_vars => StandInv'
<1> SUFFICES ASSUME TInv, StandInv, [Next]_vars, "delete" \notin slow_simulator'
             PROVE  CablesStand'
  BY DEF StandInv
<1> USE DEF simVars, trialVars, flagVars, GiveUp, StageDone, StageFailed, BarePc, StandingPc,
            DeletePc, ModelPc, EndPc, GoalPc
<1>0. CablesStand
  <2>1. slow_simulator \subseteq slow_simulator'
    <3>1. CASE DeleteEntity BY <3>1 DEF DeleteEntity, DeleteIsSlow
    <3>2. CASE SpawnBoard \/ SpawnCable
      BY <3>2 DEF SpawnBoard, SpawnCable, SpawnDone, SpawnFails
    <3>3. CASE ~DeleteEntity /\ ~SpawnBoard /\ ~SpawnCable
      BY <3>3 DEF Next, Engine, Environment, Begin, NextTrial, Discover, ModelIsUnconfigured,
         Configure, ProbeGoal, Activate, CheckEndpoints, Tare, Settle, ReadyScoring, SendGoal,
         GoalResponse, GoalResult, CheckTasks, ScoreTrial, ResetAfterTrial, SimulatorReset,
         HomeOff, HomeJoints, HomeOn, Switch, TrialEnd, CleanupModel, ShutdownModel, EndModel,
         FinishRun, LateTransition, LateSwitch, LateSpawn, LateDelete, vars
    <3>4. QED BY <3>1, <3>2, <3>3
  <2>2. QED BY <2>1 DEF StandInv
<1>s. ASSUME UNCHANGED <<late, world>> PROVE /\ \A n \in Name : <<"delete", n>> \notin late'
                                             /\ \A n \in Name : world[n].plain => world'[n].plain
  BY <1>0, <1>s DEF CablesStand
<1>1. CASE Begin \/ Discover \/ ModelIsUnconfigured \/ Configure \/ ProbeGoal \/ Activate
  BY <1>0, <1>1, <1>s, QuietStand
     DEF Begin, Discover, ModelIsUnconfigured, Configure, ProbeGoal, Activate
<1>2. CASE CheckEndpoints \/ Tare \/ ReadyScoring
  BY <1>0, <1>2, <1>s, QuietStand DEF CheckEndpoints, Tare, ReadyScoring
<1>3. CASE SendGoal \/ GoalResponse \/ GoalResult \/ CheckTasks \/ ScoreTrial
  BY <1>0, <1>3, <1>s, QuietStand DEF SendGoal, GoalResponse, GoalResult, CheckTasks, ScoreTrial
<1>4. CASE ResetAfterTrial \/ HomeOff \/ HomeJoints \/ HomeOn \/ TrialEnd
  BY <1>0, <1>4, <1>s, QuietStand DEF ResetAfterTrial, HomeOff, HomeJoints, HomeOn, Switch, TrialEnd
<1>5. CASE CleanupModel \/ ShutdownModel \/ FinishRun
  BY <1>0, <1>5, <1>s, QuietStand DEF CleanupModel, ShutdownModel, EndModel, FinishRun
<1>6. CASE LateTransition \/ LateSwitch \/ UNCHANGED vars
  BY <1>0, <1>6, <1>s, QuietStand DEF LateTransition, LateSwitch, vars
<1>7. CASE NextTrial
  BY <1>0, <1>7, <1>s, QuietStand DEF NextTrial
<1>8. CASE SpawnBoard
  <2>1. /\ \A n \in Name : <<"delete", n>> \notin late'
        /\ \A n \in Name : world[n].plain => world'[n].plain
    BY <1>0, <1>8, CableNames, SpawnedStands DEF SpawnBoard, SpawnDone, SpawnFails, CablesStand
  <2>2. QED BY <1>0, <1>8, <2>1, QuietStand DEF SpawnBoard
<1>9. CASE SpawnCable
  <2>1. cursor \in DOMAIN Cables /\ Cables[cursor] \in Name /\ cursor \in Nat
    <3>1. cursor \in Nat \ {0} /\ Cables \in Seq(STRING)
      BY EngineAssumption DEF TInv, TypeOK
    <3>2. cursor \in DOMAIN Cables BY <1>9, <3>1 DEF SpawnCable
    <3>3. QED BY <3>1, <3>2, CableNames
  <2>2. \A n \in Name : <<"delete", n>> \notin late'
    <3>1. late' \subseteq late \cup {<<"spawn", Cables[cursor]>>}
      BY <1>9 DEF SpawnCable, SpawnDone, SpawnFails
    <3>2. QED BY <1>0, <3>1 DEF CablesStand
  <2>3. CASE SpawnDone(Cables[cursor]) /\ cursor' = cursor + 1 /\ pc' = "cables"
    <3>1. /\ world'[Cables[cursor]].plain
          /\ \A m \in Name : world[m].plain => world'[m].plain
      BY <2>1, <2>3, SpawnedStands DEF SpawnDone
    <3>2. ASSUME NEW i \in DOMAIN Cables, i < cursor' PROVE world'[Cables[i]].plain
      <4>1. i \in Nat /\ (i = cursor \/ i < cursor)
        BY <2>1, <2>3, <3>2, EngineAssumption
      <4>2. pc = "cables" BY <1>9 DEF SpawnCable
      <4>3. QED BY <1>0, <3>1, <3>2, <4>1, <4>2, CableNames DEF CablesStand
    <3>3. QED BY <2>2, <2>3, <3>2 DEF CablesStand
  <2>4. CASE cursor' = 1 /\ StageFailed("retry_reset")
    BY <2>2, <2>4 DEF CablesStand
  <2>5. QED BY <1>9, <2>3, <2>4 DEF SpawnCable
<1>10. CASE Settle
  <2>1. \A i \in DOMAIN Cables : i < cursor
    BY <1>10, EngineAssumption DEF Settle, TInv, TypeOK
  <2>2. QED BY <1>0, <1>10, <2>1 DEF Settle, CablesStand
<1>11. CASE DeleteEntity
  BY <1>0, <1>11 DEF DeleteEntity, DeleteIsSlow, CablesStand
<1>12. CASE SimulatorReset
  BY <1>0, <1>12 DEF SimulatorReset, CablesStand
<1>13. ASSUME NEW n \in Name, LateSpawn(n) PROVE CablesStand'
  <2>1. /\ \A m \in Name : <<"delete", m>> \notin late'
        /\ \A m \in Name : world[m].plain => world'[m].plain
    BY <1>0, <1>13, SpawnedStands DEF LateSpawn, CablesStand
  <2>2. QED BY <1>0, <1>13, <2>1, QuietStand DEF LateSpawn
<1>14. ASSUME NEW n \in Name, LateDelete(n) PROVE CablesStand'
  BY <1>0, <1>14 DEF LateDelete, CablesStand
<1>15. QED
  BY <1>1, <1>2, <1>3, <1>4, <1>5, <1>6, <1>7, <1>8, <1>9, <1>10, <1>11, <1>12, <1>13, <1>14
     DEF Next, Engine, Environment

\* A goal goes out with each cable in the scene, also after a spawn that was
\* given up and carried out late, as long as no deletion was refused or late;
\* and as long as no spawn was late either, with none of them twice.
THEOREM SceneIsClean == Spec => []SceneAtGoal
<1>1. SceneInv /\ StandInv => SceneAtGoal
  BY CableNames DEF SceneInv, Scene, StandInv, CablesStand, SceneAtGoal, StandingPc, GoalPc
<1>2. Init => StandInv
  BY DEF Init, StandInv, CablesStand, DeletePc, StandingPc, GoalPc
<1>3. QED BY <1>1, <1>2, StandStep, SceneInvariant, TypeInvariant, PTL DEF Spec

-----------------------------------------------------------------------------
(***************************************************************************)
(* A run in which no call fails.                                           *)
(***************************************************************************)

LEMMA Targets ==
  /\ Target("unconfigured", "configure") = {"inactive"}
  /\ Target("inactive", "activate") = {"active"}
  /\ Target("active", "deactivate") = {"inactive"}
  /\ Target("inactive", "cleanup") = {"unconfigured"}
  /\ Target("unconfigured", "shutdown") = {"finalized"}
<1> DEFINE Edge == {<<"unconfigured", "configure", "inactive">>,
                    <<"inactive", "activate", "active">>,
                    <<"active", "deactivate", "inactive">>,
                    <<"inactive", "cleanup", "unconfigured">>,
                    <<"unconfigured", "shutdown", "finalized">>}
<1>1. \A s, t : Target(s, t) = {e[3] : e \in {e \in Edge : e[1] = s /\ e[2] = t}}
  BY DEF Target
<1>2. \A s, t, u : u \in Target(s, t) <=> \E e \in Edge : e[1] = s /\ e[2] = t /\ u = e[3]
  BY <1>1
<1>3. QED BY <1>2

\* A valid request to the node that does not fail is carried out.
LEMMA TransitionUnfailed ==
  ASSUME NEW t, NEW s, Target(model, t) = {s}, late_transitions = <<>>, ~failed',
         TransitionDone(t) \/ TransitionFails(t)
  PROVE  /\ TransitionDone(t) /\ ~failed
         /\ model' = s /\ late_transitions' = <<>>
BY DEF TransitionDone, TransitionFails, Valid, Fault, NoFault, TimesOut

LEMMA UnfailedModel ==
  ASSUME TInv, Unfailed, ~failed',
         \/ Discover \/ ModelIsUnconfigured \/ Configure \/ ProbeGoal \/ Activate
         \/ ResetAfterTrial \/ CleanupModel \/ ShutdownModel
  PROVE  Unfailed'
<1> USE DEF Unfailed, GiveUp, Fault, NoFault, trialVars, flagVars, simVars, modelVars,
            controlVars, ModelPc, SimulatorPc, GoalPc, ResetPc, TrialPc, EndPc, StandingPc
<1>1. CASE Discover BY <1>1 DEF Discover
<1>2. CASE ModelIsUnconfigured BY <1>2 DEF ModelIsUnconfigured
<1>3. CASE Configure
  <2>1. model' = "inactive" /\ late_transitions' = <<>> /\ pc' = "probe" /\ UNCHANGED stop
    BY <1>3, Targets, TransitionUnfailed DEF Configure, TransitionDone, TransitionFails, Valid, TimesOut
  <2>2. QED BY <1>3, <2>1 DEF Configure
<1>4. CASE ProbeGoal BY <1>4 DEF ProbeGoal
<1>5. CASE Activate
  <2>1. model' = "active" /\ late_transitions' = <<>> /\ pc' = "endpoints" /\ UNCHANGED stop
    BY <1>5, Targets, TransitionUnfailed DEF Activate, TransitionDone, TransitionFails, Valid, TimesOut
  <2>2. QED BY <1>5, <2>1 DEF Activate
<1>6. CASE ResetAfterTrial
  <2>1. model' = "inactive" /\ late_transitions' = <<>>
    BY <1>6, Targets, TransitionUnfailed DEF ResetAfterTrial
  <2>2. QED BY <1>6, <2>1 DEF ResetAfterTrial
<1>7. CASE CleanupModel
  <2>1. model' = "unconfigured" /\ late_transitions' = <<>>
    BY <1>7, Targets, TransitionUnfailed DEF CleanupModel, EndModel
  <2>2. QED BY <1>7, <2>1 DEF CleanupModel, EndModel
<1>8. CASE ShutdownModel
  <2>1. model' = "finalized" /\ late_transitions' = <<>>
    BY <1>8, Targets, TransitionUnfailed DEF ShutdownModel, EndModel
  <2>2. QED BY <1>8, <2>1 DEF ShutdownModel, EndModel
<1>9. QED BY <1>1, <1>2, <1>3, <1>4, <1>5, <1>6, <1>7, <1>8

LEMMA UnfailedSimulator ==
  ASSUME TInv, Unfailed, ~failed',
         \/ CheckEndpoints \/ SpawnBoard \/ Tare \/ SpawnCable \/ Settle \/ ReadyScoring
         \/ DeleteEntity \/ SimulatorReset
         \/ \E n \in Name : LateSpawn(n) \/ LateDelete(n)
  PROVE  Unfailed'
<1> USE DEF Unfailed, SpawnDone, SpawnFails, StageDone, Fault, NoFault, TimesOut, trialVars,
            flagVars, simVars, modelVars, controlVars, ModelPc, SimulatorPc, GoalPc, ResetPc,
            TrialPc, EndPc, StandingPc
<1>1. CASE CheckEndpoints BY <1>1 DEF CheckEndpoints
<1>2. CASE SpawnBoard BY <1>2 DEF SpawnBoard
<1>3. CASE Tare BY <1>3 DEF Tare
<1>4. CASE SpawnCable BY <1>4 DEF SpawnCable
<1>5. CASE Settle BY <1>5 DEF Settle
<1>6. CASE ReadyScoring BY <1>6 DEF ReadyScoring
<1>7. CASE DeleteEntity BY <1>7 DEF DeleteEntity
<1>8. CASE SimulatorReset BY <1>8 DEF SimulatorReset
<1>9. CASE \E n \in Name : LateSpawn(n) \/ LateDelete(n)
  BY <1>9 DEF LateSpawn, LateDelete
<1>10. QED BY <1>1, <1>2, <1>3, <1>4, <1>5, <1>6, <1>7, <1>8, <1>9

LEMMA UnfailedRest ==
  ASSUME TInv, Unfailed, ~failed',
         \/ Begin \/ NextTrial \/ SendGoal \/ GoalResponse \/ GoalResult \/ CheckTasks
         \/ ScoreTrial \/ HomeOff \/ HomeJoints \/ HomeOn \/ TrialEnd \/ FinishRun
         \/ LateTransition \/ LateSwitch \/ UNCHANGED vars
  PROVE  Unfailed'
<1>1. /\ NTrials \in Nat \ {0} /\ trial \in 0..NTrials
      /\ pc \in TrialPc => trial \in 1..NTrials
      /\ pc \in TrialPc \cup {"run"} => engine_state = "Running"
      /\ pc = "begin" => trial = 0
  BY EngineAssumption DEF TInv, IInv, Shape, RunShape
<1> USE DEF Unfailed, Fault, NoFault, TimesOut, trialVars, flagVars, simVars, modelVars,
            controlVars, ModelPc, SimulatorPc, GoalPc, ResetPc, TrialPc, EndPc, StandingPc
<1>2. CASE Begin BY <1>1, <1>2 DEF Begin
<1>3. CASE NextTrial
  <2>1. CASE trial < NTrials
    <3>1. trial' = trial + 1 /\ trial' - 1 = trial
      BY <1>1, <1>3, <2>1 DEF NextTrial
    <3>2. scored' = 1..(trial' - 1)
      BY <1>3, <3>1 DEF NextTrial
    <3>3. trial = 0 \/ model_discovered
      BY <1>3 DEF NextTrial
    <3>4. QED BY <1>3, <2>1, <3>2 DEF NextTrial
  <2>2. CASE ~(trial < NTrials)
    <3>1. trial = NTrials /\ trial # 0
      BY <1>1, <2>2
    <3>2. QED BY <1>1, <1>3, <2>2, <3>1 DEF NextTrial
  <2>3. QED BY <2>1, <2>2
<1>4. CASE SendGoal BY <1>4 DEF SendGoal
<1>5. CASE GoalResponse BY <1>5 DEF GoalResponse
<1>6. CASE GoalResult BY <1>6 DEF GoalResult
<1>7. CASE CheckTasks BY <1>7 DEF CheckTasks
<1>8. CASE ScoreTrial
  <2>1. 1..(trial - 1) \cup {trial} = 1..trial
    BY <1>1, <1>8 DEF ScoreTrial
  <2>2. scored' = 1..trial /\ ~recording' /\ trial' = trial
    BY <1>8, <2>1 DEF ScoreTrial
  <2>3. QED BY <1>8, <2>2 DEF ScoreTrial
<1>9. CASE HomeOff BY <1>9 DEF HomeOff, Switch
<1>10. CASE HomeJoints BY <1>10 DEF HomeJoints
<1>11. CASE HomeOn BY <1>11 DEF HomeOn, Switch
<1>12. CASE TrialEnd BY <1>1, <1>12 DEF TrialEnd
<1>13. CASE FinishRun BY <1>13 DEF FinishRun
<1>14. CASE LateTransition \/ LateSwitch BY <1>14 DEF LateTransition, LateSwitch
<1>15. CASE UNCHANGED vars BY <1>15 DEF vars
<1>16. QED
  BY <1>2, <1>3, <1>4, <1>5, <1>6, <1>7, <1>8, <1>9, <1>10, <1>11, <1>12, <1>13, <1>14, <1>15

LEMMA FailedIsSticky ==
  ASSUME [Next]_vars, failed
  PROVE  failed'
<1> USE DEF Fault, NoFault, TimesOut, TransitionDone, TransitionFails, SpawnDone, SpawnFails
<1>1. CASE \/ Begin \/ NextTrial \/ Discover \/ ModelIsUnconfigured \/ Configure
           \/ ProbeGoal \/ Activate
  BY <1>1 DEF Begin, NextTrial, Discover, ModelIsUnconfigured, Configure, ProbeGoal, Activate
<1>2. CASE CheckEndpoints \/ SpawnBoard \/ Tare \/ SpawnCable \/ Settle \/ ReadyScoring
  BY <1>2 DEF CheckEndpoints, SpawnBoard, Tare, SpawnCable, Settle, ReadyScoring
<1>3. CASE SendGoal \/ GoalResponse \/ GoalResult \/ CheckTasks \/ ScoreTrial
  BY <1>3 DEF SendGoal, GoalResponse, GoalResult, CheckTasks, ScoreTrial
<1>4. CASE \/ ResetAfterTrial \/ DeleteEntity \/ SimulatorReset \/ HomeOff \/ HomeJoints
           \/ HomeOn \/ TrialEnd
  BY <1>4 DEF ResetAfterTrial, DeleteEntity, SimulatorReset, HomeOff, HomeJoints, HomeOn,
     Switch, TrialEnd
<1>5. CASE CleanupModel \/ ShutdownModel \/ FinishRun
  BY <1>5 DEF CleanupModel, ShutdownModel, EndModel, FinishRun
<1>6. CASE Environment \/ UNCHANGED vars
  BY <1>6 DEF Environment, LateTransition, LateSwitch, LateSpawn, LateDelete, vars
<1>7. QED BY <1>1, <1>2, <1>3, <1>4, <1>5, <1>6 DEF Next, Engine

LEMMA CleanStep == TInv /\ CleanInv /\ [Next]_vars => CleanInv'
<1> SUFFICES ASSUME TInv, CleanInv, [Next]_vars, ~failed' PROVE Unfailed'
  BY DEF CleanInv
<1>1. Unfailed
  BY FailedIsSticky DEF CleanInv
<1>2. QED
  BY <1>1, UnfailedModel, UnfailedSimulator, UnfailedRest DEF Next, Engine, Environment

LEMMA CleanInvariant == Spec => []CleanInv
<1>1. Init => CleanInv
  <2>1. 1..0 = {}
    OBVIOUS
  <2>2. QED
    BY <2>1 DEF Init, CleanInv, Unfailed, ModelPc, SimulatorPc, GoalPc, ResetPc, TrialPc, EndPc,
       StandingPc
<1>2. QED
  BY <1>1, CleanStep, TypeInvariant, PTL DEF Spec

\* A run in which no call failed ends Completed, with every trial scored, the
\* model shut down, the recorder idle, the simulator empty and the controller
\* active, whatever the policy did with its tasks.
THEOREM RunEndsClean == Spec => []CleanFinish
<1>1. TInv /\ SceneInv /\ CleanInv => CleanFinish
  <2> SUFFICES ASSUME TInv, Scene, Unfailed, pc = "finished" PROVE CleanFinish
    BY DEF CleanFinish, SceneInv, CleanInv, Unfailed
  <2>1. \A n \in Name : world[n] = [plain |-> FALSE, renamed |-> FALSE]
    <3>1. world \in [Name -> [plain : BOOLEAN, renamed : BOOLEAN]]
      BY DEF TInv, TypeOK
    <3>2. \A n \in Name : ~world[n].plain /\ ~world[n].renamed
      BY DEF Scene, BarePc
    <3>3. QED BY <3>1, <3>2
  <2>2. QED
    BY <2>1 DEF CleanFinish, Unfailed, StandingPc, GoalPc
<1>2. QED BY <1>1, TypeInvariant, SceneInvariant, CleanInvariant, PTL

-----------------------------------------------------------------------------
(***************************************************************************)
(* The engine's side of TrialRecording.                                    *)
(***************************************************************************)

\* Until its reset a trial has no score, and from its first goal to its score
\* the recorder runs.
RecordedPc == {"send_goal", "goal_response", "result", "check_tasks", "score"}

RecordingInv ==
  /\ scored \subseteq 1..trial
  /\ pc \in TrialPc \ ResetPc => trial \notin scored
  /\ pc \in RecordedPc => recording

RecordingRefines == RecordingInv' /\ [Recording!Next]_(Recording!rvars)

\* A step of the engine that leaves the recorder alone goes on, or gives up.
LEMMA RecorderAlone ==
  ASSUME RecordingInv, UNCHANGED <<trial, scored, recording>>,
         \/ pc' = pc \/ pc' \notin TrialPc \ ResetPc
         \/ pc \in TrialPc \ ResetPc /\ pc' \in TrialPc \ (ResetPc \cup RecordedPc)
         \/ pc \in RecordedPc /\ pc' \in RecordedPc
  PROVE  RecordingRefines
BY DEF RecordingRefines, RecordingInv, RecordedPc, TrialPc, ModelPc, SimulatorPc, GoalPc, ResetPc,
       Recording!rvars

\* The recorder is started, or an attempt to start it fails.
LEMMA RecorderStarted ==
  ASSUME IInv, RecordingInv, ReadyScoring
  PROVE  RecordingRefines
<1>1. /\ pc = "scoring" /\ UNCHANGED <<trial, scored>> /\ recording' \in BOOLEAN
      /\ \/ pc' = "send_goal" /\ recording'
         \/ pc' \in {"scoring", "deactivate"}
  BY DEF ReadyScoring, StageDone, StageFailed, GiveUp
<1>2. trial \in 1..NTrials /\ trial \notin scored
  BY <1>1 DEF IInv, RunShape, RecordingInv, TrialPc, ResetPc
<1>3. RecordingInv'
  BY <1>1, <1>2 DEF RecordingInv, RecordedPc, TrialPc, ModelPc, SimulatorPc, GoalPc, ResetPc
<1>4. Recording!Attempt
  BY <1>1, <1>2 DEF Recording!Attempt
<1>5. QED
  BY <1>3, <1>4 DEF RecordingRefines, Recording!Next

\* The recording is stopped and scored, or left as it is.
LEMMA TrialScored ==
  ASSUME IInv, RecordingInv, ScoreTrial
  PROVE  RecordingRefines
<1>1. /\ pc = "score" /\ pc' = "deactivate" /\ trial' = trial
      /\ \/ recording' = FALSE /\ scored' = scored \cup {trial}
         \/ UNCHANGED <<recording, scored>>
  BY DEF ScoreTrial
<1>2. trial \in 1..NTrials /\ trial \notin scored /\ recording
  BY <1>1 DEF IInv, RunShape, RecordingInv, RecordedPc, TrialPc, ResetPc
<1>3. RecordingInv'
  <2>1. scored' \subseteq 1..trial
    <3>1. scored \subseteq 1..trial
      BY DEF RecordingInv
    <3>2. trial \in 1..trial
      BY <1>2, EngineAssumption
    <3>3. QED
      BY <1>1, <3>1, <3>2
  <2>2. QED
    BY <1>1, <2>1 DEF RecordingInv, RecordedPc, TrialPc, ModelPc, SimulatorPc, GoalPc, ResetPc
<1>4. CASE UNCHANGED <<recording, scored>>
  BY <1>1, <1>3, <1>4 DEF RecordingRefines, Recording!rvars
<1>5. CASE recording' = FALSE /\ scored' = scored \cup {trial}
  <2>1. Recording!Score
    BY <1>1, <1>2, <1>5 DEF Recording!Score
  <2>2. QED
    BY <1>3, <2>1 DEF RecordingRefines, Recording!Next
<1>6. QED
  BY <1>1, <1>4, <1>5

\* The next trial has no score yet.
LEMMA RecordingTrialStep ==
  ASSUME IInv, RecordingInv, NextTrial
  PROVE  RecordingRefines
<1>1. CASE trial < NTrials
  <2>1. trial' = trial + 1 /\ pc' = "discover" /\ UNCHANGED <<scored, recording>>
    BY <1>1 DEF NextTrial
  <2>2. trial \in Nat
    BY EngineAssumption DEF IInv, Shape
  <2>3. RecordingInv'
    BY <2>1, <2>2 DEF RecordingInv, RecordedPc
  <2>4. Recording!NextTrial
    BY <1>1, <2>1 DEF Recording!NextTrial
  <2>5. QED
    BY <2>3, <2>4 DEF RecordingRefines, Recording!Next
<1>2. CASE ~(trial < NTrials)
  BY <1>2, RecorderAlone DEF NextTrial, TrialPc, ModelPc, SimulatorPc, GoalPc, ResetPc
<1>3. QED
  BY <1>1, <1>2

\* Every step is one of TrialRecording, or none.
LEMMA RecordingStep ==
  ASSUME IInv, RecordingInv, [Next]_vars
  PROVE  RecordingRefines
<1> USE DEF trialVars, TrialPc, ModelPc, SimulatorPc, GoalPc, ResetPc, RecordedPc
<1>1. CASE Begin \/ Discover \/ ModelIsUnconfigured \/ Configure \/ ProbeGoal \/ Activate
  BY <1>1, RecorderAlone
  DEF Begin, Discover, ModelIsUnconfigured, Configure, ProbeGoal, Activate, GiveUp
<1>2. CASE CheckEndpoints \/ SpawnBoard \/ Tare \/ SpawnCable \/ Settle
  BY <1>2, RecorderAlone
  DEF CheckEndpoints, SpawnBoard, Tare, SpawnCable, Settle, StageDone, StageFailed, GiveUp
<1>3. CASE SendGoal \/ GoalResponse \/ GoalResult \/ CheckTasks
  BY <1>3, RecorderAlone DEF SendGoal, GoalResponse, GoalResult, CheckTasks, GiveUp
<1>4. CASE ResetAfterTrial \/ HomeOff \/ HomeJoints \/ HomeOn \/ TrialEnd
  BY <1>4, RecorderAlone DEF ResetAfterTrial, HomeOff, HomeJoints, HomeOn, Switch, TrialEnd
<1>5. CASE DeleteEntity \/ SimulatorReset
  BY <1>5, RecorderAlone DEF DeleteEntity, SimulatorReset
<1>6. CASE CleanupModel \/ ShutdownModel \/ FinishRun
  BY <1>6, RecorderAlone DEF CleanupModel, ShutdownModel, EndModel, FinishRun
<1>7. CASE Environment \/ UNCHANGED vars
  BY <1>7, RecorderAlone
  DEF Environment, LateTransition, LateSwitch, LateSpawn, LateDelete, vars
<1>8. QED
  BY <1>1, <1>2, <1>3, <1>4, <1>5, <1>6, <1>7, RecorderStarted, TrialScored, RecordingTrialStep
  DEF Next, Engine

\* A run starts with nothing recorded and nothing scored.
LEMMA RecordingInit == Init => RecordingInv /\ Recording!Init
BY DEF Init, RecordingInv, RecordedPc, TrialPc, ModelPc, SimulatorPc, GoalPc, Recording!Init

\* run() and handle_trial() keep their side of TrialRecording: a trial is scored
\* at most once, from a recording that was started for it and still runs, and
\* the recorder is not touched otherwise.
THEOREM EngineImplementsTrialRecording == Spec => ImplementsTrialRecording
<1>1. IInv /\ RecordingInv /\ [Next]_vars => RecordingInv' /\ [Recording!Next]_(Recording!rvars)
  BY RecordingStep DEF RecordingRefines
<1>2. QED
  BY RecordingInit, ProgressInvariant, <1>1, PTL DEF Spec, ImplementsTrialRecording, Recording!Spec

==============================================================================
