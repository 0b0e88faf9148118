------------------------------ MODULE AicModel ------------------------------
(***************************************************************************)
(* The participant's lifecycle node of aic_model/aic_model/aic_model.py:   *)
(* an action server for insert_cable, the cancel_task service, the         *)
(* lifecycle callbacks and the policy threads, run by a                    *)
(* MultiThreadedExecutor.                                                  *)
(*                                                                         *)
(* Every action is a stretch of one callback, coroutine or thread that     *)
(* other threads may interleave with.  A callback is split where it reads  *)
(* a shared attribute and acts on it later.  The goal status machine, the  *)
(* delivery of results and what the executor does with an exception are    *)
(* the client library's (rclpy).                                           *)
(***************************************************************************)
EXTENDS Naturals, FiniteSets

CONSTANTS
  Goal,     \* the insert_cable goals that clients may request
  NoGoal    \* Python's None where a goal is expected

ASSUME NoGoalAssumption == NoGoal \notin Goal

VARIABLES
  up,                    \* the executor is spinning
  lifecycle,             \* state of the lifecycle node, transitions included
  is_active,             \* AicModel.is_active
  publishers,            \* the two command publishers
  status,                \* status of each goal in the action server
  exec,                  \* where the execute callback of each goal is
  goal_handle,           \* AicModel.goal_handle
  action_thread,         \* AicModel._action_thread, named by its goal
  action_thread_result,  \* AicModel._action_thread_result
  thread,                \* the policy thread of each goal, or what it returned
  cancel_task,           \* where the cancel_task service callback is
  result,                \* InsertCable.Result.success sent for each goal
  commander              \* the goal whose policy published the last command

goalVars      == <<status, exec, result>>
serverVars    == <<goal_handle, action_thread>>
threadVars    == <<action_thread_result, thread, commander>>
lifecycleVars == <<lifecycle, is_active, publishers>>
vars == <<up, lifecycleVars, goalVars, serverVars, threadVars, cancel_task>>

Terminal == {"succeeded", "canceled", "aborted"}
ActiveStatus == {"accepted", "executing", "canceling"}
Ended == {"true", "false", "raised"}
ExecState == {"none", "accepting", "ready", "waiting", "awake", "toCancel",
              "toStop", "toSucceed", "returned", "done"}

TypeOK ==
  /\ up \in BOOLEAN
  /\ lifecycle \in {"unconfigured", "inactive", "activating", "active",
                    "deactivating", "finalized"}
  /\ is_active \in BOOLEAN
  /\ publishers \in {"disabled", "enabled", "destroyed"}
  /\ status \in [Goal -> ActiveStatus \cup Terminal \cup {"none", "rejected"}]
  /\ exec \in [Goal -> ExecState]
  /\ goal_handle \in Goal \cup {NoGoal}
  /\ action_thread \in Goal \cup {NoGoal}
  /\ action_thread_result \in {"none", "true", "false"}
  /\ thread \in [Goal -> Ended \cup {"none", "running"}]
  /\ cancel_task \in {"idle", "abort"}
  /\ result \in [Goal -> {"none", "true", "false"}]
  /\ commander \in Goal \cup {NoGoal}

Init ==
  /\ up = TRUE
  /\ lifecycle = "unconfigured"
  /\ is_active = FALSE
  /\ publishers = "disabled"
  /\ status = [g \in Goal |-> "none"]
  /\ exec = [g \in Goal |-> "none"]
  /\ goal_handle = NoGoal
  /\ action_thread = NoGoal
  /\ action_thread_result = "none"
  /\ thread = [g \in Goal |-> "none"]
  /\ cancel_task = "idle"
  /\ result = [g \in Goal |-> "none"]
  /\ commander = NoGoal

\* ServerGoalHandle.is_active: the goal has no terminal status yet.
IsActive(g) == status[g] \in ActiveStatus

\* A service or lifecycle callback is in the middle of its body.  These, and
\* the timers of the execute loops, share the node's default callback group,
\* which runs one callback at a time.
DefaultGroupBusy ==
  \/ cancel_task # "idle"
  \/ lifecycle \in {"activating", "deactivating"}

Goto(g, pc) == exec' = [exec EXCEPT ![g] = pc]

-----------------------------------------------------------------------------
(***************************************************************************)
(* Lifecycle callbacks.  A request that is invalid in the present state    *)
(* fails in the client library and changes nothing.                        *)
(***************************************************************************)

\* The policy class is instantiated; an exception is reported as ERROR, which
\* takes the node back to unconfigured or to finalized.
OnConfigure ==
  /\ up /\ ~DefaultGroupBusy
  /\ lifecycle = "unconfigured"
  /\ lifecycle' \in {"inactive", "finalized"}
  /\ UNCHANGED <<up, is_active, publishers, goalVars, serverVars, threadVars,
                 cancel_task>>

\* is_active is raised before the library enables the publishers.
OnActivate ==
  /\ up /\ ~DefaultGroupBusy
  /\ lifecycle = "inactive"
  /\ lifecycle' = "activating"
  /\ is_active' = TRUE
  /\ UNCHANGED <<up, publishers, goalVars, serverVars, threadVars, cancel_task>>

OnActivateSuper ==
  /\ up
  /\ lifecycle = "activating"
  /\ lifecycle' = "active"
  /\ publishers' = "enabled"
  /\ UNCHANGED <<up, is_active, goalVars, serverVars, threadVars, cancel_task>>

OnDeactivate ==
  /\ up /\ ~DefaultGroupBusy
  /\ lifecycle = "active"
  /\ lifecycle' = "deactivating"
  /\ is_active' = FALSE
  /\ UNCHANGED <<up, publishers, goalVars, serverVars, threadVars, cancel_task>>

OnDeactivateSuper ==
  /\ up
  /\ lifecycle = "deactivating"
  /\ lifecycle' = "inactive"
  /\ publishers' = "disabled"
  /\ UNCHANGED <<up, is_active, goalVars, serverVars, threadVars, cancel_task>>

OnCleanup ==
  /\ up /\ ~DefaultGroupBusy
  /\ lifecycle = "inactive"
  /\ lifecycle' = "unconfigured"
  /\ is_active' = FALSE
  /\ UNCHANGED <<up, publishers, goalVars, serverVars, threadVars, cancel_task>>

OnShutdown ==
  /\ up /\ ~DefaultGroupBusy
  /\ lifecycle \in {"unconfigured", "inactive", "active"}
  /\ lifecycle' = "finalized"
  /\ is_active' = FALSE
  /\ publishers' = "destroyed"
  /\ UNCHANGED <<up, goalVars, serverVars, threadVars, cancel_task>>

Lifecycle ==
  \/ OnConfigure
  \/ OnActivate
  \/ OnActivateSuper
  \/ OnDeactivate
  \/ OnDeactivateSuper
  \/ OnCleanup
  \/ OnShutdown

-----------------------------------------------------------------------------
(***************************************************************************)
(* Goal requests and cancel requests.  They run in a reentrant callback    *)
(* group, so between the decision of the goal callback and the accepted    *)
(* callback any other callback may run, another goal callback included.    *)
(***************************************************************************)

InsertCableGoalCallback(g) ==
  /\ up
  /\ status[g] = "none"
  /\ IF is_active /\ ~(goal_handle # NoGoal /\ IsActive(goal_handle))
       THEN status' = [status EXCEPT ![g] = "accepted"] /\ Goto(g, "accepting")
       ELSE status' = [status EXCEPT ![g] = "rejected"] /\ UNCHANGED exec
  /\ UNCHANGED <<up, lifecycleVars, result, serverVars, threadVars, cancel_task>>

InsertCableAcceptedGoalCallback_NoHandle(g) ==
  /\ up
  /\ exec[g] = "accepting"
  /\ status' = [status EXCEPT ![g] = IF @ = "canceling" THEN @ ELSE "executing"]
  /\ Goto(g, "ready")
  /\ UNCHANGED <<up, lifecycleVars, result, serverVars, threadVars, cancel_task>>

\* goal_handle.execute() schedules the execute callback; a goal that is
\* already canceling stays so.
InsertCableAcceptedGoalCallback(g) ==
  /\ up
  /\ exec[g] = "accepting"
  /\ goal_handle' = g
  /\ status' = [status EXCEPT ![g] = IF @ = "canceling" THEN @ ELSE "executing"]
  /\ Goto(g, "ready")
  /\ UNCHANGED <<up, lifecycleVars, result, action_thread, threadVars, cancel_task>>

InsertCableCancelCallback(g) ==
  /\ up
  /\ status[g] \in {"accepted", "executing"}
  /\ status' = [status EXCEPT ![g] = "canceling"]
  /\ UNCHANGED <<up, lifecycleVars, exec, result, serverVars, threadVars, cancel_task>>

-----------------------------------------------------------------------------
(***************************************************************************)
(* The cancel_task service tests the goal it finds in goal_handle, then    *)
(* aborts the goal it finds there.                                         *)
(***************************************************************************)

CancelTaskTest ==
  /\ up /\ ~DefaultGroupBusy
  /\ goal_handle # NoGoal /\ IsActive(goal_handle)
  /\ cancel_task' = "abort"
  /\ UNCHANGED <<up, lifecycleVars, goalVars, serverVars, threadVars>>

\* The goal found the second time may be gone (None) or no longer abortable:
\* the exception leaves the service callback and ends executor.spin().
CancelTaskAbort ==
  /\ up
  /\ cancel_task = "abort"
  /\ cancel_task' = "idle"
  /\ IF goal_handle # NoGoal /\ status[goal_handle] \in {"executing", "canceling"}
       THEN status' = [status EXCEPT ![goal_handle] = "aborted"] /\ UNCHANGED up
       ELSE up' = FALSE /\ UNCHANGED status
  /\ UNCHANGED <<lifecycleVars, exec, result, serverVars, threadVars>>

-----------------------------------------------------------------------------
(***************************************************************************)
(* The execute callback of goal g: start the policy thread, then poll once *)
(* a second.  The poll chooses how to leave the loop ("to...") and the     *)
(* goal's status may change again before it does.                          *)
(***************************************************************************)

ExecuteStart_KeepsThread(g) ==
  /\ up
  /\ exec[g] = "ready"
  /\ Goto(g, "waiting")
  /\ action_thread_result' = "none"
  /\ action_thread' = IF action_thread = NoGoal THEN g ELSE action_thread
  /\ thread' = [thread EXCEPT ![g] = "running"]
  /\ UNCHANGED <<up, lifecycleVars, status, result, goal_handle, commander, cancel_task>>

ExecuteStart(g) ==
  /\ up
  /\ exec[g] = "ready"
  /\ Goto(g, "waiting")
  /\ action_thread_result' = "none"
  /\ action_thread' = g
  /\ thread' = [thread EXCEPT ![g] = "running"]
  /\ UNCHANGED <<up, lifecycleVars, status, result, goal_handle, commander, cancel_task>>

\* done_waiting: the timer of the loop is in the default callback group.
DoneWaiting(g) ==
  /\ up /\ ~DefaultGroupBusy
  /\ exec[g] = "waiting"
  /\ Goto(g, "awake")
  /\ UNCHANGED <<up, lifecycleVars, status, result, serverVars, threadVars, cancel_task>>

ExecutePoll_IgnoresCancel(g) ==
  /\ up
  /\ exec[g] = "awake"
  /\ \/ (~IsActive(g) \/ ~is_active) /\ Goto(g, "toStop")
     \/ /\ IsActive(g) /\ is_active
        /\ \/ thread[action_thread] # "running" /\ Goto(g, "toSucceed")
           \/ thread[action_thread] = "running" /\ Goto(g, "waiting")
  /\ UNCHANGED <<up, lifecycleVars, status, result, serverVars, threadVars, cancel_task>>

\* Cancel request first, then abort or deactivation, then the policy's end.
ExecutePoll(g) ==
  /\ up
  /\ exec[g] = "awake"
  /\ \/ status[g] = "canceling" /\ Goto(g, "toCancel")
     \/ /\ status[g] # "canceling"
        /\ \/ (~IsActive(g) \/ ~is_active) /\ Goto(g, "toStop")
           \/ /\ IsActive(g) /\ is_active
              /\ \/ thread[action_thread] # "running" /\ Goto(g, "toSucceed")
                 \/ thread[action_thread] = "running" /\ Goto(g, "waiting")
  /\ UNCHANGED <<up, lifecycleVars, status, result, serverVars, threadVars, cancel_task>>

Return(g, success) ==
  /\ Goto(g, "returned")
  /\ result' = [result EXCEPT ![g] = success]

\* canceled() raises when the goal was aborted meanwhile; the library then
\* answers with an empty result, and goal_handle keeps its value.
ExecuteCanceled(g) ==
  /\ up
  /\ exec[g] = "toCancel"
  /\ IF status[g] = "canceling"
       THEN status' = [status EXCEPT ![g] = "canceled"] /\ goal_handle' = NoGoal
       ELSE UNCHANGED <<status, goal_handle>>
  /\ Return(g, "false")
  /\ UNCHANGED <<up, lifecycleVars, action_thread, threadVars, cancel_task>>

ExecuteStopped_SendsResult(g) ==
  /\ up
  /\ exec[g] = "toStop"
  /\ goal_handle' = NoGoal
  /\ Return(g, action_thread_result)
  /\ UNCHANGED <<up, lifecycleVars, status, action_thread, threadVars, cancel_task>>

\* Aborted by cancel_task, or the node is not active.
ExecuteStopped(g) ==
  /\ up
  /\ exec[g] = "toStop"
  /\ goal_handle' = NoGoal
  /\ Return(g, "false")
  /\ UNCHANGED <<up, lifecycleVars, status, action_thread, threadVars, cancel_task>>

\* succeed() raises when the goal was aborted meanwhile.  Assigning a result
\* of None to the message raises too, after the goal has succeeded, where the
\* message classes check their fields; elsewhere None is sent as False.
ExecuteSucceeded(g) ==
  /\ up
  /\ exec[g] = "toSucceed"
  /\ IF IsActive(g)
       THEN /\ status' = [status EXCEPT ![g] = "succeeded"]
            /\ IF action_thread_result = "none"
                 THEN Return(g, "false") /\ goal_handle' \in {goal_handle, NoGoal}
                 ELSE Return(g, action_thread_result) /\ goal_handle' = NoGoal
       ELSE Return(g, "false") /\ UNCHANGED <<status, goal_handle>>
  /\ UNCHANGED <<up, lifecycleVars, action_thread, threadVars, cancel_task>>

\* The library aborts a goal whose callback ended without a terminal status,
\* then delivers the result.
GoalFinished(g) ==
  /\ up
  /\ exec[g] = "returned"
  /\ status' = [status EXCEPT ![g] = IF IsActive(g) THEN "aborted" ELSE @]
  /\ Goto(g, "done")
  /\ UNCHANGED <<up, lifecycleVars, result, serverVars, threadVars, cancel_task>>

ExecuteLoop(g) ==
  \/ ExecuteStart(g)
  \/ ExecutePoll(g)
  \/ ExecuteCanceled(g)
  \/ ExecuteStopped(g)
  \/ ExecuteSucceeded(g)
  \/ GoalFinished(g)

-----------------------------------------------------------------------------
(***************************************************************************)
(* The policy thread of goal g.  Nothing stops it: it ends when            *)
(* insert_cable returns or raises.                                         *)
(***************************************************************************)

\* move_robot publishes; a disabled publisher drops the command.
MoveRobot(g) ==
  /\ up
  /\ thread[g] = "running"
  /\ publishers = "enabled"
  /\ commander' = g
  /\ UNCHANGED <<up, lifecycleVars, goalVars, serverVars, action_thread_result,
                 thread, cancel_task>>

\* None counts as False.  An exception leaves _action_thread_result alone.
PolicyEnds(g) ==
  /\ up
  /\ thread[g] = "running"
  /\ \E r \in Ended :
       /\ thread' = [thread EXCEPT ![g] = r]
       /\ action_thread_result' = IF r = "raised" THEN action_thread_result ELSE r
  /\ UNCHANGED <<up, lifecycleVars, goalVars, serverVars, commander, cancel_task>>

-----------------------------------------------------------------------------
\* Everything but the arrival of a goal request.
Handle ==
  \/ Lifecycle
  \/ CancelTaskTest
  \/ CancelTaskAbort
  \/ \E g \in Goal :
       \/ InsertCableAcceptedGoalCallback(g)
       \/ InsertCableCancelCallback(g)
       \/ DoneWaiting(g)
       \/ ExecuteLoop(g)
       \/ MoveRobot(g)
       \/ PolicyEnds(g)

\* Clients that send goals whenever they like.
Next == Handle \/ \E g \in Goal : InsertCableGoalCallback(g)

Spec == Init /\ [][Next]_vars

\* A client that sends a goal only when every earlier one was answered.
AllAnswered == \A g \in Goal : exec[g] \in {"none", "done"}

SerialNext == Handle \/ \E g \in Goal : AllAnswered /\ InsertCableGoalCallback(g)

SerialSpec == Init /\ [][SerialNext]_vars

\* The executor runs every callback that is ready.  Its scan of the ready
\* entities starts with the timers, so a timer that finds its group free time
\* and again is taken: strong fairness.  Clients and policies owe nothing.
Fairness ==
  /\ WF_vars(OnActivateSuper)
  /\ WF_vars(OnDeactivateSuper)
  /\ WF_vars(CancelTaskAbort)
  /\ \A g \in Goal :
       /\ WF_vars(InsertCableAcceptedGoalCallback(g))
       /\ WF_vars(ExecuteLoop(g))
       /\ SF_vars(DoneWaiting(g))

FairSerialSpec == SerialSpec /\ Fairness

-----------------------------------------------------------------------------
(***************************************************************************)
(* Properties for any client.                                              *)
(***************************************************************************)

\* A goal whose answer went out has a terminal status, and the answer says
\* success only together with SUCCEEDED, whatever cancellation, abort or
\* deactivation arrived between the poll and the status change.  aic_engine
\* looks only at success, other clients only at the status.
AnswerAgreesWithStatus ==
  \A g \in Goal :
    /\ exec[g] = "done" => status[g] \in Terminal /\ result[g] # "none"
    /\ result[g] = "true" => status[g] = "succeeded"

\* Success is never reported before some policy call has returned True.
SuccessWasReturned ==
  \A g \in Goal : result[g] = "true" => \E h \in Goal : thread[h] = "true"

\* A command reaches the robot only while the node is active, or in the
\* middle of leaving that state, however long a stale policy thread lives.
CommandsOnlyWhileActive ==
  [][commander' # commander => lifecycle \in {"active", "deactivating"}]_vars

(***************************************************************************)
(* Properties for a client that waits for each answer.                     *)
(***************************************************************************)

\* While a goal is being executed, goal_handle names it: cancel_task reaches
\* it and a second goal is rejected.
HandleNamesRunningGoal ==
  \A g \in Goal :
    IsActive(g) /\ exec[g] \notin {"accepting", "returned"} => goal_handle = g

\* A goal succeeds only after its own policy call has ended, although the
\* loop tests whatever thread _action_thread holds.
SucceededAfterOwnPolicy ==
  \A g \in Goal : status[g] = "succeeded" => thread[g] \in Ended

(***************************************************************************)
(* Liveness, unless the executor died of an exception.                     *)
(***************************************************************************)

\* A cancel request ends the goal, even if the policy never returns.
CancelEndsGoal ==
  \A g \in Goal : status[g] = "canceling" ~> status[g] \in Terminal \/ ~up

\* A node that stays deactivated ends every goal it had, and begins no other.
DeactivationEndsGoals ==
  <>[](~is_active) => <>[](~up \/ \A g \in Goal : ~IsActive(g))

\* Once the policy call of an active goal has ended, the goal ends.
PolicyEndEndsGoal ==
  \A g \in Goal : thread[g] \in Ended ~> status[g] \in Terminal \/ ~up

\* Whatever should end a goal ends it: a cancellation, a deactivation that lasts,
\* the end of its policy.
GoalsEnd == CancelEndsGoal /\ DeactivationEndsGoals /\ PolicyEndEndsGoal

(***************************************************************************)
(* What the program's own texts say and its code does not do.              *)
(***************************************************************************)

\* "A goal is active and must be canceled before a new insert_cable goal can
\* begin": a goal callback that accepts finds no other goal in its loop.
NoGoalBeginsBesideAnActiveOne ==
  [][\A g \in Goal : status[g] = "none" /\ status'[g] = "accepted"
       => \A h \in Goal : ~(IsActive(h) /\ exec[h] = "waiting")]_vars

\* InsertCable.action says of success: "True if the task succeeded", and the
\* task is what the goal's own insert_cable call attempted.
SuccessIsOwnPolicys ==
  \A g \in Goal : result[g] = "true" => thread[g] = "true"

=============================================================================
