--------------------------- MODULE AicModelProofs ---------------------------
(***************************************************************************)
(* Theorems about AicModel, for every set of goals.                        *)
(***************************************************************************)
EXTENDS AicModel, TLAPS

\* The execute callback of g has been scheduled and has not returned.
InLoop(g) == exec[g] \in {"ready", "waiting", "awake", "toCancel", "toStop", "toSucceed"}

\* Goal g has a callback in the action server.
Live(g) == exec[g] \notin {"none", "done"}

-----------------------------------------------------------------------------
(***************************************************************************)
(* Type correctness.                                                       *)
(***************************************************************************)

LEMMA TypeLifecycle == TypeOK /\ Lifecycle => TypeOK'
<1> SUFFICES ASSUME TypeOK, Lifecycle PROVE TypeOK'
  OBVIOUS
<1> USE DEF TypeOK, lifecycleVars, goalVars, serverVars, threadVars
<1>1. CASE OnConfigure BY <1>1 DEF OnConfigure
<1>2. CASE OnActivate BY <1>2 DEF OnActivate
<1>3. CASE OnActivateSuper BY <1>3 DEF OnActivateSuper
<1>4. CASE OnDeactivate BY <1>4 DEF OnDeactivate
<1>5. CASE OnDeactivateSuper BY <1>5 DEF OnDeactivateSuper
<1>6. CASE OnCleanup BY <1>6 DEF OnCleanup
<1>7. CASE OnShutdown BY <1>7 DEF OnShutdown
<1>8. QED BY <1>1, <1>2, <1>3, <1>4, <1>5, <1>6, <1>7 DEF Lifecycle

LEMMA TypeGoal ==
  ASSUME NEW g \in Goal, TypeOK,
         \/ InsertCableGoalCallback(g) \/ InsertCableAcceptedGoalCallback(g)
         \/ InsertCableCancelCallback(g)
  PROVE  TypeOK'
<1> USE DEF TypeOK, lifecycleVars, goalVars, serverVars, threadVars, Goto,
            ActiveStatus, Terminal, ExecState
<1>1. CASE InsertCableGoalCallback(g) BY <1>1 DEF InsertCableGoalCallback
<1>2. CASE InsertCableAcceptedGoalCallback(g)
  BY <1>2 DEF InsertCableAcceptedGoalCallback
<1>3. CASE InsertCableCancelCallback(g) BY <1>3 DEF InsertCableCancelCallback
<1>4. QED BY <1>1, <1>2, <1>3

LEMMA TypeLoop ==
  ASSUME NEW g \in Goal, TypeOK, DoneWaiting(g) \/ ExecuteLoop(g)
  PROVE  TypeOK'
<1> USE DEF TypeOK, lifecycleVars, goalVars, serverVars, threadVars, Goto, Return,
            Ended, ActiveStatus, Terminal, ExecState
<1>1. CASE DoneWaiting(g) BY <1>1 DEF DoneWaiting
<1>2. CASE ExecuteStart(g) BY <1>2 DEF ExecuteStart
<1>3. CASE ExecutePoll(g) BY <1>3 DEF ExecutePoll
<1>4. CASE ExecuteCanceled(g) BY <1>4 DEF ExecuteCanceled
<1>5. CASE ExecuteStopped(g) BY <1>5 DEF ExecuteStopped
<1>6. CASE ExecuteSucceeded(g) BY <1>6 DEF ExecuteSucceeded
<1>7. CASE GoalFinished(g) BY <1>7 DEF GoalFinished
<1>8. QED BY <1>1, <1>2, <1>3, <1>4, <1>5, <1>6, <1>7 DEF ExecuteLoop

LEMMA TypeStep == TypeOK /\ [Next]_vars => TypeOK'
<1> SUFFICES ASSUME TypeOK, [Next]_vars PROVE TypeOK'
  OBVIOUS
<1>1. CASE Lifecycle BY <1>1, TypeLifecycle
<1>2. CASE CancelTaskTest
  BY <1>2 DEF CancelTaskTest, TypeOK, lifecycleVars, goalVars, serverVars, threadVars
<1>3. CASE CancelTaskAbort
  BY <1>3 DEF CancelTaskAbort, TypeOK, lifecycleVars, serverVars, threadVars, Terminal
<1>4. ASSUME NEW g \in Goal,
             \/ InsertCableGoalCallback(g) \/ InsertCableAcceptedGoalCallback(g)
             \/ InsertCableCancelCallback(g)
      PROVE  TypeOK'
  BY <1>4, TypeGoal
<1>5. ASSUME NEW g \in Goal, DoneWaiting(g) \/ ExecuteLoop(g) PROVE TypeOK'
  BY <1>5, TypeLoop
<1>6. ASSUME NEW g \in Goal, MoveRobot(g) PROVE TypeOK'
  BY <1>6 DEF MoveRobot, TypeOK, lifecycleVars, goalVars, serverVars
<1>7. ASSUME NEW g \in Goal, PolicyEnds(g) PROVE TypeOK'
  BY <1>7 DEF PolicyEnds, TypeOK, lifecycleVars, goalVars, serverVars, Ended
<1>8. CASE UNCHANGED vars
  BY <1>8 DEF TypeOK, vars, lifecycleVars, goalVars, serverVars, threadVars
<1>9. QED BY <1>1, <1>2, <1>3, <1>4, <1>5, <1>6, <1>7, <1>8 DEF Next, Handle

\* Every variable keeps its type in every behaviour of the node.
THEOREM TypeCorrect == Spec => []TypeOK
<1>1. Init => TypeOK
  BY DEF Init, TypeOK, ExecState
<1>2. QED BY <1>1, TypeStep, PTL DEF Spec

-----------------------------------------------------------------------------
(***************************************************************************)
(* The answer of a goal.  The invariant ties the place of the execute      *)
(* callback to the goal's status, which other callbacks change under it:   *)
(* a goal waiting for its accepted callback is not yet in goal_handle, so  *)
(* cancel_task cannot abort it, and a goal past it is never left in        *)
(* "accepted", so the library can abort it when the callback returns.      *)
(***************************************************************************)

StatusOf(g) ==
  /\ exec[g] = "none" => status[g] \in {"none", "rejected"}
  /\ exec[g] = "accepting" => status[g] \in {"accepted", "canceling"}
  /\ exec[g] \in {"none", "accepting"} => goal_handle # g
  /\ InLoop(g) \/ exec[g] = "returned"
       => status[g] \in {"executing", "canceling"} \cup Terminal
  /\ exec[g] = "done" => status[g] \in Terminal
  /\ exec[g] \in {"returned", "done"} => result[g] # "none"
  /\ result[g] = "true" => status[g] = "succeeded"

StatusInv == TypeOK /\ \A g \in Goal : StatusOf(g)

LEMMA StatusGoal ==
  ASSUME NEW g \in Goal, StatusInv,
         \/ InsertCableGoalCallback(g) \/ InsertCableAcceptedGoalCallback(g)
         \/ InsertCableCancelCallback(g) \/ DoneWaiting(g) \/ ExecuteLoop(g),
         NEW h \in Goal
  PROVE  StatusOf(h)'
<1> USE NoGoalAssumption DEF StatusInv, StatusOf, TypeOK, InLoop, Goto, Return,
        IsActive, ActiveStatus, Terminal, ExecState, Ended
<1>1. CASE InsertCableGoalCallback(g) BY <1>1 DEF InsertCableGoalCallback, serverVars
<1>2. CASE InsertCableAcceptedGoalCallback(g)
  BY <1>2 DEF InsertCableAcceptedGoalCallback
<1>3. CASE InsertCableCancelCallback(g) BY <1>3 DEF InsertCableCancelCallback, serverVars
<1>4. CASE DoneWaiting(g) BY <1>4 DEF DoneWaiting, serverVars
<1>5. CASE ExecuteStart(g) BY <1>5 DEF ExecuteStart
<1>6. CASE ExecutePoll(g) BY <1>6 DEF ExecutePoll, serverVars
<1>7. CASE ExecuteCanceled(g) BY <1>7 DEF ExecuteCanceled
<1>8. CASE ExecuteStopped(g) BY <1>8 DEF ExecuteStopped
<1>9. CASE ExecuteSucceeded(g) BY <1>9 DEF ExecuteSucceeded
<1>10. CASE GoalFinished(g) BY <1>10 DEF GoalFinished, serverVars
<1>11. QED
  BY <1>1, <1>2, <1>3, <1>4, <1>5, <1>6, <1>7, <1>8, <1>9, <1>10 DEF ExecuteLoop

LEMMA StatusStep == StatusInv /\ [Next]_vars => StatusInv'
<1> SUFFICES ASSUME StatusInv, [Next]_vars PROVE StatusInv'
  OBVIOUS
<1>1. TypeOK' BY TypeStep DEF StatusInv
<1> SUFFICES ASSUME NEW h \in Goal PROVE StatusOf(h)'
  BY <1>1 DEF StatusInv
\* Steps that leave the goals and goal_handle alone.
<1>2. ASSUME UNCHANGED <<goalVars, goal_handle>> PROVE StatusOf(h)'
  BY <1>2 DEF StatusInv, StatusOf, InLoop, goalVars
<1>3. CASE Lifecycle
  BY <1>2, <1>3 DEF Lifecycle, OnConfigure, OnActivate, OnActivateSuper, OnDeactivate,
     OnDeactivateSuper, OnCleanup, OnShutdown, goalVars, serverVars
<1>4. CASE CancelTaskTest BY <1>2, <1>4 DEF CancelTaskTest, goalVars, serverVars
<1>5. CASE CancelTaskAbort
  BY <1>5, NoGoalAssumption DEF CancelTaskAbort, StatusInv, StatusOf, InLoop, TypeOK,
     Terminal, serverVars, ExecState
<1>6. ASSUME NEW g \in Goal, MoveRobot(g) \/ PolicyEnds(g) PROVE StatusOf(h)'
  BY <1>2, <1>6 DEF MoveRobot, PolicyEnds, goalVars, serverVars
<1>7. CASE UNCHANGED vars BY <1>2, <1>7 DEF vars, serverVars, goalVars
<1>8. QED BY <1>3, <1>4, <1>5, <1>6, <1>7, StatusGoal DEF Next, Handle

LEMMA StatusInvariant == Spec => []StatusInv
<1>1. Init => StatusInv
  BY NoGoalAssumption DEF Init, StatusInv, StatusOf, InLoop, TypeOK, ExecState
<1>2. QED BY <1>1, StatusStep, PTL DEF Spec

\* Whatever the clients, services and lifecycle requests do between the poll
\* of the execute loop and the change of the goal's status, the answer that
\* goes out says success only for a goal with status SUCCEEDED.
THEOREM AnswerAgrees == Spec => []AnswerAgreesWithStatus
<1>1. StatusInv => AnswerAgreesWithStatus
  BY DEF StatusInv, StatusOf, AnswerAgreesWithStatus
<1>2. QED BY <1>1, StatusInvariant, PTL

-----------------------------------------------------------------------------
(***************************************************************************)
(* Success comes from some policy call.                                    *)
(***************************************************************************)

ReturnedTrue == \E h \in Goal : thread[h] = "true"

ReturnInv ==
  /\ StatusInv
  /\ \A g \in Goal : exec[g] \in {"none", "accepting", "ready"} => thread[g] = "none"
  /\ action_thread_result = "true" => ReturnedTrue
  /\ \A g \in Goal : result[g] = "true" => ReturnedTrue

LEMMA ReturnStep == ReturnInv /\ [Next]_vars => ReturnInv'
<1> SUFFICES ASSUME ReturnInv, [Next]_vars PROVE ReturnInv'
  OBVIOUS
<1>1. StatusInv' BY StatusStep DEF ReturnInv
<1>0. TypeOK BY DEF ReturnInv, StatusInv
<1> USE <1>0 DEF ReturnInv, ReturnedTrue, TypeOK, goalVars, threadVars
\* Steps of the server: the policy threads and the results stay as they are.
<1>2. ASSUME UNCHANGED <<threadVars, result>>,
             \A h \in Goal : exec'[h] \in {"none", "accepting", "ready"}
                              => exec[h] \in {"none", "accepting", "ready"}
      PROVE  ReturnInv'
  BY <1>1, <1>2
<1>3. CASE Lifecycle
  BY <1>2, <1>3 DEF Lifecycle, OnConfigure, OnActivate, OnActivateSuper, OnDeactivate,
     OnDeactivateSuper, OnCleanup, OnShutdown
<1>4. CASE CancelTaskTest BY <1>2, <1>4 DEF CancelTaskTest
<1>5. CASE CancelTaskAbort BY <1>2, <1>5 DEF CancelTaskAbort
<1>6. ASSUME NEW g \in Goal, InsertCableCancelCallback(g) PROVE ReturnInv'
  BY <1>2, <1>6 DEF InsertCableCancelCallback
<1>7. ASSUME NEW g \in Goal, InsertCableAcceptedGoalCallback(g) PROVE ReturnInv'
  BY <1>2, <1>7 DEF InsertCableAcceptedGoalCallback, Goto
<1>8. ASSUME NEW g \in Goal, DoneWaiting(g) \/ ExecutePoll(g) \/ GoalFinished(g)
      PROVE  ReturnInv'
  BY <1>2, <1>8 DEF DoneWaiting, ExecutePoll, GoalFinished, Goto
<1>9. ASSUME NEW g \in Goal, ExecuteStart(g) PROVE ReturnInv'
  BY <1>1, <1>9 DEF ExecuteStart, Goto
<1>10. ASSUME NEW g \in Goal, ExecuteCanceled(g) \/ ExecuteStopped(g) \/ ExecuteSucceeded(g)
       PROVE  ReturnInv'
  BY <1>1, <1>10 DEF ExecuteCanceled, ExecuteStopped, ExecuteSucceeded, Goto, Return
<1>11. ASSUME NEW g \in Goal, PolicyEnds(g) PROVE ReturnInv'
  <2>1. PICK r \in Ended : /\ thread' = [thread EXCEPT ![g] = r]
                           /\ action_thread_result' = IF r = "raised" THEN action_thread_result ELSE r
    BY <1>11 DEF PolicyEnds
  <2>2. thread[g] = "running" /\ UNCHANGED <<exec, result>>
    BY <1>11 DEF PolicyEnds
  <2>3. ReturnedTrue => ReturnedTrue'
    BY <2>1, <2>2
  <2>4. action_thread_result' = "true" => ReturnedTrue'
    BY <2>1, <2>3, <1>11 DEF Ended
  <2>5. QED BY <1>1, <2>1, <2>2, <2>3, <2>4
<1>12. ASSUME NEW g \in Goal, MoveRobot(g) PROVE ReturnInv'
  BY <1>1, <1>12 DEF MoveRobot
<1>13. ASSUME NEW g \in Goal, InsertCableGoalCallback(g) PROVE ReturnInv'
  <2>1. exec[g] = "none"
    BY <1>13 DEF InsertCableGoalCallback, StatusInv, StatusOf, InLoop, Terminal, ExecState
  <2>2. QED BY <1>1, <1>13, <2>1 DEF InsertCableGoalCallback, Goto
<1>14. CASE UNCHANGED vars BY <1>2, <1>14 DEF vars
<1>15. QED
  BY <1>3, <1>4, <1>5, <1>6, <1>7, <1>8, <1>9, <1>10, <1>11, <1>12, <1>13, <1>14
  DEF Next, Handle, ExecuteLoop

LEMMA ReturnInvariant == Spec => []ReturnInv
<1>1. Init => ReturnInv
  BY NoGoalAssumption DEF Init, ReturnInv, StatusInv, StatusOf, InLoop, TypeOK, ExecState
<1>2. QED BY <1>1, ReturnStep, PTL DEF Spec

\* However stale policy threads and execute loops overlap, success is never
\* reported before some policy call returned True.
THEOREM SuccessReturned == Spec => []SuccessWasReturned
<1>1. ReturnInv => SuccessWasReturned
  BY DEF ReturnInv, ReturnedTrue, SuccessWasReturned
<1>2. QED BY <1>1, ReturnInvariant, PTL

-----------------------------------------------------------------------------
(***************************************************************************)
(* Commands and the lifecycle.                                             *)
(***************************************************************************)

PublisherInv == publishers = "enabled" => lifecycle \in {"active", "deactivating"}

LEMMA PublisherStep == PublisherInv /\ [Next]_vars => PublisherInv'
<1> USE DEF PublisherInv, lifecycleVars
<1>1. PublisherInv /\ Lifecycle => PublisherInv'
  BY DEF Lifecycle, OnConfigure, OnActivate, OnActivateSuper, OnDeactivate,
     OnDeactivateSuper, OnCleanup, OnShutdown
<1>2. PublisherInv /\ UNCHANGED lifecycleVars => PublisherInv'
  OBVIOUS
<1>3. [Next]_vars => Lifecycle \/ UNCHANGED lifecycleVars
  BY DEF Next, Handle, vars, CancelTaskTest, CancelTaskAbort, InsertCableGoalCallback,
     InsertCableAcceptedGoalCallback, InsertCableCancelCallback, DoneWaiting,
     ExecuteLoop, ExecuteStart, ExecutePoll, ExecuteCanceled, ExecuteStopped,
     ExecuteSucceeded, GoalFinished, MoveRobot, PolicyEnds
<1>4. QED BY <1>1, <1>2, <1>3

\* No policy thread, however stale, gets a command out of a node that is not
\* active: what the challenge rules ask of the configured, unconfigured and
\* shut down states.
THEOREM CommandsWhileActive == Spec => CommandsOnlyWhileActive
<1>1. Init => PublisherInv
  BY DEF Init, PublisherInv
<1>2. PublisherInv /\ [Next]_vars
        => [commander' # commander => lifecycle \in {"active", "deactivating"}]_vars
  <2>1. [Next]_vars /\ commander' # commander => publishers = "enabled"
    BY DEF Next, Handle, vars, threadVars, Lifecycle, OnConfigure, OnActivate,
       OnActivateSuper, OnDeactivate, OnDeactivateSuper, OnCleanup, OnShutdown,
       CancelTaskTest, CancelTaskAbort, InsertCableGoalCallback,
       InsertCableAcceptedGoalCallback, InsertCableCancelCallback, DoneWaiting,
       ExecuteLoop, ExecuteStart, ExecutePoll, ExecuteCanceled, ExecuteStopped,
       ExecuteSucceeded, GoalFinished, MoveRobot, PolicyEnds
  <2>2. QED BY <2>1 DEF PublisherInv
<1>3. QED BY <1>1, <1>2, PublisherStep, PTL DEF Spec, CommandsOnlyWhileActive

-----------------------------------------------------------------------------
(***************************************************************************)
(* A client that waits for each answer.  At most one goal has a callback,  *)
(* so the shared attributes are those of the goal that is running, although *)
(* policy threads of earlier goals may still run beside it.                *)
(***************************************************************************)

SerialOf(g) ==
  /\ \A h \in Goal : Live(g) /\ Live(h) => g = h
  /\ InLoop(g) => goal_handle = g
  /\ exec[g] \in {"none", "accepting", "ready"} => thread[g] = "none"
  /\ InLoop(g) /\ exec[g] # "ready" => action_thread = g /\ thread[g] # "none"
  /\ exec[g] = "toSucceed" => thread[g] \in Ended
  /\ status[g] = "succeeded" => thread[g] \in Ended

SerialInv == StatusInv /\ \A g \in Goal : SerialOf(g)

LEMMA SerialIsNext == [SerialNext]_vars => [Next]_vars
BY DEF SerialNext, Next

LEMMA SerialImpliesSpec == SerialSpec => Spec
BY SerialIsNext, PTL DEF SerialSpec, Spec

LEMMA SerialGoal ==
  ASSUME NEW g \in Goal, SerialInv, AllAnswered, InsertCableGoalCallback(g),
         NEW h \in Goal
  PROVE  SerialOf(h)'
BY DEF SerialInv, StatusInv, TypeOK, SerialOf, StatusOf, AllAnswered, Live, InLoop,
   InsertCableGoalCallback, Goto, serverVars, threadVars, ActiveStatus, Terminal, ExecState

LEMMA SerialLoop ==
  ASSUME NEW g \in Goal, SerialInv, NEW h \in Goal,
         \/ InsertCableAcceptedGoalCallback(g) \/ InsertCableCancelCallback(g)
         \/ DoneWaiting(g) \/ ExecuteLoop(g)
  PROVE  SerialOf(h)'
<1> USE DEF SerialInv, StatusInv, SerialOf, StatusOf, TypeOK, Live, InLoop, Goto, Return,
        IsActive, ActiveStatus, Terminal, ExecState, Ended
<1>1. CASE InsertCableAcceptedGoalCallback(g)
  BY <1>1 DEF InsertCableAcceptedGoalCallback, threadVars
<1>2. CASE InsertCableCancelCallback(g)
  BY <1>2 DEF InsertCableCancelCallback, serverVars, threadVars
<1>3. CASE DoneWaiting(g) BY <1>3 DEF DoneWaiting, serverVars, threadVars
<1>4. CASE ExecuteStart(g) BY <1>4 DEF ExecuteStart
<1>5. CASE ExecutePoll(g) BY <1>5 DEF ExecutePoll, serverVars, threadVars
<1>6. CASE ExecuteCanceled(g) BY <1>6 DEF ExecuteCanceled, threadVars
<1>7. CASE ExecuteStopped(g) BY <1>7 DEF ExecuteStopped, threadVars
<1>8. CASE ExecuteSucceeded(g) BY <1>8 DEF ExecuteSucceeded, threadVars
<1>9. CASE GoalFinished(g) BY <1>9 DEF GoalFinished, serverVars, threadVars
<1>10. QED
  BY <1>1, <1>2, <1>3, <1>4, <1>5, <1>6, <1>7, <1>8, <1>9 DEF ExecuteLoop

LEMMA SerialStep == SerialInv /\ [SerialNext]_vars => SerialInv'
<1> SUFFICES ASSUME SerialInv, [SerialNext]_vars PROVE SerialInv'
  OBVIOUS
<1>1. StatusInv' BY StatusStep, SerialIsNext DEF SerialInv
<1> SUFFICES ASSUME NEW h \in Goal PROVE SerialOf(h)'
  BY <1>1 DEF SerialInv
<1>2. ASSUME UNCHANGED <<status, exec, serverVars, thread>> PROVE SerialOf(h)'
  BY <1>2 DEF SerialInv, SerialOf, Live, InLoop, serverVars
<1>3. CASE Lifecycle
  BY <1>2, <1>3 DEF Lifecycle, OnConfigure, OnActivate, OnActivateSuper, OnDeactivate,
     OnDeactivateSuper, OnCleanup, OnShutdown, goalVars, threadVars
<1>4. CASE CancelTaskTest BY <1>2, <1>4 DEF CancelTaskTest, goalVars, threadVars
<1>5. CASE CancelTaskAbort
  BY <1>5, NoGoalAssumption DEF CancelTaskAbort, SerialInv, StatusInv, TypeOK, SerialOf,
     Live, InLoop, serverVars, threadVars
<1>6. ASSUME NEW g \in Goal, MoveRobot(g) PROVE SerialOf(h)'
  BY <1>2, <1>6 DEF MoveRobot, goalVars
<1>7. ASSUME NEW g \in Goal, PolicyEnds(g) PROVE SerialOf(h)'
  BY <1>7 DEF PolicyEnds, SerialInv, StatusInv, TypeOK, SerialOf, Live, InLoop, goalVars,
     serverVars, Ended
<1>8. CASE UNCHANGED vars BY <1>2, <1>8 DEF vars, goalVars, threadVars
<1>9. QED BY <1>3, <1>4, <1>5, <1>6, <1>7, <1>8, SerialGoal, SerialLoop DEF SerialNext, Handle

LEMMA SerialInvariant == SerialSpec => []SerialInv
<1>1. Init => SerialInv
  BY NoGoalAssumption DEF Init, SerialInv, SerialOf, Live, StatusInv, StatusOf, InLoop,
     TypeOK, ExecState
<1>2. QED BY <1>1, SerialStep, PTL DEF SerialSpec

\* For a client that waits for each answer, cancel_task always reaches the
\* goal that runs, and the goal callback always sees it.
THEOREM HandleNames == SerialSpec => []HandleNamesRunningGoal
<1>1. SerialInv => HandleNamesRunningGoal
  <2> SUFFICES ASSUME SerialInv, NEW g \in Goal, IsActive(g),
                      exec[g] \notin {"accepting", "returned"}
               PROVE  goal_handle = g
    BY DEF HandleNamesRunningGoal
  <2>1. InLoop(g)
    BY DEF SerialInv, StatusInv, StatusOf, TypeOK, InLoop, IsActive, ActiveStatus,
       Terminal, ExecState
  <2>2. QED BY <2>1 DEF SerialInv, SerialOf
<1>2. QED BY <1>1, SerialInvariant, PTL

\* For such a client, the poll tests the goal's own policy thread, so a goal
\* succeeds only when its own insert_cable call has ended.
THEOREM SucceededAfterPolicy == SerialSpec => []SucceededAfterOwnPolicy
<1>1. SerialInv => SucceededAfterOwnPolicy
  BY DEF SerialInv, SerialOf, SucceededAfterOwnPolicy
<1>2. QED BY <1>1, SerialInvariant, PTL
=============================================================================
