# Verification of the cable-insertion evaluation system

TLA+ models of the programs around one robot task: the engine that drives trials
and the participant's node that executes them, the policies that node loads, the
plugins that move and watch the scene, the recorder that scores a trial, the
harness that evaluates policies in batches, and the tools that collect
demonstrations, turn them into training data and train on it. The models are
checked by TLC on small instances, and their main safety properties are proved
with TLAPS for every value of the constants.

1. [The system](#the-system): components, state, interactions, hard behaviours
2. [What is modelled](#what-is-modelled): modules, and how they correspond to the code
3. [Runs](#runs): what TLC checks, with which bounds
4. [Fairness](#fairness)
5. [Proofs](#proofs)
6. [What is not modelled](#what-is-not-modelled)

## The system

An evaluation is a configuration of trials. For each trial the engine brings up
the participant's node, spawns a scene in the simulator, starts a recording,
sends `insert_cable` goals, and scores the recording. The harness runs one such
evaluation per suite member, for one policy after the other. Collection campaigns
run the same bring-up to record demonstrations; converters, loaders and trainers
turn those into the networks the learned policy executes.

| component | state it keeps | operations | hard behaviour | correct when |
|---|---|---|---|---|
| **engine** `aic_engine` | `engine_state_`, per trial `state`, `attempts`, `spawned_entities`; `model_discovered_`, `is_first_trial_` | `run`, `handle_trial` with its stages and retry loops, `reset_after_trial`, `home_robot`, scoring | calls that fail, are refused or time out; retries over a scene half built; abandoned requests served later; failures that are only logged | stages in order, an Error stops the run, completion means every task done, the scene is right while a goal is out, everything is given back |
| **participant node** `aic_model` | lifecycle state, `is_active`, `goal_handle`, `_action_thread`, `_action_thread_result`, `_target_mode` | lifecycle callbacks, goal / accepted / cancel callbacks, execute loop, `cancel_task`, `move_robot` | multi-threaded executor with a reentrant group; attributes shared by goals; policy threads nobody stops; state changes between a poll and the action on it | answers agree with statuses, one goal at a time, a goal ends when cancelled, aborted or deactivated, no command from an inactive node |
| **learned policy** `DeployACT`, `guarded_descent`, `chunk_ensemble` | stall detector, motion and auxiliary buffers, descent, chunk buffer | the control loop, handover at a stall, three kinds of descent, re-aiming | one-shot triggers; buffers that outlive what filled them; a cap tested before or after the step; the same object executes the next goal | travel stays capped, HOLD is final, one handover, no stale chunk |
| **scripted policies** `CheatCode`, `DisassembleCode`, `CurriculumInsert`, others | place in the script, integrators, schedule | staging, descent, retract, corrections | any transform lookup may fail and is skipped; integrators survive a goal; depths differ by port | depth bounded, side motion only where the script may be off the axis, a descent starts from its own error |
| **evaluation harness** `eval_batch.sh`, `eval_suite.py`, `eval_lib` | lock, process groups, result files | run, skip what is reported, launch, wait, kill, score, report | kills between any two steps; groups that outlive their parent; a timeout inside a timeout; files left by an earlier run | one evaluation and one simulator at a time, rows are their own trials', a skipped run is reported, a batch ends |
| **suites and verdicts** `gen_config.py`, `eval_lib` | configurations, manifests, rows | draw, write, copy, score, compare | writers killed half-way; rows matched by name | every scene can be won, training strata are drawn evenly, a verdict pairs trials of one scene |
| **data collection** `collect_*.sh`, `campaign_lib.py`, `prepare_dataset.py`, `reverse_disasm.py`, `dagger_relabel.py` | bags, episode directories, campaign log | record, gate, convert, log; resume from the files | a kill between any two arrays; a converter that fails; recorders that survive; transform trees cut in two | a kept episode is whole and from one trial, labels are of their own trial, a campaign ends with a row per task |
| **training and search** `opt/`, `train_*.py` | frame selections and weights, live and averaged parameters, rung scores | load a split, run epochs, evaluate, save, halve | blocks of frames addressed by offsets; weights swapped around evaluations; ranks and ties | what is trained on ends at the seat, what is scored is what is averaged, what is saved was trained, halving drops nobody who led |
| **scoring recorder** `aic_scoring` | `state`, bag, `subscriptions`, received flags, task times, insertion event | `StartRecording`, `StopRecording`, `Reset`, callbacks, `ComputeScore` | callbacks race `Reset`; subscriptions accumulate; a start or stop that times out leaves it recording | a bag holds each message once, a score is of its own trial |
| **controller** `aic_controller` | target mode, real-time buffers, targets | command subscriptions, `change_target_mode`, `update` | service and subscription threads against the real-time update | no command executed in the wrong mode, none lost |
| **simulator plugins** `aic_gazebo` | cable joints and touch state; joint requests; resolved entities | `PreUpdate`, touch and service callbacks | callbacks on other threads; a paused simulation; models deleted and spawned again | one insertion event that names the inserted port, every request answered |
| **adapter** `aic_adapter` | latest images, sample deques | image callback | arrival orders of three cameras | an observation is of one instant |
| bring-up, assets, interfaces, teleoperation, dashboards | files | scripts | | |

Interactions: the engine calls the participant through the lifecycle services and
the `insert_cable` action; it calls the simulator's spawn and delete services, the
controller's tare service, the controller manager, and the reset-joints service of
the plugin; it links the recorder in and shares its spin thread. The participant's
node makes one policy object, which executes every goal, publishes commands to the
controller and asks it to switch mode. The harness and the campaigns start engine,
simulator and participant as processes and know them only by their files, their
exit statuses and their output. The collection and training tools hand over files.

`PROJECT.json` lists each hazard of this code at the line where it bites, with the
properties that cover it or the reason none does.

## What is modelled

### `AicModel` — `aic_model/aic_model/aic_model.py`

One action per stretch of a callback, coroutine or thread between points where
another thread may run.

| action | code |
|---|---|
| `OnConfigure` … `OnShutdown` | the lifecycle callbacks; `OnActivate`/`OnActivateSuper` and `OnDeactivate`/`OnDeactivateSuper` are split because `is_active` changes before the publishers do |
| `InsertCableGoalCallback`, `InsertCableAcceptedGoalCallback`, `InsertCableCancelCallback` | the action callbacks; reentrant, so anything may run between accepting and storing the goal |
| `CancelTaskTest`, `CancelTaskAbort` | the `cancel_task` service, split where it reads `goal_handle` again |
| `ExecuteStart`, `DoneWaiting`, `ExecutePoll`, `ExecuteCanceled`, `ExecuteStopped`, `ExecuteSucceeded` | the execute callback: start the thread; the one-second timer; the choice of an exit; each exit |
| `GoalFinished` | what the client library does after the callback returned or raised |
| `MoveRobot`, `PolicyEnds` | a policy thread: it publishes, and ends with True, with False (or None), by raising, or never |

`exec[g]` is where the execute callback of goal `g` is, `status[g]` the goal's
status in the action server. The library's part (status machine, delivery of
results, exceptions of callbacks) is external. `up` is FALSE once an exception left
the `cancel_task` callback and ended `executor.spin()`.

`Next` has clients that send whenever they like; `SerialNext` has the engine as its
only client, which sends a goal after the previous answer (`Engine::tasks_started`).

### `AicEngine` — `aic_engine/src/aic_engine.cpp`

The engine is one thread. Each action is one blocking call with its answer or one
decision between calls; `pc` names it. What it calls is in the model as far as the
engine can tell: the lifecycle state of the participant's node, the entities of the
world by name, the recorder, the controller.

A call can succeed, be refused or fail (`Fault`, recorded in `failed`), or time out
(`TimesOut`). A timed-out request stays in `late_transitions`, `late` or
`late_switches` and is served by `LateTransition`, `LateSpawn`, `LateDelete` or
`LateSwitch` at any later moment. `Spawned` renames an entity whose name is taken,
as `allow_renaming` asks; the engine only ever deletes the name it asked for.

`GiveUp` stands for the early returns of `handle_trial`: they all call
`reset_after_trial` and then set `EngineState::Error`, hence `stop`.

### `TrialProgress`

The abstract specification: trials one after the other, each climbing `TrialState`
one rung at a time, `Completed` only when every trial reached its tasks, `Error`
only at a trial that did not. `AicEngine` implements it with the identity as
refinement mapping (`Promise == INSTANCE TrialProgress`); every engine step that
touches none of the three variables is a stutter.

### `Recorder` and `TrialRecording` — `aic_scoring/src/ScoringTier2.cc`

Two threads of the engine's process: `Engine` is the thread of `aic_engine`, reduced
to what it asks of the recorder, `Executor` the spin thread that takes messages from
the subscriptions. Steps end where the other thread may see the difference: `Reset` is
split at `bagWriter.close()` (`ResetBag`), because it takes no mutex, while `OpenBag`
and `StopRecording` take it; a callback holds it from its test of the state (`Take`)
through `Write` to `Flag`. A write to a bag that was closed meanwhile loses the message
or ends the process (`WriteFails`): the library's behaviour then is not ours to know.

A message is its topic and the trial during which it was published. Publishers are
external (`Publish`, `Advertise`). The subscriptions of a recording are made in one
step, since nothing but callbacks lies between them, and both flags are cleared in one.

`TrialRecording` is what engine and recorder promise each other: a trial is scored at
most once, from a recording that was running, and the recorder is left alone from
then until the next trial. Both sides implement it: `Recorder` with `recording` its
state, or a bag between stop and score, and `AicEngine` with its own view of the
recorder. So what `Recorder` assumes of the engine's calls is what `AicEngine` does.

### `Scoring` — `aic_scoring/src/ScoringTier2.cc`

`ComputeScore` as a function. The state is the bag, which grows by one message in the
order of stamps per topic; `Process` is the callback of each topic, folded over the
bag by `Gathered`, and `Total` adds the points of the categories. Lengths are in mm and
points in thousandths, rounded down like the interpolation's quotient. The jerk, a
filter over the velocities, is an arbitrary number that a further message does not
change; what is claimed of it is that its input does not change.

### Simulator plugins — `aic_gazebo/src`

| module | code | state and actions |
|---|---|---|
| `OffLimitContacts` | `OffLimitContactsPlugin.cc`, `ContactsCallback` of the recorder | `name[e]` is the name entity `e` was created under. `SpawnModel`, `DeleteModel` and `Simulate` are the simulator's: any touch of anything present, gone when the entity is. `Update` resolves names in their order and publishes; `Skip` is a throttled update |
| `CablePlugin` | `CablePlugin.cc` | `CablePreUpdate`, one disjunct per state of `PreUpdate`; `Removal` is the cleanup before the switch. `WAITING` takes no time (both delays are 0 in `cable.sdf.xacro`), and the cable guard is off there. An entity whose removal is requested is gone when the update ends; all plugins update before that, so each sees the removal in the one iteration in which `EachRemoved` reports it, and `Removal` can ask for `removed` alone. `TouchCallback` and `TouchCallbackEnds` are the two assignments of the callback on the transport's thread. `released` is history: the cables whose touch was acted on |
| `ResetJointsPlugin` | `ResetJointsPlugin.cc` | the service serves one request after the other on its own thread (`Reject`, `Accept`, `ReturnSuccess`); `ResetJointsPreUpdate` resets and keeps the promise; `Unload`, `Join` are the destructor. Clients may stop waiting and call again, which is a further `Call` |

### `AicAdapter` — `aic_adapter/src/aic_adapter.cpp`

A stamp is a number and two images are of one instant if their stamps are equal (less
than 1 ms in the code). Images and samples are taken at each `Tick`, lost or put on
their way, and delivered in order per topic (`ImageCallback`, `Sample`). An image is its
stamp and whether its pixels are still in the buffer, from which they are moved.

`TrialServices` composes the recorder, the scores, the plugins and the adapter. Each
meets the others only in calls and messages, which its own module lets come at any
moment, so that a behaviour is one of them at work: what is shown of it holds whatever
the others do.

### `EvalHarness` and `EvalQueue` — `eval_batch.sh`, `eval_suite.py`, `eval_lib/runner.py`, `eval_lib/report.py`

A batch shell holds a lock and starts one `eval_suite.py` after the other; that
launches a process group per trial and waits for it; the group's leader is the
bring-up script `runner.py` writes.

| action | code |
|---|---|
| `Start`, `Skip`, `Run`, `ChildExits`, `Done` | `eval_batch.sh`: `flock` and the sweep of leftovers; the loop over `QUEUE`, which skips a run with a `summary.json` |
| `Launch`, `WaitReturns`, `HardTimeout`, `ScoreMember` | `SimRunner.run_trial` and `score_member`: `Popen` in a session of its own, `proc.wait` with a timeout, `_reap`, the parse of `scoring.yaml` |
| `WriteReport` | `write_report`, one step per open and per write |
| `Script`, `CleanupGroup` | the bring-up script: waits, polls, EXIT trap |
| `Engine` | what the engine of a group logs and writes, as far as the harness reads it |
| `Tick` | 30 s of a trial that is waited for |
| `KillBatch`, `KillPy`, `KillScript`, `Interrupt`, `ScriptWedges`, `Reboot` | the faults |

A group is in `leader`, `children` and `nodes` while its script, what the script
started, and what `ros2 launch` started are alive: killing one kind leaves the others,
as it does in the code. The lock is held as long as the shell or its child lives,
because the child inherits the descriptor. Files survive everything; `fresh` tells a
`scoring.yaml` of this launch from one an earlier launch left.

`EvalQueue` is what the batch promises: at most one run is evaluated, it is reported
by the evaluation in progress, and a reported run is never evaluated again.
`EvalHarness` implements it with `running` the runs of live `eval_suite.py` processes
and `reported` the runs with a `summary.json`.

### `DeployACT` — `DeployACT.py`, `guarded_descent.py`, `chunk_ensemble.py`

Space is a line through the port, a cycle of the loop is one tick, and the stall speed
is one unit per tick. The network is an arbitrary motion, the auxiliary head an arbitrary
reading, the wrench one of three classes. `Approach` is a cycle of the learned path
with the stall detector and the chunk ensemble; `Handoff` a cycle in which the stall
fires and a descent engages (search before specialist before scripted); `Descend` a
cycle of that descent; `DescendUnaimed` the cycle whose re-aim calls a method the other
descents lack, which raises; `NoObservation` a cycle without an observation. `desc` is
the record of all three kinds of descent, `cmd` the pose commanded last, `cap` and
`steps` what the code keeps under these names. `MCConfigs` are the launches of the
repository's scripts and the flags that interact.

### `ScriptedPolicies` — `CheatCode.py`, `DisassembleCode.py`, `CurriculumInsert.py`, the others

One action per iteration of a loop of `insert_cable`: `Stage`, `InsertStep`,
`NearStep`, `RetractStep`, `HoverStep`, `OffsetStep`, `CorrectStep`, `CentreStep`,
`LearnWait`/`LearnStep`, `TimedLoop`, `JointScript`. Heights are in descent steps
below or above the mouth. Every command is `Sent` or the script stays `Silent`, because
every pose needs a lookup that may fail; `sent` is history, the row of the schedule that
went out last. `integ` says whose tip error the integrators hold: they belong
to the object and survive the goal. `Policies` composes both modules: a node loads one.

### Collection and training

| module | code | state and actions |
|---|---|---|
| `Collection` | the three `collect_*.sh`, `campaign_lib.py`, the save order of the converters, `opt/port_labels.py` | one action per line of the loop that changes a file, the log or a process; `SaveArray` is one array; `KillAndRestart` and `ConverterFails` are the faults. An array is known by the trial it was made from |
| `Relabel` | `dagger_relabel.py`, `StallDetector` | `ReadTransform` fills the forest in any order, `ReadPortTarget` chooses and resolves the port; `Capture` feeds one frame to the live detector and to the recorded trace, `RelabelBag` selects the window. A rigid transform is a motion of the line, so order matters |
| `Episodes` | `prepare_dataset.py`, `reverse_disasm.py`, `opt/episode_prep.py`, `_load_split` | `RecordTick`, `ProcessBag`, `ReverseEpisode`, `LoadSplit` |
| `Training` | `train_v3.train`, `EmaWeights`, `opt/w1_matrix.py` | `RunEpoch`, `SwapIn`, `Measure`, `SwapOut`, then `TakeStateDict`, `RestoreForSave`, `WriteCheckpoint` or `MaybeSave`. `sd` records that a state dictionary aliases the live parameters |
| `Sweep` | `opt/sweep.py`, `opt/asha.py` | `TrainAndScore` and the choice of survivors at every rung |
| `Suite` | `gen_config.py`, `eval_lib/suite.py`, `fast_suite.py`, `scoring.py`, `stats.py`, `report.py` | drawing of training scenes, writing and copying of the suites, killed anywhere; scoring of two runs and their comparison |
| `Pipeline` | the tools as programs | one tool runs in a behaviour; the variables of the others keep an initial value |

Two things the models show that no text of the repository contradicts, and which are
therefore described and not reported: the averaged weights `train_v3` swaps in for the
checkpoint never reach the file, since `restore` copies into the tensors the state
dictionary refers to (`WriteCheckpoint`); and the demo campaign, which neither empties
a directory nor looks at the converter's status, keeps `KeptIsWhole` and the seat of
`LabelsAreTrue` only in campaigns without faults, which is what the properties state.

## Runs

| run | instance | shows |
|---|---|---|
| `AicModel_any` | 2 goals, any clients, symmetry | `AnswerAgreesWithStatus` |
| `AicModel_serial` | 2 goals, serial client, fair executor | `HandleNamesRunningGoal`; `SucceededAfterOwnPolicy`; `GoalsEnd`: `CancelEndsGoal`, `DeactivationEndsGoals`, `PolicyEndEndsGoal` |
| `AicModel_two_goals` | 3 goals | **violated**: a goal begins beside an active one |
| `AicModel_stale_result` | 2 goals, serial client | **violated**: a goal reports success that its own policy did not return |
| `AicEngine_retries` | 1 trial, 2 tasks, 1 cable, 2 attempts, 1 late request | `CompletedTrialDidAllTasks`; `SceneAtGoal`; `RunEnds` |
| `AicEngine_trials` | 2 trials, 1 task, 1 attempt, 1 late request | `CleanFinish`; `ImplementsTrialProgress`; `ImplementsTrialRecording` |
| `AicEngine_no_board` | 1 trial, 1 task | **violated**: `SimulatorReady` has a task board |
| `EvalHarness_batch` | 2 starts, 2 runs, 1 member, 1 fault | `OneSimulator`; `RowsAreOwn`; `SkippedIsReported`; `TimeoutAfterPoll`; `BatchEnds`; `ImplementsEvalQueue` |
| `Policies_goals` | 6 configurations and 8 scripted policies, 2 goals | `TravelCapped`; `EnsembleFresh`; `OneHandoff`; `DepthBounded`; `IntegratorFresh`; `LateralInBounds` |
| `Pipeline_all` | every tool from its own initial states | `KeptIsWhole`, `LabelsAreTrue`, `CampaignEnds` (campaigns); `PortIsTrue`, `OfflineSeesTheStall` (relabelling); `DemoEndsAtSeat` (loading); `CheckpointIsTrained` (training); `HalvingIsFair` (search); `SuiteIsFair` (suites) |
| `TrialServices_all` | every service from its own initial states | `OwnRecording`, `RecorderImplementsTrialRecording` (recorder); `CopiesHarmless`, `PointsAreMonotone` (scores); `PenaltyIsDeserved` (contacts); `NothingLeftBehind`, `ReleasedIsInserted` (cables); `RequestsAreServed` (joints); `ObservationIsOfOneInstant` (adapter) |
| `OffLimitContacts_respawn` | 3 names off limits, 4 entities, 2 collisions | **violated**: any contact with an off-limit entity counts |

The runs leave out properties that a theorem below states for every instance and that
another property of the run stands beside: the types, `SuccessWasReturned`,
`CommandsOnlyWhileActive`, `OneEvaluation`, `HoldIsFrozen`, `LatchedNeverReversed` and
`ConvertsClosedBag`.

Deadlock is not checked: a participant node that was shut down, or whose executor
died, has nothing left to do; the engine stops at the end of its run (or hangs on a
goal response); batches, policies and tools come to their end, and so do runs of the
recorder, an unloaded plugin and bounded runs of the simulator.

The four violated properties restate a text of the repository; `PROJECT.json`
quotes it under `findings`.

- *Two goals.* Two goal requests pass `insert_cable_goal_callback` before either
  reaches the accepted callback. When one of them ends, it sets `goal_handle` to
  None although the other's loop still waits, and a third goal is accepted. With a
  serial client this cannot happen (`HandleNamesRunningGoal`).
- *Stale result.* A cancelled goal's policy thread runs on. It returns True after
  the next goal reset `_action_thread_result`; the next goal's policy raises, which
  leaves the attribute alone, and the goal answers success. A serial client is
  enough. What does hold: the goal waits for its own policy to end
  (`SucceededAfterOwnPolicy`) and some policy did return True (`SuccessWasReturned`).
- *Task board.* `aic_engine.hpp` describes `SimulatorReady` otherwise than
  `aic_engine.cpp` reaches it: a board that fails to spawn is only logged.
- *Respawned board.* Names are resolved until as many entities were found as there are
  names. The board of the second trial is another entity, is not looked up, and
  contacts with it give no penalty. The first of each name is reported, and nothing
  harmless is penalised (`PenaltyIsDeserved`).

Smaller differences between a text and the code, which the models contain and no run is
spent on: a trial whose last task overran its limit stays at `TasksExecuting`, while
`aic_engine.hpp` describes `AllTasksCompleted` as including it. `DisassembleCode`
describes its `retract_start_z` as short of the true floor, which an SC port is too
shallow for. `Reset` closes the bag without the mutex that protects it, so that after a
stop that timed out a callback may be writing (`WriteFails`); a goal still gets a
recording of its own. `GetMissingRequiredTopics` looks through subscriptions, of which
there are none before the first recording. The insertion event names the port of the
last touch message, which may be another than the one acted on. A joint the robot does
not have is skipped and the reset reported as successful. The sample of an observation
is the newest that is not later than its images, not the closest. The hard timeout of
`runner.py` leaves no room for the wait for `scoring.yaml`, and so can end a trial that
is being scored, which the comment above `SCORING_WAIT_S` rules out; `TimeoutAfterPoll`
is about the poll before it.

A lift-translate retract is meant to leave the bore before it goes sideways
(`disassembly_schedule.py`, above `LIFT_AXIAL_MIN_M` and in the docstring of
`lift_translate_reseat_offsets`). It goes sideways no lower than its lift, in whatever
rows go out (`LateralInBounds`), so this is right for lifts beyond the 13 mm of the
engagement (`LongLiftsStayOut`); the lifts drawn are 10 to 14 mm, and most of them
translate inside the bore. A spiral goes sideways in the bore by design, and is
held to its share of the radius (to one step of the height, the model's rounding). Both
speak of what is commanded. With two rows, or when the lookup of the corner's row fails,
two consecutive commands lie diagonally, and where the arm goes between them is the
controller's.

What some properties leave out, because the code does not provide it:

- `SceneAtGoal`: a spawn that is carried out after its retry leaves a renamed second
  entity. Each cable is then still there under its name; that nothing is renamed is
  claimed only while nothing timed out and no deletion was refused.
- `CleanFinish` is about what the engine holds. A policy that still moves after a cancel
  nobody waits for is in `AicModel`, where the deactivation ends its goal (`GoalsEnd`)
  but not the policy's thread.
- `OneSimulator`: the group of an `eval_suite.py` or a script killed on its own outlives
  it and does run beside the next one.
- `RowsAreOwn`: a run evaluated a second time into the same directory takes a
  `scoring.yaml` the first left, if the second writes none.
- `KeptIsWhole` and `LabelsAreTrue` in the demo campaign under faults, as said above.
- `OwnRecording`: a message of the trial before that is still queued when a recording
  opens gets into the bag, and sets the flag of its topic. The recorder compares no
  stamps, so the property asks for messages on both topics, not whose they are.
- `SuiteIsFair`: the cell of an official SC row has port 0, read from the name
  `sc_port_base`, while its target is `sc_port_1`; such a row tells only its plug.

### Bounds

- `Goal`: two goals give a current and a stale one, which is what every property of
  `AicModel` relates; the two-goals run needs a third to be accepted wrongly. Each
  goal is sent at most once, so a client that sends again is another goal.
- `NTrials`, `NTasks`: two trials share node, recorder, scene and controller; two
  tasks let a later success hide an earlier failure.
- `MAX_RETRIES`: 5 in the code; 2 has a first, a last and a repeated attempt. The
  counter is its only use.
- `MaxLate`: how many abandoned requests may be pending at once. One lets a request
  of any kind be served during any later stage. The proofs hold for any value.
- `Cables`: one cable and the board are two names, spawned by different code.
- `EvalHarness`: two `Starts` are one batch beside, or after, another; two runs in the
  queue have a predecessor and a successor; one member is a trial; `Slots` = 2 is a
  group and the one an earlier trial left. `MaxFaults` = 1: every kill, at every step
  of everything, and all that follows from it. Durations are in 30-second ticks,
  rounded up; `POLL` is one tick, since only its place beside `MARGIN` matters. The
  safety properties are proved for all of these.
- `Policies_goals`: `Episodes` and `Goals` = 2 is a goal and what it leaves to the
  next. Positions within `Reach` = 1, `TravelCap` = 2 and `SearchCap` = 3 let a descent
  reach its cap, exceed it in a faulty version, and go on in HOLD before `Budget` = 6
  runs out. A chunk of `K` = 3 with one step executed is overlapped by two others.
  The depths keep the order of the code's: SC floor, retract start, SFP floor, hard
  floor. `Lifts` = {2, 4} around `RetractDepth` = 3 are a lift that ends inside
  the bore and one that ends outside, as the default range of 10 to 14 mm
  has both. `RowCounts` = {2, 5, 6}: two rows, the least `DisassembleConfig` lets through,
  are a lift and a way out with no translation; five and six have all segments, with and
  without a remainder.
- `Pipeline_all`: two `Tasks`, one of which may lack its configuration, and two faults,
  so that a kill can follow a failing converter. A transform tree that is cut between
  two aliases of the world, has a child with two parents and a cycle. `MaxFrames` = 5
  frames hold a moving part, a stall and a second stall. `BagTicks` = 5 and a second
  episode that is read along. Three epochs with an evaluation every two have an
  evaluated, a skipped and a last one; three conditions and their combination. Four
  trials with `MaxEpochs` = 5 have four rungs and ties, and a last budget that is
  no power of two. A suite of five stratified members and the three official ones has
  both plugs, both ports of the first rail and the first cell of the next one;
  `RunLimits` cut a run short.
- `TrialServices_all`. Recorder: two trials have a bag, flags and times an earlier one
  left; two attempts have a recording an earlier attempt left. The topics are the two
  that are waited for, a queue holds one message (`KeepLast`), and one topic's messages
  wait at a time (`MaxPending` = 0 when the next is published); they may outlive their
  trial. Scores: bags of four messages hold a wrench before and after the tare, two
  poses and a contact; `Copies` = 3 are the subscriptions of a third trial; the plug's
  poses lie on both sides of each seam (entrance, bottom, lateral tolerance). Contacts:
  three entities are the enclosure and two spawned, a board twice, one renamed, or a
  cable; two collisions let the flag of one pass to the next; a period of two
  iterations has a throttled one. Cables: a second cable comes while the first is there,
  or after it. Joints: three requests are one served, one waiting and one behind it.
  Adapter: three cameras, one of them not the first to be compared; a deque of two is
  exceeded within three instants, and a camera may fall behind by one.

## Fairness

`AicModel`: the executor runs whatever is ready, so each started callback goes on
(weak fairness of `OnActivateSuper`, `OnDeactivateSuper`, `CancelTaskAbort`, the
accepted callback and the execute loop). The loop's timer is in the node's default
group and may find it busy again and again; the executor scans timers before
services, so a timer that is ready infinitely often is taken (strong fairness of
`DoneWaiting`). Clients, the lifecycle's operator and policies owe nothing: a policy
may never return, and `CancelEndsGoal` and `DeactivationEndsGoals` hold all the same.

`AicEngine`: `WF_vars(Engine)`: the thread runs and every call with a timeout
returns. This needs a simulated clock that advances, because
`wait_for_interruptible` measures simulated time. The goal response has no timeout:
`RunEnds` allows `hung`. Participant and controller manager serve requests that wait
for them (weak fairness of `LateTransition` and `LateSwitch`), without which a later
request, queued behind an abandoned one, could only time out.

`EvalHarness`: processes that are alive run, and time passes: weak fairness of the
batch shell after it was started, of `eval_suite.py`, of each script and of `Tick`.
Nobody promises that an engine finishes, that a second batch is started, or that
anything is or is not killed; a wedged script takes no step. `BatchEnds` therefore
rests on `run_trial`'s own timeout and on the kill of the group.

`Pipeline`: weak fairness of `Collecting`: the campaign's shell goes on to its next
line. The trial is run under `timeout --kill-after`, so it ends; the converters are
read through to their end, with or without an exception. Faults owe nothing; their
bound is what keeps them from recurring for ever. The other tools have no
liveness property, and the policies none either: their loops are bounded by a budget.

`CablePlugin`, `ResetJointsPlugin`: the simulator goes on updating its plugins, paused
or not (`PreUpdate` does not test for a pause in either), the transport's callback and
the service return. Touches, deletes, requests and the unload owe nothing. An unload
may leave a callback waiting for an update that never comes: `NeverBusy` is about a
loaded plugin, and the destructor then waits for ever. `ResetJointsPlugin` skips updates
within `update_rate`'s period of the last; those are stutters, and one that is not
skipped comes as long as the simulated time advances or stands still, since a pause
does not count as within the period. The other services have safety
properties only.

## Proofs

Eight modules hold the theorems, for every value of the constants that satisfies the
named assumption of the module they are about (`NoGoalAssumption`,
`EngineAssumption`, `HarnessAssumption` and `MarginAssumption`, `CollectionAssumption`,
`DeployAssumption`, `ScriptedAssumption`, `TrainingAssumption`, `RelabelAssumption`,
`EpisodesAssumption`, `SweepAssumption`, `SuiteAssumption`, `OffLimitAssumption`, `CableAssumption`,
`ResetAssumption`, `AdapterAssumption`, `RecorderAssumption`, `ScoringAssumption`). TLC
evaluates all of them on every passing run of the module. They give the types of the
constants, which naturals are positive and, where the code relies on it, how they
compare. What goes beyond types:

- `MarginAssumption`: the start-up of a trial fits into the margin of the outer timeout.
- `ScriptedAssumption`: the order of the depths; a schedule has two rows or more
  (`DisassembleConfig` raises `n_steps` to two); a lift is shorter than the whole way out
  (`lift_axial_m` < `axial_span_m`); the late correction is not above the standoff, and
  that not above the staging height.
- `EngineAssumption`: there is a trial, since the engine refuses a configuration without
  one, and no two cables share a name, which are keys of a YAML map.
- `ScoringAssumption`: the distance of a plug's pose is that of its coordinates, and the
  depth of the port is positive.
- `RelabelAssumption`: the frames the code takes for the world (`WORLD_ALIASES`) are at
  its origin.
- `SpawnedLastAssumption`: the names off limits are distinct, a renamed entity has none
  of them, and the one that trials spawn comes last among them. The code keeps the
  names in a `std::set`, and `task_board` is after `enclosure` and `enclosure walls`.
  The proof of `PenaltiesDeserved` does not go through without it, and for a reason:
  names are looked up in their order, up to the first that is missing, until as many
  entities were found as there are names. A spawned name that sorted before a fixed one
  would keep the fixed one unwatched until it is spawned; of two spawned names, the
  first could be found twice and the second never. `FirstIsReported` depends on the
  order of the names in the plugin's description.
- `PowersAreNumbers`: `Eta^n` is a natural number. This is arithmetic that TLC computes
  and of which the provers know only the name.

| module | theorems | properties |
|---|---|---|
| `AicModelProofs` | `TypeCorrect`, `AnswerAgrees`, `SuccessReturned`, `CommandsWhileActive` | `TypeOK`, `AnswerAgreesWithStatus`, `SuccessWasReturned`, `CommandsOnlyWhileActive`, for `Spec` |
| | `HandleNames`, `SucceededAfterPolicy` | the safety of `AicModel_serial`, for `SerialSpec` |
| `AicEngineProofs` | `EngineTypeCorrect`, `CompletedTrials`, `SceneIsClean`, `RunEndsClean` | `TypeOK`, `CompletedTrialDidAllTasks`, `SceneAtGoal`, `CleanFinish` |
| | `EngineImplementsTrialProgress`, `EngineImplementsTrialRecording` | both refinements |
| `TrialServicesProofs` | `ServicesInvariant` | the invariant of all services |
| | `RecordingsAreOwn`, `RecorderKeepsItsPromise`, `PenaltiesDeserved`, `ObservationsAreOfOneInstant` | `OwnRecording`, the refinement, `PenaltyIsDeserved`, `ObservationIsOfOneInstant` |
| | `CablesAreReal`, `AnswersAreRight` | the safety in `NothingLeftBehind` and `ReleasedIsInserted`, and in `RequestsAreServed` |
| | `CopiesNeverCount`, `PointsStayMonotone` | `CopiesHarmless`, `PointsAreMonotone` |
| | `NearerNeverCostsPoints`, `WorseConductNeverPays` | the arithmetic of `PointsAreMonotone` |
| `EvalHarnessProofs` | `HarnessTypes`, `EvaluationsExclude`, `SimulatorsExclude`, `PollIsWhole`, `SkippedRuns`, `HarnessImplementsQueue`, `RowsBelong` | types, `OneEvaluation`, `OneSimulator`, `TimeoutAfterPoll`, `SkippedIsReported`, the refinement, `RowsAreOwn` |
| `CollectionProofs` | `DirectoriesSound`, `KeptWhole`, `LatchedRejected`, `BagsClosed`, `LabelsTrue` | the invariant, `KeptIsWhole`, `LatchedNeverReversed`, `ConvertsClosedBag`, `LabelsAreTrue` |
| `PoliciesProofs` | `DescentSound`, `TravelIsCapped`, `HoldFrozen`, `HandsOverOnce`, `EnsembleIsFresh` | the learned policy: the invariant, `TravelCapped`, `HoldIsFrozen`, `OneHandoff`, `EnsembleFresh` |
| | `ScriptsInPlace`, `DepthIsBounded`, `IntegratorsFresh`, `LateralIsBounded`, `LongLiftsStayOut` | the scripted policies: the invariant, `DepthBounded`, `IntegratorFresh`, `LateralInBounds`, and what it means for lifts longer than the bore |
| | `PoliciesRunAlone`, `PoliciesSound` | all of these, for `PoliciesSpec` |
| `PipelineProofs` | `TrainingSound`, `CheckpointTrained` | the invariant, `CheckpointIsTrained` |
| | `PortLabelIsTrue`, `OfflineAgrees` | `PortIsTrue`, `OfflineSeesTheStall` |
| | `DemosEndAtSeat`, `SweepIsFair`, `SuitesAreFair` | `DemoEndsAtSeat`, `HalvingIsFair`, `SuiteIsFair` |
| | `ToolsRunAlone`, `PipelineSound` | all of `CollectionProofs` and `PipelineProofs`, for `PipelineSpec` |
| `FoldLemmas` | lemmas only | what sums, folds over sequences and joined sequences compute |

Each follows from an inductive invariant.

- `AicModel`: `AnswerAgreesWithStatus` is not inductive: it needs that a goal
  past its loop has a result, and that a goal with none is not in a state only the
  end of the loop reaches. `CommandsOnlyWhileActive` needs that publishers are
  enabled only in the active or deactivating states. The serial properties need that
  at most one goal is between accepted and answered.
- `AicEngine`: `Shape` (which control points belong to which part of the run),
  `RunShape` (how `pc`, `engine_state`, `trial` and `stop` go together) and `Ladder`
  (which rung the current trial is on at each control point). The refinement needs
  exactly this: an engine step from a control point is a `Climb` only because the
  trial is on the rung below, and `TrialEnd` may set `Error` only because `stop`
  implies that the trial did not reach its tasks. `TypeOK` and
  `CompletedTrialDidAllTasks` need in addition `Sent`: how many tasks were sent at
  each control point, so that the list never outgrows `NTasks`. `SceneAtGoal` needs
  `Scene`: what stands in the simulator at each control point, through the retry
  loops, and that whatever stands there is still in the list to be deleted; it speaks of
  runs in which nothing was slow. `CablesStand` is the part that late spawns cannot
  disturb: once the cables of a trial were spawned they stay until the engine deletes
  them, as long as no deletion is late or refused. `CleanFinish` needs `Unfailed`: in a run
  without failures, the state of node, recorder and controller, and which trials are
  scored, at each control point.
- `EvalHarness`: `Shape` is the types and `QueueInv`, which ties a batch's place in
  the queue to whether its child lives. `OneSimulator` needs `NoOrphans`: unless an
  `eval_suite.py` or a script was killed, nodes have their leader and every leader is
  waited for; with `OneEvaluation` that leaves one group. `TimeoutAfterPoll` needs
  `Clocks`: what is left of the outer timeout covers what is left of the script's
  phase and all of the poll, which `MarginAssumption` provides at the launch.
  `SkippedIsReported` needs `Progress`: how far the rows and the files are at each
  point of `eval_suite.py`, and that what is being evaluated has no `summary.json`;
  the refinement needs this and that only one evaluation lives. `RowsAreOwn` needs
  `RowsInv`: a first evaluation of a run finds, for the trials it has not launched,
  neither a file nor a live engine of another launch.
- `Collection`: `DiskInv`. The hard part is that a restart decides from files. So it
  says which arrays of the directory are already this trial's (`PrefixInv`), that a
  directory at its gate is complete (`GateInv`), that the directories ahead are empty
  (`AheadInv`), that what is recorded again was not kept (`NotKeptInv`), that a port
  has poses of the same trial (`PortInv`), and that no reversed array touched
  (`LatchInv`), beside the shape of the loop, the trial and the recorder.
- `DeployACT`: `DescentInv` ties the pose commanded last to anchor, axis, steps and
  cap of the descent; `ChunkInv` says how old each buffered chunk is, in whole
  executions, from which both coverage and the size of the buffer follow.
- `ScriptedPolicies`: `LoopInv` (which policy is in which loop), `HeightInv` (how far a
  loop has come down) and `FreshInv` (a staging lookup that succeeded has reset the
  integrators). `LateralInBounds` needs `SideInv`: in a retract the tip stands where
  the last row that went out put it, and that row is one of those before `row`. With
  `OffsetRises` (a later row is neither lower nor nearer the axis, in each mode and for
  every number of rows) a skipped row cannot matter; `SpiralShare` bounds the radius by
  the height, through two interpolations rounded apart.
- `Training`: `SwapInv` says where trained and averaged weights are at each point of the
  loop; `ScoreInv`, `CkptInv` and `MatrixInv` what scores, file and results come from.
- `Relabel`: `ForestInv`: every edge that was read is the motion of its child seen from its
  parent. A climb to the root is a chain of such edges (`ClimbsChains`), though edges
  change and cycles may close; the transforms along it compose to the motion of a frame
  seen from its ancestor (`TransformsCompose`), and two climbs that meet give where the
  one frame is from the other (`ResolvedTruly`). The live detector sees one frame at a time and the offline window the whole
  trace. `DetectorInv` says of the detector what the trace alone determines: when it has
  fired, that was at the first frame at which a slow span was long enough, and
  `lowSince` is the onset of that span. The window's first run of slow frames then
  contains it.
- `Episodes`: `EpisodeInv`: times rise; the ticks they were recorded at rise too or, turned
  around, fall; the seat is the frame nearest to its time, or the last. The blocks of a
  split are disjoint and cover it (`BlocksPartition`), so what is kept and weighted can
  be read block by block, whatever was loaded before and after.
- `Sweep`: `RungInv` (who is alive was trained for the current budget and has a score at
  every rung before), `StoppedInv` (who was stopped had enough others ahead at that
  rung, all who went on among them) and `LeaderInv`. `Survivors` keeps a prefix of a
  ranking with ties broken by number; that ranking, its least elements and the size of
  what is kept are lemmas over sets of any size.
- `Suite`: `DrawInv` (a stratum that is still due is never more than one copy behind any
  other, which is what survives a kill; the seed counts the configs written), `DirInv` and
  `FastInv` (a directory holds a prefix of its suite, all of it once it has a manifest),
  `RunInv` (rows are those of a prefix of a whole directory) and `DeskInv` (what is
  written after what). The paired comparison needs from them that names identify scenes.
- `OffLimitContacts`: `NameInv` (what the world started with stays and is alone of its
  name; of a spawned name at most one entity is present, the last) and `WatchedInv` (one
  entity per name is watched, the spawned name found last). Counting entities is then
  the same as having every name (`AllWatched`), and nothing unwatched is the first of
  its name.
- `CablePlugin`: `HeldInv` ties each joint and static model of the simulator to a field
  of a plugin that still runs, `ReleasedInv` the announced insertions to states, and
  `TouchInv` the port to the flag: it is written first and never cleared.
  `RemovedLeavesNothing` alone is not inductive, because it speaks only of the end.
- `ResetJointsPlugin`: `ServingInv`: the map and the promise belong to the request whose
  callback waits.
- `AicAdapter`: `ImagesInv`: what is on its way is newer than what was delivered, and a
  camera whose pixels were moved out is not behind any other, so that a second
  observation needs a newer image of every camera. `SamplesInv`: a deque holds the
  newest samples of those delivered, in order.
- `Recorder`: `StateInv` (when the bag is open, and for which trial), `FlagInv` (a flag is
  set only for a message in the bag, though flags are cleared after subscribing) and
  `ScoreInv` (nothing of an earlier trial is left in what a score is computed from), at
  each control point of the engine's thread and of the callback.
- `Scoring`: `ScoringInv` is about the bag recorded so far and the same bag with every
  message repeated. One message more is one callback more (`GatheredMore`), which takes
  nothing away from path, time above the threshold and contacts (`ConductGrows`); this
  needs that wrenches are in the order of their stamps. A callback cannot tell apart two
  passes that agree on `Same` (`SameStep`): the fields the categories read, and the time
  above the threshold in place of the wrenches, of which the repeated bag keeps more; nor
  does the same message again change them (`SameAgain`). `NearerScoresMore` compares two
  plug poses through every pair of tiers.

`ServicesInvariant` is the conjunction of the services' invariants: a step of one leaves
the variables of the others, which `OneServiceSteps` says once. `Min` is a `CHOOSE`; that
it has the property its name says is the well-ordering of the naturals (`LeastNumber`).
Where a proof needs the first frame, the least score or the nearest rung it takes the
least of a set by this lemma, in place of an induction. So are the lemmas of `FoldLemmas`
proved: that a fold over a function or a sequence exists as a function by recursion, that
any term may be taken out of a sum, that what a fold builds stays in a set no element
leads out of, and what one element more does to it. `TLAPS` instantiates no operator by a
fact that takes one, so a fold over an operator is first shown to be one over a sequence of
functions (`GatheredFolds`, `TransformsCompose`).

Only model-checked:

- the liveness properties (`GoalsEnd`, `RunEnds`, `BatchEnds`, `CampaignEnds`, and what
  `NothingLeftBehind`, `ReleasedIsInserted` and `RequestsAreServed` say beyond their
  safety): liveness under fairness and `ENABLED` are out of the prover's reach.

Every other property of a passing run is a theorem.

## What is not modelled

- `aic_model`: the target-mode cache. `MoveRobot` is one publication. A policy that
  blocks in the mode switch before it is a policy that does not return.
- `aic_engine`: `initialize()`; interruption of the process (`rclcpp::ok()` becoming
  false); exceptions of the YAML library; the flags `skip_model_ready` and
  `skip_ready_simulator`. The check that an unconfigured model moved the robot is
  taken as passed: it counts messages on topics nothing publishes on. What is written
  of the scores.
- `aic_scoring`: the transform tree and its lookups, the filter that gives the jerk,
  the parsing of the configuration and of port names, and `ScoringTier1`, which keeps
  no state. A task that has no end time is scored 0 and not in `Scoring`, where every
  task was completed.
- `aic_controller`: control laws and trajectory filters are floating-point arithmetic
  against a real-time loop; the switch of the target mode is part of that loop.
- `aic_gazebo`: physics and the simulator's entity manager, which the repository does
  not hold, are arbitrary. `ScoringPlugin` publishes poses and `WorldSdfGenerator`
  writes a file, with no state several steps could get wrong. The cable guard and other
  delays than the cable's description has. `AicEngine` knows the plugins only as calls
  that succeed, are refused or time out.
- `aic_adapter`: the order of the joints in a message (`ReorderJointState`). For the
  policies, observations are arbitrary.
- Policies: networks, orientation, joint kinematics and the values of forces.
- Harness and suites: the statistics' numbers (means, intervals), figures,
  dashboards, and values of poses that do not decide whether a trial can be won.
- Collection and training: images, file formats, normalisation, losses, gradients,
  mixed precision.
- Launch files, message definitions, robot and world descriptions, teleoperation:
  no protocol of their own.

Taken for granted: the fast suite is built into a fresh directory with one time limit;
each manifest line has a directory of its own; for an SC member of the official
trials the cell's rail is the SC rail's index, while for a stratified SC member it
only numbers the cell. `PairedFairly` is about one suite: directories of two suites have
the same names in them, and nothing in the code would notice. Validation losses are
numbers. The port of a recording is the one `--port-frame` names or
`select_entrance_frame` finds by itself; `--port-name`, which is matched against the
ends of names, is not modelled.
