------------------------------ MODULE Recorder ------------------------------
(***************************************************************************)
(* The scoring recorder, aic_scoring/src/ScoringTier2.cc, between the two  *)
(* threads of the engine's process that use it: the engine's own, which    *)
(* starts, stops and scores a recording for each trial, and the node's     *)
(* single-threaded executor, which takes messages out of subscriptions     *)
(* and writes them into the bag.  They share the state, the bag and two    *)
(* atomic flags; the mutex is taken by callbacks, by the opening and by    *)
(* the closing of a recording, and not by Reset().                         *)
(*                                                                         *)
(* A message is its topic and the trial during which it was published.     *)
(***************************************************************************)
EXTENDS Naturals, Sequences, FiniteSets, SequencesExt

CONSTANTS
  Topics,       \* the configured topics, in order
  NTrials,      \* trials of the configuration
  MAX_RETRIES,  \* attempts at a stage that is retried
  KeepLast,     \* messages a subscription holds
  MaxPending    \* bound: subscriptions with a message waiting when one is published

\* kScoringTfTopic and kTfTopic: what WaitForTfs waits for.
Tf == {"/scoring/tf", "/tf"}

ASSUME RecorderAssumption ==
  /\ Topics \in Seq(STRING) /\ Tf \subseteq {Topics[i] : i \in DOMAIN Topics}
  /\ NTrials \in Nat \ {0} /\ MAX_RETRIES \in Nat \ {0} /\ KeepLast \in Nat \ {0}
  /\ MaxPending \in Nat

Topic == {Topics[i] : i \in DOMAIN Topics}
Message == [topic : Topic, trial : 0..NTrials]

VARIABLES
  pc,             \* where the engine's thread is
  trial, attempt, \* of run() and of its retry loops
  state,          \* ScoringTier2::state
  bag,            \* bagWriter and the file behind it
  subscriptions,  \* topic and queue of each, oldest first
  received,       \* topics whose flag (cableTfReceived, ...) is set
  times,          \* trial that set task_start_time and task_end_time, 0 if unset
  read,           \* messages ComputeScore has processed since the last Reset
  scored,         \* trials that have a tier 2 and a tier 3 score
  callback,       \* what the executor's thread is doing, with the mutex
  published       \* topics that have a publisher

engineVars == <<pc, trial, attempt, times, read, scored>>
recorderVars == <<engineVars, state, bag, subscriptions, received, callback, published>>

RecorderInit ==
  /\ pc = "trial_end" /\ trial = 0 /\ attempt = 1
  /\ state = "Idle"
  /\ bag = [trial |-> 0, open |-> FALSE, messages |-> {}]
  /\ subscriptions = <<>> /\ received = {}
  /\ times = [start |-> 0, end |-> 0] /\ read = {} /\ scored = {}
  /\ callback = [at |-> "idle"]
  /\ published \in SUBSET Topic

Goto(p) == pc' = p

\* The process ends with run().
Running == pc \notin {"finished", "stopped", "died"}

\* The engine's thread holds the mutex within one step, a callback until it
\* has set its flag.
MutexFree == callback.at \notin {"writing", "flag"}

-----------------------------------------------------------------------------
(***************************************************************************)
(* The engine's thread.                                                    *)
(***************************************************************************)

NextTrial ==
  /\ pc = "trial_end" /\ trial < NTrials
  /\ trial' = trial + 1 /\ attempt' = 1 /\ Goto("endpoints")
  /\ UNCHANGED <<times, read, scored, state, bag, subscriptions, received, callback,
                 published>>

RunDone ==
  /\ pc = "trial_end" /\ trial = NTrials /\ Goto("finished")
  /\ UNCHANGED <<trial, attempt, times, read, scored, state, bag, subscriptions, received, callback, published>>

\* A stage failed: it is tried again, or the run stops with an error.
Retry(p) ==
  IF attempt < MAX_RETRIES THEN attempt' = attempt + 1 /\ Goto(p)
                           ELSE Goto("stopped") /\ UNCHANGED attempt

MissingRequiredTopics ==
  {subscriptions[i].topic : i \in DOMAIN subscriptions} \ published

\* check_endpoints polls until nothing is missing or its time is up.
CheckEndpoints ==
  /\ pc = "endpoints"
  /\ IF MissingRequiredTopics = {} THEN attempt' = 1 /\ Goto("start") ELSE Retry("endpoints")
  /\ UNCHANGED <<trial, times, read, scored, state, bag, subscriptions, received,
                 callback, published>>

\* Reset(), without the mutex: everything up to the closing of the bag.
Reset ==
  /\ pc = "start" /\ Goto("closing")
  /\ state' = "Idle"
  /\ times' = [start |-> 0, end |-> 0] /\ read' = {}
  /\ UNCHANGED <<trial, attempt, scored, bag, subscriptions, received, callback,
                 published>>

\* bagWriter.close(), without the mutex.
ResetBag ==
  /\ pc = "closing" /\ Goto("opening")
  /\ bag' = [bag EXCEPT !.open = FALSE]
  /\ UNCHANGED <<trial, attempt, times, read, scored, state, subscriptions, received,
                 callback, published>>

OpenBag ==
  /\ pc = "opening" /\ MutexFree /\ state = "Idle"
  /\ state' = "Recording" /\ Goto("subscribe")
  /\ bag' = [trial |-> trial, open |-> TRUE, messages |-> {}]
  /\ UNCHANGED <<trial, attempt, times, read, scored, subscriptions, received,
                 callback, published>>

\* The recorder is busy, or the bag cannot be opened.
OpenFails ==
  /\ pc = "opening" /\ MutexFree /\ Retry("start")
  /\ UNCHANGED <<trial, times, read, scored, state, bag, subscriptions, received,
                 callback, published>>

\* Subscriptions are added to those of earlier recordings.
Subscribe ==
  /\ pc = "subscribe" /\ Goto("clear_start")
  /\ subscriptions' =
       subscriptions \o [i \in DOMAIN Topics |-> [topic |-> Topics[i], queue |-> <<>>]]
  /\ UNCHANGED <<trial, attempt, times, read, scored, state, bag, received, callback,
                 published>>

\* WaitForTfs, called by StartRecording and by StopRecording.
ClearFlags ==
  /\ \/ pc = "clear_start" /\ Goto("wait_start")
     \/ pc = "clear_stop" /\ Goto("wait_stop")
  /\ received' = {}
  /\ UNCHANGED <<trial, attempt, times, read, scored, state, bag, subscriptions,
                 callback, published>>

Started ==
  /\ pc = "wait_start" /\ received = Tf /\ Goto("send_goal")
  /\ UNCHANGED <<trial, attempt, times, read, scored, state, bag, subscriptions, received, callback, published>>

StartTimesOut ==
  /\ pc = "wait_start" /\ received # Tf /\ Retry("start")
  /\ UNCHANGED <<trial, times, read, scored, state, bag, subscriptions, received,
                 callback, published>>

\* A goal that is refused ends the run; the recorder is left recording.
SendGoal ==
  /\ pc = "send_goal"
  /\ \/ Goto("executing") /\ times' = [times EXCEPT !.start = trial]
     \/ Goto("stopped") /\ UNCHANGED times
  /\ UNCHANGED <<trial, attempt, read, scored, state, bag, subscriptions, received,
                 callback, published>>

\* The task succeeds, or fails or overruns its limit and has no end time.
TaskEnds ==
  /\ pc = "executing" /\ Goto("clear_stop")
  /\ \/ times' = [times EXCEPT !.end = trial]
     \/ UNCHANGED times
  /\ UNCHANGED <<trial, attempt, read, scored, state, bag, subscriptions, received,
                 callback, published>>

StopTimesOut_Scored ==
  /\ pc = "wait_stop" /\ received # Tf /\ Goto("score")
  /\ UNCHANGED <<trial, attempt, times, read, scored, state, bag, subscriptions, received,
                 callback, published>>

StopTimesOut ==
  /\ pc = "wait_stop" /\ received # Tf /\ Goto("trial_end")
  /\ UNCHANGED <<trial, attempt, times, read, scored, state, bag, subscriptions, received, callback, published>>

StopRecording_Unlocked ==
  /\ pc = "wait_stop" /\ received = Tf
  /\ IF state = "Recording"
     THEN state' = "Idle" /\ bag' = [bag EXCEPT !.open = FALSE] /\ Goto("score")
     ELSE Goto("trial_end") /\ UNCHANGED <<state, bag>>
  /\ UNCHANGED <<trial, attempt, times, read, scored, subscriptions, received, callback,
                 published>>

StopRecording ==
  /\ pc = "wait_stop" /\ received = Tf /\ MutexFree
  /\ IF state = "Recording"
     THEN state' = "Idle" /\ bag' = [bag EXCEPT !.open = FALSE] /\ Goto("score")
     ELSE Goto("trial_end") /\ UNCHANGED <<state, bag>>
  /\ UNCHANGED <<trial, attempt, times, read, scored, subscriptions, received,
                 callback, published>>

\* ComputeScore: a bag that cannot be opened still gives a score, of nothing.
OpenForReading ==
  /\ pc = "score"
  /\ \/ state = "Idle" /\ state' = "Scoring" /\ Goto("reading") /\ UNCHANGED scored
     \/ Goto("trial_end") /\ scored' = scored \cup {trial} /\ UNCHANGED state
  /\ UNCHANGED <<trial, attempt, times, read, bag, subscriptions, received, callback,
                 published>>

ReadBag ==
  /\ pc = "reading" /\ Goto("trial_end")
  /\ read' = read \cup bag.messages
  /\ state' = "Idle" /\ scored' = scored \cup {trial}
  /\ UNCHANGED <<trial, attempt, times, bag, subscriptions, received, callback,
                 published>>

-----------------------------------------------------------------------------
(***************************************************************************)
(* The executor's thread: one callback at a time.                          *)
(***************************************************************************)

\* The callback of a message takes the mutex and tests the state; what it finds
\* not to be recording it drops.
Take(i) ==
  /\ Running /\ callback.at = "idle" /\ subscriptions[i].queue # <<>>
  /\ IF state = "Recording"
     THEN callback' = [at |-> "writing", message |-> Head(subscriptions[i].queue)]
     ELSE UNCHANGED callback
  /\ subscriptions' = [subscriptions EXCEPT ![i].queue = Tail(@)]
  /\ UNCHANGED <<engineVars, state, bag, received, published>>

Write ==
  /\ callback.at = "writing" /\ bag.open
  /\ bag' = [bag EXCEPT !.messages = @ \cup {callback.message}]
  /\ callback' = [callback EXCEPT !.at = "flag"]
  /\ UNCHANGED <<engineVars, state, subscriptions, received, published>>

\* The bag was closed meanwhile: the message is lost, or the exception ends
\* the executor's thread and the process with it.
WriteFails ==
  /\ callback.at = "writing" /\ ~bag.open
  /\ \/ callback' = [callback EXCEPT !.at = "flag"] /\ UNCHANGED pc
     \/ callback' = [at |-> "dead"] /\ Goto("died")
  /\ UNCHANGED <<trial, attempt, times, read, scored, state, bag, subscriptions, received, published>>

\* Sets the flag of a transform topic and releases the mutex.
Flag ==
  /\ callback.at = "flag"
  /\ received' = received \cup ({callback.message.topic} \cap Tf)
  /\ callback' = [at |-> "idle"]
  /\ UNCHANGED <<engineVars, state, bag, subscriptions, published>>

-----------------------------------------------------------------------------
(***************************************************************************)
(* The other nodes.  A full queue loses its oldest message.                *)
(***************************************************************************)

Deliver(q, m) ==
  IF Len(q) < KeepLast THEN Append(q, m) ELSE Append(Tail(q), m)

Publish(topic) ==
  /\ Cardinality({i \in DOMAIN subscriptions : subscriptions[i].queue # <<>>}) <= MaxPending
  /\ Running /\ topic \in published
  /\ subscriptions' = [i \in DOMAIN subscriptions |->
       IF subscriptions[i].topic = topic
       THEN [subscriptions[i] EXCEPT !.queue = Deliver(@, [topic |-> topic, trial |-> trial])]
       ELSE subscriptions[i]]
  /\ UNCHANGED <<engineVars, state, bag, received, callback, published>>

Advertise(topic) ==
  /\ Running /\ topic \notin published /\ published' = published \cup {topic}
  /\ UNCHANGED <<engineVars, state, bag, subscriptions, received, callback>>

-----------------------------------------------------------------------------
Engine ==
  \/ NextTrial \/ RunDone
  \/ CheckEndpoints
  \/ Reset \/ ResetBag \/ OpenBag \/ OpenFails \/ Subscribe
  \/ ClearFlags \/ Started \/ StartTimesOut
  \/ SendGoal \/ TaskEnds
  \/ StopTimesOut \/ StopRecording
  \/ OpenForReading \/ ReadBag

Executor ==
  \/ \E i \in DOMAIN subscriptions : Take(i)
  \/ Write \/ WriteFails \/ Flag

RecorderNext ==
  \/ Engine
  \/ Executor
  \/ \E topic \in Topic : Publish(topic) \/ Advertise(topic)

-----------------------------------------------------------------------------
(***************************************************************************)
(* Properties.                                                             *)
(***************************************************************************)

\* A goal is only sent while a recording of its own trial is running and that
\* recording holds a message of the cable and one of the gripper: neither a flag
\* nor a bag left by an earlier recording, or by an attempt that failed, passes
\* for this one's.  A message that was queued when the recording opened counts,
\* of whichever trial it is: the recorder does not look.
GoalIsRecorded ==
  pc \in {"send_goal", "executing"} =>
    /\ state = "Recording" /\ bag.open /\ bag.trial = trial
    /\ Tf \subseteq {m.topic : m \in bag.messages}

\* The score of a trial is of its own bag, of all of it, and of nothing an
\* earlier recording left in the recorder: neither bag nor start or end time.
OwnScore ==
  pc = "trial_end" /\ trial \in scored /\ read # {} =>
    /\ bag.trial = trial /\ read = bag.messages
    /\ times.start = trial /\ times.end \in {0, trial}

\* A bag being scored is not being written: what stopped the recording waited
\* for the callback in the middle of it.
ReadBagAtRest ==
  pc \in {"score", "reading"} => callback.at \notin {"writing", "flag"} /\ ~bag.open

\* Each trial has its own recording: a goal is sent into it, and the score is
\* taken from it when nobody writes to it any more.
OwnRecording == GoalIsRecorded /\ OwnScore /\ ReadBagAtRest

\* The recorder keeps its side of what the engine and it promise each other.
Promise == INSTANCE TrialRecording WITH
  recording <- state = "Recording" \/ pc \in {"score", "reading"}
RecorderImplementsTrialRecording == Promise!Spec

=============================================================================
