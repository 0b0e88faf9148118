-------------------------- MODULE ResetJointsPlugin --------------------------
(***************************************************************************)
(* The reset-joints plugin, aic_gazebo/src/ResetJointsPlugin.cc: the       *)
(* callback of its service, on a thread of its own, hands a request to the *)
(* simulator's update through a map and a promise and waits.  Requests are *)
(* numbered in the order they are made; the engine, their client, stops    *)
(* waiting after a while and may ask again while the first still waits.    *)
(***************************************************************************)
EXTENDS Naturals, Sequences, FiniteSets

CONSTANTS
  Joints,       \* joints of the robot
  Unknown,      \* names that are no joint of it
  MaxRequests   \* bound: requests made

ASSUME ResetAssumption == Joints \cap Unknown = {} /\ MaxRequests \in Nat

VARIABLES
  requests,         \* joints each request names
  queue,            \* requests the service has not taken
  serving,          \* the request whose callback waits, 0 if none
  requestedJoints,
  reset_promise,    \* whether there is one
  resets,           \* joints the simulator has reset for each request
  answers,          \* what each request has been answered
  plugin            \* "loaded", "unloading" in the destructor, "unloaded"

resetJointsVars == <<requests, queue, serving, requestedJoints, reset_promise, resets, answers, plugin>>

ResetJointsInit ==
  /\ requests = <<>> /\ queue = <<>> /\ serving = 0
  /\ requestedJoints = {} /\ reset_promise = FALSE
  /\ resets = <<>> /\ answers = <<>> /\ plugin = "loaded"

\* A client's call; one that names no joint, or not a position for each, is
\* the empty set.
Call(names) ==
  /\ Len(requests) < MaxRequests
  /\ requests' = Append(requests, names)
  /\ queue' = Append(queue, Len(requests'))
  /\ resets' = Append(resets, {}) /\ answers' = Append(answers, "none")
  /\ UNCHANGED <<serving, requestedJoints, reset_promise, plugin>>

Answer(r, a) == answers' = [answers EXCEPT ![r] = a]

Taken(r) ==
  /\ plugin = "loaded" /\ serving = 0 /\ queue # <<>>
  /\ r = Head(queue) /\ queue' = Tail(queue)

Reject(r) ==
  /\ Taken(r)
  /\ requests[r] = {} \/ requestedJoints # {} \/ reset_promise
  /\ Answer(r, "rejected")
  /\ UNCHANGED <<requests, serving, requestedJoints, reset_promise, resets, plugin>>

Accept(r) ==
  /\ Taken(r)
  /\ requests[r] # {} /\ requestedJoints = {} /\ ~reset_promise
  /\ serving' = r
  /\ reset_promise' = TRUE /\ requestedJoints' = requests[r]
  /\ UNCHANGED <<requests, resets, answers, plugin>>

\* future_ptr->get() returns.
ReturnSuccess ==
  /\ serving # 0 /\ ~reset_promise
  /\ Answer(serving, "success") /\ serving' = 0
  /\ UNCHANGED <<requests, queue, requestedJoints, reset_promise, resets, plugin>>

ResetFound(names) ==
  resets' = [r \in DOMAIN resets |-> IF r = serving THEN names \cap Joints ELSE resets[r]]

ResetJointsPreUpdate_PromiseLeft ==
  /\ plugin = "loaded" /\ requestedJoints # {}
  /\ ResetFound(requestedJoints)
  /\ requestedJoints' = {} /\ UNCHANGED reset_promise
  /\ UNCHANGED <<requests, queue, serving, answers, plugin>>

\* Joints that are not found are skipped; the promise is kept and dropped.  An
\* update within a period of the last one returns before it reads the map: it
\* is a stutter, and only delays this one.
ResetJointsPreUpdate ==
  /\ plugin = "loaded" /\ requestedJoints # {}
  /\ ResetFound(requestedJoints)
  /\ requestedJoints' = {} /\ reset_promise' = FALSE
  /\ UNCHANGED <<requests, queue, serving, answers, plugin>>

\* The destructor shuts ROS down and joins the thread, which a callback that
\* waits for an update does not leave.
Unload ==
  /\ plugin = "loaded" /\ plugin' = "unloading"
  /\ UNCHANGED <<requests, queue, serving, requestedJoints, reset_promise, resets, answers>>

Join ==
  /\ plugin = "unloading" /\ serving = 0 /\ plugin' = "unloaded"
  /\ UNCHANGED <<requests, queue, serving, requestedJoints, reset_promise, resets, answers>>

Service == (\E r \in 1..MaxRequests : Reject(r) \/ Accept(r)) \/ ReturnSuccess

ResetJointsNext ==
  \/ \E names \in SUBSET (Joints \cup Unknown) : Call(names)
  \/ Service
  \/ ResetJointsPreUpdate
  \/ Unload \/ Join

-----------------------------------------------------------------------------
(***************************************************************************)
(* Properties.                                                             *)
(***************************************************************************)

\* Success is answered after the reset, and another request's passes for none.
AnswerIsOwn ==
  \A r \in DOMAIN answers :
    answers[r] = "success" => requests[r] \cap Joints \subseteq resets[r]

Asked(r) == r \in DOMAIN requests /\ requests[r] # {}

Succeeded(r) == r \in DOMAIN answers /\ answers[r] = "success"

\* A request with joints in it succeeds, however many are waiting before it:
\* none is turned away because the plugin is still busy with another.
NeverBusy ==
  \A r \in 1..MaxRequests : Asked(r) ~> Succeeded(r) \/ plugin # "loaded"

\* What the engine relies on when it homes the robot: a request with joints in
\* it is answered in the end, behind however many that were abandoned, and the
\* answer is about its own joints.
RequestsAreServed == []AnswerIsOwn /\ NeverBusy

=============================================================================
