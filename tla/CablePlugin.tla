----------------------------- MODULE CablePlugin -----------------------------
(***************************************************************************)
(* The cable plugin, aic_gazebo/src/CablePlugin.cc, one instance for each  *)
(* cable a trial attaches to the gripper.  At each update of the simulator *)
(* it carries its cable from the harness to the gripper and, once a port   *)
(* has reported the touch of the plug, from the gripper to the port; touch *)
(* messages come in on a thread of the transport, without a mutex.         *)
(*                                                                         *)
(* Both delays are 0, as cable.sdf.xacro sets them, so that WAITING passes *)
(* within the update that enters it, and there is no cable guard.          *)
(* Entities are named by what they join, and one that is requested to be   *)
(* removed is gone when the update ends.                                   *)
(***************************************************************************)
EXTENDS Naturals, Sequences, FiniteSets

CONSTANTS
  Cables,   \* number of cables spawned, one after the other
  Ports     \* ports whose topics name the cable's connection

ASSUME CableAssumption == Cables \in Nat \ {0} /\ Ports # {}

Cable == 1..Cables

VARIABLES
  cableState,
  removed,      \* cables whose model is removed from the simulator
  fields,       \* the joints each plugin holds in its three fields
  joints,       \* the joints of the simulator: <<cable, field>>
  staticModels, \* static models of the simulator, by the link they hold
  staticEntities, \* of these, what each plugin has created
  subscribed,   \* cables that have found the topics of their port
  delivering,     \* the touch message being delivered, <<>> if none
  touchEventCallbackNamespace, attachCableConnection0ToPort,
  released,     \* cables whose touch was acted on
  insertions    \* insertion events, in the order published

simVars == <<joints, staticModels>>
messageVars == <<delivering, touchEventCallbackNamespace, attachCableConnection0ToPort>>
cableVars == <<cableState, removed, fields, simVars, staticEntities, subscribed, messageVars,
          released, insertions>>

NoPort == "none"

CableInit ==
  /\ cableState = [c \in Cable |-> "INITIALIZATION"] /\ removed = {}
  /\ fields = [c \in Cable |-> {}] /\ joints = {}
  /\ staticModels = {} /\ staticEntities = [c \in Cable |-> {}]
  /\ subscribed = {} /\ delivering = <<>>
  /\ touchEventCallbackNamespace = [c \in Cable |-> NoPort]
  /\ attachCableConnection0ToPort = [c \in Cable |-> FALSE]
  /\ released = {} /\ insertions = <<>>

Enter(c, s) == cableState' = [cableState EXCEPT ![c] = s]

-----------------------------------------------------------------------------
(***************************************************************************)
(* The engine spawns and deletes; a delete that fails leaves the cable.    *)
(***************************************************************************)

Configure(c) ==
  /\ cableState[c] = "INITIALIZATION"
  /\ c > 1 => cableState[c - 1] # "INITIALIZATION"
  /\ Enter(c, "HARNESS")
  /\ UNCHANGED <<removed, fields, simVars, staticEntities, subscribed, messageVars, released, insertions>>

DeleteCable(c) ==
  /\ cableState[c] # "INITIALIZATION" /\ c \notin removed
  /\ removed' = removed \cup {c}
  /\ UNCHANGED <<cableState, fields, simVars, staticEntities, subscribed, messageVars, released, insertions>>

-----------------------------------------------------------------------------
(***************************************************************************)
(* What one update of a plugin does in each state.                         *)
(***************************************************************************)

Removal_NotCompleted(c) ==
  /\ c \in removed /\ cableState[c] \notin {"CABLE_REMOVED", "COMPLETED"}
  /\ Enter(c, "CABLE_REMOVED")
  /\ joints' = joints \ ({c} \X fields[c])
  /\ staticModels' = staticModels \ staticEntities[c]
  /\ staticEntities' = [staticEntities EXCEPT ![c] = {}]
  /\ UNCHANGED <<removed, fields, subscribed, messageVars, released, insertions>>

\* Cleanup, before anything else and in every state.  IsModelValid asks which
\* entities this iteration removes, and the simulator lets every plugin update
\* before it removes them: no removal passes an update by, so that having been
\* deleted (removed) says as much as being removed now.
Removal(c) ==
  /\ c \in removed /\ cableState[c] # "CABLE_REMOVED"
  /\ Enter(c, "CABLE_REMOVED")
  /\ joints' = joints \ ({c} \X fields[c])
  /\ staticModels' = staticModels \ staticEntities[c]
  /\ staticEntities' = [staticEntities EXCEPT ![c] = {}]
  /\ UNCHANGED <<removed, fields, subscribed, messageVars, released, insertions>>

In(c, s) == c \notin removed /\ cableState[c] = s

\* MakeStatic reuses a static model of that name, whoever created it.
MakeStatic(c, links) ==
  /\ staticModels' = staticModels \cup links
  /\ staticEntities' = [staticEntities EXCEPT ![c] = @ \cup (links \ staticModels)]

\* HARNESS, WAITING and the first half of CREATE_CONNECTIONS: the joints made
\* to hold the cable are requested to be removed in the same update.
Harness(c) ==
  /\ In(c, "HARNESS") /\ Enter(c, "CREATE_CONNECTIONS")
  /\ MakeStatic(c, {"connection_0", "connection_1"})
  /\ UNCHANGED <<removed, fields, joints, subscribed, messageVars, released, insertions>>

CreateConnections(c) ==
  /\ In(c, "CREATE_CONNECTIONS") /\ Enter(c, "CABLE_ATTACHED_TO_GRIPPER")
  /\ fields' = [fields EXCEPT ![c] = {"joint0"}]
  /\ joints' = joints \cup {<<c, "joint0">>}
  /\ UNCHANGED <<removed, staticModels, staticEntities, subscribed, messageVars, released, insertions>>

\* Topics of the port are looked for until there are some.
SubscribeToPort(c) ==
  /\ In(c, "CABLE_ATTACHED_TO_GRIPPER") /\ c \notin subscribed
  /\ subscribed' = subscribed \cup {c}
  /\ UNCHANGED <<cableState, removed, fields, simVars, staticEntities, messageVars, released, insertions>>

\* The touch is seen: the gripper lets go of the plug.
Insert(c) ==
  /\ In(c, "CABLE_ATTACHED_TO_GRIPPER") /\ c \in subscribed
  /\ attachCableConnection0ToPort[c]
  /\ Enter(c, "ATTACH_CABLE_TO_PORT")
  /\ released' = released \cup {c}
  /\ fields' = [fields EXCEPT ![c] = {}] /\ joints' = joints \ {<<c, "joint0">>}
  /\ UNCHANGED <<removed, staticModels, staticEntities, subscribed, messageVars, insertions>>

AttachToPort_WhileTouched(c) ==
  /\ In(c, "ATTACH_CABLE_TO_PORT") /\ attachCableConnection0ToPort[c]
  /\ Enter(c, "COMPLETED")
  /\ MakeStatic(c, {"connection_0", "connection_1", "end_effector"})
  /\ fields' = [fields EXCEPT ![c] = {"static0", "static1", "locked"}]
  /\ joints' = joints \cup ({c} \X {"static0", "static1", "locked"})
  /\ insertions' = Append(insertions, <<c, touchEventCallbackNamespace[c]>>)
  /\ UNCHANGED <<removed, subscribed, messageVars, released>>

\* The next update fixes both ends, locks the arm and publishes the event.
AttachToPort(c) ==
  /\ In(c, "ATTACH_CABLE_TO_PORT") /\ Enter(c, "COMPLETED")
  /\ MakeStatic(c, {"connection_0", "connection_1", "end_effector"})
  /\ fields' = [fields EXCEPT ![c] = {"static0", "static1", "locked"}]
  /\ joints' = joints \cup ({c} \X {"static0", "static1", "locked"})
  /\ insertions' = Append(insertions, <<c, touchEventCallbackNamespace[c]>>)
  /\ UNCHANGED <<removed, subscribed, messageVars, released>>

CablePreUpdate(c) ==
  \/ Removal(c)
  \/ Harness(c)
  \/ CreateConnections(c) \/ SubscribeToPort(c)
  \/ Insert(c) \/ AttachToPort(c)

-----------------------------------------------------------------------------
(***************************************************************************)
(* The transport's thread: the port first, then the flag.                  *)
(***************************************************************************)

TouchCallback(c, port, data) ==
  /\ c \in subscribed /\ c \notin removed /\ delivering = <<>>
  /\ delivering' = <<c, port, data>>
  /\ touchEventCallbackNamespace' = [touchEventCallbackNamespace EXCEPT ![c] = port]
  /\ UNCHANGED <<cableState, removed, fields, simVars, staticEntities, subscribed,
                 attachCableConnection0ToPort, released, insertions>>

TouchCallbackEnds ==
  /\ delivering # <<>> /\ delivering' = <<>>
  /\ LET c == delivering[1] IN
       attachCableConnection0ToPort' = [attachCableConnection0ToPort EXCEPT ![c] = delivering[3]]
  /\ UNCHANGED <<cableState, removed, fields, simVars, staticEntities, subscribed,
                 touchEventCallbackNamespace, released, insertions>>

CableNext ==
  \/ \E c \in Cable : Configure(c) \/ DeleteCable(c) \/ CablePreUpdate(c)
  \/ \E c \in Cable, port \in Ports, data \in BOOLEAN : TouchCallback(c, port, data)
  \/ TouchCallbackEnds

-----------------------------------------------------------------------------
(***************************************************************************)
(* Properties.                                                             *)
(***************************************************************************)

AllGone == \A c \in Cable : c \in removed \/ cableState[c] = "INITIALIZATION"

\* In whatever state the cables are deleted, and whoever made the static models
\* they used, nothing that could hold the arm or the next cable stays behind.
NothingLeftBehind == AllGone ~> (joints = {} /\ staticModels = {}) \/ ~AllGone

Inserted(c) == \E i \in DOMAIN insertions : insertions[i][1] = c

\* A plug that was let go at its port is fixed there and announced, even if it
\* lost touch when it was let go, unless the cable is deleted.
ReleasedIsInserted ==
  \A c \in Cable : c \in released ~> Inserted(c) \/ c \in removed

=============================================================================
