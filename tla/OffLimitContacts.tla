-------------------------- MODULE OffLimitContacts --------------------------
(***************************************************************************)
(* The off-limit contacts plugin, aic_gazebo/src/OffLimitContactsPlugin.cc:*)
(* at its update rate it resolves the names of the off-limit models to     *)
(* entities of the simulator and publishes the contacts of the robot's     *)
(* collisions with them; what the recorder counts of these messages is     *)
(* ContactsCallback of aic_scoring/src/ScoringTier2.cc.                    *)
(*                                                                         *)
(* The simulator is external: models are spawned and deleted under names,  *)
(* each under an entity number of its own, and touch the robot at will.    *)
(***************************************************************************)
EXTENDS Naturals, Sequences, FiniteSets, Functions

CONSTANTS
  OffLimitModels,  \* off_limit_models, in the order of the set
  Spawned,         \* names a trial spawns
  Collisions,      \* number of collisions of the robot
  UpdatePeriod,    \* iterations of the simulator in the plugin's period
  MaxEntities      \* bound: entities created in a run

ASSUME OffLimitAssumption ==
  /\ OffLimitModels \in Seq(STRING) /\ Spawned \subseteq STRING
  /\ Collisions \in Nat \ {0} /\ UpdatePeriod \in Nat \ {0}
  /\ MaxEntities \in Nat /\ MaxEntities >= Len(OffLimitModels)

Names == {OffLimitModels[i] : i \in DOMAIN OffLimitModels}

\* enclosure, enclosure walls and task_board: a set, in the order of the names,
\* in which the one that trials spawn comes last.
ASSUME SpawnedLastAssumption ==
  /\ IsInjective(OffLimitModels) /\ "renamed" \notin Names
  /\ \A i \in DOMAIN OffLimitModels : OffLimitModels[i] \in Spawned => i = Len(OffLimitModels)

VARIABLES
  name,              \* name each entity was created under, in order
  present,           \* entities that are in the simulator
  contacts,          \* what each collision touches: its ContactSensorData
  offLimitEntities,
  elapsed,           \* iterations since lastUpdateTime, UpdatePeriod if more
  looked,            \* the step before was an update that was not throttled
  messages           \* contacts of the messages it published

offLimitVars == <<name, present, contacts, offLimitEntities, elapsed, looked, messages>>

\* The world holds the off-limit models that no trial spawns.
OffLimitInit ==
  /\ \E w \in 0..Len(OffLimitModels) : name \in Bijection(1..w, Names \ Spawned)
  /\ present = DOMAIN name
  /\ contacts = [c \in 1..Collisions |-> {}] /\ offLimitEntities = {}
  /\ elapsed = 0 /\ looked = FALSE /\ messages = {}

-----------------------------------------------------------------------------
(***************************************************************************)
(* The simulator.                                                          *)
(***************************************************************************)

Forget == looked' = FALSE /\ messages' = {}

\* With allow_renaming a name that is taken is changed.
SpawnModel(n) ==
  /\ Len(name) < MaxEntities
  /\ LET free == \A e \in present : name[e] # n IN
     name' = Append(name, IF free THEN n ELSE "renamed")
  /\ present' = present \cup {Len(name')}
  /\ Forget /\ UNCHANGED <<contacts, offLimitEntities, elapsed>>

DeleteModel(e) ==
  /\ e \in present /\ name[e] \in Spawned \cup {"renamed"}
  /\ present' = present \ {e}
  /\ contacts' = [c \in 1..Collisions |-> contacts[c] \ {e}]
  /\ Forget /\ UNCHANGED <<name, offLimitEntities, elapsed>>

\* Simulated time passes and the arm moves.
Simulate ==
  /\ contacts' \in [1..Collisions -> SUBSET present]
  /\ elapsed' = IF elapsed < UpdatePeriod THEN elapsed + 1 ELSE elapsed
  /\ Forget /\ UNCHANGED <<name, present, offLimitEntities>>

-----------------------------------------------------------------------------
(***************************************************************************)
(* The plugin.                                                             *)
(***************************************************************************)

Candidates(n) == {e \in present : name[e] = n}

\* InitializeOffLimitEntities: up to the first name that is not exactly one
\* entity's.
Resolved ==
  {e \in present : \E i \in DOMAIN OffLimitModels :
     /\ name[e] = OffLimitModels[i]
     /\ \A j \in 1..i : Cardinality(Candidates(OffLimitModels[j])) = 1}

\* Only while fewer entities than names have been found.
Watched ==
  IF Cardinality(offLimitEntities) # Cardinality(Names)
  THEN offLimitEntities \cup Resolved ELSE offLimitEntities

\* shouldPublish after collision c: one without contacts leaves it as it was.
ShouldPublish(off, c) ==
  \E d \in 1..c : contacts[d] \cap off # {} /\ \A k \in (d + 1)..c : contacts[k] = {}

Throttled == elapsed > 0 /\ elapsed < UpdatePeriod

\* Waits until every name is resolved.
Update_AllResolved ==
  /\ ~Throttled
  /\ elapsed' = 0 /\ offLimitEntities' = Watched
  /\ looked' = TRUE
  /\ messages' = IF Cardinality(Watched) # Cardinality(Names) THEN {}
                 ELSE {contacts[c] : c \in {c \in 1..Collisions : ShouldPublish(Watched, c)}}
  /\ UNCHANGED <<name, present, contacts>>

Update ==
  /\ ~Throttled
  /\ elapsed' = 0 /\ offLimitEntities' = Watched
  /\ looked' = TRUE
  /\ messages' = {contacts[c] : c \in {c \in 1..Collisions : ShouldPublish(Watched, c)}}
  /\ UNCHANGED <<name, present, contacts>>

Skip ==
  /\ Throttled
  /\ Forget /\ UNCHANGED <<name, present, contacts, offLimitEntities, elapsed>>

OffLimitPreUpdate == Update \/ Skip

OffLimitNext ==
  \/ \E n \in Spawned : SpawnModel(n)
  \/ \E e \in present : DeleteModel(e)
  \/ Simulate
  \/ OffLimitPreUpdate

OffLimitSpec == OffLimitInit /\ [][OffLimitNext]_offLimitVars

-----------------------------------------------------------------------------
(***************************************************************************)
(* Properties.                                                             *)
(***************************************************************************)

\* ContactsCallback drops a message without contacts.
Counted == messages \ {{}}

OffLimit(e) == name[e] \in Names

\* What is published for the robot's collisions is about things that are off
\* limits: a message that is published for a collision only because the one
\* before it touched one does not count.
PenaltyIsOffLimit == \A m \in Counted : \E e \in m : OffLimit(e)

\* What the robot touches when the plugin looks is reported, if it is the first
\* of its name: that the others are still to be spawned does not matter.
FirstIsReported ==
  looked => \A c \in 1..Collisions : \A e \in contacts[c] :
    OffLimit(e) /\ (\A d \in 1..(e - 1) : name[d] # name[e])
      => \E m \in Counted : e \in m

\* The penalty for contacts is given for the right ones, neither for harmless
\* ones nor with exceptions, as far as the first model of each name goes.
PenaltyIsDeserved == PenaltyIsOffLimit /\ FirstIsReported

(***************************************************************************)
(* What the repository says of the plugin and the code does not do.        *)
(***************************************************************************)

\* "-24 points if any contact with off-limit entities is detected": once each
\* name has been found the names are not looked up again, so the board that is
\* spawned for the second trial is not among the entities.
EveryContactReported ==
  looked => \A c \in 1..Collisions : \A e \in contacts[c] :
    OffLimit(e) => \E m \in Counted : e \in m

=============================================================================
