--------------------------- MODULE CollectionProofs ---------------------------
(***************************************************************************)
(* What the collection campaigns leave on disk, for any number of tasks,   *)
(* kills and failing converters.                                           *)
(***************************************************************************)
EXTENDS Collection, TLAPS

Pc == {"start", "task", "trial", "stop", "judge", "convert", "gate", "clean", "done"}
Stored == Outcome \cup {None}

\* The part of the types that the arguments need, and where the loop is
\* inside a task.
Shape ==
  /\ mode \in {"campaign", "dagger", "disasm"}
  /\ pc \in Pc
  /\ i \in 1..Tasks + 1
  /\ pc \notin {"start", "task", "done"} => i \in 1..Tasks
  /\ written \in Nat
  /\ faults \in Nat
  /\ ep \in [1..Tasks -> [Arrays -> Stored]]

\* A trial that is converted left a bag, and passed what its script tests first.
TrialInv ==
  /\ pc \in {"stop", "judge"} /\ trial.end = "bag" => trial.outcome \in Outcome
  /\ pc \in {"convert", "gate"} =>
       /\ trial.end = "bag" /\ trial.outcome \in Outcome
       /\ mode = "campaign" => trial.outcome.good
       /\ mode = "disasm" => ~trial.outcome.ins

-----------------------------------------------------------------------------
(* What is saved *)

LEMMA NoneIsNoOutcome == None \notin Outcome
  BY DEF None, Outcome

LEMMA EmptyIsStored == Empty \in [Arrays -> Stored] /\ \A a \in Arrays : Empty[a] = None
  BY DEF Empty, Stored

\* The markers of a finished episode are among the arrays a converter saves.
LEMMA Orders ==
  ASSUME mode \in {"campaign", "dagger", "disasm"}
  PROVE  /\ Len(SaveOrder) = 5
         /\ \A k \in 1..5 : SaveOrder[k] \in Arrays
         /\ ToSet(SaveOrder) = {SaveOrder[k] : k \in 1..5}
         /\ DoneMarkers \subseteq {SaveOrder[k] : k \in 1..5}
         /\ mode # "disasm" => "poses" \in {SaveOrder[k] : k \in 1..5}
<1>1. CASE mode = "campaign"
  <2>1. SaveOrder = DemoOrder BY <1>1 DEF SaveOrder
  <2>2. /\ DemoOrder[1] = "vel" /\ DemoOrder[2] = "poses" /\ DemoOrder[3] = "joints"
        /\ DemoOrder[4] = "seat_frame" /\ DemoOrder[5] = "seat_time" /\ Len(DemoOrder) = 5
        /\ DOMAIN DemoOrder = 1..5
    BY DEF DemoOrder
  <2>3. DoneMarkers = {"vel", "joints"} BY <1>1 DEF DoneMarkers
  <2>4. QED BY <1>1, <2>1, <2>2, <2>3 DEF ToSet, Arrays
<1>2. CASE mode = "disasm"
  <2>1. SaveOrder = ReverseOrder BY <1>2 DEF SaveOrder
  <2>2. /\ ReverseOrder[1] = "poses" /\ ReverseOrder[2] = "joints" /\ ReverseOrder[3] = "vel"
        /\ ReverseOrder[4] = "seat_frame" /\ ReverseOrder[5] = "seat_time"
        /\ Len(ReverseOrder) = 5 /\ DOMAIN ReverseOrder = 1..5
    BY DEF ReverseOrder
  <2>3. DoneMarkers = {"vel", "seat_frame"} BY <1>2 DEF DoneMarkers
  <2>4. QED BY <1>2, <2>1, <2>2, <2>3 DEF ToSet, Arrays
<1>3. CASE mode = "dagger"
  <2>1. SaveOrder = RelabelOrder BY <1>3 DEF SaveOrder
  <2>2. /\ RelabelOrder[1] = "poses" /\ RelabelOrder[2] = "joints" /\ RelabelOrder[3] = "port"
        /\ RelabelOrder[4] = "offsets" /\ RelabelOrder[5] = "seat_time"
        /\ Len(RelabelOrder) = 5 /\ DOMAIN RelabelOrder = 1..5
    BY DEF RelabelOrder
  <2>3. DoneMarkers = {"port", "poses"} BY <1>3 DEF DoneMarkers
  <2>4. QED BY <1>3, <2>1, <2>2, <2>3 DEF ToSet, Arrays
<1>4. QED BY <1>1, <1>2, <1>3

\* The port is saved by the relabelling alone, third and after the poses.
LEMMA PortOrder ==
  ASSUME mode \in {"campaign", "dagger", "disasm"}, NEW k \in 1..5
  PROVE  /\ SaveOrder[k] = "port" <=> mode = "dagger" /\ k = 3
         /\ mode = "dagger" => (SaveOrder[k] = "poses" <=> k = 1)
<1>1. CASE mode = "campaign" BY <1>1 DEF SaveOrder, DemoOrder
<1>2. CASE mode = "disasm" BY <1>2 DEF SaveOrder, ReverseOrder
<1>3. CASE mode = "dagger" BY <1>3 DEF SaveOrder, RelabelOrder
<1>4. QED BY <1>1, <1>2, <1>3

-----------------------------------------------------------------------------
(* Types and trials *)

LEMMA PlaceStep ==
  ASSUME Shape, [CollectionNext]_collectionVars
  PROVE  /\ mode' \in {"campaign", "dagger", "disasm"} /\ pc' \in Pc /\ i' \in 1..Tasks + 1
         /\ pc' \notin {"start", "task", "done"} => i' \in 1..Tasks
         /\ written' \in Nat /\ faults' \in Nat
<1> DEFINE PlaceGoal == /\ mode' \in {"campaign", "dagger", "disasm"} /\ pc' \in Pc /\ i' \in 1..Tasks + 1
                        /\ pc' \notin {"start", "task", "done"} => i' \in 1..Tasks
                        /\ written' \in Nat /\ faults' \in Nat
<1> SUFFICES PlaceGoal OBVIOUS
<1> USE CollectionAssumption DEF Shape, Pc
<1>1. CASE Start BY <1>1 DEF Start
<1>2. CASE SkipDone BY <1>2 DEF SkipDone, NextTask, Log, MoreTasks
<1>3. CASE NoConfig BY <1>3 DEF NoConfig, NextTask, Log
<1>4. CASE Record BY <1>4 DEF Record
<1>5. CASE TrialEnds BY <1>5 DEF TrialEnds
<1>6. CASE StopStragglers BY <1>6 DEF StopStragglers
<1>7. CASE JudgeFailed BY <1>7 DEF JudgeFailed, NextTask, Log
<1>8. CASE JudgeScore BY <1>8 DEF JudgeScore, Log
<1>9. CASE JudgeLatched BY <1>9 DEF JudgeLatched, NextTask, Log
<1>10. CASE JudgeConvert BY <1>10 DEF JudgeConvert
<1>11. CASE NoFrames BY <1>11 DEF NoFrames
<1>12. CASE SaveArray BY <1>12 DEF SaveArray
<1>13. CASE SavedAll BY <1>13 DEF SavedAll
<1>14. CASE Gate BY <1>14 DEF Gate, Log
<1>15. CASE Clean BY <1>15 DEF Clean, NextTask
<1>16. CASE Done BY <1>16 DEF Done, MoreTasks
<1>17. CASE ConverterFails BY <1>17 DEF ConverterFails
<1>18. CASE KillAndRestart BY <1>18 DEF KillAndRestart
<1>19. CASE UNCHANGED collectionVars BY <1>19 DEF collectionVars
<1>20. QED
  BY <1>1, <1>2, <1>3, <1>4, <1>5, <1>6, <1>7, <1>8, <1>9, <1>10, <1>11, <1>12, <1>13,
     <1>14, <1>15, <1>16, <1>17, <1>18, <1>19
  DEF CollectionNext, CampaignStep

\* A campaign stays in its mode, and so do the orders and the markers.
LEMMA ModeStep ==
  ASSUME [CollectionNext]_collectionVars
  PROVE  mode' = mode
<1>1. CASE Start BY <1>1 DEF Start
<1>2. CASE SkipDone BY <1>2 DEF SkipDone, NextTask, Log, MoreTasks
<1>3. CASE NoConfig BY <1>3 DEF NoConfig, NextTask, Log
<1>4. CASE Record BY <1>4 DEF Record
<1>5. CASE TrialEnds BY <1>5 DEF TrialEnds
<1>6. CASE StopStragglers BY <1>6 DEF StopStragglers
<1>7. CASE JudgeFailed BY <1>7 DEF JudgeFailed, NextTask, Log
<1>8. CASE JudgeScore BY <1>8 DEF JudgeScore, Log
<1>9. CASE JudgeLatched BY <1>9 DEF JudgeLatched, NextTask, Log
<1>10. CASE JudgeConvert BY <1>10 DEF JudgeConvert
<1>11. CASE NoFrames BY <1>11 DEF NoFrames
<1>12. CASE SaveArray BY <1>12 DEF SaveArray
<1>13. CASE SavedAll BY <1>13 DEF SavedAll
<1>14. CASE Gate BY <1>14 DEF Gate, Log
<1>15. CASE Clean BY <1>15 DEF Clean, NextTask
<1>16. CASE Done BY <1>16 DEF Done, MoreTasks
<1>17. CASE ConverterFails BY <1>17 DEF ConverterFails
<1>18. CASE KillAndRestart BY <1>18 DEF KillAndRestart
<1>19. CASE UNCHANGED collectionVars BY <1>19 DEF collectionVars
<1>20. QED
  BY <1>1, <1>2, <1>3, <1>4, <1>5, <1>6, <1>7, <1>8, <1>9, <1>10, <1>11, <1>12, <1>13,
     <1>14, <1>15, <1>16, <1>17, <1>18, <1>19
  DEF CollectionNext, CampaignStep

LEMMA SameOrder ==
  ASSUME [CollectionNext]_collectionVars
  PROVE  SaveOrder' = SaveOrder /\ DoneMarkers' = DoneMarkers
<1>1. mode' = mode BY ModeStep
<1>2. QED BY <1>1 DEF SaveOrder, DoneMarkers

\* One array of one directory changes when a converter saves.
LEMMA SaveArrayEffect ==
  ASSUME Shape, TrialInv, SaveArray
  PROVE  /\ written \in 0..4 /\ i \in 1..Tasks
         /\ SaveOrder[written + 1] \in Arrays
         /\ ep' \in [1..Tasks -> [Arrays -> Stored]]
         /\ ep'[i][SaveOrder[written + 1]] = trial.outcome
         /\ \A t \in 1..Tasks, a \in Arrays :
              t # i \/ a # SaveOrder[written + 1] => ep'[t][a] = ep[t][a]
<1> DEFINE b == SaveOrder[written + 1]
<1>1. written \in 0..4 BY Orders DEF Shape, SaveArray
<1>2. b \in Arrays BY <1>1, Orders DEF Shape
<1>3. i \in 1..Tasks BY DEF Shape, SaveArray
<1>4. trial.outcome \in Stored BY DEF SaveArray, TrialInv, Stored
<1>5. ep' = [ep EXCEPT ![i][b] = trial.outcome] BY DEF SaveArray
<1>6. ep \in [1..Tasks -> [Arrays -> Stored]] BY DEF Shape
<1> HIDE DEF b
<1>7. ep' = [ep EXCEPT ![i] = [ep[i] EXCEPT ![b] = trial.outcome]] BY <1>3, <1>5, <1>6
<1>8. [ep[i] EXCEPT ![b] = trial.outcome] \in [Arrays -> Stored] BY <1>2, <1>3, <1>4, <1>6
<1>9. ep' \in [1..Tasks -> [Arrays -> Stored]] BY <1>3, <1>6, <1>7, <1>8
<1>10. ep'[i] = [ep[i] EXCEPT ![b] = trial.outcome] BY <1>3, <1>6, <1>7
<1>11. \A t \in 1..Tasks : t # i => ep'[t] = ep[t] BY <1>3, <1>6, <1>7
<1>12. ep[i] \in [Arrays -> Stored] BY <1>3, <1>6
<1>13. ep'[i][b] = trial.outcome BY <1>2, <1>10, <1>12
<1>14. \A a \in Arrays : a # b => ep'[i][a] = ep[i][a] BY <1>10, <1>12
<1>15. QED BY <1>1, <1>2, <1>3, <1>9, <1>11, <1>13, <1>14 DEF b

\* A rejected trial leaves an empty directory.
LEMMA ClearedEffect ==
  ASSUME Shape, i \in 1..Tasks, ep' = [ep EXCEPT ![i] = Empty]
  PROVE  /\ ep' \in [1..Tasks -> [Arrays -> Stored]]
         /\ ep'[i] = Empty
         /\ \A t \in 1..Tasks : t # i => ep'[t] = ep[t]
  BY EmptyIsStored DEF Shape

LEMMA GateEffect ==
  ASSUME Shape, Gate
  PROVE  ep' = ep \/ ep' = [ep EXCEPT ![i] = Empty]
  BY DEF Gate

LEMMA ShapeStep ==
  ASSUME Shape, TrialInv, [CollectionNext]_collectionVars
  PROVE  Shape'
<1> SUFFICES ep' \in [1..Tasks -> [Arrays -> Stored]] BY PlaceStep DEF Shape
<1>1. ASSUME Start \/ SkipDone \/ NoConfig \/ Record \/ TrialEnds \/ StopStragglers
            \/ JudgeFailed \/ JudgeScore \/ JudgeConvert \/ NoFrames \/ SavedAll \/ Clean
            \/ Done \/ ConverterFails \/ KillAndRestart
            \/ UNCHANGED collectionVars
     PROVE  UNCHANGED <<ep>>
  BY <1>1 DEF collectionVars, Start, SkipDone, NextTask, Log, MoreTasks, NoConfig,
     Record, TrialEnds, StopStragglers, JudgeFailed, JudgeScore, JudgeConvert, NoFrames,
     SavedAll, Clean, Done, ConverterFails, KillAndRestart
<1>2. ASSUME ep' = ep PROVE ep' \in [1..Tasks -> [Arrays -> Stored]]
  BY <1>2 DEF Shape
<1>3. CASE JudgeLatched
  BY <1>3, ClearedEffect DEF JudgeLatched, Shape
<1>4. CASE SaveArray
  BY <1>4, SaveArrayEffect
<1>5. CASE Gate
  BY <1>5, GateEffect, ClearedEffect DEF Gate, Shape
<1>6. QED
  BY <1>1, <1>2, <1>3, <1>4, <1>5
  DEF CollectionNext, CampaignStep

LEMMA TrialStep ==
  ASSUME TrialInv, [CollectionNext]_collectionVars
  PROVE  TrialInv'
<1> USE ModeStep DEF TrialInv
<1>1. CASE Start BY <1>1 DEF Start
<1>2. CASE SkipDone BY <1>2 DEF SkipDone, NextTask, Log, MoreTasks
<1>3. CASE NoConfig BY <1>3 DEF NoConfig, NextTask, Log
<1>4. CASE Record BY <1>4 DEF Record
<1>5. CASE TrialEnds BY <1>5 DEF TrialEnds
<1>6. CASE StopStragglers BY <1>6 DEF StopStragglers
<1>7. CASE JudgeFailed BY <1>7 DEF JudgeFailed, NextTask, Log
<1>8. CASE JudgeScore BY <1>8 DEF JudgeScore, Log
<1>9. CASE JudgeLatched BY <1>9 DEF JudgeLatched, NextTask, Log
<1>10. CASE JudgeConvert BY <1>10 DEF JudgeConvert
<1>11. CASE NoFrames BY <1>11 DEF NoFrames
<1>12. CASE SaveArray BY <1>12 DEF SaveArray
<1>13. CASE SavedAll BY <1>13 DEF SavedAll
<1>14. CASE Gate BY <1>14 DEF Gate, Log
<1>15. CASE Clean BY <1>15 DEF Clean, NextTask
<1>16. CASE Done BY <1>16 DEF Done, MoreTasks
<1>17. CASE ConverterFails BY <1>17 DEF ConverterFails
<1>18. CASE KillAndRestart BY <1>18 DEF KillAndRestart
<1>19. CASE UNCHANGED collectionVars BY <1>19 DEF collectionVars
<1>20. QED
  BY <1>1, <1>2, <1>3, <1>4, <1>5, <1>6, <1>7, <1>8, <1>9, <1>10, <1>11, <1>12, <1>13,
     <1>14, <1>15, <1>16, <1>17, <1>18, <1>19
  DEF CollectionNext, CampaignStep

-----------------------------------------------------------------------------
(* The episode being made, and those already kept *)

Trusted  == mode # "campaign" \/ faults = 0
WholeCollection(t) ==
  \E o \in Outcome :
    /\ \A a \in ToSet(SaveOrder) : ep[t][a] = o
    /\ o.frames /\ (mode = "campaign" => o.good /\ o.ins)

\* Rows are about lines of the manifest.
RowsInv == \A r \in rows : r[2] \in 1..Tasks

\* The first arrays of the directory are of the trial being converted.
PrefixInv ==
  /\ pc \in {"trial", "stop", "judge"} => written = 0
  /\ pc \in {"start", "task"} => written = 0
  /\ pc = "convert" /\ trial.outcome.frames =>
       \A k \in 1..5 : k <= written => ep[i][SaveOrder[k]] = trial.outcome

\* A directory that reaches the gate with a good status is complete; a
\* demo's is complete or empty, as long as nothing failed.
GateInv ==
  /\ pc = "gate" /\ mode # "campaign" /\ rc = 0 =>
       /\ trial.outcome.frames
       /\ \A k \in 1..5 : ep[i][SaveOrder[k]] = trial.outcome
  /\ pc = "gate" /\ mode = "campaign" /\ faults = 0 =>
       \/ trial.outcome.frames /\ \A k \in 1..5 : ep[i][SaveOrder[k]] = trial.outcome
       \/ ep[i] = Empty
  /\ pc = "convert" /\ mode = "campaign" /\ faults = 0 /\ ~trial.outcome.frames =>
       ep[i] = Empty

\* The directories a first campaign has not come to are empty.
AheadInv ==
  mode = "campaign" /\ faults = 0 =>
    \A t \in 1..Tasks :
      t > i \/ (t = i /\ pc \in {"start", "task", "trial", "stop", "judge"}) => ep[t] = Empty

\* What is recorded again was not kept before.
NotKeptInv ==
  Trusted /\ pc \in {"trial", "stop", "judge", "convert", "gate"} =>
    \A r \in rows : r[3] = "KEEP" => r[2] # i

\* A relabelled directory with a port has the poses of the same trial; one
\* recorded again has no port, until its converter saves it.
PortInv ==
  /\ mode # "dagger" => \A t \in 1..Tasks : ep[t]["port"] = None
  /\ mode = "dagger" => \A t \in 1..Tasks : ep[t]["port"] # None =>
       ep[t]["poses"] = ep[t]["port"] /\ ep[t]["port"].frames
  /\ mode = "dagger" /\ (pc \in {"trial", "stop", "judge"} \/ (pc = "convert" /\ written < 3)) =>
       ep[i]["port"] = None

\* No array of a reversed demo is of a trial that touched.
LatchInv ==
  mode = "disasm" => \A t \in 1..Tasks, a \in Arrays : ep[t][a] # None => ~ep[t][a].ins

LEMMA RowsStep ==
  ASSUME Shape, RowsInv, [CollectionNext]_collectionVars
  PROVE  RowsInv'
<1>1. ASSUME Start \/ Record \/ TrialEnds \/ StopStragglers \/ JudgeConvert \/ NoFrames
            \/ SaveArray \/ SavedAll \/ Clean \/ Done \/ ConverterFails \/ KillAndRestart
            \/ UNCHANGED collectionVars
     PROVE  UNCHANGED <<rows>>
  BY <1>1 DEF collectionVars, Start, Record, TrialEnds, StopStragglers, JudgeConvert,
     NoFrames, SaveArray, SavedAll, Clean, NextTask, Done, MoreTasks, ConverterFails,
     KillAndRestart
<1> USE CollectionAssumption DEF RowsInv, Shape
<1>2. ASSUME UNCHANGED <<rows>> PROVE RowsInv'
  BY <1>2
<1>3. CASE SkipDone BY <1>3 DEF SkipDone, NextTask, Log, MoreTasks
<1>4. CASE NoConfig BY <1>4 DEF NoConfig, NextTask, Log
<1>5. CASE JudgeFailed BY <1>5 DEF JudgeFailed, NextTask, Log
<1>6. CASE JudgeScore BY <1>6 DEF JudgeScore, Log
<1>7. CASE JudgeLatched BY <1>7 DEF JudgeLatched, NextTask, Log
<1>8. CASE Gate BY <1>8 DEF Gate, Log
<1>9. QED
  BY <1>1, <1>2, <1>3, <1>4, <1>5, <1>6, <1>7, <1>8
  DEF CollectionNext, CampaignStep

\* The recorder is down from the stragglers' stop to the next recording.
RecorderInv == pc \in {"task", "judge", "convert", "gate", "clean"} => ~recorder

LEMMA RecorderStep ==
  ASSUME RecorderInv, [CollectionNext]_collectionVars
  PROVE  RecorderInv'
<1> USE DEF RecorderInv
<1>1. CASE Start BY <1>1 DEF Start
<1>2. CASE SkipDone BY <1>2 DEF SkipDone, NextTask, Log, MoreTasks
<1>3. CASE NoConfig BY <1>3 DEF NoConfig, NextTask, Log
<1>4. CASE Record BY <1>4 DEF Record
<1>5. CASE TrialEnds BY <1>5 DEF TrialEnds
<1>6. CASE StopStragglers BY <1>6 DEF StopStragglers
<1>7. CASE JudgeFailed BY <1>7 DEF JudgeFailed, NextTask, Log
<1>8. CASE JudgeScore BY <1>8 DEF JudgeScore, Log
<1>9. CASE JudgeLatched BY <1>9 DEF JudgeLatched, NextTask, Log
<1>10. CASE JudgeConvert BY <1>10 DEF JudgeConvert
<1>11. CASE NoFrames BY <1>11 DEF NoFrames
<1>12. CASE SaveArray BY <1>12 DEF SaveArray
<1>13. CASE SavedAll BY <1>13 DEF SavedAll
<1>14. CASE Gate BY <1>14 DEF Gate, Log
<1>15. CASE Clean BY <1>15 DEF Clean, NextTask
<1>16. CASE Done BY <1>16 DEF Done, MoreTasks
<1>17. CASE ConverterFails BY <1>17 DEF ConverterFails
<1>18. CASE KillAndRestart BY <1>18 DEF KillAndRestart
<1>19. CASE UNCHANGED collectionVars BY <1>19 DEF collectionVars
<1>20. QED
  BY <1>1, <1>2, <1>3, <1>4, <1>5, <1>6, <1>7, <1>8, <1>9, <1>10, <1>11, <1>12, <1>13,
     <1>14, <1>15, <1>16, <1>17, <1>18, <1>19
  DEF CollectionNext, CampaignStep

LEMMA PrefixStep ==
  ASSUME Shape, TrialInv, PrefixInv, [CollectionNext]_collectionVars
  PROVE  PrefixInv'
<1>0. SaveOrder' = SaveOrder BY SameOrder
<1> USE <1>0 DEF PrefixInv
<1>1. CASE Start BY <1>1 DEF Start
<1>2. CASE SkipDone BY <1>2 DEF SkipDone, NextTask, Log, MoreTasks
<1>3. CASE NoConfig BY <1>3 DEF NoConfig, NextTask, Log
<1>4. CASE Record BY <1>4 DEF Record
<1>5. CASE TrialEnds BY <1>5 DEF TrialEnds
<1>6. CASE StopStragglers BY <1>6 DEF StopStragglers
<1>7. CASE JudgeFailed BY <1>7 DEF JudgeFailed, NextTask, Log
<1>8. CASE JudgeScore BY <1>8 DEF JudgeScore, Log
<1>9. CASE JudgeLatched BY <1>9 DEF JudgeLatched, NextTask, Log
<1>10. CASE JudgeConvert
  <2>1. written' = 0 /\ pc' = "convert" BY <1>10 DEF JudgeConvert
  <2>2. QED BY <2>1
<1>11. CASE NoFrames BY <1>11 DEF NoFrames
<1>12. CASE SaveArray
  <2>1. /\ written \in 0..4 /\ i \in 1..Tasks /\ ep'[i][SaveOrder[written + 1]] = trial.outcome
        /\ \A a \in Arrays : a # SaveOrder[written + 1] => ep'[i][a] = ep[i][a]
    BY <1>12, SaveArrayEffect
  <2>2. \A k \in 1..5 : SaveOrder[k] \in Arrays BY Orders DEF Shape
  <2>3. i' = i /\ trial' = trial /\ pc' = "convert" /\ pc = "convert" /\ trial.outcome.frames
        /\ written' = written + 1
    BY <1>12 DEF SaveArray
  <2>4. ASSUME NEW k \in 1..5, k <= written' PROVE ep'[i][SaveOrder[k]] = trial.outcome
    <3>1. CASE SaveOrder[k] = SaveOrder[written + 1] BY <2>1, <3>1
    <3>2. CASE SaveOrder[k] # SaveOrder[written + 1]
      <4>1. k <= written BY <2>1, <2>3, <2>4, <3>2
      <4>2. QED BY <2>1, <2>2, <2>3, <3>2, <4>1
    <3>3. QED BY <3>1, <3>2
  <2>5. QED BY <2>3, <2>4
<1>13. CASE SavedAll BY <1>13 DEF SavedAll
<1>14. CASE Gate BY <1>14 DEF Gate, Log
<1>15. CASE Clean BY <1>15 DEF Clean, NextTask
<1>16. CASE Done BY <1>16 DEF Done, MoreTasks
<1>17. CASE ConverterFails BY <1>17 DEF ConverterFails
<1>18. CASE KillAndRestart BY <1>18 DEF KillAndRestart
<1>19. CASE UNCHANGED collectionVars BY <1>19 DEF collectionVars
<1>20. QED
  BY <1>1, <1>2, <1>3, <1>4, <1>5, <1>6, <1>7, <1>8, <1>9, <1>10, <1>11, <1>12, <1>13,
     <1>14, <1>15, <1>16, <1>17, <1>18, <1>19
  DEF CollectionNext, CampaignStep

LEMMA GateStep ==
  ASSUME Shape, TrialInv, PrefixInv, AheadInv, GateInv, [CollectionNext]_collectionVars
  PROVE  GateInv'
<1>0. SaveOrder' = SaveOrder BY SameOrder
<1> USE <1>0 DEF GateInv, Shape
<1>1. CASE Start BY <1>1 DEF Start
<1>2. CASE SkipDone BY <1>2 DEF SkipDone, NextTask, Log, MoreTasks
<1>3. CASE NoConfig BY <1>3 DEF NoConfig, NextTask, Log
<1>4. CASE Record BY <1>4 DEF Record
<1>5. CASE TrialEnds BY <1>5 DEF TrialEnds
<1>6. CASE StopStragglers BY <1>6 DEF StopStragglers
<1>7. CASE JudgeFailed BY <1>7 DEF JudgeFailed, NextTask, Log
<1>8. CASE JudgeScore BY <1>8 DEF JudgeScore, Log
<1>9. CASE JudgeLatched BY <1>9 DEF JudgeLatched, NextTask, Log
<1>10. CASE JudgeConvert
  <2>1. /\ pc = "judge" /\ pc' = "convert" /\ i' = i /\ ep' = ep /\ mode' = mode /\ faults' = faults
    BY <1>10 DEF JudgeConvert
  <2>2. i \in 1..Tasks BY <2>1
  <2>3. mode = "campaign" /\ faults = 0 => ep[i] = Empty BY <2>1, <2>2 DEF AheadInv
  <2>4. QED BY <2>1, <2>3
<1>11. CASE NoFrames BY <1>11 DEF NoFrames
<1>12. CASE SaveArray
  <2>1. pc' = "convert" /\ trial.outcome.frames /\ trial' = trial BY <1>12 DEF SaveArray
  <2>2. QED BY <2>1
<1>13. CASE SavedAll
  <2>1. written = 5 BY <1>13, Orders DEF SavedAll
  <2>2. /\ trial.outcome.frames /\ trial' = trial /\ i' = i /\ ep' = ep /\ mode' = mode
        /\ pc = "convert" /\ pc' = "gate" /\ faults' = faults
    BY <1>13 DEF SavedAll
  <2>3. \A k \in 1..5 : ep[i][SaveOrder[k]] = trial.outcome BY <2>1, <2>2 DEF PrefixInv
  <2>4. QED BY <2>2, <2>3
<1>14. CASE Gate BY <1>14 DEF Gate, Log
<1>15. CASE Clean BY <1>15 DEF Clean, NextTask
<1>16. CASE Done BY <1>16 DEF Done, MoreTasks
<1>17. CASE ConverterFails
  <2>1. faults' > 0 /\ rc' = 1 /\ pc' = "gate" BY <1>17 DEF ConverterFails
  <2>2. QED BY <2>1
<1>18. CASE KillAndRestart BY <1>18 DEF KillAndRestart
<1>19. CASE UNCHANGED collectionVars BY <1>19 DEF collectionVars
<1>20. QED
  BY <1>1, <1>2, <1>3, <1>4, <1>5, <1>6, <1>7, <1>8, <1>9, <1>10, <1>11, <1>12, <1>13,
     <1>14, <1>15, <1>16, <1>17, <1>18, <1>19
  DEF CollectionNext, CampaignStep

LEMMA AheadStep ==
  ASSUME Shape, TrialInv, AheadInv, [CollectionNext]_collectionVars
  PROVE  AheadInv'
<1>0. mode' = mode /\ Empty' = Empty BY ModeStep DEF Empty, None
<1> USE <1>0, CollectionAssumption DEF AheadInv, Shape
<1>1. CASE Start BY <1>1 DEF Start
<1>2. CASE SkipDone BY <1>2 DEF SkipDone, NextTask, Log, MoreTasks
<1>3. CASE NoConfig BY <1>3 DEF NoConfig, NextTask, Log
<1>4. CASE Record BY <1>4 DEF Record
<1>5. CASE TrialEnds BY <1>5 DEF TrialEnds
<1>6. CASE StopStragglers BY <1>6 DEF StopStragglers
<1>7. CASE JudgeFailed BY <1>7 DEF JudgeFailed, NextTask, Log
<1>8. CASE JudgeScore BY <1>8 DEF JudgeScore, Log
<1>9. CASE JudgeLatched
  <2>1. mode = "disasm" BY <1>9 DEF JudgeLatched
  <2>2. QED BY <2>1
<1>10. CASE JudgeConvert BY <1>10 DEF JudgeConvert
<1>11. CASE NoFrames BY <1>11 DEF NoFrames
<1>12. CASE SaveArray
  <2>1. /\ i \in 1..Tasks
        /\ \A t \in 1..Tasks, a \in Arrays : t # i => ep'[t][a] = ep[t][a]
        /\ ep' \in [1..Tasks -> [Arrays -> Stored]]
    BY <1>12, SaveArrayEffect
  <2>2. pc' = "convert" /\ i' = i /\ faults' = faults BY <1>12 DEF SaveArray
  <2>3. ASSUME NEW t \in 1..Tasks, t # i PROVE ep'[t] = ep[t] BY <2>1, <2>3
  <2>4. QED BY <2>2, <2>3
<1>13. CASE SavedAll BY <1>13 DEF SavedAll
<1>14. CASE Gate
  <2>1. \A t \in 1..Tasks : t # i => ep'[t] = ep[t] BY <1>14, GateEffect, ClearedEffect DEF Gate
  <2>2. pc' = "clean" /\ i' = i /\ faults' = faults BY <1>14 DEF Gate
  <2>3. QED BY <2>1, <2>2
<1>15. CASE Clean BY <1>15 DEF Clean, NextTask
<1>16. CASE Done BY <1>16 DEF Done, MoreTasks
<1>17. CASE ConverterFails
  <2>1. faults' > 0 BY <1>17 DEF ConverterFails
  <2>2. QED BY <2>1
<1>18. CASE KillAndRestart
  <2>1. faults' > 0 BY <1>18 DEF KillAndRestart
  <2>2. QED BY <2>1
<1>19. CASE UNCHANGED collectionVars BY <1>19 DEF collectionVars
<1>20. QED
  BY <1>1, <1>2, <1>3, <1>4, <1>5, <1>6, <1>7, <1>8, <1>9, <1>10, <1>11, <1>12, <1>13,
     <1>14, <1>15, <1>16, <1>17, <1>18, <1>19
  DEF CollectionNext, CampaignStep

\* Once distrusted a demo campaign stays so.
LEMMA TrustStep ==
  ASSUME Shape, [CollectionNext]_collectionVars, Trusted'
  PROVE  Trusted
<1>0. mode' = mode BY ModeStep
<1> USE <1>0 DEF Shape, Trusted
<1>1. CASE Start BY <1>1 DEF Start
<1>2. CASE SkipDone BY <1>2 DEF SkipDone, NextTask, Log, MoreTasks
<1>3. CASE NoConfig BY <1>3 DEF NoConfig, NextTask, Log
<1>4. CASE Record BY <1>4 DEF Record
<1>5. CASE TrialEnds BY <1>5 DEF TrialEnds
<1>6. CASE StopStragglers BY <1>6 DEF StopStragglers
<1>7. CASE JudgeFailed BY <1>7 DEF JudgeFailed, NextTask, Log
<1>8. CASE JudgeScore BY <1>8 DEF JudgeScore, Log
<1>9. CASE JudgeLatched BY <1>9 DEF JudgeLatched, NextTask, Log
<1>10. CASE JudgeConvert BY <1>10 DEF JudgeConvert
<1>11. CASE NoFrames BY <1>11 DEF NoFrames
<1>12. CASE SaveArray BY <1>12 DEF SaveArray
<1>13. CASE SavedAll BY <1>13 DEF SavedAll
<1>14. CASE Gate BY <1>14 DEF Gate, Log
<1>15. CASE Clean BY <1>15 DEF Clean, NextTask
<1>16. CASE Done BY <1>16 DEF Done, MoreTasks
<1>17. CASE ConverterFails BY <1>17 DEF ConverterFails
<1>18. CASE KillAndRestart BY <1>18 DEF KillAndRestart
<1>19. CASE UNCHANGED collectionVars BY <1>19 DEF collectionVars
<1>20. QED
  BY <1>1, <1>2, <1>3, <1>4, <1>5, <1>6, <1>7, <1>8, <1>9, <1>10, <1>11, <1>12, <1>13,
     <1>14, <1>15, <1>16, <1>17, <1>18, <1>19
  DEF CollectionNext, CampaignStep

LEMMA KeptHasMarkers ==
  ASSUME Shape, KeptIsWhole, Trusted, NEW r \in rows, r[3] = "KEEP", NEW a \in DoneMarkers
  PROVE  ep[r[2]][a] # None
<1>1. PICK o \in Outcome : \A b \in ToSet(SaveOrder) : ep[r[2]][b] = o BY DEF KeptIsWhole, Trusted
<1>2. a \in ToSet(SaveOrder) BY Orders DEF Shape
<1>3. QED BY <1>1, <1>2, NoneIsNoOutcome

LEMMA NotKeptStep ==
  ASSUME Shape, RowsInv, KeptIsWhole, NotKeptInv, [CollectionNext]_collectionVars
  PROVE  NotKeptInv'
<1>0. Trusted' => Trusted BY TrustStep
<1> USE <1>0 DEF NotKeptInv
<1>1. CASE Start BY <1>1 DEF Start
<1>2. CASE SkipDone BY <1>2 DEF SkipDone, NextTask, Log, MoreTasks
<1>3. CASE NoConfig BY <1>3 DEF NoConfig, NextTask, Log
<1>4. CASE Record
  <2>1. rows' = rows /\ i' = i BY <1>4 DEF Record
  <2>2. PICK a \in DoneMarkers : ep[i][a] = None BY <1>4 DEF Record, Exists
  <2>3. ASSUME Trusted, NEW r \in rows, r[3] = "KEEP" PROVE r[2] # i
    BY <2>2, <2>3, KeptHasMarkers
  <2>4. QED BY <1>0, <2>1, <2>3
<1>5. CASE TrialEnds
  <2>1. rows' = rows /\ i' = i /\ pc = "trial" BY <1>5 DEF TrialEnds
  <2>2. QED BY <1>0, <2>1
<1>6. CASE StopStragglers BY <1>6 DEF StopStragglers
<1>7. CASE JudgeFailed BY <1>7 DEF JudgeFailed, NextTask, Log
<1>8. CASE JudgeScore BY <1>8 DEF JudgeScore, Log
<1>9. CASE JudgeLatched BY <1>9 DEF JudgeLatched, NextTask, Log
<1>10. CASE JudgeConvert BY <1>10 DEF JudgeConvert
<1>11. CASE NoFrames BY <1>11 DEF NoFrames
<1>12. CASE SaveArray BY <1>12 DEF SaveArray
<1>13. CASE SavedAll BY <1>13 DEF SavedAll
<1>14. CASE Gate BY <1>14 DEF Gate, Log
<1>15. CASE Clean BY <1>15 DEF Clean, NextTask
<1>16. CASE Done BY <1>16 DEF Done, MoreTasks
<1>17. CASE ConverterFails BY <1>17 DEF ConverterFails
<1>18. CASE KillAndRestart BY <1>18 DEF KillAndRestart
<1>19. CASE UNCHANGED collectionVars BY <1>19 DEF collectionVars
<1>20. QED
  BY <1>1, <1>2, <1>3, <1>4, <1>5, <1>6, <1>7, <1>8, <1>9, <1>10, <1>11, <1>12, <1>13,
     <1>14, <1>15, <1>16, <1>17, <1>18, <1>19
  DEF CollectionNext, CampaignStep

\* An episode that was kept stays whole when its directory is left alone.
LEMMA WholeStays ==
  ASSUME [CollectionNext]_collectionVars, Shape, NEW t, WholeCollection(t),
         \A a \in Arrays : ep'[t][a] = ep[t][a]
  PROVE  WholeCollection(t)'
<1>1. ToSet(SaveOrder)' = ToSet(SaveOrder) BY SameOrder DEF ToSet
<1>2. ToSet(SaveOrder) \subseteq Arrays BY Orders DEF Shape
<1>3. mode' = mode BY ModeStep
<1>4. QED BY <1>1, <1>2, <1>3 DEF WholeCollection

LEMMA KeptStep ==
  ASSUME Shape, TrialInv, RowsInv, GateInv, NotKeptInv, KeptIsWhole,
         [CollectionNext]_collectionVars
  PROVE  KeptIsWhole'
<1> SUFFICES ASSUME NEW r \in rows', r[3] = "KEEP", Trusted'
             PROVE  WholeCollection(r[2])'
  BY DEF KeptIsWhole, Trusted, WholeCollection
<1>t. Trusted BY TrustStep
<1>k. r \in rows => r[2] \in 1..Tasks /\ WholeCollection(r[2])
  BY <1>t DEF RowsInv, KeptIsWhole, Trusted, WholeCollection
<1>n. r \in rows /\ pc \in {"trial", "stop", "judge", "convert", "gate"} => r[2] # i
  BY <1>t DEF NotKeptInv
<1>1. ASSUME Start \/ Record \/ TrialEnds \/ StopStragglers \/ JudgeConvert \/ NoFrames
            \/ SavedAll \/ Clean \/ Done \/ ConverterFails \/ KillAndRestart
            \/ UNCHANGED collectionVars
     PROVE  WholeCollection(r[2])'
  <2>1. ep' = ep /\ rows' = rows BY <1>1 DEF collectionVars, Start, Record, TrialEnds,
       StopStragglers, JudgeConvert, NoFrames, SavedAll, Clean, NextTask, Done,
       MoreTasks, ConverterFails, KillAndRestart
  <2>2. QED BY <1>k, <2>1, WholeStays
<1>2. ASSUME SkipDone \/ NoConfig \/ JudgeFailed \/ JudgeScore
     PROVE  WholeCollection(r[2])'
  <2>1. ep' = ep /\ r \in rows BY <1>2 DEF SkipDone, NoConfig, JudgeFailed, JudgeScore, Log
  <2>2. QED BY <1>k, <2>1, WholeStays
<1>3. CASE JudgeLatched
  <2>1. r \in rows /\ pc = "judge" BY <1>3 DEF JudgeLatched, Log
  <2>2. \A t \in 1..Tasks : t # i => ep'[t] = ep[t] BY <1>3, <2>1, ClearedEffect DEF JudgeLatched, Shape
  <2>3. ep'[r[2]] = ep[r[2]] BY <1>k, <1>n, <2>1, <2>2
  <2>4. QED BY <1>k, <2>1, <2>3, WholeStays
<1>4. CASE SaveArray
  <2>1. r \in rows /\ pc = "convert" BY <1>4 DEF SaveArray
  <2>2. \A a \in Arrays : ep'[r[2]][a] = ep[r[2]][a] BY <1>4, <1>k, <1>n, <2>1, SaveArrayEffect
  <2>3. QED BY <1>k, <2>1, <2>2, WholeStays
<1>5. CASE Gate
  <2>1. pc = "gate" /\ i \in 1..Tasks /\ mode' = mode BY <1>5 DEF Gate, Shape
  <2>2. CASE ~Passes
    <3>1. r \in rows /\ ep' = [ep EXCEPT ![i] = Empty] BY <1>5, <2>2 DEF Gate, Log
    <3>2. \A t \in 1..Tasks : t # i => ep'[t] = ep[t] BY <2>1, <3>1, ClearedEffect
    <3>3. ep'[r[2]] = ep[r[2]] BY <1>k, <1>n, <2>1, <3>1, <3>2
    <3>4. QED BY <1>k, <3>1, <3>3, WholeStays
  <2>3. CASE Passes
    <3>1. ep' = ep /\ rows' = rows \cup {<<faults, i, "KEEP">>} BY <1>5, <2>3 DEF Gate, Log
    <3>2. CASE r \in rows BY <1>k, <3>1, <3>2, WholeStays
    <3>3. CASE r \notin rows
      <4>1. r[2] = i BY <3>1, <3>3
      <4>2. trial.outcome \in Outcome /\ (mode = "campaign" => trial.outcome.good)
        BY <2>1 DEF TrialInv
      <4>3. CASE mode # "campaign"
        <5>1. rc = 0 BY <2>3, <4>3 DEF Passes, Shape
        <5>2. trial.outcome.frames /\ \A k \in 1..5 : ep[i][SaveOrder[k]] = trial.outcome
          BY <2>1, <4>3, <5>1 DEF GateInv
        <5>3. \A a \in ToSet(SaveOrder) : ep[i][a] = trial.outcome BY <5>2, Orders DEF Shape
        <5>4. WholeCollection(i) BY <4>2, <4>3, <5>2, <5>3 DEF WholeCollection
        <5>5. QED BY <3>1, <4>1, <5>4, WholeStays
      <4>4. CASE mode = "campaign"
        <5>1. faults = 0 BY <1>t, <4>4 DEF Trusted
        <5>2. ep[i]["vel"] # None /\ trial.outcome.ins BY <2>3, <4>4 DEF Passes, Exists
        <5>3. ep[i] # Empty
          <6>1. "vel" \in Arrays BY DEF Arrays
          <6>2. QED BY <5>2, <6>1, EmptyIsStored
        <5>4. trial.outcome.frames /\ \A k \in 1..5 : ep[i][SaveOrder[k]] = trial.outcome
          BY <2>1, <4>4, <5>1, <5>3 DEF GateInv
        <5>5. \A a \in ToSet(SaveOrder) : ep[i][a] = trial.outcome BY <5>4, Orders DEF Shape
        <5>6. WholeCollection(i) BY <4>2, <4>4, <5>2, <5>4, <5>5 DEF WholeCollection
        <5>7. QED BY <3>1, <4>1, <5>6, WholeStays
      <4>5. QED BY <4>3, <4>4
    <3>4. QED BY <3>2, <3>3
  <2>4. QED BY <2>2, <2>3
<1>6. QED BY <1>1, <1>2, <1>3, <1>4, <1>5 DEF CollectionNext, CampaignStep

-----------------------------------------------------------------------------
(* Labels and latches *)

LEMMA NotRelabelled ==
  ASSUME Shape, TrialInv, PortInv, SaveArray, mode # "dagger"
  PROVE  \A t \in 1..Tasks : ep'[t]["port"] = None
<1>1. written + 1 \in 1..5 /\ i \in 1..Tasks BY SaveArrayEffect
<1>2. SaveOrder[written + 1] # "port" BY <1>1, PortOrder DEF Shape
<1>3. "port" \in Arrays BY DEF Arrays
<1>4. \A t \in 1..Tasks : ep'[t]["port"] = ep[t]["port"] BY <1>2, <1>3, SaveArrayEffect
<1>5. QED BY <1>4 DEF PortInv

LEMMA PortStep ==
  ASSUME Shape, TrialInv, PrefixInv, PortInv, [CollectionNext]_collectionVars
  PROVE  PortInv'
<1>0. mode' = mode /\ None' = None BY ModeStep DEF None
<1>e. "port" \in Arrays /\ "poses" \in Arrays BY DEF Arrays
<1>c. ASSUME i \in 1..Tasks, ep' = [ep EXCEPT ![i] = Empty], pc' \in {"task", "clean"}
      PROVE  PortInv'
  <2>1. \A t \in 1..Tasks : ep'[t] = ep[t] \/ ep'[t]["port"] = None
    BY <1>c, <1>e, ClearedEffect, EmptyIsStored
  <2>2. QED BY <1>0, <1>c, <2>1 DEF PortInv
<1> USE <1>0 DEF PortInv, Shape
<1>1. CASE Start BY <1>1 DEF Start
<1>2. CASE SkipDone BY <1>2 DEF SkipDone, NextTask, Log, MoreTasks
<1>3. CASE NoConfig BY <1>3 DEF NoConfig, NextTask, Log
<1>4. CASE Record
  <2>1. PICK a \in DoneMarkers : ep[i][a] = None BY <1>4 DEF Record, Exists
  <2>2. i \in 1..Tasks /\ ep' = ep /\ i' = i /\ pc' = "trial" BY <1>4 DEF Record
  <2>3. mode = "dagger" => a \in {"port", "poses"} BY DEF DoneMarkers
  <2>4. mode = "dagger" => ep[i]["port"] = None BY <2>1, <2>2, <2>3
  <2>5. QED BY <2>2, <2>4
<1>5. CASE TrialEnds BY <1>5 DEF TrialEnds
<1>6. CASE StopStragglers BY <1>6 DEF StopStragglers
<1>7. CASE JudgeFailed BY <1>7 DEF JudgeFailed, NextTask, Log
<1>8. CASE JudgeScore BY <1>8 DEF JudgeScore, Log
<1>9. CASE JudgeLatched
  <2>1. i \in 1..Tasks /\ ep' = [ep EXCEPT ![i] = Empty] /\ pc' = "task"
    BY <1>9 DEF JudgeLatched, NextTask
  <2>2. QED BY <1>c, <2>1
<1>10. CASE JudgeConvert BY <1>10 DEF JudgeConvert
<1>11. CASE NoFrames BY <1>11 DEF NoFrames
<1>12. CASE SaveArray
  <2>1. CASE mode # "dagger" BY <1>12, <2>1, NotRelabelled
  <2>2. CASE mode = "dagger"
    <3>1. /\ pc = "convert" /\ trial.outcome.frames /\ pc' = "convert" /\ i' = i
          /\ written' = written + 1 /\ trial' = trial
      BY <1>12 DEF SaveArray
    <3>2. /\ written \in 0..4 /\ i \in 1..Tasks
          /\ ep'[i][SaveOrder[written + 1]] = trial.outcome
          /\ \A t \in 1..Tasks, a \in Arrays :
               t # i \/ a # SaveOrder[written + 1] => ep'[t][a] = ep[t][a]
      BY <1>12, SaveArrayEffect
    <3>3. \A t \in 1..Tasks : t # i =>
            ep'[t]["port"] = ep[t]["port"] /\ ep'[t]["poses"] = ep[t]["poses"]
      BY <1>e, <3>2
    <3>4. CASE written = 2
      <4>1. SaveOrder[3] = "port" /\ SaveOrder[1] = "poses" BY <2>2, PortOrder
      <4>2. ep[i]["poses"] = trial.outcome BY <3>1, <3>4, <4>1 DEF PrefixInv
      <4>3. ep'[i]["poses"] = trial.outcome BY <1>e, <3>2, <3>4, <4>1, <4>2
      <4>4. ep'[i]["port"] = trial.outcome BY <3>2, <3>4, <4>1
      <4>5. QED BY <2>2, <3>1, <3>2, <3>3, <3>4, <4>3, <4>4
    <3>5. CASE written < 2
      <4>1. SaveOrder[written + 1] # "port" BY <2>2, <3>2, <3>5, PortOrder
      <4>2. ep'[i]["port"] = ep[i]["port"] BY <1>e, <3>2, <4>1
      <4>3. ep[i]["port"] = None BY <2>2, <3>1, <3>2, <3>5
      <4>4. QED BY <2>2, <3>1, <3>2, <3>3, <4>2, <4>3
    <3>6. CASE written > 2
      <4>1. SaveOrder[written + 1] # "port" /\ SaveOrder[written + 1] # "poses"
        BY <2>2, <3>2, <3>6, PortOrder
      <4>2. ep'[i]["port"] = ep[i]["port"] /\ ep'[i]["poses"] = ep[i]["poses"]
        BY <1>e, <3>2, <4>1
      <4>3. QED BY <2>2, <3>1, <3>2, <3>3, <3>6, <4>2
    <3>7. QED BY <3>2, <3>4, <3>5, <3>6
  <2>3. QED BY <2>1, <2>2
<1>13. CASE SavedAll BY <1>13 DEF SavedAll
<1>14. CASE Gate
  <2>1. i \in 1..Tasks /\ pc' = "clean" /\ (ep' = ep \/ ep' = [ep EXCEPT ![i] = Empty])
    BY <1>14, GateEffect DEF Gate
  <2>2. CASE ep' = ep BY <2>1, <2>2
  <2>3. QED BY <1>c, <2>1, <2>2
<1>15. CASE Clean BY <1>15 DEF Clean, NextTask
<1>16. CASE Done BY <1>16 DEF Done, MoreTasks
<1>17. CASE ConverterFails BY <1>17 DEF ConverterFails
<1>18. CASE KillAndRestart BY <1>18 DEF KillAndRestart
<1>19. CASE UNCHANGED collectionVars BY <1>19 DEF collectionVars
<1>20. QED
  BY <1>1, <1>2, <1>3, <1>4, <1>5, <1>6, <1>7, <1>8, <1>9, <1>10, <1>11, <1>12, <1>13,
     <1>14, <1>15, <1>16, <1>17, <1>18, <1>19
  DEF CollectionNext, CampaignStep

LEMMA LatchStep ==
  ASSUME Shape, TrialInv, LatchInv, [CollectionNext]_collectionVars
  PROVE  LatchInv'
<1>0. mode' = mode /\ None' = None /\ Arrays' = Arrays BY ModeStep DEF None, Arrays
<1>c. ASSUME i \in 1..Tasks, ep' = [ep EXCEPT ![i] = Empty] PROVE LatchInv'
  <2>1. \A t \in 1..Tasks, a \in Arrays : ep'[t][a] = ep[t][a] \/ ep'[t][a] = None
    BY <1>c, ClearedEffect, EmptyIsStored
  <2>2. QED BY <1>0, <2>1 DEF LatchInv
<1>1. ASSUME Start \/ SkipDone \/ NoConfig \/ Record \/ TrialEnds \/ StopStragglers
            \/ JudgeFailed \/ JudgeScore \/ JudgeConvert \/ NoFrames \/ SavedAll \/ Clean
            \/ Done \/ ConverterFails \/ KillAndRestart
            \/ UNCHANGED collectionVars
     PROVE  UNCHANGED <<ep, mode>>
  BY <1>1 DEF collectionVars, Start, SkipDone, NextTask, Log, MoreTasks, NoConfig,
     Record, TrialEnds, StopStragglers, JudgeFailed, JudgeScore, JudgeConvert, NoFrames,
     SavedAll, Clean, Done, ConverterFails, KillAndRestart
<1> USE DEF LatchInv
<1>2. ASSUME UNCHANGED <<ep, mode>> PROVE LatchInv'
  BY <1>0, <1>2
<1>3. CASE JudgeLatched
  BY <1>3, <1>c DEF JudgeLatched, Shape
<1>4. CASE SaveArray
  <2>1. /\ trial.outcome \in Outcome /\ (mode = "disasm" => ~trial.outcome.ins)
    BY <1>4 DEF SaveArray, TrialInv
  <2>2. \A t \in 1..Tasks, a \in Arrays : ep'[t][a] = ep[t][a] \/ ep'[t][a] = trial.outcome
    BY <1>4, SaveArrayEffect
  <2>3. QED BY <1>0, <2>1, <2>2
<1>5. CASE Gate
  <2>1. i \in 1..Tasks /\ (ep' = ep \/ ep' = [ep EXCEPT ![i] = Empty])
    BY <1>5, GateEffect DEF Gate, Shape
  <2>2. CASE ep' = ep BY <1>0, <2>2
  <2>3. QED BY <1>c, <2>1, <2>2
<1>6. QED
  BY <1>1, <1>2, <1>3, <1>4, <1>5
  DEF CollectionNext, CampaignStep

-----------------------------------------------------------------------------
(* The specification *)

DiskInv ==
  /\ Shape /\ TrialInv /\ RowsInv /\ RecorderInv /\ PrefixInv /\ GateInv
  /\ AheadInv /\ NotKeptInv /\ PortInv /\ LatchInv /\ KeptIsWhole

LEMMA DiskInit == CollectionInit => DiskInv
<1> SUFFICES ASSUME CollectionInit PROVE DiskInv OBVIOUS
<1>1. ep = [t \in 1..Tasks |-> Empty] /\ rows = {} /\ pc = "start" /\ i = 1 /\ written = 0
      /\ faults = 0 /\ rc = 0
  BY DEF CollectionInit
<1>2. mode \in {"campaign", "dagger", "disasm"} BY CollectionAssumption DEF CollectionInit
<1>3. ep \in [1..Tasks -> [Arrays -> Stored]] BY <1>1, EmptyIsStored
<1>4. \A t \in 1..Tasks, a \in Arrays : ep[t][a] = None BY <1>1, EmptyIsStored
<1>5. Shape BY <1>1, <1>2, <1>3, CollectionAssumption DEF Shape, Pc
<1>6. TrialInv /\ RowsInv /\ RecorderInv /\ PrefixInv /\ GateInv /\ NotKeptInv
  BY <1>1 DEF TrialInv, RowsInv, RecorderInv, PrefixInv, GateInv, NotKeptInv
<1>7. AheadInv BY <1>1 DEF AheadInv
<1>8. LatchInv BY <1>4 DEF LatchInv
<1>9. PortInv
  <2>1. "port" \in Arrays BY DEF Arrays
  <2>2. \A t \in 1..Tasks : ep[t]["port"] = None BY <1>4, <2>1
  <2>3. QED BY <1>1, <2>2 DEF PortInv
<1>10. KeptIsWhole BY <1>1 DEF KeptIsWhole
<1>11. QED BY <1>5, <1>6, <1>7, <1>8, <1>9, <1>10 DEF DiskInv

\* DiskInv, the shape of every directory at every point of the loop, holds
\* of every campaign: where it is in a task, which arrays are this trial's,
\* which directories are kept, and which will be made again.
THEOREM DirectoriesSound == CollectionSpec => []DiskInv
<1>1. DiskInv /\ [CollectionNext]_collectionVars => DiskInv'
  <2> SUFFICES ASSUME DiskInv, [CollectionNext]_collectionVars PROVE DiskInv' OBVIOUS
  <2> USE DEF DiskInv
  <2>1. Shape' /\ TrialInv' /\ RowsInv' /\ RecorderInv'
    BY ShapeStep, TrialStep, RowsStep, RecorderStep
  <2>2. PrefixInv' /\ GateInv' /\ AheadInv' BY PrefixStep, GateStep, AheadStep
  <2>3. NotKeptInv' /\ KeptIsWhole' BY NotKeptStep, KeptStep
  <2>4. PortInv' /\ LatchInv' BY PortStep, LatchStep
  <2>5. QED BY <2>1, <2>2, <2>3, <2>4
<1>2. QED BY DiskInit, <1>1, PTL DEF CollectionSpec

\* KeptIsWhole: an episode logged KEEP has all its arrays from one trial that
\* passed the gates, however often the script is killed or a converter fails.
THEOREM KeptWhole == CollectionSpec => []KeptIsWhole
<1>1. DiskInv => KeptIsWhole BY DEF DiskInv
<1>2. QED BY <1>1, DirectoriesSound, PTL

\* LatchedNeverReversed: a retract that tripped the latch is never an array
\* of a reversed demo.
THEOREM LatchedRejected == CollectionSpec => []LatchedNeverReversed
<1>1. DiskInv => LatchedNeverReversed BY DEF DiskInv, LatchInv, LatchedNeverReversed
<1>2. QED BY <1>1, DirectoriesSound, PTL

\* ConvertsClosedBag: a bag is converted only once its recorder is down.
THEOREM BagsClosed == CollectionSpec => []ConvertsClosedBag
<1>1. DiskInv => ConvertsClosedBag BY DEF DiskInv, RecorderInv, ConvertsClosedBag
<1>2. QED BY <1>1, DirectoriesSound, PTL

LEMMA LabelsFromDisk ==
  ASSUME DiskInv
  PROVE  LabelsAreTrue
<1> SUFFICES ASSUME NEW t \in 1..Tasks, LabelValid(t)
             PROVE  CASE mode = "dagger" -> ep[t]["poses"] = ep[t]["port"] /\ ep[t]["port"].frames
                      [] mode = "campaign" -> faults = 0 => ep[t]["poses"].ins
  BY DEF LabelsAreTrue
<1>1. mode \in {"campaign", "dagger"}
  BY DEF LabelValid, StatusMapLoads, DiskInv, Shape
<1>2. ASSUME EpisodeKept(t), Trusted PROVE WholeCollection(t)
  <2>1. PICK r \in rows : r[2] = t /\ r[3] = "KEEP"
    BY <1>2 DEF EpisodeKept, EffectiveRows
  <2>2. QED BY <1>2, <2>1 DEF DiskInv, KeptIsWhole, Trusted, WholeCollection
<1>3. "poses" \in ToSet(SaveOrder) BY <1>1, Orders
<1>4. CASE mode = "dagger"
  <2>1. CASE ep[t]["port"] # None BY <1>4, <2>1 DEF DiskInv, PortInv
  <2>2. CASE ep[t]["port"] = None
    <3>1. EpisodeKept(t) BY <2>2 DEF LabelValid, StoredPort
    <3>2. WholeCollection(t) BY <1>2, <1>4, <3>1 DEF Trusted
    <3>3. "port" \in ToSet(SaveOrder)
      <4>1. SaveOrder[3] = "port" BY <1>4, PortOrder
      <4>2. QED BY <1>1, <4>1, Orders
    <3>4. PICK o \in Outcome : ep[t]["port"] = o BY <3>2, <3>3 DEF WholeCollection
    <3>5. QED BY <2>2, <3>4, NoneIsNoOutcome
  <2>3. QED BY <1>4, <2>1, <2>2
<1>5. CASE mode = "campaign"
  <2>1. SUFFICES ASSUME faults = 0 PROVE ep[t]["poses"].ins BY <1>5
  <2>2. "port" \in Arrays /\ ep[t]["port"] = None BY <1>5 DEF DiskInv, PortInv, Arrays
  <2>3. EpisodeKept(t) BY <2>2 DEF LabelValid, StoredPort
  <2>4. WholeCollection(t) BY <1>2, <2>1, <2>3 DEF Trusted
  <2>5. QED BY <1>3, <1>5, <2>4 DEF WholeCollection
<1>6. QED BY <1>1, <1>4, <1>5

\* LabelsAreTrue: a valid label names the port of the trial whose poses the
\* episode holds.
THEOREM LabelsTrue == CollectionSpec => []LabelsAreTrue
<1>1. QED BY DirectoriesSound, LabelsFromDisk, PTL
=============================================================================
