-------------------------- MODULE EvalHarnessProofs --------------------------
(***************************************************************************)
(* What holds of the evaluation harness for any queue, any suite, any      *)
(* durations and any number of batches, process groups and faults.         *)
(***************************************************************************)
EXTENDS EvalHarness, FiniteSetTheorems, TLAPS

\* TypeOK, in parts that change together.
PlaceType ==
  /\ batch \in [Batch -> {"idle", "loop", "child", "done", "dead"}]
  /\ at \in [Batch -> 1..(Len(Queue) + 1)]
  /\ py \in [Batch -> PySt]

WaitType ==
  /\ member \in [Batch -> 1..Members]
  /\ watch \in [Batch -> 0..Slots]
  /\ hard \in [Batch -> 0..(POLL + MARGIN)]

RowsType == rows \in [Batch -> Seq(Row)] /\ csv \in [Name -> Seq(Row)]

ProcType ==
  /\ leader \subseteq Slot /\ children \subseteq Slot /\ nodes \subseteq Slot
  /\ phase \in [Slot -> Phase]
  /\ left \in [Slot -> Nat]

TrialType ==
  /\ engine \in [Slot -> {"running", "marked", "writing", "written"}]
  /\ trial \in [Slot -> Trial \cup {NoTrial}]

FileType ==
  /\ scoring \in [Trial -> {"none", "partial", "whole"}]
  /\ fresh \subseteq Trial /\ report \subseteq Name
  /\ summary \in [Name -> {"none", "partial", "whole"}]
  /\ runs \in [Name -> Nat]

FaultType == faults \in 0..MaxFaults /\ killed \subseteq {"batch", "python", "script"}

\* A batch is at an entry of the queue while it evaluates, or while what it
\* started still does, and only then has it an eval_suite.py.
QueueInv ==
  \A b \in Batch :
    /\ batch[b] = "child" \/ PyAlive(b) => at[b] \in DOMAIN Queue
    /\ batch[b] \in {"idle", "loop", "done"} => ~PyAlive(b)

Shape == /\ PlaceType /\ WaitType /\ RowsType /\ ProcType
         /\ TrialType /\ FileType /\ FaultType /\ QueueInv

-----------------------------------------------------------------------------
(* Types and the queue *)

LEMMA ShapeIsTyped == Shape => TypeOK
  BY DEF Shape, PlaceType, WaitType, RowsType, ProcType, TrialType, FileType, FaultType, TypeOK

LEMMA Durations ==
  /\ POLL \in Nat \ {0} /\ READY \in Nat \ {0} /\ ZENOH \in Nat \ {0}
  /\ MARGIN \in Nat /\ Members \in Nat \ {0}
  BY HarnessAssumption

LEMMA Names == ASSUME Shape, NEW b \in Batch, PyAlive(b) \/ at[b] <= Len(Queue)
               PROVE  /\ NameOf(b) \in Name
                      /\ member[b] \in 1..Members
                      /\ TrialOf(b) \in Trial
  BY HarnessAssumption
  DEF Shape, PlaceType, WaitType, QueueInv, NameOf, Name, TrialOf, Trial

LEMMA PlaceStep ==
  ASSUME Shape, [Next]_vars
  PROVE  PlaceType'
<1>1. ASSUME UNCHANGED vars PROVE UNCHANGED <<batch, at, py>>
  BY <1>1 DEF vars, batchVars, pyVars
<1>2. ASSUME NEW b \in Batch,
            Tick(b)
     PROVE  UNCHANGED <<batch, at, py>>
  BY <1>2 DEF batchVars, pyVars, Tick
<1>3. ASSUME NEW s \in Slot,
            Script(s) \/ CleanupGroup(s) \/ Engine(s) \/ KillScript(s) \/ ScriptWedges(s)
     PROVE  UNCHANGED <<batch, at, py>>
  BY <1>3 DEF batchVars, pyVars, Script, Enter, CleanupGroup, KillGroup, Engine,
     KillScript, Fault, ScriptWedges
<1> USE HarnessAssumption DEF Shape, PlaceType, PySt, pyVars, batchVars
<1>4. ASSUME UNCHANGED <<batch, at, py>> PROVE PlaceType'
  BY <1>4
<1>5. ASSUME NEW b \in Batch, Start(b) PROVE PlaceType'
  BY <1>5 DEF Start
<1>6. ASSUME NEW b \in Batch, Skip(b) PROVE PlaceType'
  BY <1>6 DEF Skip
<1>7. ASSUME NEW b \in Batch, Run(b) PROVE PlaceType'
  BY <1>7 DEF Run
<1>8. ASSUME NEW b \in Batch, ChildExits(b) PROVE PlaceType'
  BY <1>8 DEF ChildExits, QueueInv
<1>9. ASSUME NEW b \in Batch, Done(b) PROVE PlaceType'
  BY <1>9 DEF Done
<1>10. ASSUME NEW b \in Batch, Launch(b) PROVE PlaceType'
  BY <1>10 DEF Launch
<1>11. ASSUME NEW b \in Batch, WaitReturns(b) PROVE PlaceType'
  BY <1>11 DEF WaitReturns
<1>12. ASSUME NEW b \in Batch, HardTimeout(b) PROVE PlaceType'
  BY <1>12 DEF HardTimeout, KillGroup
<1>13. ASSUME NEW b \in Batch, ScoreMember(b) PROVE PlaceType'
  BY <1>13 DEF ScoreMember, Scored, PyEnds
<1>14. ASSUME NEW b \in Batch, WriteReport(b) PROVE PlaceType'
  BY <1>14 DEF WriteReport, PyAt, PyEnds
<1>15. ASSUME NEW b \in Batch, KillBatch(b) PROVE PlaceType'
  BY <1>15 DEF KillBatch, Fault
<1>16. ASSUME NEW b \in Batch, KillPy(b) PROVE PlaceType'
  BY <1>16 DEF KillPy, Fault, PyEnds
<1>17. ASSUME NEW b \in Batch, Interrupt(b) PROVE PlaceType'
  BY <1>17 DEF Interrupt, Fault, KillGroup, PyEnds
<1>18. CASE Reboot
  BY <1>18 DEF Reboot, Fault, BatchAlive
<1>19. QED
  BY <1>1, <1>2, <1>3, <1>4, <1>5, <1>6, <1>7, <1>8, <1>9, <1>10, <1>11, <1>12, <1>13,
     <1>14, <1>15, <1>16, <1>17, <1>18
  DEF Next, BatchStep, PyStep

LEMMA WaitStep ==
  ASSUME Shape, [Next]_vars
  PROVE  WaitType'
<1>1. ASSUME UNCHANGED vars PROVE UNCHANGED <<member, watch, hard>>
  BY <1>1 DEF vars, pyVars
<1>2. ASSUME NEW b \in Batch,
            \/ Start(b) \/ Skip(b) \/ ChildExits(b) \/ Done(b) \/ HardTimeout(b)
            \/ KillBatch(b)
     PROVE  UNCHANGED <<member, watch, hard>>
  BY <1>2 DEF pyVars, Start, Skip, ChildExits, Done, HardTimeout, KillGroup, KillBatch,
     Fault
<1>3. ASSUME NEW s \in Slot,
            Script(s) \/ CleanupGroup(s) \/ Engine(s) \/ KillScript(s) \/ ScriptWedges(s)
     PROVE  UNCHANGED <<member, watch, hard>>
  BY <1>3 DEF pyVars, Script, Enter, CleanupGroup, KillGroup, Engine, KillScript, Fault,
     ScriptWedges
<1> USE HarnessAssumption DEF Shape, WaitType, pyVars
<1>4. ASSUME UNCHANGED <<member, watch, hard>> PROVE WaitType'
  BY <1>4
<1>5. ASSUME NEW b \in Batch, Run(b) PROVE WaitType'
  BY <1>5 DEF Run
<1>6. ASSUME NEW b \in Batch, Launch(b) PROVE WaitType'
  BY <1>6 DEF Launch, HardLimit, Slot
<1>7. ASSUME NEW b \in Batch, WaitReturns(b) PROVE WaitType'
  BY <1>7 DEF WaitReturns
<1>8. ASSUME NEW b \in Batch, ScoreMember(b) PROVE WaitType'
  <2>1. ASSUME NEW row \in Row, Scored(b, row) PROVE WaitType'
    <3>1. hard' \in [Batch -> 0..(POLL + MARGIN)] BY <2>1 DEF Scored
    <3>2. watch' \in [Batch -> 0..Slots] BY <2>1 DEF Scored
    <3>3. CASE member[b] < Members
      <4>1. member' = [member EXCEPT ![b] = @ + 1] BY <2>1, <3>3 DEF Scored
      <4>2. member' \in [Batch -> 1..Members] BY <3>3, <4>1
      <4>3. QED BY <3>1, <3>2, <4>2
    <3>4. CASE ~(member[b] < Members)
      <4>1. member' = member BY <2>1, <3>4 DEF Scored
      <4>2. QED BY <3>1, <3>2, <4>1
    <3>5. QED BY <3>3, <3>4
  <2>2. CASE PyEnds(b) BY <2>2 DEF PyEnds
  <2>3. QED BY <1>8, <2>1, <2>2 DEF ScoreMember, Row
<1>9. ASSUME NEW b \in Batch, WriteReport(b) PROVE WaitType'
  <2>1. CASE PyEnds(b) BY <2>1 DEF PyEnds
  <2>2. CASE UNCHANGED <<member, watch, hard>> BY <2>2
  <2>3. QED BY <1>9, <2>1, <2>2 DEF WriteReport, PyAt
<1>10. ASSUME NEW b \in Batch, Tick(b) PROVE WaitType'
  BY <1>10 DEF Tick
<1>11. ASSUME NEW b \in Batch, KillPy(b) PROVE WaitType'
  BY <1>11 DEF KillPy, Fault, PyEnds
<1>12. ASSUME NEW b \in Batch, Interrupt(b) PROVE WaitType'
  BY <1>12 DEF Interrupt, Fault, KillGroup, PyEnds
<1>13. CASE Reboot
  BY <1>13 DEF Reboot, Fault, BatchAlive
<1>14. QED
  BY <1>1, <1>2, <1>3, <1>4, <1>5, <1>6, <1>7, <1>8, <1>9, <1>10, <1>11, <1>12, <1>13
  DEF Next, BatchStep, PyStep

LEMMA RowsStep ==
  ASSUME Shape, [Next]_vars
  PROVE  RowsType'
<1>1. ASSUME UNCHANGED vars PROVE UNCHANGED <<rows, csv>>
  BY <1>1 DEF vars, pyVars, outVars
<1>2. ASSUME NEW b \in Batch,
            \/ Start(b) \/ Skip(b) \/ ChildExits(b) \/ Done(b) \/ Launch(b)
            \/ WaitReturns(b) \/ HardTimeout(b) \/ Tick(b) \/ KillBatch(b)
     PROVE  UNCHANGED <<rows, csv>>
  BY <1>2 DEF pyVars, outVars, Start, Skip, ChildExits, Done, Launch, WaitReturns,
     HardTimeout, KillGroup, Tick, KillBatch, Fault
<1>3. ASSUME NEW s \in Slot,
            Script(s) \/ CleanupGroup(s) \/ Engine(s) \/ KillScript(s) \/ ScriptWedges(s)
     PROVE  UNCHANGED <<rows, csv>>
  BY <1>3 DEF pyVars, outVars, Script, Enter, CleanupGroup, KillGroup, Engine,
     KillScript, Fault, ScriptWedges
<1> USE HarnessAssumption DEF Shape, RowsType, pyVars, outVars
<1>4. ASSUME UNCHANGED <<rows, csv>> PROVE RowsType'
  BY <1>4
<1>5. ASSUME NEW b \in Batch, Run(b) PROVE RowsType'
  BY <1>5 DEF Run
<1>6. ASSUME NEW b \in Batch, ScoreMember(b) PROVE RowsType'
  <2>1. ASSUME NEW row \in Row, Scored(b, row) PROVE rows' \in [Batch -> Seq(Row)]
    BY <2>1 DEF Scored
  <2>2. ASSUME PyEnds(b) PROVE rows' \in [Batch -> Seq(Row)]
    BY <2>2 DEF PyEnds
  <2>3. UNCHANGED csv BY <1>6 DEF ScoreMember
  <2>4. QED BY <1>6, <2>1, <2>2, <2>3 DEF ScoreMember, Row
<1>7. ASSUME NEW b \in Batch, WriteReport(b) PROVE RowsType'
  <2>1. rows' \in [Batch -> Seq(Row)]
    <3>1. CASE PyEnds(b) BY <3>1 DEF PyEnds
    <3>2. CASE UNCHANGED rows BY <3>2
    <3>3. QED BY <1>7, <3>1, <3>2 DEF WriteReport, PyAt
  <2>2. PICK r \in Seq(Row) : csv' \in {csv, [csv EXCEPT ![NameOf(b)] = r]}
    <3>1. <<>> \in Seq(Row) /\ rows[b] \in Seq(Row) OBVIOUS
    <3>2. QED BY <1>7, <3>1 DEF WriteReport
  <2>3. QED BY <2>1, <2>2
<1>8. ASSUME NEW b \in Batch, KillPy(b) PROVE RowsType'
  BY <1>8 DEF KillPy, Fault, PyEnds
<1>9. ASSUME NEW b \in Batch, Interrupt(b) PROVE RowsType'
  BY <1>9 DEF Interrupt, Fault, KillGroup, PyEnds
<1>10. CASE Reboot
  BY <1>10 DEF Reboot, Fault, BatchAlive
<1>11. QED
  BY <1>1, <1>2, <1>3, <1>4, <1>5, <1>6, <1>7, <1>8, <1>9, <1>10
  DEF Next, BatchStep, PyStep

LEMMA ProcStep ==
  ASSUME Shape, [Next]_vars
  PROVE  ProcType'
<1>1. ASSUME UNCHANGED vars PROVE UNCHANGED <<leader, children, nodes, phase, left>>
  BY <1>1 DEF vars, procVars, groupVars
<1>2. ASSUME NEW b \in Batch,
            \/ Skip(b) \/ Run(b) \/ ChildExits(b) \/ Done(b) \/ WaitReturns(b)
            \/ ScoreMember(b) \/ WriteReport(b) \/ KillBatch(b)
     PROVE  UNCHANGED <<leader, children, nodes, phase, left>>
  BY <1>2 DEF procVars, groupVars, Skip, Run, ChildExits, Done, WaitReturns,
     ScoreMember, Scored, PyEnds, WriteReport, PyAt, KillBatch, Fault
<1>3. ASSUME NEW s \in Slot,
            Engine(s)
     PROVE  UNCHANGED <<leader, children, nodes, phase, left>>
  BY <1>3 DEF procVars, groupVars, Engine
<1> USE HarnessAssumption DEF Shape, ProcType, Phase, procVars, groupVars
<1>4. ASSUME UNCHANGED <<leader, children, nodes, phase, left>> PROVE ProcType'
  BY <1>4
<1>5. ASSUME NEW b \in Batch, Start(b) PROVE ProcType'
  BY <1>5 DEF Start
<1>6. ASSUME NEW b \in Batch, Launch(b) PROVE ProcType'
  BY <1>6 DEF Launch
<1>7. ASSUME NEW b \in Batch, HardTimeout(b) PROVE ProcType'
  BY <1>7 DEF HardTimeout, KillGroup
<1>8. ASSUME NEW b \in Batch, Tick(b) PROVE ProcType'
  BY <1>8 DEF Tick
<1>9. ASSUME NEW s \in Slot, Script(s) PROVE ProcType'
  <2>1. leader' \subseteq Slot /\ children' \subseteq Slot /\ nodes' \subseteq Slot
    BY <1>9 DEF Script
  <2>2. PICK p \in Phase, ticks \in Nat : Enter(s, p, ticks)
    BY <1>9 DEF Script
  <2>3. phase' \in [Slot -> Phase] BY <2>2 DEF Enter
  <2>4. left' \in [Slot -> Nat] BY <2>2 DEF Enter
  <2>5. QED BY <2>1, <2>3, <2>4
<1>10. ASSUME NEW s \in Slot, CleanupGroup(s) PROVE ProcType'
  BY <1>10 DEF CleanupGroup, KillGroup
<1>11. ASSUME NEW b \in Batch, KillPy(b) PROVE ProcType'
  BY <1>11 DEF KillPy, Fault, PyEnds
<1>12. ASSUME NEW b \in Batch, Interrupt(b) PROVE ProcType'
  BY <1>12 DEF Interrupt, Fault, KillGroup, PyEnds
<1>13. ASSUME NEW s \in Slot, KillScript(s) PROVE ProcType'
  BY <1>13 DEF KillScript, Fault
<1>14. ASSUME NEW s \in Slot, ScriptWedges(s) PROVE ProcType'
  BY <1>14 DEF ScriptWedges, Fault
<1>15. CASE Reboot
  BY <1>15 DEF Reboot, Fault, BatchAlive
<1>16. QED
  BY <1>1, <1>2, <1>3, <1>4, <1>5, <1>6, <1>7, <1>8, <1>9, <1>10, <1>11, <1>12, <1>13,
     <1>14, <1>15
  DEF Next, BatchStep, PyStep

LEMMA TrialStep ==
  ASSUME Shape, [Next]_vars
  PROVE  TrialType'
<1>1. ASSUME UNCHANGED vars PROVE UNCHANGED <<engine, trial>>
  BY <1>1 DEF vars, groupVars
<1>2. ASSUME NEW b \in Batch,
            \/ Start(b) \/ Skip(b) \/ Run(b) \/ ChildExits(b) \/ Done(b)
            \/ WaitReturns(b) \/ ScoreMember(b) \/ WriteReport(b) \/ Tick(b) \/ KillBatch(b)
            \/ KillPy(b)
     PROVE  UNCHANGED <<engine, trial>>
  BY <1>2 DEF groupVars, Start, Skip, Run, ChildExits, Done, WaitReturns, ScoreMember,
     Scored, PyEnds, WriteReport, PyAt, Tick, KillBatch, Fault, KillPy
<1>3. ASSUME NEW s \in Slot,
            Script(s) \/ KillScript(s) \/ ScriptWedges(s)
     PROVE  UNCHANGED <<engine, trial>>
  BY <1>3 DEF groupVars, Script, Enter, KillScript, Fault, ScriptWedges
<1> USE HarnessAssumption DEF Shape, TrialType, groupVars
<1>4. ASSUME UNCHANGED <<engine, trial>> PROVE TrialType'
  BY <1>4
<1>5. ASSUME NEW b \in Batch, Launch(b) PROVE TrialType'
  BY <1>5, Names DEF Launch, PyAlive
<1>6. ASSUME NEW b \in Batch, HardTimeout(b) PROVE TrialType'
  BY <1>6 DEF HardTimeout, KillGroup
<1>7. ASSUME NEW s \in Slot, CleanupGroup(s) PROVE TrialType'
  BY <1>7 DEF CleanupGroup, KillGroup
<1>8. ASSUME NEW s \in Slot, Engine(s) PROVE TrialType'
  BY <1>8 DEF Engine
<1>9. ASSUME NEW b \in Batch, Interrupt(b) PROVE TrialType'
  BY <1>9 DEF Interrupt, Fault, KillGroup, PyEnds
<1>10. CASE Reboot
  BY <1>10 DEF Reboot, Fault, BatchAlive
<1>11. QED
  BY <1>1, <1>2, <1>3, <1>4, <1>5, <1>6, <1>7, <1>8, <1>9, <1>10
  DEF Next, BatchStep, PyStep

LEMMA FileStep ==
  ASSUME Shape, [Next]_vars
  PROVE  FileType'
<1>1. ASSUME UNCHANGED vars PROVE UNCHANGED <<scoring, fresh, report, summary, runs>>
  BY <1>1 DEF vars, fileVars, outVars
<1>2. ASSUME NEW b \in Batch,
            \/ Start(b) \/ Skip(b) \/ ChildExits(b) \/ Done(b) \/ WaitReturns(b)
            \/ HardTimeout(b) \/ ScoreMember(b) \/ Tick(b) \/ KillBatch(b) \/ KillPy(b)
            \/ Interrupt(b)
     PROVE  UNCHANGED <<scoring, fresh, report, summary, runs>>
  BY <1>2 DEF fileVars, outVars, Start, Skip, ChildExits, Done, WaitReturns,
     HardTimeout, KillGroup, ScoreMember, Scored, PyEnds, Tick, KillBatch, Fault,
     KillPy, Interrupt
<1>3. ASSUME NEW s \in Slot,
            Script(s) \/ CleanupGroup(s) \/ KillScript(s) \/ ScriptWedges(s)
     PROVE  UNCHANGED <<scoring, fresh, report, summary, runs>>
  BY <1>3 DEF fileVars, outVars, Script, Enter, CleanupGroup, KillGroup, KillScript,
     Fault, ScriptWedges
<1>4. ASSUME Reboot PROVE UNCHANGED <<scoring, fresh, report, summary, runs>>
  BY <1>4 DEF fileVars, outVars, Reboot, Fault, BatchAlive
<1> USE HarnessAssumption DEF Shape, FileType, fileVars, outVars
<1>5. ASSUME UNCHANGED <<scoring, fresh, report, summary, runs>> PROVE FileType'
  BY <1>5
<1>6. ASSUME NEW b \in Batch, Run(b) PROVE FileType'
  BY <1>6, Names DEF Run
<1>7. ASSUME NEW b \in Batch, Launch(b) PROVE FileType'
  BY <1>7 DEF Launch
<1>8. ASSUME NEW b \in Batch, WriteReport(b) PROVE FileType'
  BY <1>8, Names DEF WriteReport, PyAt, PyEnds, PyAlive
<1>9. ASSUME NEW s \in Slot, Engine(s) PROVE FileType'
  BY <1>9 DEF Engine
<1>10. QED
  BY <1>1, <1>2, <1>3, <1>4, <1>5, <1>6, <1>7, <1>8, <1>9
  DEF Next, BatchStep, PyStep

LEMMA FaultStep ==
  ASSUME Shape, [Next]_vars
  PROVE  FaultType'
<1>1. ASSUME UNCHANGED vars PROVE UNCHANGED <<faults, killed>>
  BY <1>1 DEF vars, faultVars
<1>2. ASSUME NEW b \in Batch,
            \/ Start(b) \/ Skip(b) \/ Run(b) \/ ChildExits(b) \/ Done(b)
            \/ Launch(b) \/ WaitReturns(b) \/ HardTimeout(b) \/ ScoreMember(b) \/ WriteReport(b)
            \/ Tick(b)
     PROVE  UNCHANGED <<faults, killed>>
  BY <1>2 DEF faultVars, Start, Skip, Run, ChildExits, Done, Launch, WaitReturns,
     HardTimeout, KillGroup, ScoreMember, Scored, PyEnds, WriteReport, PyAt, Tick
<1>3. ASSUME NEW s \in Slot,
            Script(s) \/ CleanupGroup(s) \/ Engine(s)
     PROVE  UNCHANGED <<faults, killed>>
  BY <1>3 DEF faultVars, Script, Enter, CleanupGroup, KillGroup, Engine
<1> USE HarnessAssumption DEF Shape, FaultType, faultVars, Fault
<1>4. ASSUME UNCHANGED <<faults, killed>> PROVE FaultType'
  BY <1>4
<1>5. ASSUME NEW b \in Batch, KillBatch(b) PROVE FaultType'
  BY <1>5 DEF KillBatch, Fault
<1>6. ASSUME NEW b \in Batch, KillPy(b) PROVE FaultType'
  BY <1>6 DEF KillPy, Fault, PyEnds
<1>7. ASSUME NEW b \in Batch, Interrupt(b) PROVE FaultType'
  BY <1>7 DEF Interrupt, Fault, KillGroup, PyEnds
<1>8. ASSUME NEW s \in Slot, KillScript(s) PROVE FaultType'
  BY <1>8 DEF KillScript, Fault
<1>9. ASSUME NEW s \in Slot, ScriptWedges(s) PROVE FaultType'
  BY <1>9 DEF ScriptWedges, Fault
<1>10. CASE Reboot
  BY <1>10 DEF Reboot, Fault, BatchAlive
<1>11. QED
  BY <1>1, <1>2, <1>3, <1>4, <1>5, <1>6, <1>7, <1>8, <1>9, <1>10
  DEF Next, BatchStep, PyStep

LEMMA QueueStep ==
  ASSUME Shape, [Next]_vars
  PROVE  QueueInv'
<1>1. ASSUME UNCHANGED vars PROVE UNCHANGED <<batch, at, py>>
  BY <1>1 DEF vars, batchVars, pyVars
<1>2. ASSUME NEW b \in Batch,
            Tick(b)
     PROVE  UNCHANGED <<batch, at, py>>
  BY <1>2 DEF batchVars, pyVars, Tick
<1>3. ASSUME NEW s \in Slot,
            Script(s) \/ CleanupGroup(s) \/ Engine(s) \/ KillScript(s) \/ ScriptWedges(s)
     PROVE  UNCHANGED <<batch, at, py>>
  BY <1>3 DEF batchVars, pyVars, Script, Enter, CleanupGroup, KillGroup, Engine,
     KillScript, Fault, ScriptWedges
<1> USE HarnessAssumption DEF Shape, QueueInv, PlaceType, PyAlive, pyVars, batchVars
<1>4. ASSUME UNCHANGED <<batch, at, py>> PROVE QueueInv'
  BY <1>4
<1>5. ASSUME NEW b \in Batch, Start(b) PROVE QueueInv'
  BY <1>5 DEF Start, LockHeld
<1>6. ASSUME NEW b \in Batch, Skip(b) PROVE QueueInv'
  BY <1>6 DEF Skip
<1>7. ASSUME NEW b \in Batch, Run(b) PROVE QueueInv'
  BY <1>7 DEF Run
<1>8. ASSUME NEW b \in Batch, ChildExits(b) PROVE QueueInv'
  BY <1>8 DEF ChildExits
<1>9. ASSUME NEW b \in Batch, Done(b) PROVE QueueInv'
  BY <1>9 DEF Done
<1>10. ASSUME NEW b \in Batch, Launch(b) PROVE QueueInv'
  BY <1>10 DEF Launch
<1>11. ASSUME NEW b \in Batch, WaitReturns(b) PROVE QueueInv'
  BY <1>11 DEF WaitReturns
<1>12. ASSUME NEW b \in Batch, HardTimeout(b) PROVE QueueInv'
  BY <1>12 DEF HardTimeout, KillGroup
<1>13. ASSUME NEW b \in Batch, ScoreMember(b) PROVE QueueInv'
  BY <1>13 DEF ScoreMember, Scored, PyEnds
<1>14. ASSUME NEW b \in Batch, WriteReport(b) PROVE QueueInv'
  BY <1>14 DEF WriteReport, PyAt, PyEnds
<1>15. ASSUME NEW b \in Batch, KillBatch(b) PROVE QueueInv'
  BY <1>15 DEF KillBatch, Fault
<1>16. ASSUME NEW b \in Batch, KillPy(b) PROVE QueueInv'
  BY <1>16 DEF KillPy, Fault, PyEnds
<1>17. ASSUME NEW b \in Batch, Interrupt(b) PROVE QueueInv'
  BY <1>17 DEF Interrupt, Fault, KillGroup, PyEnds
<1>18. CASE Reboot
  BY <1>18 DEF Reboot, Fault, BatchAlive
<1>19. QED
  BY <1>1, <1>2, <1>3, <1>4, <1>5, <1>6, <1>7, <1>8, <1>9, <1>10, <1>11, <1>12, <1>13,
     <1>14, <1>15, <1>16, <1>17, <1>18
  DEF Next, BatchStep, PyStep

LEMMA ShapeInit == Init => Shape
  BY HarnessAssumption
  DEF Init, Shape, PlaceType, WaitType, RowsType, ProcType, TrialType, FileType, FaultType,
      QueueInv, PyAlive, PySt, Phase, Row

LEMMA ShapeStep == Shape /\ [Next]_vars => Shape'
  BY PlaceStep, WaitStep, RowsStep, ProcStep, TrialStep, FileStep, FaultStep, QueueStep
  DEF Shape

LEMMA ShapeHolds == Spec => []Shape
  BY ShapeInit, ShapeStep, PTL DEF Spec

\* Every variable of the harness keeps its type, whoever is killed when.
THEOREM HarnessTypes == Spec => []TypeOK
  BY ShapeHolds, ShapeIsTyped, PTL

-----------------------------------------------------------------------------
(* The lock *)

LEMMA LockStep ==
  ASSUME Shape, OneEvaluation, [Next]_vars
  PROVE  OneEvaluation'
<1>1. ASSUME UNCHANGED vars PROVE UNCHANGED <<batch, py>>
  BY <1>1 DEF vars, batchVars, pyVars
<1>2. ASSUME NEW b \in Batch,
            Skip(b) \/ Tick(b)
     PROVE  UNCHANGED <<batch, py>>
  BY <1>2 DEF batchVars, pyVars, Skip, Tick
<1>3. ASSUME NEW s \in Slot,
            Script(s) \/ CleanupGroup(s) \/ Engine(s) \/ KillScript(s) \/ ScriptWedges(s)
     PROVE  UNCHANGED <<batch, py>>
  BY <1>3 DEF batchVars, pyVars, Script, Enter, CleanupGroup, KillGroup, Engine,
     KillScript, Fault, ScriptWedges
<1> USE DEF Shape, PlaceType, QueueInv, OneEvaluation, BatchAlive, PyAlive, pyVars,
       batchVars
<1>4. ASSUME UNCHANGED <<batch, py>> PROVE OneEvaluation'
  BY <1>4
<1>5. ASSUME NEW b \in Batch, Start(b) PROVE OneEvaluation'
  BY <1>5 DEF Start, LockHeld
<1>6. ASSUME NEW b \in Batch, Run(b) PROVE OneEvaluation'
  BY <1>6 DEF Run
<1>7. ASSUME NEW b \in Batch, ChildExits(b) PROVE OneEvaluation'
  BY <1>7 DEF ChildExits
<1>8. ASSUME NEW b \in Batch, Done(b) PROVE OneEvaluation'
  BY <1>8 DEF Done
<1>9. ASSUME NEW b \in Batch, Launch(b) PROVE OneEvaluation'
  BY <1>9 DEF Launch
<1>10. ASSUME NEW b \in Batch, WaitReturns(b) PROVE OneEvaluation'
  BY <1>10 DEF WaitReturns
<1>11. ASSUME NEW b \in Batch, HardTimeout(b) PROVE OneEvaluation'
  BY <1>11 DEF HardTimeout, KillGroup
<1>12. ASSUME NEW b \in Batch, ScoreMember(b) PROVE OneEvaluation'
  BY <1>12 DEF ScoreMember, Scored, PyEnds
<1>13. ASSUME NEW b \in Batch, WriteReport(b) PROVE OneEvaluation'
  BY <1>13 DEF WriteReport, PyAt, PyEnds
<1>14. ASSUME NEW b \in Batch, KillBatch(b) PROVE OneEvaluation'
  BY <1>14 DEF KillBatch, Fault
<1>15. ASSUME NEW b \in Batch, KillPy(b) PROVE OneEvaluation'
  BY <1>15 DEF KillPy, Fault, PyEnds
<1>16. ASSUME NEW b \in Batch, Interrupt(b) PROVE OneEvaluation'
  BY <1>16 DEF Interrupt, Fault, KillGroup, PyEnds
<1>17. CASE Reboot
  BY <1>17 DEF Reboot, Fault, BatchAlive
<1>18. QED
  BY <1>1, <1>2, <1>3, <1>4, <1>5, <1>6, <1>7, <1>8, <1>9, <1>10, <1>11, <1>12, <1>13,
     <1>14, <1>15, <1>16, <1>17
  DEF Next, BatchStep, PyStep

\* Two eval_suite.py never run at once, whichever of the shells that took
\* the lock, and of what they started, has been killed.
THEOREM EvaluationsExclude == Spec => []OneEvaluation
<1>1. Init => OneEvaluation BY DEF Init, OneEvaluation, BatchAlive, PyAlive
<1>2. OneEvaluation /\ Shape /\ [Next]_vars => OneEvaluation' BY LockStep
<1>3. QED BY <1>1, <1>2, ShapeHolds, PTL DEF Spec

-----------------------------------------------------------------------------
(* The simulator *)

\* A python that scores or writes is not waiting, and disturbs no other process.
LEMMA Elsewhere ==
  ASSUME Shape, NEW b \in Batch, ScoreMember(b) \/ WriteReport(b)
  PROVE  /\ py[b] # "wait" /\ py'[b] # "wait"
         /\ \A c \in Batch \ {b} :
              py'[c] = py[c] /\ watch'[c] = watch[c] /\ hard'[c] = hard[c]
         /\ UNCHANGED <<procVars, phase, left, killed>>
<1>1. UNCHANGED <<procVars, phase, left, killed>>
  BY DEF ScoreMember, WriteReport, procVars, groupVars, faultVars
<1>2. ASSUME NEW q, py' = [py EXCEPT ![b] = q], q # "wait", py[b] # "wait",
             watch' = [watch EXCEPT ![b] = 0] \/ watch' = watch,
             hard' = [hard EXCEPT ![b] = 0] \/ hard' = hard
      PROVE  /\ py[b] # "wait" /\ py'[b] # "wait"
             /\ \A c \in Batch \ {b} :
                  py'[c] = py[c] /\ watch'[c] = watch[c] /\ hard'[c] = hard[c]
  BY <1>2 DEF Shape, PlaceType, WaitType
<1>3. CASE ScoreMember(b)
  <2>1. py[b] = "score" BY <1>3 DEF ScoreMember
  <2>2. ASSUME NEW row, Scored(b, row)
        PROVE  /\ \E q : q # "wait" /\ py' = [py EXCEPT ![b] = q]
               /\ watch' = [watch EXCEPT ![b] = 0] /\ hard' = hard
    BY <2>2 DEF Scored
  <2>3. ASSUME PyEnds(b)
        PROVE  /\ \E q : q # "wait" /\ py' = [py EXCEPT ![b] = q]
               /\ watch' = [watch EXCEPT ![b] = 0] /\ hard' = [hard EXCEPT ![b] = 0]
    BY <2>3 DEF PyEnds
  <2>4. (\E row : Scored(b, row)) \/ PyEnds(b) BY <1>3 DEF ScoreMember
  <2>5. QED BY <1>1, <1>2, <2>1, <2>2, <2>3, <2>4
<1>4. CASE WriteReport(b)
  <2>1. py[b] # "wait" BY <1>4 DEF WriteReport
  <2>2. ASSUME NEW p \in {"rows", "report", "json", "close"}, PyAt(b, p)
        PROVE  /\ \E q : q # "wait" /\ py' = [py EXCEPT ![b] = q]
               /\ watch' = watch /\ hard' = hard
    BY <2>2 DEF PyAt
  <2>3. ASSUME PyEnds(b)
        PROVE  /\ \E q : q # "wait" /\ py' = [py EXCEPT ![b] = q]
               /\ watch' = [watch EXCEPT ![b] = 0] /\ hard' = [hard EXCEPT ![b] = 0]
    BY <2>3 DEF PyEnds
  <2>4. (\E p \in {"rows", "report", "json", "close"} : PyAt(b, p)) \/ PyEnds(b)
    BY <1>4 DEF WriteReport
  <2>5. QED BY <1>1, <1>2, <2>1, <2>2, <2>3, <2>4
<1>5. QED BY <1>3, <1>4

\* Until a python or a script is killed, the nodes that run belong to a
\* script that lives, and somebody waits for it.
NoOrphans ==
  killed \cap {"python", "script"} = {} =>
    nodes \subseteq leader /\ \A s \in leader : Watched(s)

LEMMA OrphanStep ==
  ASSUME Shape, NoOrphans, [Next]_vars
  PROVE  NoOrphans'
<1>1. ASSUME UNCHANGED vars PROVE UNCHANGED <<py, watch, leader, nodes, killed>>
  BY <1>1 DEF vars, pyVars, procVars, faultVars
<1>2. ASSUME NEW b \in Batch,
            Skip(b) \/ ChildExits(b) \/ Done(b) \/ Tick(b)
     PROVE  UNCHANGED <<py, watch, leader, nodes, killed>>
  BY <1>2 DEF pyVars, procVars, faultVars, Skip, ChildExits, Done, Tick
<1>3. ASSUME NEW s \in Slot,
            Engine(s)
     PROVE  UNCHANGED <<py, watch, leader, nodes, killed>>
  BY <1>3 DEF pyVars, procVars, faultVars, Engine
<1> USE DEF Shape, PlaceType, WaitType, ProcType, NoOrphans, Watched, pyVars, procVars,
       faultVars
<1>4. ASSUME UNCHANGED <<py, watch, leader, nodes, killed>> PROVE NoOrphans'
  BY <1>4
<1>5. ASSUME NEW b \in Batch, Start(b) PROVE NoOrphans'
  BY <1>5 DEF Start
<1>6. ASSUME NEW b \in Batch, Run(b) PROVE NoOrphans'
  BY <1>6 DEF Run, QueueInv, PyAlive
<1>7. ASSUME NEW b \in Batch, Launch(b) PROVE NoOrphans'
  BY <1>7 DEF Launch, Slot
<1>8. ASSUME NEW b \in Batch, WaitReturns(b) PROVE NoOrphans'
  BY <1>8 DEF WaitReturns
<1>9. ASSUME NEW b \in Batch, HardTimeout(b) PROVE NoOrphans'
  BY <1>9 DEF HardTimeout, KillGroup
<1>10. ASSUME NEW b \in Batch, ScoreMember(b) PROVE NoOrphans'
  BY <1>10, Elsewhere
<1>11. ASSUME NEW b \in Batch, WriteReport(b) PROVE NoOrphans'
  BY <1>11, Elsewhere
<1>12. ASSUME NEW s \in Slot, Script(s) PROVE NoOrphans'
  BY <1>12 DEF Script, Enter
<1>13. ASSUME NEW s \in Slot, CleanupGroup(s) PROVE NoOrphans'
  BY <1>13 DEF CleanupGroup, KillGroup
<1>14. ASSUME NEW b \in Batch, KillBatch(b) PROVE NoOrphans'
  BY <1>14 DEF KillBatch, Fault
<1>15. ASSUME NEW b \in Batch, KillPy(b) PROVE NoOrphans'
  BY <1>15 DEF KillPy, Fault, PyEnds
<1>16. ASSUME NEW b \in Batch, Interrupt(b) PROVE NoOrphans'
  BY <1>16 DEF Interrupt, Fault, KillGroup, PyEnds
<1>17. ASSUME NEW s \in Slot, KillScript(s) PROVE NoOrphans'
  BY <1>17 DEF KillScript, Fault
<1>18. ASSUME NEW s \in Slot, ScriptWedges(s) PROVE NoOrphans'
  BY <1>18 DEF ScriptWedges, Fault
<1>19. CASE Reboot
  BY <1>19 DEF Reboot, Fault, BatchAlive
<1>20. QED
  BY <1>1, <1>2, <1>3, <1>4, <1>5, <1>6, <1>7, <1>8, <1>9, <1>10, <1>11, <1>12, <1>13,
     <1>14, <1>15, <1>16, <1>17, <1>18, <1>19
  DEF Next, BatchStep, PyStep

\* One simulator at a time, as long as no eval_suite.py and no bring-up script
\* is killed: all nodes are those of the one trial that is waited for.
THEOREM SimulatorsExclude == Spec => []OneSimulator
<1>1. Init => NoOrphans BY DEF Init, NoOrphans
<1>2. NoOrphans /\ Shape /\ [Next]_vars => NoOrphans' BY OrphanStep
<1>3. NoOrphans /\ OneEvaluation /\ Shape => OneSimulator
  <2> SUFFICES ASSUME NoOrphans, OneEvaluation, Shape, killed \cap {"python", "script"} = {}
               PROVE  ~(Cardinality(nodes) > 1)
    BY DEF OneSimulator
  <2>1. CASE nodes = {} BY <2>1, FS_EmptySet
  <2>2. ASSUME NEW s \in nodes PROVE ~(Cardinality(nodes) > 1)
    <3>1. \A t \in nodes : Watched(t) BY DEF NoOrphans
    <3>2. PICK b \in Batch : py[b] = "wait" /\ watch[b] = s BY <3>1 DEF Watched
    <3>3. \A t \in nodes : t = s
      BY <3>1, <3>2 DEF OneEvaluation, PyAlive, Watched
    <3>4. nodes = {s} BY <3>3
    <3>5. Cardinality({s}) = 1 BY FS_Singleton
    <3>6. QED BY <3>4, <3>5
  <2>3. QED BY <2>1, <2>2
<1>4. QED BY <1>1, <1>2, <1>3, ShapeHolds, EvaluationsExclude, PTL DEF Spec

-----------------------------------------------------------------------------
(* The clocks *)

\* While a script starts up and polls, run_trial's own timeout leaves it the
\* time its phase still takes, and after that the whole of timeout_s.
Clock(b) ==
  py[b] = "wait" /\ watch[b] \in leader =>
    /\ phase[watch[b]] = "zenoh" => hard[b] >= POLL + READY + left[watch[b]]
    /\ phase[watch[b]] = "ready" => hard[b] >= POLL + left[watch[b]]
    /\ phase[watch[b]] = "poll" => hard[b] >= left[watch[b]]

Clocks == \A b \in Batch : Clock(b)

LEMMA ClockStep ==
  ASSUME Shape, Clocks, [Next]_vars
  PROVE  Clocks'
<1>1. ASSUME UNCHANGED vars PROVE UNCHANGED <<py, watch, hard, leader, phase, left>>
  BY <1>1 DEF vars, pyVars, procVars, groupVars
<1>2. ASSUME NEW b \in Batch,
            Start(b) \/ Skip(b) \/ ChildExits(b) \/ Done(b) \/ KillBatch(b)
     PROVE  UNCHANGED <<py, watch, hard, leader, phase, left>>
  BY <1>2 DEF pyVars, procVars, groupVars, Start, Skip, ChildExits, Done, KillBatch,
     Fault
<1>3. ASSUME NEW s \in Slot,
            Engine(s)
     PROVE  UNCHANGED <<py, watch, hard, leader, phase, left>>
  BY <1>3 DEF pyVars, procVars, groupVars, Engine
<1> USE DEF Shape, PlaceType, WaitType, ProcType, Clocks, Clock, pyVars, procVars,
       groupVars
<1>4. ASSUME UNCHANGED <<py, watch, hard, leader, phase, left>> PROVE Clocks'
  BY <1>4
<1>5. ASSUME NEW b \in Batch, Run(b) PROVE Clocks'
  BY <1>5 DEF Run, QueueInv, PyAlive
<1>6. ASSUME NEW b \in Batch, Launch(b) PROVE Clocks'
  <2>1. PICK s \in Slot : /\ ~Current(s) /\ py[b] = "launch"
                          /\ leader' = leader \cup {s}
                          /\ phase' = [phase EXCEPT ![s] = "zenoh"]
                          /\ left' = [left EXCEPT ![s] = ZENOH]
                          /\ py' = [py EXCEPT ![b] = "wait"]
                          /\ watch' = [watch EXCEPT ![b] = s]
                          /\ hard' = [hard EXCEPT ![b] = POLL + MARGIN]
    BY <1>6 DEF Launch, Free, HardLimit
  <2>2. Clock(b)'
    <3>1. hard'[b] = POLL + MARGIN /\ watch'[b] = s BY <2>1
    <3>2. left'[s] = ZENOH /\ phase'[s] = "zenoh" BY <2>1
    <3>3. POLL + MARGIN >= POLL + READY + ZENOH BY MarginAssumption, Durations
    <3>4. QED BY <3>1, <3>2, <3>3
  <2>3. ASSUME NEW c \in Batch, c # b PROVE Clock(c)'
    <3>1. py'[c] = py[c] /\ watch'[c] = watch[c] /\ hard'[c] = hard[c] BY <2>1, <2>3
    <3>2. py[c] = "wait" => watch[c] # s BY <2>1 DEF Current
    <3>3. CASE py[c] = "wait" /\ watch[c] \in leader'
      <4>1. watch[c] \in Slot \ {s} BY <2>1, <3>2, <3>3
      <4>2. phase'[watch[c]] = phase[watch[c]] /\ left'[watch[c]] = left[watch[c]]
        BY <2>1, <4>1
      <4>3. watch[c] \in leader BY <3>3, <4>1, <2>1
      <4>4. Clock(c) OBVIOUS
      <4>5. QED BY <3>1, <3>3, <4>2, <4>3, <4>4
    <3>4. QED BY <3>1, <3>3
  <2>4. QED BY <2>2, <2>3
<1>7. ASSUME NEW b \in Batch, WaitReturns(b) PROVE Clocks'
  BY <1>7 DEF WaitReturns
<1>8. ASSUME NEW b \in Batch, HardTimeout(b) PROVE Clocks'
  BY <1>8 DEF HardTimeout, KillGroup
<1>9. ASSUME NEW b \in Batch, ScoreMember(b) PROVE Clocks'
  <2> SUFFICES ASSUME NEW c \in Batch, py'[c] = "wait" PROVE Clock(c)'
    OBVIOUS
  <2>1. c # b BY <1>9, Elsewhere
  <2>2. /\ py'[c] = py[c] /\ watch'[c] = watch[c] /\ hard'[c] = hard[c]
        /\ UNCHANGED <<leader, phase, left>>
    BY <1>9, <2>1, Elsewhere
  <2>3. Clock(c) OBVIOUS
  <2>4. QED BY <2>2, <2>3
<1>10. ASSUME NEW b \in Batch, WriteReport(b) PROVE Clocks'
  <2> SUFFICES ASSUME NEW c \in Batch, py'[c] = "wait" PROVE Clock(c)'
    OBVIOUS
  <2>1. c # b BY <1>10, Elsewhere
  <2>2. /\ py'[c] = py[c] /\ watch'[c] = watch[c] /\ hard'[c] = hard[c]
        /\ UNCHANGED <<leader, phase, left>>
    BY <1>10, <2>1, Elsewhere
  <2>3. Clock(c) OBVIOUS
  <2>4. QED BY <2>2, <2>3
<1>11. ASSUME NEW b \in Batch, Tick(b) PROVE Clocks'
  <2> SUFFICES ASSUME NEW c \in Batch PROVE Clock(c)'
    OBVIOUS
  <2> DEFINE r == watch[b]
  <2>1. r \in leader /\ r \in Slot /\ UNCHANGED <<py, watch, leader, phase>>
    BY <1>11 DEF Tick
  <2>2. hard[b] \in Nat /\ left[r] \in Nat BY <2>1, Durations
  <2>3. phase[r] = "stuck" \/ left[r] # 0 BY <1>11 DEF Tick, Due
  <2>4. hard' = [hard EXCEPT ![b] = hard[b] - 1] BY <1>11 DEF Tick
  <2>5. left' = [left EXCEPT ![r] = IF @ > 0 THEN @ - 1 ELSE 0] BY <1>11 DEF Tick
  <2>6. Clock(c) OBVIOUS
  <2>7. CASE c = b
    <3>1. CASE left[r] # 0
      <4>1. hard'[b] = hard[b] - 1 /\ left'[r] = left[r] - 1
        BY <2>1, <2>2, <2>4, <2>5, <3>1
      <4>2. QED BY <2>1, <2>2, <2>6, <2>7, <4>1, Durations
    <3>2. CASE phase[r] = "stuck" BY <2>1, <2>7, <3>2
    <3>3. QED BY <2>3, <3>1, <3>2
  <2>8. CASE c # b /\ py[c] = "wait" /\ watch[c] \in leader
    <3>1. hard'[c] = hard[c] BY <2>4, <2>8
    <3>2. hard[c] \in Nat /\ watch[c] \in Slot /\ left[watch[c]] \in Nat
      BY <2>8, Durations
    <3>3. CASE watch[c] # r
      <4>1. left'[watch[c]] = left[watch[c]] BY <2>5, <3>2, <3>3
      <4>2. QED BY <2>1, <2>6, <3>1, <4>1
    <3>4. CASE watch[c] = r
      <4>1. left'[r] \in Nat /\ left'[r] <= left[r] BY <2>1, <2>2, <2>5
      <4>2. QED BY <2>1, <2>6, <3>1, <3>2, <3>4, <4>1, Durations
    <3>5. QED BY <3>3, <3>4
  <2>9. QED BY <2>1, <2>7, <2>8
<1>12. ASSUME NEW s \in Slot, Script(s) PROVE Clocks'
  <2> SUFFICES ASSUME NEW c \in Batch, py[c] = "wait", watch[c] \in leader PROVE Clock(c)'
    BY <1>12 DEF Script
  <2>1. /\ s \in Slot /\ watch[c] \in Slot /\ hard[c] \in Nat /\ left[s] \in Nat
        /\ POLL \in Nat /\ READY \in Nat /\ left[watch[c]] \in Nat
    BY Durations
  <2>2. UNCHANGED <<py, watch, hard, leader>> BY <1>12 DEF Script
  <2>3. CASE watch[c] # s
    <3>1. phase'[watch[c]] = phase[watch[c]] /\ left'[watch[c]] = left[watch[c]]
      BY <1>12, <2>1, <2>3 DEF Script, Enter
    <3>2. QED BY <2>2, <3>1
  <2>4. CASE watch[c] = s
    <3>1. CASE phase[s] = "zenoh" /\ left[s] = 0 /\ Enter(s, "ready", READY)
      <4>1. phase'[s] = "ready" /\ left'[s] \in {0, READY} BY <2>1, <3>1 DEF Enter
      <4>2. QED BY <2>1, <2>2, <2>4, <3>1, <4>1
    <3>2. CASE phase[s] = "ready" /\ Enter(s, "poll", POLL)
      <4>1. phase'[s] = "poll" /\ left'[s] \in {0, POLL} BY <2>1, <3>2 DEF Enter
      <4>2. QED BY <2>1, <2>2, <2>4, <3>2, <4>1
    <3>3. CASE phase'[s] \in {"wait", "linger", "cleanup"} BY <2>2, <2>4, <3>3
    <3>4. QED BY <1>12, <2>1, <3>1, <3>2, <3>3 DEF Script, Enter, Due
  <2>5. QED BY <2>3, <2>4
<1>13. ASSUME NEW s \in Slot, CleanupGroup(s) PROVE Clocks'
  BY <1>13 DEF CleanupGroup, KillGroup
<1>14. ASSUME NEW b \in Batch, KillPy(b) PROVE Clocks'
  <2> SUFFICES ASSUME NEW c \in Batch, py'[c] = "wait", watch'[c] \in leader PROVE Clock(c)'
    BY <1>14 DEF KillPy
  <2>1. c # b BY <1>14 DEF KillPy, PyEnds
  <2>2. /\ py[c] = "wait" /\ watch'[c] = watch[c] /\ hard'[c] = hard[c]
        /\ UNCHANGED <<leader, phase>>
    BY <1>14, <2>1 DEF KillPy, PyEnds
  <2>3. watch[c] \in Slot /\ left[watch[c]] \in Nat /\ hard[c] \in Nat BY <2>2, Durations
  <2>4. left'[watch[c]] \in {0, left[watch[c]]}
    <3>1. left' = [r \in Slot |-> IF py[b] = "wait" /\ watch[b] = r THEN 0 ELSE left[r]]
      BY <1>14 DEF KillPy
    <3>2. QED BY <2>3, <3>1
  <2>5. Clock(c) OBVIOUS
  <2>6. QED BY <2>2, <2>3, <2>4, <2>5, Durations
<1>15. ASSUME NEW b \in Batch, Interrupt(b) PROVE Clocks'
  BY <1>15 DEF Interrupt, Fault, KillGroup, PyEnds
<1>16. ASSUME NEW s \in Slot, KillScript(s) PROVE Clocks'
  BY <1>16 DEF KillScript, Fault
<1>17. ASSUME NEW s \in Slot, ScriptWedges(s) PROVE Clocks'
  BY <1>17 DEF ScriptWedges, Fault
<1>18. CASE Reboot
  BY <1>18 DEF Reboot, Fault, BatchAlive
<1>19. QED
  BY <1>1, <1>2, <1>3, <1>4, <1>5, <1>6, <1>7, <1>8, <1>9, <1>10, <1>11, <1>12, <1>13,
     <1>14, <1>15, <1>16, <1>17, <1>18
  DEF Next, BatchStep, PyStep

\* run_trial's timeout never cuts the completion poll short, for any durations
\* whose margin covers the start-up.
THEOREM PollIsWhole == Spec => TimeoutAfterPoll
<1>1. Init => Clocks BY DEF Init, Clocks, Clock
<1>2. Clocks /\ Shape /\ [Next]_vars => Clocks' BY ClockStep
<1>3. ASSUME Clocks, Shape, NEW b \in Batch, HardTimeout(b)
      PROVE  /\ phase[watch[b]] \notin {"zenoh", "ready"}
             /\ phase[watch[b]] = "poll" => left[watch[b]] = 0
  <2>1. py[b] = "wait" /\ watch[b] \in leader /\ hard[b] = 0 BY <1>3 DEF HardTimeout
  <2>2. left[watch[b]] \in Nat BY <1>3, <2>1 DEF Shape, ProcType
  <2>3. POLL \in Nat \ {0} /\ READY \in Nat BY HarnessAssumption
  <2>4. QED BY <1>3, <2>1, <2>2, <2>3 DEF Clocks, Clock
<1>4. Clocks /\ Shape => [\A b \in Batch : HardTimeout(b) =>
                           /\ phase[watch[b]] \notin {"zenoh", "ready"}
                           /\ phase[watch[b]] = "poll" => left[watch[b]] = 0]_vars
  BY <1>3
<1>5. QED BY <1>1, <1>2, <1>4, ShapeHolds, PTL DEF Spec, TimeoutAfterPoll

-----------------------------------------------------------------------------
(* The reports *)

\* What an evaluation has written when it gets to each of its stages.
Progress(b) ==
  /\ py[b] \in {"launch", "wait", "score"} => Len(rows[b]) = member[b] - 1
  /\ py[b] \in {"csv", "rows", "report", "json"} => Len(rows[b]) = Members
  /\ py[b] \notin {"none", "close"} => summary[NameOf(b)] = "none"
  /\ py[b] \in {"report", "json"} => Len(csv[NameOf(b)]) = Members
  /\ py[b] = "json" => NameOf(b) \in report
  /\ py[b] = "close" => summary[NameOf(b)] # "none"

ReportInv == SkippedIsReported /\ \A b \in Batch : Progress(b)

LEMMA ReportStep ==
  ASSUME Shape, OneEvaluation, ReportInv, [Next]_vars
  PROVE  ReportInv'
<1>1. ASSUME UNCHANGED vars PROVE UNCHANGED <<at, py, member, rows, csv, report, summary>>
  BY <1>1 DEF vars, batchVars, pyVars, outVars
<1>2. ASSUME NEW b \in Batch,
            Start(b) \/ Done(b) \/ Tick(b) \/ KillBatch(b)
     PROVE  UNCHANGED <<at, py, member, rows, csv, report, summary>>
  BY <1>2 DEF batchVars, pyVars, outVars, Start, Done, Tick, KillBatch, Fault
<1>3. ASSUME NEW s \in Slot,
            Script(s) \/ CleanupGroup(s) \/ Engine(s) \/ KillScript(s) \/ ScriptWedges(s)
     PROVE  UNCHANGED <<at, py, member, rows, csv, report, summary>>
  BY <1>3 DEF batchVars, pyVars, outVars, Script, Enter, CleanupGroup, KillGroup,
     Engine, KillScript, Fault, ScriptWedges
<1> USE DEF Shape, PlaceType, ReportInv, Progress, NameOf, SkippedIsReported
<1>4. ASSUME UNCHANGED <<at, py, member, rows, csv, report, summary>> PROVE ReportInv'
  BY <1>4
<1>5. ASSUME NEW b \in Batch, Skip(b) PROVE ReportInv'
  BY <1>5 DEF Skip, QueueInv, PyAlive, pyVars, outVars
<1>6. ASSUME NEW b \in Batch, Run(b) PROVE ReportInv'
  BY <1>6 DEF Run, outVars, WaitType, RowsType, Reported
<1>7. ASSUME NEW b \in Batch, ChildExits(b) PROVE ReportInv'
  BY <1>7 DEF ChildExits, PyAlive, pyVars, outVars
<1>8. ASSUME NEW b \in Batch, Launch(b) PROVE ReportInv'
  BY <1>8 DEF Launch, batchVars, outVars
<1>9. ASSUME NEW b \in Batch, WaitReturns(b) PROVE ReportInv'
  BY <1>9 DEF WaitReturns, batchVars, outVars
<1>10. ASSUME NEW b \in Batch, HardTimeout(b) PROVE ReportInv'
  BY <1>10 DEF HardTimeout, KillGroup, batchVars, outVars
<1>11. ASSUME NEW b \in Batch, ScoreMember(b) PROVE ReportInv'
  <2> SUFFICES ASSUME NEW c \in Batch PROVE Progress(c)'
    BY <1>11 DEF ScoreMember, outVars
  <2>1. UNCHANGED <<at, csv, report, summary>>
    BY <1>11 DEF ScoreMember, batchVars, outVars
  <2>2. ASSUME NEW row \in Row, Scored(b, row) PROVE Progress(c)'
    <3>1. CASE c # b
      <4>1. py'[c] = py[c] BY <2>2, <3>1 DEF Scored
      <4>2. member'[c] = member[c] BY <2>2, <3>1 DEF Scored, WaitType
      <4>3. rows'[c] = rows[c] BY <2>2, <3>1 DEF Scored, RowsType
      <4>4. QED BY <2>1, <4>1, <4>2, <4>3
    <3>2. CASE c = b
      <4>1. py[b] = "score" BY <1>11 DEF ScoreMember
      <4>2. /\ rows[b] \in Seq(Row) /\ Len(rows[b]) = member[b] - 1
            /\ summary[NameOf(b)] = "none" /\ member[b] \in 1..Members
        BY <4>1 DEF WaitType, RowsType
      <4>3. rows'[b] = Append(rows[b], row) BY <2>2 DEF Scored, RowsType
      <4>4. Len(rows'[b]) = member[b] BY <4>2, <4>3
      <4>5. CASE member[b] < Members
        <5>1. member'[b] = member[b] + 1 /\ py'[b] = "launch" BY <2>2, <4>5 DEF Scored, WaitType
        <5>2. QED BY <2>1, <3>2, <4>2, <4>4, <5>1
      <4>6. CASE ~(member[b] < Members)
        <5>1. py'[b] = "csv" BY <2>2, <4>6 DEF Scored
        <5>2. member[b] = Members BY <4>2, <4>6, Durations
        <5>3. QED BY <2>1, <3>2, <4>2, <4>4, <5>1, <5>2
      <4>7. QED BY <4>5, <4>6
    <3>3. QED BY <3>1, <3>2
  <2>3. CASE PyEnds(b) BY <2>1, <2>3 DEF PyEnds, RowsType, WaitType
  <2>4. QED BY <1>11, <2>2, <2>3 DEF ScoreMember, Row
<1>12. ASSUME NEW b \in Batch, WriteReport(b) PROVE ReportInv'
  <2> DEFINE n == NameOf(b)
  <2>1. n \in Name /\ py[b] # "none" BY <1>12, Names DEF WriteReport, PyAlive
  <2>2. \A c \in Batch \ {b} : py[c] = "none" BY <2>1 DEF OneEvaluation, PyAlive
  <2>3. \A c \in Batch \ {b} : Progress(c)'
    <3>1. \A c \in Batch \ {b} : py'[c] = "none"
      BY <1>12, <2>2 DEF WriteReport, PyAt, PyEnds
    <3>2. QED BY <3>1
  <2>4. UNCHANGED at BY <1>12 DEF WriteReport, batchVars
  <2>5. CASE py[b] = "csv"
    <3>1. /\ csv' = [csv EXCEPT ![n] = <<>>] /\ py' = [py EXCEPT ![b] = "rows"]
          /\ UNCHANGED <<member, rows, report, summary>>
      BY <1>12, <2>5 DEF WriteReport, PyAt
    <3>2. Progress(b)' BY <2>4, <2>5, <3>1
    <3>3. SkippedIsReported' BY <2>5, <3>1 DEF RowsType
    <3>4. QED BY <2>3, <3>2, <3>3
  <2>6. CASE py[b] = "rows"
    <3>1. /\ csv' = [csv EXCEPT ![n] = rows[b]] /\ py' = [py EXCEPT ![b] = "report"]
          /\ UNCHANGED <<member, rows, report, summary>>
      BY <1>12, <2>6 DEF WriteReport, PyAt
    <3>2. Progress(b)' BY <2>1, <2>4, <2>6, <3>1 DEF RowsType
    <3>3. SkippedIsReported' BY <2>6, <3>1 DEF RowsType
    <3>4. QED BY <2>3, <3>2, <3>3
  <2>7. CASE py[b] = "report"
    <3>1. /\ report' = report \cup {n} /\ py' = [py EXCEPT ![b] = "json"]
          /\ UNCHANGED <<member, rows, csv, summary>>
      BY <1>12, <2>7 DEF WriteReport, PyAt
    <3>2. Progress(b)' BY <2>4, <2>7, <3>1
    <3>3. SkippedIsReported' BY <3>1
    <3>4. QED BY <2>3, <3>2, <3>3
  <2>8. CASE py[b] = "json"
    <3>1. /\ summary' = [summary EXCEPT ![n] = "partial"] /\ py' = [py EXCEPT ![b] = "close"]
          /\ UNCHANGED <<member, rows, csv, report>>
      BY <1>12, <2>8 DEF WriteReport, PyAt
    <3>2. Progress(b)' BY <2>1, <2>4, <2>8, <3>1 DEF FileType
    <3>3. SkippedIsReported' BY <2>8, <3>1 DEF FileType
    <3>4. QED BY <2>3, <3>2, <3>3
  <2>9. CASE py[b] = "close"
    <3>1. /\ summary' = [summary EXCEPT ![n] = "whole"] /\ py' = [py EXCEPT ![b] = "none"]
          /\ UNCHANGED <<csv, report>>
      BY <1>12, <2>9 DEF WriteReport, PyEnds
    <3>2. Progress(b)' BY <3>1
    <3>3. SkippedIsReported' BY <2>9, <3>1 DEF FileType
    <3>4. QED BY <2>3, <3>2, <3>3
  <2>10. QED BY <1>12, <2>5, <2>6, <2>7, <2>8, <2>9 DEF WriteReport
<1>13. ASSUME NEW b \in Batch, KillPy(b) PROVE ReportInv'
  BY <1>13 DEF KillPy, Fault, PyEnds, batchVars, outVars
<1>14. ASSUME NEW b \in Batch, Interrupt(b) PROVE ReportInv'
  BY <1>14 DEF Interrupt, Fault, KillGroup, PyEnds, batchVars, outVars
<1>15. CASE Reboot
  BY <1>15 DEF Reboot, Fault, BatchAlive, outVars
<1>16. QED
  BY <1>1, <1>2, <1>3, <1>4, <1>5, <1>6, <1>7, <1>8, <1>9, <1>10, <1>11, <1>12, <1>13,
     <1>14, <1>15
  DEF Next, BatchStep, PyStep

LEMMA ReportInit == Init => ReportInv
  BY DEF Init, ReportInv, Progress, SkippedIsReported

LEMMA ReportHolds == Spec => []ReportInv
  BY ReportInit, ReportStep, ShapeHolds, EvaluationsExclude, PTL DEF Spec

\* A run that a batch will skip has a row for each of its members and its
\* report, at whatever point an evaluation was killed.
THEOREM SkippedRuns == Spec => []SkippedIsReported
<1>1. ReportInv => SkippedIsReported BY DEF ReportInv
<1>2. QED BY <1>1, ReportHolds, PTL

-----------------------------------------------------------------------------
(* The queue *)

\* The variables of EvalQueue, and its steps over them.
Evaluated == {NameOf(b) : b \in {c \in Batch : PyAlive(c)}}
Reports == {n \in Name : summary[n] # "none"}

Begins(n) == Evaluated = {} /\ n \notin Reports /\ Evaluated' = {n} /\ Reports' = Reports
Reporting(n) ==
  Evaluated = {n} /\ Reports' = Reports \cup {n} /\ Evaluated' = Evaluated
Leaves(n) == Evaluated = {n} /\ Evaluated' = {} /\ Reports' = Reports

ImplStep ==
  \/ \E n \in Name : Begins(n) \/ Reporting(n) \/ Leaves(n)
  \/ Evaluated' = Evaluated /\ Reports' = Reports

LEMMA SameEvaluated ==
  ASSUME \A c \in Batch : PyAlive(c)' <=> PyAlive(c),
         \A c \in Batch : PyAlive(c) => at'[c] = at[c]
  PROVE  UNCHANGED Evaluated
  BY DEF Evaluated, NameOf

LEMMA OnlyOne == ASSUME OneEvaluation, NEW b \in Batch, PyAlive(b)
                 PROVE  Evaluated = {NameOf(b)}
<1>1. \A c \in Batch : PyAlive(c) => c = b BY DEF OneEvaluation
<1>2. {c \in Batch : PyAlive(c)} = {b} BY <1>1
<1>3. QED BY <1>2 DEF Evaluated

LEMMA LastLeaves ==
  ASSUME Shape, OneEvaluation, NEW b \in Batch, PyAlive(b),
         py' = [py EXCEPT ![b] = "none"], UNCHANGED Reports
  PROVE  ImplStep
<1>1. Evaluated = {NameOf(b)} /\ NameOf(b) \in Name BY OnlyOne, Names
<1>2. \A c \in Batch : PyAlive(c) => c = b BY DEF OneEvaluation
<1>3. \A c \in Batch : py'[c] = "none" BY <1>2 DEF Shape, PlaceType, PyAlive
<1>4. Evaluated' = {} BY <1>3 DEF Evaluated, PyAlive
<1>5. QED BY <1>1, <1>4 DEF ImplStep, Leaves

LEMMA QueueImpl ==
  ASSUME Shape, OneEvaluation, ReportInv, [Next]_vars
  PROVE  ImplStep
<1>1. ASSUME UNCHANGED vars PROVE UNCHANGED <<at, py, summary>>
  BY <1>1 DEF vars, batchVars, pyVars, outVars
<1>2. ASSUME NEW b \in Batch,
            Start(b) \/ Done(b) \/ Tick(b) \/ KillBatch(b)
     PROVE  UNCHANGED <<at, py, summary>>
  BY <1>2 DEF batchVars, pyVars, outVars, Start, Done, Tick, KillBatch, Fault
<1>3. ASSUME NEW s \in Slot,
            Script(s) \/ CleanupGroup(s) \/ Engine(s) \/ KillScript(s) \/ ScriptWedges(s)
     PROVE  UNCHANGED <<at, py, summary>>
  BY <1>3 DEF batchVars, pyVars, outVars, Script, Enter, CleanupGroup, KillGroup,
     Engine, KillScript, Fault, ScriptWedges
<1> USE DEF Shape, PlaceType, ImplStep, Begins, Reporting, Leaves
<1>4. ASSUME UNCHANGED <<at, py, summary>> PROVE ImplStep
  BY <1>4 DEF Evaluated, Reports, PyAlive, NameOf
<1>5. ASSUME NEW b \in Batch, Skip(b) PROVE ImplStep
  <2>1. UNCHANGED Reports BY <1>5 DEF Skip, outVars, Reports
  <2>2. py[b] = "none" /\ UNCHANGED py BY <1>5 DEF Skip, QueueInv, PyAlive, pyVars
  <2>3. \A c \in Batch \ {b} : at'[c] = at[c] BY <1>5 DEF Skip, PlaceType
  <2>4. UNCHANGED Evaluated BY <2>2, <2>3, SameEvaluated DEF PyAlive
  <2>5. QED BY <2>1, <2>4
<1>6. ASSUME NEW b \in Batch, Run(b) PROVE ImplStep
  <2>1. UNCHANGED Reports BY <1>6 DEF Run, outVars, Reports
  <2>2. \A c \in Batch : py[c] = "none"
    BY <1>6 DEF Run, OneEvaluation, BatchAlive, QueueInv, PyAlive
  <2>3. Evaluated = {} BY <2>2 DEF Evaluated, PyAlive
  <2>4. py' = [py EXCEPT ![b] = "launch"] /\ UNCHANGED at BY <1>6 DEF Run
  <2>5. Evaluated' = {NameOf(b)} BY <2>2, <2>4 DEF Evaluated, PyAlive, NameOf
  <2>6. NameOf(b) \in Name /\ NameOf(b) \notin Reports BY <1>6, Names DEF Run, Reported, Reports
  <2>7. Begins(NameOf(b)) BY <2>1, <2>3, <2>5, <2>6
  <2>8. QED BY <2>6, <2>7
<1>7. ASSUME NEW b \in Batch, ChildExits(b) PROVE ImplStep
  <2>1. UNCHANGED Reports BY <1>7 DEF ChildExits, outVars, Reports
  <2>2. py[b] = "none" /\ UNCHANGED py BY <1>7 DEF ChildExits, QueueInv, PyAlive, pyVars
  <2>3. \A c \in Batch \ {b} : at'[c] = at[c] BY <1>7 DEF ChildExits, PlaceType
  <2>4. UNCHANGED Evaluated BY <2>2, <2>3, SameEvaluated DEF PyAlive
  <2>5. QED BY <2>1, <2>4
<1>8. ASSUME NEW b \in Batch, Launch(b) PROVE ImplStep
  <2>1. UNCHANGED Reports BY <1>8 DEF Launch, outVars, Reports
  <2>2. UNCHANGED Evaluated BY <1>8, SameEvaluated DEF Launch, batchVars, PyAlive
  <2>3. QED BY <2>1, <2>2
<1>9. ASSUME NEW b \in Batch, WaitReturns(b) PROVE ImplStep
  <2>1. UNCHANGED Reports BY <1>9 DEF WaitReturns, outVars, Reports
  <2>2. UNCHANGED Evaluated BY <1>9, SameEvaluated DEF WaitReturns, batchVars, PyAlive
  <2>3. QED BY <2>1, <2>2
<1>10. ASSUME NEW b \in Batch, HardTimeout(b) PROVE ImplStep
  <2>1. UNCHANGED Reports BY <1>10 DEF HardTimeout, outVars, Reports
  <2>2. UNCHANGED Evaluated BY <1>10, SameEvaluated DEF HardTimeout, batchVars, PyAlive
  <2>3. QED BY <2>1, <2>2
<1>11. ASSUME NEW b \in Batch, ScoreMember(b) PROVE ImplStep
  <2>1. UNCHANGED Reports BY <1>11 DEF ScoreMember, outVars, Reports
  <2>2. PyAlive(b) /\ UNCHANGED at BY <1>11 DEF ScoreMember, PyAlive, batchVars
  <2>3. ASSUME NEW row \in Row, Scored(b, row) PROVE UNCHANGED Evaluated
    <3>1. \A c \in Batch : PyAlive(c)' <=> PyAlive(c) BY <2>2, <2>3 DEF Scored, PyAlive
    <3>2. QED BY <2>2, <3>1, SameEvaluated
  <2>4. CASE PyEnds(b)
    <3>1. py' = [py EXCEPT ![b] = "none"] BY <2>4 DEF PyEnds
    <3>2. QED BY <2>1, <2>2, <3>1, LastLeaves
  <2>5. QED BY <1>11, <2>1, <2>3, <2>4 DEF ScoreMember, Row
<1>12. ASSUME NEW b \in Batch, WriteReport(b) PROVE ImplStep
  <2>1. PyAlive(b) /\ UNCHANGED at /\ NameOf(b) \in Name
    BY <1>12, Names DEF WriteReport, PyAlive, batchVars
  <2>2. ASSUME NEW p \in {"rows", "report", "json", "close"}, PyAt(b, p)
        PROVE  UNCHANGED Evaluated
    <3>1. \A c \in Batch : PyAlive(c)' <=> PyAlive(c) BY <2>1, <2>2 DEF PyAt, PyAlive
    <3>2. QED BY <2>1, <3>1, SameEvaluated
  <2>3. CASE py[b] \in {"csv", "rows", "report"}
    BY <1>12, <2>2, <2>3 DEF WriteReport, Reports
  <2>4. CASE py[b] = "json"
    <3>1. UNCHANGED Evaluated /\ summary' = [summary EXCEPT ![NameOf(b)] = "partial"]
      BY <1>12, <2>2, <2>4 DEF WriteReport
    <3>2. Reports' = Reports \cup {NameOf(b)} BY <2>1, <3>1 DEF Reports, FileType
    <3>3. Evaluated = {NameOf(b)} BY <2>1, OnlyOne
    <3>4. Reporting(NameOf(b)) BY <3>1, <3>2, <3>3
    <3>5. QED BY <2>1, <3>4
  <2>5. CASE py[b] = "close"
    <3>1. /\ py' = [py EXCEPT ![b] = "none"]
          /\ summary' = [summary EXCEPT ![NameOf(b)] = "whole"]
      BY <1>12, <2>5 DEF WriteReport, PyEnds
    <3>2. summary[NameOf(b)] # "none" BY <2>5 DEF ReportInv, Progress
    <3>3. UNCHANGED Reports BY <2>1, <3>1, <3>2 DEF Reports, FileType
    <3>4. QED BY <2>1, <3>1, <3>3, LastLeaves
  <2>6. QED BY <1>12, <2>3, <2>4, <2>5 DEF WriteReport
<1>13. ASSUME NEW b \in Batch, KillPy(b) PROVE ImplStep
  <2>1. UNCHANGED Reports BY <1>13 DEF KillPy, outVars, Reports
  <2>2. PyAlive(b) /\ py' = [py EXCEPT ![b] = "none"] /\ UNCHANGED at
    BY <1>13 DEF KillPy, PyAlive, PyEnds, batchVars
  <2>3. QED BY <2>1, <2>2, LastLeaves
<1>14. ASSUME NEW b \in Batch, Interrupt(b) PROVE ImplStep
  <2>1. UNCHANGED Reports BY <1>14 DEF Interrupt, outVars, Reports
  <2>2. PyAlive(b) /\ py' = [py EXCEPT ![b] = "none"] /\ UNCHANGED at
    BY <1>14 DEF Interrupt, PyAlive, PyEnds, batchVars
  <2>3. QED BY <2>1, <2>2, LastLeaves
<1>15. CASE Reboot
  <2>1. UNCHANGED Reports BY <1>15 DEF Reboot, outVars, Reports
  <2>2. \A c \in Batch : py'[c] = "none" BY <1>15 DEF Reboot
  <2>3. Evaluated' = {} BY <2>2 DEF Evaluated, PyAlive
  <2>4. CASE \A c \in Batch : ~PyAlive(c)
    <3>1. Evaluated = {} BY <2>4 DEF Evaluated
    <3>2. QED BY <2>1, <2>3, <3>1
  <2>5. ASSUME NEW b \in Batch, PyAlive(b) PROVE ImplStep
    <3>1. Evaluated = {NameOf(b)} /\ NameOf(b) \in Name BY <2>5, OnlyOne, Names
    <3>2. Leaves(NameOf(b)) BY <2>1, <2>3, <3>1
    <3>3. QED BY <3>1, <3>2
  <2>6. QED BY <2>4, <2>5
<1>16. QED
  BY <1>1, <1>2, <1>3, <1>4, <1>5, <1>6, <1>7, <1>8, <1>9, <1>10, <1>11, <1>12, <1>13,
     <1>14, <1>15
  DEF Next, BatchStep, PyStep

\* The harness does what EvalQueue promises: one run at a time is evaluated,
\* only that run is reported, and no run that has a summary is begun again.
THEOREM HarnessImplementsQueue == Spec => ImplementsEvalQueue
<1>1. Init => Promise!Init
  BY DEF Init, Promise!Init, PyAlive
<1>2. Shape /\ OneEvaluation /\ ReportInv /\ [Next]_vars => [Promise!Next]_(Promise!qvars)
  <2> SUFFICES ASSUME Shape, OneEvaluation, ReportInv, [Next]_vars
               PROVE  [Promise!Next]_(Promise!qvars)
    OBVIOUS
  <2>1. ImplStep BY QueueImpl
  <2>2. QED
    BY <2>1 DEF ImplStep, Begins, Reporting, Leaves, Evaluated, Reports, Promise!Next,
       Promise!Begin, Promise!Report, Promise!Leave, Promise!qvars
<1>3. QED
  BY <1>1, <1>2, ShapeHolds, EvaluationsExclude, ReportHolds, PTL
  DEF Spec, ImplementsEvalQueue, Promise!Spec

-----------------------------------------------------------------------------
(* Whose rows results.csv has *)

Clean(seq) == \A i \in DOMAIN seq : seq[i] # "other"

\* No engine has written for a trial, and none is there that will.
Untouched(t) == scoring[t] = "none" /\ \A s \in Slot : trial[s] # t

\* The trials run_suite has still to launch.
Ahead(b, k) == k > member[b] \/ (k = member[b] /\ py[b] = "launch")

\* The first evaluation of a run finds no file of another launch.
Own(b) ==
  /\ runs[NameOf(b)] # 0
  /\ runs[NameOf(b)] = 1 =>
       /\ Clean(rows[b])
       /\ \A k \in 1..Members : Ahead(b, k) => Untouched(<<NameOf(b), k>>)
       /\ py[b] \in {"wait", "score"} =>
            /\ scoring[TrialOf(b)] # "none" => TrialOf(b) \in fresh
            /\ \A s \in Slot : trial[s] = TrialOf(b) => s = watch[b]

NewInv == \A n \in Name : runs[n] = 0 => \A k \in 1..Members : Untouched(<<n, k>>)
OwnInv == \A b \in Batch : PyAlive(b) => Own(b)
WritingInv == \A s \in Slot : engine[s] = "writing" /\ trial[s] \in Trial => scoring[trial[s]] # "none"
CsvInv == \A n \in Name : runs[n] \in {0, 1} => Clean(csv[n])
RowsInv == NewInv /\ OwnInv /\ WritingInv /\ CsvInv

LEMMA NoTrialIsNone ==
  /\ NoTrial \notin Trial
  /\ \A n \in Name, k \in 1..Members : <<n, k>> \in Trial /\ <<n, k>> # NoTrial
<1>1. 0 \notin 1..Members
  BY HarnessAssumption
<1>2. \A t \in Trial : t[2] \in 1..Members
  BY DEF Trial
<1>3. NoTrial[2] = 0
  BY DEF NoTrial
<1>4. \A n \in Name, k \in 1..Members : <<n, k>> \in Trial
  BY DEF Trial
<1>5. NoTrial \notin Trial
  BY <1>1, <1>2, <1>3
<1>6. QED BY <1>4, <1>5

\* Processes end or go on, and no trial is launched, scored or written.
LEMMA QuietRows ==
  ASSUME Shape, Shape', RowsInv, UNCHANGED <<scoring, fresh, runs>>, CsvInv',
         \A s \in Slot : trial'[s] = NoTrial \/ (trial'[s] = trial[s] /\ engine'[s] = engine[s]),
         \A b \in Batch :
           \/ py'[b] = "none"
           \/ /\ py[b] # "none" /\ at'[b] = at[b] /\ member'[b] = member[b]
              /\ rows'[b] = rows[b] /\ watch'[b] = watch[b]
              /\ py'[b] = "launch" => py[b] = "launch"
              /\ py'[b] \in {"wait", "score"} => py[b] \in {"wait", "score"}
  PROVE  RowsInv'
<1>1. \A n \in Name, k \in 1..Members, s \in Slot : trial'[s] = <<n, k>> => trial[s] = <<n, k>>
  BY NoTrialIsNone
<1>2. \A n \in Name, k \in 1..Members : Untouched(<<n, k>>) => Untouched(<<n, k>>)'
  BY <1>1 DEF Untouched
<1>3. NewInv'
  BY <1>2 DEF RowsInv, NewInv
<1>4. WritingInv'
  BY NoTrialIsNone DEF RowsInv, WritingInv
<1>5. ASSUME NEW b \in Batch, PyAlive(b)'
      PROVE  Own(b)'
  <2>1. /\ py[b] # "none" /\ at'[b] = at[b] /\ member'[b] = member[b]
        /\ rows'[b] = rows[b] /\ watch'[b] = watch[b]
        /\ py'[b] = "launch" => py[b] = "launch"
        /\ py'[b] \in {"wait", "score"} => py[b] \in {"wait", "score"}
    BY <1>5 DEF PyAlive
  <2>2. Own(b) /\ NameOf(b) \in Name /\ member[b] \in 1..Members
    BY <2>1, Names DEF RowsInv, OwnInv, PyAlive
  <2>3. NameOf(b)' = NameOf(b) /\ TrialOf(b)' = TrialOf(b) /\ TrialOf(b) = <<NameOf(b), member[b]>>
    BY <2>1 DEF NameOf, TrialOf
  <2>4. \A k \in 1..Members : Ahead(b, k)' => Ahead(b, k)
    BY <2>1 DEF Ahead
  <2>5. ASSUME runs[NameOf(b)] = 1, py'[b] \in {"wait", "score"}, NEW s \in Slot,
               trial'[s] = TrialOf(b)
        PROVE  s = watch'[b]
    BY <1>1, <2>1, <2>2, <2>3, <2>5 DEF Own
  <2>6. QED
    BY <1>2, <2>1, <2>2, <2>3, <2>4, <2>5 DEF Own
<1>6. QED BY <1>3, <1>4, <1>5 DEF RowsInv, OwnInv

LEMMA CsvQuiet ==
  ASSUME RowsInv, UNCHANGED <<csv, runs>>
  PROVE  CsvInv'
BY DEF RowsInv, CsvInv

LEMMA RowsQuietBatch ==
  ASSUME Shape, Shape', RowsInv, NEW b \in Batch,
         \/ Start(b) \/ Skip(b) \/ ChildExits(b) \/ Done(b) \/ KillBatch(b)
         \/ Tick(b) \/ WaitReturns(b) \/ HardTimeout(b) \/ KillPy(b) \/ Interrupt(b)
  PROVE  RowsInv'
<1> USE CsvQuiet, QuietRows DEF Shape, PlaceType, WaitType, RowsType, TrialType, batchVars, pyVars,
        groupVars, fileVars, outVars
<1>1. CASE Start(b) BY <1>1 DEF Start, QueueInv, PyAlive
<1>2. CASE Skip(b) \/ ChildExits(b) BY <1>2 DEF Skip, ChildExits, QueueInv, PyAlive
<1>3. CASE Done(b) \/ KillBatch(b) BY <1>3 DEF Done, KillBatch, Fault
<1>4. CASE Tick(b) BY <1>4 DEF Tick
<1>5. CASE WaitReturns(b) BY <1>5 DEF WaitReturns
<1>6. CASE HardTimeout(b) BY <1>6 DEF HardTimeout, KillGroup
<1>7. CASE KillPy(b) BY <1>7 DEF KillPy, PyEnds, Fault
<1>8. CASE Interrupt(b) BY <1>8 DEF Interrupt, KillGroup, PyEnds, Fault
<1>9. QED BY <1>1, <1>2, <1>3, <1>4, <1>5, <1>6, <1>7, <1>8

LEMMA RowsQuietOther ==
  ASSUME Shape, Shape', RowsInv,
         \/ Reboot \/ UNCHANGED vars
         \/ \E s \in Slot : Script(s) \/ CleanupGroup(s) \/ KillScript(s) \/ ScriptWedges(s)
  PROVE  RowsInv'
<1> USE CsvQuiet, QuietRows DEF Shape, PlaceType, WaitType, RowsType, TrialType, batchVars, pyVars,
        groupVars, fileVars, outVars
<1>1. CASE Reboot BY <1>1 DEF Reboot, Fault
<1>2. CASE UNCHANGED vars BY <1>2 DEF vars
<1>3. ASSUME NEW s \in Slot, Script(s) PROVE RowsInv' BY <1>3 DEF Script, Enter
<1>4. ASSUME NEW s \in Slot, CleanupGroup(s) PROVE RowsInv' BY <1>4 DEF CleanupGroup, KillGroup
<1>5. ASSUME NEW s \in Slot, KillScript(s) \/ ScriptWedges(s) PROVE RowsInv'
  BY <1>5 DEF KillScript, ScriptWedges, Fault
<1>6. QED BY <1>1, <1>2, <1>3, <1>4, <1>5

LEMMA RowsRun ==
  ASSUME Shape, Shape', OneEvaluation, RowsInv, NEW b \in Batch, Run(b)
  PROVE  RowsInv'
<1> DEFINE n == NameOf(b)
<1>1. n \in Name /\ BatchAlive(b) /\ ~PyAlive(b)
  BY Names DEF Run, BatchAlive, Shape, QueueInv
<1>2. /\ UNCHANGED <<at, csv, scoring, fresh, engine, trial>>
      /\ runs' = [runs EXCEPT ![n] = @ + 1] /\ runs \in [Name -> Nat]
      /\ py' = [py EXCEPT ![b] = "launch"] /\ member' = [member EXCEPT ![b] = 1]
      /\ rows' = [rows EXCEPT ![b] = <<>>]
  BY DEF Run, outVars, groupVars, fileVars, Shape, FileType
<1>3. \A m \in Name : runs'[m] # 0 \/ runs'[m] = runs[m]
  BY <1>1, <1>2
<1>4. \A m \in Name : runs'[m] \in {0, 1} => runs[m] \in {0, 1}
  BY <1>1, <1>2
<1>5. \A t : Untouched(t)' <=> Untouched(t)
  BY <1>2 DEF Untouched
<1>6. NewInv' /\ CsvInv' /\ WritingInv'
  BY <1>2, <1>3, <1>4, <1>5 DEF RowsInv, NewInv, CsvInv, WritingInv
<1>7. \A c \in Batch : PyAlive(c)' => c = b
  BY <1>1, <1>2 DEF OneEvaluation, PyAlive, Shape, PlaceType
<1>8. NameOf(b)' = n /\ member'[b] = 1 /\ py'[b] = "launch" /\ rows'[b] = <<>>
  BY <1>2 DEF NameOf, Shape, PlaceType, WaitType, RowsType
<1>9. runs'[n] # 0 /\ (runs'[n] = 1 => runs[n] = 0)
  BY <1>1, <1>2
<1>10. Own(b)'
  <2>1. runs'[n] = 1 => \A k \in 1..Members : Untouched(<<n, k>>)'
    <3>1. runs'[n] = 1 => \A k \in 1..Members : Untouched(<<n, k>>)
      BY <1>1, <1>9 DEF RowsInv, NewInv
    <3>2. QED BY <1>5, <1>8, <3>1
  <2>2. Clean(<<>>)
    BY DEF Clean
  <2>3. QED BY <1>8, <1>9, <2>1, <2>2 DEF Own
<1>11. QED BY <1>6, <1>7, <1>10 DEF RowsInv, OwnInv

LEMMA RowsLaunch ==
  ASSUME Shape, Shape', OneEvaluation, RowsInv, NEW b \in Batch, Launch(b)
  PROVE  RowsInv'
<1> DEFINE n == NameOf(b)
           t == <<n, member[b]>>
<1>1. PICK s \in Slot : /\ py[b] = "launch" /\ py' = [py EXCEPT ![b] = "wait"]
                        /\ watch' = [watch EXCEPT ![b] = s]
                        /\ engine' = [engine EXCEPT ![s] = "running"]
                        /\ trial' = [trial EXCEPT ![s] = t]
                        /\ fresh' = fresh \ {t}
                        /\ UNCHANGED <<at, member, rows, scoring, csv, runs>>
  BY DEF Launch, TrialOf, batchVars, outVars
<1>2. PyAlive(b) /\ n \in Name /\ member[b] \in 1..Members /\ TrialOf(b) = t
  BY <1>1, Names DEF PyAlive, TrialOf
<1>3. Own(b) /\ \A c \in Batch : PyAlive(c) => c = b
  BY <1>2 DEF RowsInv, OwnInv, OneEvaluation
<1>4. trial \in [Slot -> Trial \cup {NoTrial}] /\ trial' \in [Slot -> Trial \cup {NoTrial}]
  BY DEF Shape, TrialType
<1>5. \A m \in Name, k \in 1..Members : <<m, k>> # t /\ Untouched(<<m, k>>) => Untouched(<<m, k>>)'
  BY <1>1, <1>4 DEF Untouched
<1>6. NewInv'
  BY <1>1, <1>2, <1>3, <1>5 DEF RowsInv, NewInv, Own
<1>7. WritingInv'
  BY <1>1, <1>4 DEF RowsInv, WritingInv, Shape, TrialType
<1>8. CsvInv'
  BY <1>1, CsvQuiet
<1>9. \A c \in Batch : PyAlive(c)' => c = b
  BY <1>1, <1>3 DEF PyAlive, Shape, PlaceType
<1>10. /\ NameOf(b)' = n /\ TrialOf(b)' = t /\ py'[b] = "wait" /\ watch'[b] = s
  BY <1>1, <1>2 DEF NameOf, TrialOf, Shape, PlaceType, WaitType
<1>11. Own(b)'
  <2>1. ASSUME runs[n] = 1, NEW k \in 1..Members, Ahead(b, k)'
        PROVE  Untouched(<<n, k>>)'
    <3>1. k > member[b]
      BY <1>1, <1>10, <2>1 DEF Ahead
    <3>2. k # member[b]
      BY <1>2, <3>1
    <3>3. Untouched(<<n, k>>)
      BY <1>3, <2>1, <3>1 DEF Own, Ahead
    <3>4. <<n, k>> # t
      BY <3>2
    <3>5. QED BY <1>2, <1>5, <1>10, <3>3, <3>4
  <2>2. runs[n] = 1 => Untouched(t)
    BY <1>1, <1>2, <1>3 DEF Own, Ahead
  <2>3. ASSUME runs[n] = 1, NEW r \in Slot, trial'[r] = t
        PROVE  r = s
    BY <1>1, <1>4, <2>2, <2>3 DEF Untouched
  <2>4. runs[n] = 1 => scoring'[t] = "none"
    BY <1>1, <2>2 DEF Untouched
  <2>5. QED BY <1>1, <1>3, <1>10, <2>1, <2>3, <2>4 DEF Own
<1>12. QED BY <1>6, <1>7, <1>8, <1>9, <1>11 DEF RowsInv, OwnInv

LEMMA RowsScore ==
  ASSUME Shape, Shape', OneEvaluation, RowsInv, NEW b \in Batch, ScoreMember(b)
  PROVE  RowsInv'
<1> DEFINE n == NameOf(b)
           t == <<n, member[b]>>
<1>1. /\ UNCHANGED <<at, scoring, fresh, csv, runs, engine, trial>> /\ py[b] = "score"
  BY DEF ScoreMember, batchVars, groupVars, fileVars, outVars
<1>2. /\ PyAlive(b) /\ n \in Name /\ member[b] \in 1..Members /\ TrialOf(b) = t
      /\ rows[b] \in Seq(Row)
  BY <1>1, Names DEF PyAlive, TrialOf, Shape, RowsType
<1>3. Own(b) /\ \A c \in Batch : PyAlive(c) => c = b
  BY <1>2 DEF RowsInv, OwnInv, OneEvaluation
<1>4. CsvInv'
  BY <1>1, CsvQuiet
<1>5. CASE PyEnds(b)
  BY <1>1, <1>4, <1>5, QuietRows DEF PyEnds, Shape, PlaceType, WaitType, RowsType
<1>6. ASSUME NEW row \in Row, Scored(b, row), runs[n] = 1 => row # "other"
      PROVE  RowsInv'
  <2>1. /\ rows' = [rows EXCEPT ![b] = Append(@, row)]
        /\ \/ /\ member' = [member EXCEPT ![b] = @ + 1]
              /\ py' = [py EXCEPT ![b] = "launch"]
           \/ member' = member /\ py' = [py EXCEPT ![b] = "csv"]
    BY <1>6 DEF Scored
  <2>2. \A u : Untouched(u)' <=> Untouched(u)
    BY <1>1 DEF Untouched
  <2>3. NewInv' /\ WritingInv'
    BY <1>1, <2>2 DEF RowsInv, NewInv, WritingInv
  <2>4. \A c \in Batch : PyAlive(c)' => c = b
    BY <1>3, <2>1 DEF PyAlive, Shape, PlaceType
  <2>5. runs[n] = 1 => Clean(rows'[b])
    <3>1. rows'[b] = Append(rows[b], row)
      BY <2>1 DEF Shape, RowsType
    <3>2. runs[n] = 1 => Clean(rows[b])
      BY <1>3 DEF Own
    <3>3. \A i \in DOMAIN rows'[b] : rows'[b][i] = row \/ (i \in DOMAIN rows[b] /\ rows'[b][i] = rows[b][i])
      BY <1>2, <3>1
    <3>4. QED BY <1>6, <3>2, <3>3 DEF Clean
  <2>6. \A k \in 1..Members : Ahead(b, k)' => Ahead(b, k)
    BY <1>2, <2>1 DEF Ahead, Shape, PlaceType, WaitType
  <2>7. py'[b] \notin {"wait", "score"} /\ NameOf(b)' = n
    BY <1>1, <2>1 DEF NameOf, Shape, PlaceType
  <2>8. Own(b)'
    BY <1>1, <1>3, <2>2, <2>5, <2>6, <2>7 DEF Own
  <2>9. QED BY <1>4, <2>3, <2>4, <2>8 DEF RowsInv, OwnInv
<1>7. runs[n] = 1 /\ scoring[t] # "none" => t \in fresh
  BY <1>1, <1>2, <1>3 DEF Own
<1>8. QED BY <1>2, <1>5, <1>6, <1>7 DEF ScoreMember, Row

LEMMA RowsWrite ==
  ASSUME Shape, Shape', RowsInv, NEW b \in Batch, WriteReport(b)
  PROVE  RowsInv'
<1>1. /\ UNCHANGED <<at, scoring, fresh, runs, engine, trial>>
      /\ py[b] \notin {"none", "launch", "wait", "score"}
  BY DEF WriteReport, batchVars, groupVars, fileVars
<1>2. NameOf(b) \in Name /\ Own(b)
  BY <1>1, Names DEF PyAlive, RowsInv, OwnInv
<1>3. CsvInv'
  <2>1. csv' \in {csv, [csv EXCEPT ![NameOf(b)] = <<>>], [csv EXCEPT ![NameOf(b)] = rows[b]]}
    BY DEF WriteReport
  <2>2. Clean(<<>>) /\ (runs[NameOf(b)] \in {0, 1} => Clean(rows[b]))
    BY <1>2 DEF Clean, Own
  <2>3. \A n \in Name : csv'[n] = csv[n] \/ (n = NameOf(b) /\ csv'[n] \in {<<>>, rows[b]})
    BY <2>1 DEF Shape, RowsType
  <2>4. QED BY <1>1, <2>2, <2>3 DEF RowsInv, CsvInv
<1>4. \/ PyEnds(b)
      \/ \E p \in {"rows", "report", "json", "close"} : PyAt(b, p)
  BY DEF WriteReport
<1>5. \A c \in Batch :
        \/ py'[c] = "none"
        \/ py[c] = "none" /\ py'[c] = "none"
        \/ /\ py[c] # "none" /\ at'[c] = at[c] /\ member'[c] = member[c]
           /\ rows'[c] = rows[c] /\ watch'[c] = watch[c]
           /\ py'[c] = "launch" => py[c] = "launch"
           /\ py'[c] \in {"wait", "score"} => py[c] \in {"wait", "score"}
  <2>1. CASE PyEnds(b)
    BY <1>1, <2>1 DEF PyEnds, Shape, PlaceType, WaitType, RowsType
  <2>2. CASE \E p \in {"rows", "report", "json", "close"} : PyAt(b, p)
    BY <1>1, <2>2 DEF PyAt, Shape, PlaceType
  <2>3. QED BY <1>4, <2>1, <2>2
<1>6. QED BY <1>1, <1>3, <1>5, QuietRows

LEMMA RowsEngine ==
  ASSUME Shape, Shape', OneEvaluation, RowsInv, NEW s \in Slot, Engine(s)
  PROVE  RowsInv'
<1> DEFINE t == trial[s]
<1>1. /\ UNCHANGED <<at, py, member, rows, watch, csv, runs, trial>> /\ t \in Trial
  BY DEF Engine, batchVars, pyVars, outVars
<1>2. PICK n \in Name, k \in 1..Members : t = <<n, k>>
  BY <1>1 DEF Trial
<1>3. CsvInv'
  BY <1>1, CsvQuiet
<1>4. CASE UNCHANGED <<scoring, fresh>> /\ engine' = [engine EXCEPT ![s] = "marked"]
  <2>1. WritingInv'
    BY <1>1, <1>4 DEF RowsInv, WritingInv, Shape, TrialType
  <2>2. NewInv' /\ OwnInv'
    BY <1>1, <1>4 DEF RowsInv, NewInv, OwnInv, Own, Untouched, Ahead, NameOf, TrialOf, PyAlive
  <2>3. QED BY <1>3, <2>1, <2>2 DEF RowsInv
<1>5. ASSUME NEW w \in {"partial", "whole"}, NEW e,
             scoring' = [scoring EXCEPT ![t] = w], engine' = [engine EXCEPT ![s] = e],
             \A u \in Trial : u # t => (u \in fresh' <=> u \in fresh),
             \A b \in Batch : py[b] \in {"wait", "score"} /\ watch[b] = s /\ runs[NameOf(b)] = 1
                              /\ TrialOf(b) = t => t \in fresh'
      PROVE  RowsInv'
  <2>1. \A u \in Trial : scoring'[u] = IF u = t THEN w ELSE scoring[u]
    BY <1>5 DEF Shape, FileType
  <2>2. WritingInv'
    BY <1>1, <1>5, <2>1 DEF RowsInv, WritingInv, Shape, TrialType
  <2>3. ~Untouched(t) /\ \A u \in Trial : Untouched(u) => Untouched(u)'
    BY <1>1, <2>1 DEF Untouched
  <2>4. NewInv'
    BY <1>1, <2>3, NoTrialIsNone DEF RowsInv, NewInv
  <2>5. ASSUME NEW b \in Batch, PyAlive(b)'
        PROVE  Own(b)'
    <3>1. /\ NameOf(b)' = NameOf(b) /\ TrialOf(b)' = TrialOf(b) /\ PyAlive(b)
          /\ \A j \in 1..Members : Ahead(b, j)' <=> Ahead(b, j)
      BY <1>1, <2>5 DEF NameOf, TrialOf, Ahead, PyAlive
    <3>2. Own(b) /\ NameOf(b) \in Name /\ TrialOf(b) \in Trial
      BY <3>1, Names DEF RowsInv, OwnInv
    <3>3. ASSUME runs[NameOf(b)] = 1, py[b] \in {"wait", "score"}, scoring'[TrialOf(b)] # "none"
          PROVE  TrialOf(b) \in fresh'
      <4>1. CASE TrialOf(b) = t
        <5>1. s = watch[b]
          BY <3>2, <3>3, <4>1 DEF Own
        <5>2. QED BY <1>5, <3>3, <4>1, <5>1
      <4>2. CASE TrialOf(b) # t
        BY <1>5, <2>1, <3>2, <3>3, <4>2 DEF Own
      <4>3. QED BY <4>1, <4>2
    <3>4. \A j \in 1..Members : Untouched(<<NameOf(b), j>>) => Untouched(<<NameOf(b), j>>)'
      <4>1. \A j \in 1..Members : <<NameOf(b), j>> \in Trial
        BY <3>2, NoTrialIsNone
      <4>2. QED BY <2>3, <3>1, <4>1
    <3>5. QED BY <1>1, <3>1, <3>2, <3>3, <3>4 DEF Own
  <2>6. QED BY <1>3, <2>2, <2>4, <2>5 DEF RowsInv, OwnInv
<1>6. CASE /\ engine' = [engine EXCEPT ![s] = "writing"]
           /\ scoring' = [scoring EXCEPT ![t] = "partial"]
           /\ fresh' = IF Current(s) THEN fresh \cup {t} ELSE fresh \ {t}
  <2>1. \A b \in Batch : py[b] \in {"wait", "score"} /\ watch[b] = s => t \in fresh'
    BY <1>6 DEF Current
  <2>2. QED BY <1>5, <1>6, <2>1
<1>7. CASE /\ engine[s] = "writing" /\ engine' = [engine EXCEPT ![s] = "written"]
           /\ scoring' = [scoring EXCEPT ![t] = "whole"] /\ UNCHANGED fresh
  <2>1. scoring[t] # "none"
    BY <1>1, <1>7 DEF RowsInv, WritingInv
  <2>2. \A b \in Batch : py[b] \in {"wait", "score"} /\ runs[NameOf(b)] = 1 /\ TrialOf(b) = t
                         => t \in fresh'
    BY <1>7, <2>1 DEF RowsInv, OwnInv, Own, PyAlive
  <2>3. QED BY <1>5, <1>7, <2>2
<1>8. QED BY <1>4, <1>6, <1>7 DEF Engine, fileVars

LEMMA RowsInvStep == Shape /\ OneEvaluation /\ RowsInv /\ [Next]_vars => RowsInv'
<1> SUFFICES ASSUME Shape, OneEvaluation, RowsInv, [Next]_vars PROVE RowsInv'
  OBVIOUS
<1>1. Shape'
  BY ShapeStep
<1>2. QED
  BY <1>1, RowsQuietBatch, RowsQuietOther, RowsRun, RowsLaunch, RowsScore, RowsWrite, RowsEngine
     DEF Next, BatchStep, PyStep

LEMMA RowsInit == Init => RowsInv
<1> SUFFICES ASSUME Init PROVE RowsInv
  OBVIOUS
<1>1. \A n \in Name, k \in 1..Members : Untouched(<<n, k>>)
  BY NoTrialIsNone DEF Init, Untouched
<1>2. CsvInv /\ WritingInv /\ OwnInv
  BY DEF Init, CsvInv, Clean, WritingInv, OwnInv, PyAlive
<1>3. QED BY <1>1, <1>2 DEF RowsInv, NewInv

\* A score of another launch gets into results.csv only when the run was
\* started before and not reported, whatever was killed, whoever survived it
\* and wrote late.
THEOREM RowsBelong == Spec => []RowsAreOwn
<1>1. Shape /\ RowsInv => RowsAreOwn
  <2> SUFFICES ASSUME Shape, RowsInv, NEW n \in Name, NEW i \in DOMAIN csv[n], csv[n][i] = "other"
               PROVE  runs[n] > 1
    BY DEF RowsAreOwn
  <2>1. runs[n] \in Nat /\ runs[n] \notin {0, 1}
    BY DEF RowsInv, CsvInv, Clean, Shape, FileType
  <2>2. QED BY <2>1
<1>2. QED
  BY <1>1, RowsInit, RowsInvStep, ShapeHolds, EvaluationsExclude, PTL DEF Spec

=============================================================================
