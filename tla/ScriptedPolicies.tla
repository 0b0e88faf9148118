--------------------------- MODULE ScriptedPolicies ---------------------------
(***************************************************************************)
(* The policies that follow a script: the ground-truth oracle CheatCode,   *)
(* the two built on it (DisassembleCode, which drives in and retracts      *)
(* without seating, and CurriculumInsert, which stages above the port and  *)
(* hands over to an oracle or to a learned specialist), the velocity       *)
(* policy RunACT and the policies that exercise the scoring.               *)
(*                                                                         *)
(* A tip target is a height along the port axis, in descent steps of       *)
(* 0.5 mm with the mouth at 0, and a lateral offset in steps of the late   *)
(* correction.  Every target needs a TF lookup: when it fails the command  *)
(* is skipped and the script goes on.                                      *)
(***************************************************************************)
EXTENDS Integers, Sequences

CONSTANTS
  Policies,     \* policies to try
  Goals,        \* bound: goals executed one after the other
  StageZ,       \* stage_standoff, 0.2 m
  StageSteps,   \* _STAGE_STEPS
  SfpDepth, ScDepth, RetractDepth, LearnDepth,   \* of the floors below the mouth
  Standoff, Coarse, LatOffset, CorrectAt,        \* CURR_*, _DESCENT_STEP_M
  RowCounts, Span, Lifts, LatMax,                \* the retract schedule
  ChunkLen,     \* exec_steps of the specialist
  ScriptBudget, \* seconds a timed policy runs
  LegSteps      \* commands of one leg of a joint-space script

ASSUME ScriptedAssumption ==
  /\ Policies \subseteq {"CheatCode", "DisassembleCode", "Oracle", "Specialist",
                         "RunACT", "WaveArm", "Gentle", "Wall"}
  /\ {Goals, StageZ, StageSteps, Standoff, Coarse, ChunkLen, Span, LegSteps} \subseteq Nat \ {0}
  /\ {LatOffset, CorrectAt, LatMax, ScriptBudget} \subseteq Nat
  /\ RowCounts \subseteq Nat /\ \A n \in RowCounts : n >= 2
  /\ Lifts \subseteq 1..Span - 1
  /\ {SfpDepth, ScDepth, RetractDepth, LearnDepth} \subseteq Nat
  /\ ScDepth < RetractDepth /\ RetractDepth < SfpDepth /\ SfpDepth < LearnDepth
  /\ CorrectAt <= Standoff /\ Standoff <= StageZ

VARIABLES
  sp,      \* the policy the node was started with
  port,    \* port type of the task
  seed,    \* what DISASM_SEED makes of the schedule: a lift height, 0 for a spiral
  rows,    \* n_steps of the schedule, DISASM_AXIAL_SPAN_M over DISASM_AXIAL_STEP_M
  goal,    \* which goal is executed
  phase,   \* place in insert_cable
  row,     \* loop counter of the phase
  z, virt, \* z_offset; height of the specialist's virtual target
  tip,     \* the target commanded last
  sent,    \* row of the schedule commanded last, from 1; 0 before the first
  staged,  \* a lookup of the staging loop succeeded
  integ,   \* whose tip error the integrators hold: 0 none, else a goal
  fbase,   \* f_base, the wrench of the first observation
  sclock,  \* seconds a timed loop has run
  joints   \* joint-space target commanded last

placeVars    == <<phase, row, z, virt, fbase, sclock>>
scriptedVars == <<sp, port, seed, rows, goal, placeVars, tip, sent, staged, integ, joints>>

Larger(x, y) == IF x > y THEN x ELSE y

Forces == {"free", "contact"}

(* resolve_port_approach *)
Floor == IF port = "sc" THEN -ScDepth ELSE -SfpDepth
RetractStart == -RetractDepth
LearnFloor == -LearnDepth

(* The mode and the lift that sample_config draws; 0 is the spiral, and     *)
(* where nothing is drawn.                                                  *)
Schedules == Lifts \cup {0}

ScriptedInit ==
  /\ sp \in Policies /\ port \in {"sfp", "sc"}
  /\ seed \in Schedules /\ rows \in RowCounts /\ (sp # "DisassembleCode" => seed = 0)
  /\ goal = 1 /\ phase = "resolve" /\ row = 0
  /\ z = StageZ /\ virt = 0 /\ tip = [z |-> StageZ, lat |-> 0]
  /\ sent = 0 /\ staged = FALSE /\ integ = 0
  /\ fbase = "none" /\ sclock = 0 /\ joints = "home"

-----------------------------------------------------------------------------
(* Commands *)

NoteRow == sent' = IF phase = "retract" THEN row + 1 ELSE sent

Sent_NeverResets(h, l, resets) ==
  /\ tip' = [z |-> h, lat |-> l]
  /\ integ' = IF resets THEN integ ELSE goal
  /\ NoteRow

(* set_pose_target(calc_gripper_pose(...)): the integrators are reset or    *)
(* take up this goal's tip error before the pose goes out.                  *)
Sent(h, l, resets) ==
  /\ tip' = [z |-> h, lat |-> l]
  /\ integ' = IF resets THEN 0 ELSE goal
  /\ NoteRow
Silent == UNCHANGED <<tip, sent, integ>>
Command(h, l, resets) == Sent(h, l, resets) \/ Silent

At(p) == phase = p /\ UNCHANGED <<sp, port, seed, rows, goal, joints>>
Goto(p) == phase' = p /\ row' = 0
Ends(how) == phase' = how /\ UNCHANGED <<row, z, virt, fbase, sclock>>

-----------------------------------------------------------------------------
(* CheatCode and its subclasses *)

UsesPort == sp \in {"CheatCode", "DisassembleCode", "Oracle", "Specialist"}

(* _wait_for_tf on both frames, then the lookup of the port *)
Resolve ==
  /\ At("resolve") /\ UsesPort
  /\ \/ Goto("stage") /\ UNCHANGED <<z, virt, fbase, sclock>>
     \/ Ends("refused")
  /\ Silent /\ UNCHANGED staged

AfterStage == CASE sp = "CheatCode" -> "insert" [] sp = "DisassembleCode" -> "near"
                [] OTHER -> "hover"

Stage ==
  /\ At("stage")
  /\ \/ Sent(StageZ, 0, TRUE) /\ staged' = TRUE
     \/ Silent /\ UNCHANGED staged
  /\ IF row + 1 < StageSteps THEN row' = row + 1 /\ phase' = "stage" ELSE Goto(AfterStage)
  /\ z' = StageZ
  /\ UNCHANGED <<virt, fbase, sclock>>

InsertStep_TestsLate ==
  /\ At("insert") /\ UNCHANGED staged
  /\ IF z + 1 < Floor
     THEN Ends("done") /\ Silent
     ELSE z' = z - 1 /\ Command(z - 1, 0, FALSE) /\ UNCHANGED <<phase, row, virt, fbase, sclock>>

(* The loop tests the height before it goes down: one step past the floor. *)
InsertStep ==
  /\ At("insert") /\ UNCHANGED staged
  /\ IF z < Floor
     THEN Ends("done") /\ Silent
     ELSE z' = z - 1 /\ Command(z - 1, 0, FALSE) /\ UNCHANGED <<phase, row, virt, fbase, sclock>>

NearStep ==
  /\ At("near") /\ UNCHANGED staged
  /\ IF z > RetractStart
     THEN /\ z' = Larger(RetractStart, z - 1)
          /\ Command(Larger(RetractStart, z - 1), 0, FALSE)
          /\ UNCHANGED <<phase, row, virt, fbase, sclock>>
     ELSE Goto("retract") /\ Silent /\ UNCHANGED <<z, virt, fbase, sclock>>

(* i-th of n values from a to b, np.linspace *)
Linspace(a, b, n, i) == IF n = 1 THEN a ELSE a + ((b - a) * i) \div (n - 1)

Third == Larger(1, rows \div 3)
TransRows == IF rows - 2 * Third < 1 THEN rows - Third - 1 ELSE Third

(* A row of spiral_offsets is off axis by its radius. *)
SpiralOffset(i) == [z |-> Linspace(0, Span, rows, i), lat |-> Linspace(0, LatMax, rows, i)]

LiftOffset_Diagonal(i) == SpiralOffset(i)

LiftOffset(i) ==
  IF i < Third THEN [z |-> Linspace(0, seed, Third, i), lat |-> 0]
  ELSE IF i < Third + TransRows
       THEN [z |-> seed, lat |-> Linspace(0, LatMax, TransRows, i - Third)]
  ELSE [z |-> Linspace(seed, Span, rows - Third - TransRows, i - Third - TransRows),
        lat |-> LatMax]

(* build_schedule *)
Offset(i) == IF seed = 0 THEN SpiralOffset(i) ELSE LiftOffset(i)

RetractStep ==
  /\ At("retract") /\ UNCHANGED staged
  /\ IF row < rows
     THEN /\ Command(RetractStart + Offset(row).z, Offset(row).lat, TRUE)
          /\ row' = row + 1
          /\ UNCHANGED <<phase, z, virt, fbase, sclock>>
     ELSE Ends("done") /\ Silent

-----------------------------------------------------------------------------
(* CurriculumInsert *)

HoverStep ==
  LET h == Larger(Standoff, z - (IF port = "sc" THEN 1 ELSE Coarse)) IN
  /\ At("hover") /\ UNCHANGED staged
  /\ IF z > Standoff
     THEN /\ z' = h /\ Command(h, LatOffset, FALSE)
          /\ UNCHANGED <<phase, row, virt, fbase, sclock>>
     ELSE /\ CASE sp = "Specialist" -> Goto("learn")
               [] sp = "Oracle" /\ CorrectAt > 0 -> Goto("offset")
               [] OTHER -> Goto("centre")
          /\ virt' = Standoff /\ Silent /\ UNCHANGED <<z, fbase, sclock>>

OffsetStep ==
  /\ At("offset") /\ UNCHANGED staged
  /\ IF z > CorrectAt
     THEN /\ z' = z - 1 /\ Command(z - 1, LatOffset, FALSE)
          /\ UNCHANGED <<phase, row, virt, fbase, sclock>>
     ELSE Goto("correct") /\ Silent /\ UNCHANGED <<z, virt, fbase, sclock>>

CorrectStep ==
  /\ At("correct") /\ UNCHANGED staged
  /\ Command(z, LatOffset - row, FALSE)
  /\ IF row < LatOffset THEN row' = row + 1 /\ phase' = "correct" ELSE Goto("centre")
  /\ UNCHANGED <<z, virt, fbase, sclock>>

CentreStep ==
  /\ At("centre") /\ UNCHANGED staged
  /\ IF z > Floor
     THEN /\ z' = z - 1 /\ Command(z - 1, 0, FALSE)
          /\ UNCHANGED <<phase, row, virt, fbase, sclock>>
     ELSE Ends("done") /\ Silent

(* The budget is tested between chunks only; row is the step of the chunk.  *)
LearnWait ==
  /\ At("learn") /\ row = 0 /\ UNCHANGED staged /\ Silent
  /\ IF sclock < ScriptBudget
     THEN sclock' = sclock + 1 /\ UNCHANGED <<phase, row, z, virt, fbase>>
     ELSE Ends("done")

(* One step of a chunk that moves the virtual target by v, then the wrench  *)
(* gate against the baseline of the first observation of the goal.          *)
LearnStep(v, f) ==
  LET base == IF fbase = "none" THEN f ELSE fbase
      h == Larger(virt + v, LearnFloor) IN
  /\ At("learn") /\ UNCHANGED staged
  /\ row = 0 => sclock < ScriptBudget
  /\ Command(h, LatOffset, FALSE)
  /\ virt' = h /\ fbase' = base
  /\ \E k \in IF f # base THEN {0, row + 1} ELSE {row + 1} :
       row' = IF k < ChunkLen THEN k ELSE 0
  /\ sclock' = IF row = 0 THEN sclock + 1 ELSE sclock
  /\ UNCHANGED <<phase, z>>

-----------------------------------------------------------------------------
(* The other policies *)

(* RunACT commands a twist per cycle on the wall clock, WaveArm a pose per  *)
(* cycle on the node's clock; both skip a cycle without an observation.     *)
TimedLoop ==
  /\ At("resolve") /\ UNCHANGED staged /\ Silent
  /\ IF sclock < ScriptBudget
     THEN sclock' = sclock + 1 /\ UNCHANGED <<phase, row, z, virt, fbase>>
     ELSE Ends("done")

RunACT  == sp = "RunACT" /\ TimedLoop
WaveArm == sp = "WaveArm" /\ TimedLoop

(* Three cycles of two legs and a way home: GentleGiant and SpeedDemon go   *)
(* to a target and home, WallToucher and WallPresser retract and push.      *)
GentleLeg(n) == IF n < 6 /\ n % 2 = 0 THEN "target" ELSE "home"
WallLeg(n) == IF n >= 6 THEN "home" ELSE IF n % 2 = 0 THEN "retracted" ELSE "extended"

JointScript ==
  /\ phase = "resolve" /\ sp \in {"Gentle", "Wall"}
  /\ IF row < 7 * LegSteps
     THEN /\ joints' = (IF sp = "Gentle" THEN GentleLeg(row \div LegSteps)
                       ELSE WallLeg(row \div LegSteps))
          /\ row' = row + 1
          /\ UNCHANGED <<phase, z, virt, fbase, sclock>>
     ELSE Ends("done") /\ UNCHANGED joints
  /\ UNCHANGED <<sp, port, seed, rows, goal, staged>> /\ Silent

-----------------------------------------------------------------------------
Returned == phase \in {"done", "refused"}

(* The next goal runs in the same object: integrators and schedule seed     *)
(* are the ones the node was started with.                                  *)
NextGoal ==
  /\ Returned /\ goal < Goals
  /\ goal' = goal + 1 /\ port' \in {"sfp", "sc"}
  /\ phase' = "resolve" /\ row' = 0 /\ z' = StageZ /\ virt' = 0
  /\ sent' = 0 /\ staged' = FALSE /\ fbase' = "none" /\ sclock' = 0
  /\ UNCHANGED <<sp, seed, rows, tip, integ, joints>>

ScriptedStep ==
  \/ Resolve \/ Stage \/ InsertStep \/ NearStep \/ RetractStep
  \/ HoverStep \/ OffsetStep \/ CorrectStep \/ CentreStep
  \/ LearnWait \/ \E v \in -1..1, f \in Forces : LearnStep(v, f)
  \/ RunACT \/ WaveArm \/ JointScript

ScriptedNext == ScriptedStep \/ NextGoal

ScriptedSpec == ScriptedInit /\ [][ScriptedNext]_scriptedVars

-----------------------------------------------------------------------------
(* Properties *)

(* Every variable of the scripted policies has its type. *)
ScriptedTypeOK ==
  /\ sp \in Policies /\ port \in {"sfp", "sc"}
  /\ seed \in Schedules /\ rows \in RowCounts
  /\ goal \in 1..Goals
  /\ phase \in {"resolve", "stage", "insert", "near", "retract", "hover", "offset",
                "correct", "centre", "learn", "done", "refused"}
  /\ row \in Nat /\ z \in Int /\ virt \in Int /\ tip \in [z : Int, lat : Int]
  /\ sent \in Nat /\ staged \in BOOLEAN /\ integ \in 0..Goals
  /\ fbase \in Forces \cup {"none"} /\ sclock \in Nat
  /\ joints \in {"home", "target", "retracted", "extended"}

Deepest == CASE sp = "CheatCode" -> Floor - 1 [] sp = "Oracle" -> Floor
             [] sp = "DisassembleCode" -> RetractStart [] OTHER -> LearnFloor

(* Whatever lookups fail and in whichever order: CheatCode drives at most   *)
(* one step past the floor of its port, the curriculum oracle not past it,  *)
(* the disassembly not past its retract start, and the specialist never     *)
(* leaves the hard floor.                                                   *)
DepthBounded == [][tip' # tip => tip'.z >= Deepest]_scriptedVars

(* Where a target may be off the axis: the curriculum oracle's until it has *)
(* corrected; that of a lift-translate retract at the lift or above; that   *)
(* of a spiral by its share of the radius at that height, to a step of the  *)
(* height; that of a specialist, which steers itself; no other.             *)
OffAxisAllowed(t) ==
  CASE sp = "Oracle" -> t.z >= IF CorrectAt > 0 THEN CorrectAt ELSE Standoff
    [] sp = "DisassembleCode" ->
         IF seed # 0 THEN t.z >= RetractStart + seed
         ELSE t.lat * Span <= LatMax * (t.z - RetractStart + 1)
    [] OTHER -> sp = "Specialist"

(* Whichever lookups fail, and however few rows the schedule has: nothing   *)
(* is commanded off the axis where it is not allowed, and once a retract    *)
(* has begun no command goes back in or back towards the axis.              *)
LateralInBounds ==
  [][tip' # tip =>
       /\ tip'.lat # 0 => OffAxisAllowed(tip')
       /\ phase = "retract" /\ sent # 0 => tip'.z >= tip.z /\ tip'.lat >= tip.lat]_scriptedVars

(* The descent never starts from the tip error of an earlier goal, unless   *)
(* every lookup of the staging loop failed.                                 *)
IntegratorFresh ==
  phase \in {"insert", "near", "hover"} /\ staged => integ \in {0, goal}

=============================================================================
