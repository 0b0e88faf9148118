------------------------------ MODULE Collection ------------------------------
(***************************************************************************)
(* The resumable collection campaigns: collect_campaign.sh (oracle demos   *)
(* gated by score and insertion), collect_dagger.sh (rollouts of the       *)
(* deployed policy, relabelled) and collect_disassembly.sh (retracts,      *)
(* reversed in time).  Each runs the tasks of a manifest one by one:       *)
(* record a bag, convert it into the arrays of an episode directory, gate, *)
(* log a row, delete the bag.  A restarted campaign decides from the files *)
(* it finds which tasks are done.                                          *)
(*                                                                         *)
(* An array is known by the trial it was made from; a trial by the         *)
(* incarnation of the script that ran it and by its outcome.               *)
(***************************************************************************)
EXTENDS Integers, Sequences, FiniteSets, SequencesExt

CONSTANTS
  Modes,      \* scripts to try
  Tasks,      \* lines of the manifest
  Missing,    \* tasks whose config file does not exist
  MaxFaults   \* bound: kills of the script and failures of a converter

ASSUME CollectionAssumption ==
  /\ Modes \subseteq {"campaign", "dagger", "disasm"}
  /\ Tasks \in Nat \ {0} /\ Missing \subseteq 1..Tasks /\ MaxFaults \in Nat

VARIABLES
  mode,      \* the script
  pc, i,     \* place in its loop, task of the loop
  trial,     \* what the trial of this task came to
  written,   \* arrays the converter has saved
  rc,        \* exit status of the converter
  recorder,  \* ros2 bag record runs
  bags,      \* bags on disk, by incarnation and task
  ep,        \* arrays of the episode directories
  rows,      \* campaign log: incarnation, task, status
  faults     \* faults so far: also the incarnation

collectionVars == <<mode, pc, i, trial, written, rc, recorder, bags, ep, rows, faults>>

Outcome == [ins : BOOLEAN,     \* insertion events in the bag
            good : BOOLEAN,    \* score above THRESH
            frames : BOOLEAN,  \* synchronized frames, and transforms to the port
            by : 0..MaxFaults]
None    == [end |-> "none"]
Arrays  == {"poses", "vel", "joints", "port", "offsets", "seat_frame", "seat_time"}

(* The order in which save_episodes and save_seat_marker, reverse_episode   *)
(* and write_relabeled_episode save; neighbours that nothing tells apart    *)
(* are one: "joints" is the wrenches and the joints, "poses" the images,    *)
(* poses and the timestamps beside them.                                    *)
DemoOrder    == <<"vel", "poses", "joints", "seat_frame", "seat_time">>
ReverseOrder == <<"poses", "joints", "vel", "seat_frame", "seat_time">>
RelabelOrder == <<"poses", "joints", "port", "offsets", "seat_time">>
SaveOrder ==
  CASE mode = "campaign" -> DemoOrder
    [] mode = "disasm"   -> ReverseOrder
    [] mode = "dagger"   -> RelabelOrder

DoneMarkers_OneFile ==
  CASE mode = "campaign" -> {"vel", "joints"}
    [] mode = "disasm"   -> {"vel", "seat_frame"}
    [] mode = "dagger"   -> {"offsets"}

(* The files a restarted script takes for a finished episode. *)
DoneMarkers ==
  CASE mode = "campaign" -> {"vel", "joints"}
    [] mode = "disasm"   -> {"vel", "seat_frame"}
    [] mode = "dagger"   -> {"port", "poses"}

(* Each line of the manifest has an episode directory of its own. *)
MoreTasks == i <= Tasks
Empty     == [a \in Arrays |-> None]
Exists(a) == ep[i][a] # None
Bag       == <<faults, i>>
Log(s)    == rows' = rows \cup {<<faults, i, s>>}

CollectionInit ==
  /\ mode \in Modes
  /\ pc = "start" /\ i = 1 /\ trial = None /\ written = 0 /\ rc = 0
  /\ recorder = FALSE /\ bags = {} /\ ep = [t \in 1..Tasks |-> Empty]
  /\ rows = {} /\ faults = 0

-----------------------------------------------------------------------------
(* cleanup_sim before the first bring-up *)
Start ==
  /\ pc = "start"
  /\ pc' = "task" /\ recorder' = FALSE
  /\ UNCHANGED <<mode, i, trial, written, rc, bags, ep, rows, faults>>

NextTask == i' = i + 1 /\ pc' = "task" /\ trial' = None /\ written' = 0 /\ rc' = 0

SkipDone ==
  /\ pc = "task" /\ MoreTasks
  /\ \A a \in DoneMarkers : Exists(a)
  /\ Log("SKIP_EXISTS") /\ NextTask
  /\ UNCHANGED <<mode, recorder, bags, ep, faults>>

NoConfig_NoRow ==
  /\ pc = "task" /\ i \in Missing
  /\ \E a \in DoneMarkers : ~Exists(a)
  /\ NextTask
  /\ UNCHANGED <<mode, recorder, bags, ep, rows, faults>>

NoConfig ==
  /\ pc = "task" /\ i \in Missing
  /\ \E a \in DoneMarkers : ~Exists(a)
  /\ Log("FAIL_NOCFG") /\ NextTask
  /\ UNCHANGED <<mode, recorder, bags, ep, faults>>

(* The bring-up may fail before anything is recorded. *)
Record ==
  /\ pc = "task" /\ i \in 1..Tasks \ Missing
  /\ \E a \in DoneMarkers : ~Exists(a)
  /\ \/ recorder' = TRUE /\ bags' = bags \cup {Bag}
     \/ UNCHANGED <<recorder, bags>>
  /\ pc' = "trial"
  /\ UNCHANGED <<mode, i, trial, written, rc, ep, rows, faults>>

(* The trial's last act is to stop the recorder and to print where the bag  *)
(* is; under the timeout the name is lost, and either way the recorder may  *)
(* have survived.                                                           *)
TrialEnds ==
  /\ pc = "trial"
  /\ \/ trial' = [end |-> "timeout"]
     \/ Bag \notin bags /\ trial' = [end |-> "nobag"]
     \/ /\ Bag \in bags
        /\ \E o \in Outcome :
             /\ o.by = faults
             /\ mode # "campaign" => o.good   \* what nobody looks at is not told apart
             /\ mode = "dagger" => ~o.ins
             /\ trial' = [end |-> "bag", outcome |-> o]
  /\ recorder' \in {FALSE, recorder}
  /\ pc' = "stop"
  /\ UNCHANGED <<mode, i, written, rc, bags, ep, rows, faults>>

(* stop_stragglers, after every trial and before the conversion *)
StopStragglers ==
  /\ pc = "stop"
  /\ recorder' = FALSE /\ pc' = "judge"
  /\ UNCHANGED <<mode, i, trial, written, rc, bags, ep, rows, faults>>

JudgeFailed ==
  /\ pc = "judge" /\ trial.end # "bag"
  /\ Log(IF trial.end = "timeout" THEN "FAIL_TIMEOUT" ELSE "FAIL_NOBAG") /\ NextTask
  /\ UNCHANGED <<mode, recorder, bags, ep, faults>>

(* Only the demo campaign has a score to pass. *)
JudgeScore ==
  /\ pc = "judge" /\ trial.end = "bag" /\ mode = "campaign" /\ ~trial.outcome.good
  /\ Log("DROP_SCORE") /\ pc' = "clean"
  /\ UNCHANGED <<mode, i, trial, written, rc, recorder, bags, ep, faults>>

(* A disassembly is converted into a scratch directory, and rejected there  *)
(* when the touch latch fired; its episode is written by the reversal.      *)
JudgeLatched ==
  /\ pc = "judge" /\ trial.end = "bag" /\ mode = "disasm" /\ trial.outcome.ins
  /\ ep' = [ep EXCEPT ![i] = Empty]
  /\ bags' = bags \ {Bag}
  /\ Log("FAIL_LATCHED") /\ NextTask
  /\ UNCHANGED <<mode, recorder, faults>>

JudgeConvert ==
  /\ pc = "judge" /\ trial.end = "bag"
  /\ mode = "campaign" => trial.outcome.good
  /\ mode = "disasm" => ~trial.outcome.ins
  /\ pc' = "convert"
  /\ UNCHANGED <<mode, i, trial, written, rc, recorder, bags, ep, rows, faults>>

(* prepare_dataset saves nothing of a bag without frames and succeeds; the  *)
(* relabelling and the reversal fail on it.                                 *)
NoFrames ==
  /\ pc = "convert" /\ ~trial.outcome.frames
  /\ rc' = (IF mode = "campaign" THEN 0 ELSE 1) /\ pc' = "gate"
  /\ UNCHANGED <<mode, i, trial, written, recorder, bags, ep, rows, faults>>

SaveArray ==
  /\ pc = "convert" /\ trial.outcome.frames /\ written < Len(SaveOrder)
  /\ written' = written + 1
  /\ ep' = [ep EXCEPT ![i][SaveOrder[written + 1]] = trial.outcome]
  /\ UNCHANGED <<mode, pc, i, trial, rc, recorder, bags, rows, faults>>

SavedAll ==
  /\ pc = "convert" /\ trial.outcome.frames /\ written = Len(SaveOrder)
  /\ pc' = "gate"
  /\ UNCHANGED <<mode, i, trial, written, rc, recorder, bags, ep, rows, faults>>

Passes_NoStatus ==
  CASE mode = "campaign" -> Exists("vel") /\ trial.outcome.ins
    [] mode = "disasm"   -> Exists("vel") /\ Exists("seat_frame")
    [] mode = "dagger"   -> Exists("port")

(* The demo campaign does not look at the exit status. *)
Passes ==
  CASE mode = "campaign" -> Exists("vel") /\ trial.outcome.ins
    [] mode = "disasm"   -> rc = 0 /\ Exists("vel") /\ Exists("seat_frame")
    [] mode = "dagger"   -> rc = 0 /\ Exists("port")

Gate ==
  /\ pc = "gate" /\ pc' = "clean"
  /\ IF Passes THEN Log("KEEP") /\ UNCHANGED ep
     ELSE Log("DROP_CONVERT") /\ ep' = [ep EXCEPT ![i] = Empty]
  /\ UNCHANGED <<mode, i, trial, written, rc, recorder, bags, faults>>

Clean ==
  /\ pc = "clean"
  /\ bags' = bags \ {Bag} /\ NextTask
  /\ UNCHANGED <<mode, recorder, ep, rows, faults>>

Done ==
  /\ pc = "task" /\ ~MoreTasks
  /\ pc' = "done"
  /\ UNCHANGED <<mode, i, trial, written, rc, recorder, bags, ep, rows, faults>>

(* A converter that raises while saving, on a full disk for instance. *)
ConverterFails ==
  /\ pc = "convert" /\ faults < MaxFaults
  /\ faults' = faults + 1
  /\ rc' = 1 /\ pc' = "gate"
  /\ bags' = {IF b = Bag THEN <<faults + 1, i>> ELSE b : b \in bags}
  /\ UNCHANGED <<mode, i, trial, written, recorder, ep, rows>>

(* The script is killed, with its children, and started again. *)
KillAndRestart ==
  /\ pc # "done" /\ faults < MaxFaults
  /\ faults' = faults + 1
  /\ pc' = "start" /\ i' = 1 /\ trial' = None /\ written' = 0 /\ rc' = 0
  /\ UNCHANGED <<mode, recorder, bags, ep, rows>>

CampaignStep ==
  \/ Start \/ SkipDone \/ NoConfig \/ Record \/ TrialEnds \/ StopStragglers
  \/ JudgeFailed \/ JudgeScore \/ JudgeLatched \/ JudgeConvert
  \/ NoFrames \/ SaveArray \/ SavedAll \/ Gate \/ Clean \/ Done

CollectionNext == CampaignStep \/ ConverterFails \/ KillAndRestart

CollectionSpec == CollectionInit /\ [][CollectionNext]_collectionVars

-----------------------------------------------------------------------------
(* What training makes of it *)

(* parse_campaign_log and _effective_status: the last row that is no skip.  *)
EffectiveRows(t) ==
  LET real == {r \in rows : r[2] = t /\ r[3] # "SKIP_EXISTS"}
  IN  {r \in real : \A q \in real : q[1] <= r[1]}

EpisodeKept(t) == \E r \in EffectiveRows(t) : r[3] = "KEEP"

(* load_status_map: the reversed episodes are logged in disasm_log.csv, and *)
(* a directory without a campaign_log.csv is refused.                       *)
StatusMapLoads == mode # "disasm"

StoredPort(t) == ep[t]["port"] # None

(* build_episode_label: a stored port target is taken as it is, else the    *)
(* last pose of an episode that was kept.                                   *)
LabelValid(t) ==
  StatusMapLoads /\ ep[t]["poses"] # None /\ (StoredPort(t) \/ EpisodeKept(t))

-----------------------------------------------------------------------------
(* Properties *)

(* Every variable of the campaign has its type. *)
CollectionTypeOK ==
  /\ mode \in Modes
  /\ pc \in {"start", "task", "trial", "stop", "judge", "convert", "gate", "clean", "done"}
  /\ i \in 1..Tasks + 1 /\ faults \in 0..MaxFaults
  /\ written \in 0..Len(SaveOrder) /\ rc \in {0, 1} /\ recorder \in BOOLEAN
  /\ trial \in {None, [end |-> "timeout"], [end |-> "nobag"]}
                 \cup [end : {"bag"}, outcome : Outcome]
  /\ pc \in {"convert", "gate"} => trial.end = "bag"
  /\ bags \subseteq (0..MaxFaults) \X (1..Tasks)
  /\ ep \in [1..Tasks -> [Arrays -> Outcome \cup {None}]]
  /\ rows \subseteq (0..MaxFaults) \X (1..Tasks) \X STRING

(* A retract that tripped the touch latch never reaches the dataset as a    *)
(* reversed demo, at whatever point the campaign is killed and resumed.     *)
LatchedNeverReversed ==
  mode = "disasm" => \A t \in 1..Tasks, a \in Arrays : ep[t][a] # None => ~ep[t][a].ins

(* An episode logged KEEP is whole: all its arrays come from one trial,     *)
(* which passed the gates.  The relabelled and reversed episodes keep that  *)
(* through kills and failing converters; the demo campaign, which neither   *)
(* empties the directory nor looks at the exit status, only without them.   *)
KeptIsWhole ==
  \A r \in rows : r[3] = "KEEP" /\ (mode # "campaign" \/ faults = 0) =>
    \E o \in Outcome :
      /\ \A a \in ToSet(SaveOrder) : ep[r[2]][a] = o
      /\ o.frames /\ (mode = "campaign" => o.good /\ o.ins)

(* A valid label names where the port of that very trial was: relabelled    *)
(* poses and port are of one trial through kills and failures.  A demo's    *)
(* last pose is one of a trial that seated only as long as nothing failed:  *)
(* a killed conversion leaves poses that the next trial's events vouch for. *)
LabelsAreTrue ==
  \A t \in 1..Tasks : LabelValid(t) =>
    CASE mode = "dagger"   -> ep[t]["poses"] = ep[t]["port"] /\ ep[t]["port"].frames
      [] mode = "campaign" -> faults = 0 => ep[t]["poses"].ins

(* No bag is converted while a recorder may still be writing to it. *)
ConvertsClosedBag == pc \in {"convert", "gate"} => ~recorder

(* A campaign, killed and resumed or not, ends with a row for every task. *)
CampaignEnds ==
  pc = "task" ~> pc = "done" /\ \A t \in 1..Tasks : \E r \in rows : r[2] = t

=============================================================================
