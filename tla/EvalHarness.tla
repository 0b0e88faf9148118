----------------------------- MODULE EvalHarness -----------------------------
(***************************************************************************)
(* The evaluation harness: eval_batch.sh and its lock, eval_suite.py run   *)
(* (cmd_run, run_suite, write_report), SimRunner.run_trial with the        *)
(* bringup script it writes, and the processes these leave behind.         *)
(*                                                                         *)
(* A batch shell starts one eval_suite.py after the other.  Each launches  *)
(* one process group per trial: the script (leader), what the script       *)
(* starts itself (children: zenohd, ros2 launch, the policy) and what ros2 *)
(* launch starts (nodes: Gazebo, the engine, the adapter).  Any process    *)
(* can be killed.  Files outlive processes.                                *)
(*                                                                         *)
(* Time passes in ticks of thirty seconds while a trial is waited for; every  *)
(* duration of the code is a constant, rounded up to ticks.                *)
(***************************************************************************)
EXTENDS Integers, Sequences, FiniteSets

CONSTANTS
  Starts,        \* bound: starts of eval_batch.sh
  Queue,         \* the names of QUEUE, in order
  Members,       \* members of the suite
  Slots,         \* bound: process groups alive at once
  MaxFaults,     \* bound: kills, interrupts, wedged scripts and reboots
  ZENOH,         \* the script: sleep zenoh_startup_s
  READY,         \* the script: 45 polls of 2 s for a ready marker
  POLL,          \* timeout_s: the script's completion poll
  SCORING_WAIT,  \* SCORING_WAIT_S
  LINGER,        \* the script: the final sleep 4
  MARGIN         \* HARD_TIMEOUT_MARGIN_S

ASSUME HarnessAssumption ==
  /\ Queue \in Seq(STRING)
  /\ \A i, j \in DOMAIN Queue : Queue[i] = Queue[j] => i = j
  /\ Starts \in Nat /\ Members \in Nat \ {0} /\ Slots \in Nat /\ MaxFaults \in Nat
  /\ {ZENOH, READY, POLL, SCORING_WAIT, LINGER, MARGIN} \subseteq Nat \ {0}

(* 8 s and 90 s against 120 s: the margin covers the script's start-up. *)
ASSUME MarginAssumption == ZENOH + READY <= MARGIN

VARIABLES
  batch,     \* where each batch shell is
  at,        \* the queue entry it is at
  py,        \* where its eval_suite.py is, "none" without one
  member,    \* the suite member run_suite is at
  watch,     \* the process group run_trial waits for
  hard,      \* ticks left of run_trial's own timeout
  rows,      \* the results list of run_suite
  leader, children, nodes,  \* groups with such processes alive
  phase,     \* where each group's script is
  left,      \* ticks left of its loop or sleep
  engine,    \* what the group's engine has logged and written
  trial,     \* the run and member the group was launched for
  scoring,   \* scoring.yaml of each trial
  fresh,     \* the trials whose file their latest launch wrote
  csv, report, summary,     \* results.csv, report.md, summary.json
  runs,      \* how often eval_suite.py was started for each name
  faults, killed            \* how many faults there were, who was killed

batchVars == <<batch, at>>
pyVars    == <<py, member, watch, hard, rows>>
procVars  == <<leader, children, nodes>>
groupVars == <<phase, left, engine, trial>>
fileVars  == <<scoring, fresh>>
outVars   == <<csv, report, summary>>
faultVars == <<faults, killed>>
vars == <<batchVars, pyVars, procVars, groupVars, fileVars, outVars, runs, faultVars>>

Batch == 1..Starts         \* numbered in the order they are started
Name  == {Queue[i] : i \in DOMAIN Queue}
Slot  == 1..Slots
Trial == Name \X (1..Members)
NoTrial == <<"", 0>>
Row   == {"own", "other", "miss"}   \* scored by its own run, by another, zero

PySt  == {"none", "launch", "wait", "score", "csv", "rows", "report", "json", "close"}
Phase == {"off", "zenoh", "ready", "poll", "wait", "linger", "cleanup", "stuck"}

NameOf(b)  == Queue[at[b]]
TrialOf_FirstRun(b) == <<Queue[1], member[b]>>
TrialOf(b) == <<NameOf(b), member[b]>>
HardLimit_NoMargin == POLL
HardLimit == POLL + MARGIN
Reported_Whole(n) == summary[n] = "whole"
Reported(n) == summary[n] # "none"
BatchAlive(b) == batch[b] \in {"loop", "child"}
PyAlive(b)    == py[b] # "none"
Watched(s)    == \E b \in Batch : py[b] = "wait" /\ watch[b] = s
Current(s)    == \E b \in Batch : py[b] \in {"wait", "score"} /\ watch[b] = s

(* exec 9> gives the lock's descriptor to the shell and to its child. *)
LockHeld == \E b \in Batch : BatchAlive(b) \/ PyAlive(b)

Free(s) == s \notin leader \cup children \cup nodes /\ ~Current(s)

Init ==
  /\ batch = [b \in Batch |-> "idle"] /\ at = [b \in Batch |-> 1]
  /\ py = [b \in Batch |-> "none"] /\ member = [b \in Batch |-> 1]
  /\ watch = [b \in Batch |-> 0] /\ hard = [b \in Batch |-> 0]
  /\ rows = [b \in Batch |-> <<>>]
  /\ leader = {} /\ children = {} /\ nodes = {}
  /\ phase = [s \in Slot |-> "off"] /\ left = [s \in Slot |-> 0]
  /\ engine = [s \in Slot |-> "running"] /\ trial = [s \in Slot |-> NoTrial]
  /\ scoring = [t \in Trial |-> "none"] /\ fresh = {}
  /\ csv = [n \in Name |-> <<>>] /\ report = {} /\ summary = [n \in Name |-> "none"]
  /\ runs = [n \in Name |-> 0]
  /\ faults = 0 /\ killed = {}

-----------------------------------------------------------------------------
(* eval_batch.sh *)

(* flock, then the sweep: of the listed processes it kills those whose     *)
(* parent is init when ps runs, so a launch whose script died, and the     *)
(* nodes whose launch died.                                                *)
Start(b) ==
  /\ batch[b] = "idle" /\ ~LockHeld
  /\ \A c \in Batch : c < b => batch[c] # "idle"
  /\ batch' = [batch EXCEPT ![b] = "loop"]
  /\ children' = children \cap leader
  /\ nodes' = nodes \cap children
  /\ UNCHANGED <<at, pyVars, leader, groupVars, fileVars, outVars, runs, faultVars>>

Skip(b) ==
  /\ batch[b] = "loop" /\ at[b] <= Len(Queue)
  /\ Reported(NameOf(b))
  /\ at' = [at EXCEPT ![b] = @ + 1]
  /\ UNCHANGED <<batch, pyVars, procVars, groupVars, fileVars, outVars, runs, faultVars>>

Run(b) ==
  /\ batch[b] = "loop" /\ at[b] <= Len(Queue)
  /\ ~Reported(NameOf(b))
  /\ batch' = [batch EXCEPT ![b] = "child"]
  /\ py' = [py EXCEPT ![b] = "launch"]
  /\ member' = [member EXCEPT ![b] = 1]
  /\ rows' = [rows EXCEPT ![b] = <<>>]
  /\ runs' = [runs EXCEPT ![NameOf(b)] = @ + 1]
  /\ UNCHANGED <<at, watch, hard, procVars, groupVars, fileVars, outVars, faultVars>>

ChildExits(b) ==
  /\ batch[b] = "child" /\ ~PyAlive(b)
  /\ batch' = [batch EXCEPT ![b] = "loop"]
  /\ at' = [at EXCEPT ![b] = @ + 1]
  /\ UNCHANGED <<pyVars, procVars, groupVars, fileVars, outVars, runs, faultVars>>

Done(b) ==
  /\ batch[b] = "loop" /\ at[b] > Len(Queue)
  /\ batch' = [batch EXCEPT ![b] = "done"]
  /\ UNCHANGED <<at, pyVars, procVars, groupVars, fileVars, outVars, runs, faultVars>>

BatchStep(b) == Start(b) \/ Skip(b) \/ Run(b) \/ ChildExits(b) \/ Done(b)

-----------------------------------------------------------------------------
(* SimRunner.run_trial and score_member *)

(* Popen(..., start_new_session=True) *)
Launch(b) ==
  \E s \in Slot :
    /\ py[b] = "launch"
    /\ Free(s) /\ \A r \in 1..(s - 1) : ~Free(r)
    /\ leader' = leader \cup {s}
    /\ children' = children \cup {s}
    /\ phase' = [phase EXCEPT ![s] = "zenoh"]
    /\ left' = [left EXCEPT ![s] = ZENOH]
    /\ engine' = [engine EXCEPT ![s] = "running"]
    /\ trial' = [trial EXCEPT ![s] = TrialOf(b)]
    /\ fresh' = fresh \ {TrialOf(b)}
    /\ py' = [py EXCEPT ![b] = "wait"]
    /\ watch' = [watch EXCEPT ![b] = s]
    /\ hard' = [hard EXCEPT ![b] = HardLimit]
    /\ UNCHANGED <<batchVars, member, rows, nodes, scoring, outVars, runs, faultVars>>

KillGroup_NotNodes(s) ==
  /\ leader' = leader \ {s} /\ children' = children \ {s} /\ UNCHANGED nodes
  /\ phase' = [phase EXCEPT ![s] = "off"]
  /\ left' = [left EXCEPT ![s] = 0]
  /\ engine' = [engine EXCEPT ![s] = "running"]
  /\ trial' = [trial EXCEPT ![s] = NoTrial]

KillGroup(s) ==
  /\ leader' = leader \ {s} /\ children' = children \ {s} /\ nodes' = nodes \ {s}
  /\ phase' = [phase EXCEPT ![s] = "off"]
  /\ left' = [left EXCEPT ![s] = 0]
  /\ engine' = [engine EXCEPT ![s] = "running"]
  /\ trial' = [trial EXCEPT ![s] = NoTrial]

(* A process that ended has no variables. *)
PyEnds(b) ==
  /\ py' = [py EXCEPT ![b] = "none"]
  /\ member' = [member EXCEPT ![b] = 1]
  /\ watch' = [watch EXCEPT ![b] = 0]
  /\ hard' = [hard EXCEPT ![b] = 0]
  /\ rows' = [rows EXCEPT ![b] = <<>>]

(* proc.wait returns and reaps the script, so the _reap that follows finds *)
(* no process of that pid: it kills nothing, whoever is left in the group. *)
WaitReturns(b) ==
  /\ py[b] = "wait" /\ watch[b] \notin leader
  /\ py' = [py EXCEPT ![b] = "score"]
  /\ hard' = [hard EXCEPT ![b] = 0]
  /\ UNCHANGED <<batchVars, member, watch, rows, procVars, groupVars, fileVars,
                 outVars, runs, faultVars>>

HardTimeout_Unset(b) == FALSE      \* proc.wait() without a timeout

(* TimeoutExpired: _reap kills the whole group while its leader lives. *)
HardTimeout(b) ==
  /\ py[b] = "wait" /\ watch[b] \in leader /\ hard[b] = 0
  /\ KillGroup(watch[b])
  /\ py' = [py EXCEPT ![b] = "score"]
  /\ UNCHANGED <<batchVars, member, watch, hard, rows, fileVars, outVars, runs, faultVars>>

Scored_DropsMiss(b, row) ==
  /\ rows' = [rows EXCEPT ![b] = IF row = "miss" THEN @ ELSE Append(@, row)]
  /\ IF member[b] < Members
     THEN /\ member' = [member EXCEPT ![b] = @ + 1]
          /\ py' = [py EXCEPT ![b] = "launch"]
     ELSE /\ py' = [py EXCEPT ![b] = "csv"]
          /\ UNCHANGED member
  /\ watch' = [watch EXCEPT ![b] = 0]
  /\ UNCHANGED hard

Scored(b, row) ==
  /\ rows' = [rows EXCEPT ![b] = Append(@, row)]
  /\ IF member[b] < Members
     THEN /\ member' = [member EXCEPT ![b] = @ + 1]
          /\ py' = [py EXCEPT ![b] = "launch"]
     ELSE /\ py' = [py EXCEPT ![b] = "csv"]
          /\ UNCHANGED member
  /\ watch' = [watch EXCEPT ![b] = 0]
  /\ UNCHANGED hard

(* A truncated file either lacks its trial, a ValueError that makes a zero *)
(* row, or is no YAML, which score_member does not catch.                  *)
ScoreMember(b) ==
  /\ py[b] = "score"
  /\ \/ /\ scoring[TrialOf(b)] = "whole"
        /\ Scored(b, IF TrialOf(b) \in fresh THEN "own" ELSE "other")
     \/ /\ scoring[TrialOf(b)] \in {"none", "partial"}
        /\ Scored(b, "miss")
     \/ /\ scoring[TrialOf(b)] = "partial"
        /\ PyEnds(b)
  /\ UNCHANGED <<batchVars, procVars, groupVars, fileVars, outVars, runs,
                 faultVars>>

(* write_report: results.csv, report.md, then summary.json, each opened    *)
(* (truncated) and then filled.                                            *)
PyAt(b, p) ==
  /\ py' = [py EXCEPT ![b] = p]
  /\ UNCHANGED <<member, watch, hard, rows>>

WriteReport(b) ==
  /\ \/ /\ py[b] = "csv"
        /\ csv' = [csv EXCEPT ![NameOf(b)] = <<>>]
        /\ PyAt(b, "rows")
        /\ UNCHANGED <<report, summary>>
     \/ /\ py[b] = "rows"
        /\ csv' = [csv EXCEPT ![NameOf(b)] = rows[b]]
        /\ PyAt(b, "report")
        /\ UNCHANGED <<report, summary>>
     \/ /\ py[b] = "report"
        /\ report' = report \cup {NameOf(b)}
        /\ PyAt(b, "json")
        /\ UNCHANGED <<csv, summary>>
     \/ /\ py[b] = "json"
        /\ summary' = [summary EXCEPT ![NameOf(b)] = "partial"]
        /\ PyAt(b, "close")
        /\ UNCHANGED <<csv, report>>
     \/ /\ py[b] = "close"
        /\ summary' = [summary EXCEPT ![NameOf(b)] = "whole"]
        /\ PyEnds(b)
        /\ UNCHANGED <<csv, report>>
  /\ UNCHANGED <<batchVars, procVars, groupVars, fileVars, runs,
                 faultVars>>

PyStep(b) == Launch(b) \/ WaitReturns(b) \/ HardTimeout(b) \/ ScoreMember(b) \/ WriteReport(b)

-----------------------------------------------------------------------------
(* The bringup script of each group *)

HasFile(s) == scoring[trial[s]] # "none"

(* A loop whose condition holds, or whose time is up, ends before the next tick. *)
Due(s) ==
  /\ phase[s] # "stuck"
  /\ \/ left[s] = 0
     \/ phase[s] = "poll" /\ (HasFile(s) \/ engine[s] # "running")
     \/ phase[s] = "wait" /\ HasFile(s)

(* Nobody's timeout runs against an abandoned group: its waits take any time. *)
Enter(s, p, ticks) ==
  /\ phase' = [phase EXCEPT ![s] = p]
  /\ left' = [left EXCEPT ![s] = IF Watched(s) THEN ticks ELSE 0]

Script(s) ==
  /\ s \in leader
  /\ \/ /\ phase[s] = "zenoh" /\ Due(s)            \* ros2 launch starts
        /\ Enter(s, "ready", READY)
        /\ nodes' = nodes \cup {s}
        /\ UNCHANGED <<leader, children>>
     \/ /\ phase[s] = "ready"                      \* marker seen, or given up on
        /\ Enter(s, "poll", POLL)
        /\ UNCHANGED procVars
     \/ /\ phase[s] = "poll" /\ Due(s)
        /\ Enter(s, "wait", SCORING_WAIT)
        /\ UNCHANGED procVars
     \/ /\ phase[s] = "wait" /\ Due(s)
        /\ Enter(s, "linger", LINGER)
        /\ UNCHANGED procVars
     \/ /\ phase[s] = "linger" /\ Due(s)           \* EXIT trap: recorded pids first
        /\ Enter(s, "cleanup", 0)
        /\ children' = children \ {s}
        /\ UNCHANGED <<leader, nodes>>
  /\ UNCHANGED <<batchVars, pyVars, engine, trial, fileVars, outVars, runs, faultVars>>

(* kill -9 -- -$$ *)
CleanupGroup(s) ==
  /\ s \in leader /\ phase[s] = "cleanup"
  /\ KillGroup(s)
  /\ UNCHANGED <<batchVars, pyVars, fileVars, outVars, runs, faultVars>>

Tick(b) ==
  LET s == watch[b] IN
  /\ py[b] = "wait" /\ s \in leader
  /\ hard[b] > 0 /\ ~Due(s)
  /\ hard' = [hard EXCEPT ![b] = @ - 1]
  /\ left' = [left EXCEPT ![s] = IF @ > 0 THEN @ - 1 ELSE 0]
  /\ UNCHANGED <<batchVars, py, member, watch, rows, procVars, phase, engine, trial,
                 fileVars, outVars, runs, faultVars>>

(* The engine prints a completion marker, and later opens and fills        *)
(* scoring.yaml, unless it is killed in between.                           *)
Engine(s) ==
  /\ s \in nodes /\ trial[s] \in Trial
  /\ \/ /\ engine[s] = "running" /\ phase[s] \notin {"zenoh", "ready"}
        /\ engine' = [engine EXCEPT ![s] = "marked"]
        /\ UNCHANGED fileVars
     \/ /\ engine[s] = "marked"
        /\ engine' = [engine EXCEPT ![s] = "writing"]
        /\ scoring' = [scoring EXCEPT ![trial[s]] = "partial"]
        /\ fresh' = IF Current(s) THEN fresh \cup {trial[s]} ELSE fresh \ {trial[s]}
     \/ /\ engine[s] = "writing"
        /\ engine' = [engine EXCEPT ![s] = "written"]
        /\ scoring' = [scoring EXCEPT ![trial[s]] = "whole"]
        /\ UNCHANGED fresh
  /\ UNCHANGED <<batchVars, pyVars, procVars, phase, left, trial, outVars, runs, faultVars>>

-----------------------------------------------------------------------------
(* Faults *)

Fault(who) ==
  /\ faults < MaxFaults
  /\ faults' = faults + 1
  /\ killed' = killed \cup who

KillBatch(b) ==
  /\ BatchAlive(b)
  /\ Fault({"batch"})
  /\ batch' = [batch EXCEPT ![b] = "dead"]
  /\ UNCHANGED <<at, pyVars, procVars, groupVars, fileVars, outVars, runs>>

KillPy(b) ==
  /\ PyAlive(b)
  /\ Fault({"python"})
  /\ PyEnds(b)
  /\ left' = [s \in Slot |-> IF py[b] = "wait" /\ watch[b] = s THEN 0 ELSE left[s]]
  /\ UNCHANGED <<batchVars, procVars, phase, engine, trial, fileVars, outVars, runs>>

(* KeyboardInterrupt in proc.wait: the group is reaped, the exception goes on. *)
Interrupt(b) ==
  /\ py[b] = "wait" /\ watch[b] \in leader
  /\ Fault({})
  /\ KillGroup(watch[b])
  /\ PyEnds(b)
  /\ UNCHANGED <<batchVars, fileVars, outVars, runs>>

KillScript(s) ==
  /\ s \in leader
  /\ Fault({"script"})
  /\ leader' = leader \ {s}
  /\ phase' = [phase EXCEPT ![s] = "off"]
  /\ left' = [left EXCEPT ![s] = 0]
  /\ UNCHANGED <<batchVars, pyVars, children, nodes, engine, trial, fileVars, outVars, runs>>

ScriptWedges(s) ==
  /\ s \in leader /\ phase[s] # "stuck"
  /\ Fault({})
  /\ phase' = [phase EXCEPT ![s] = "stuck"]
  /\ left' = [left EXCEPT ![s] = 0]
  /\ UNCHANGED <<batchVars, pyVars, procVars, engine, trial, fileVars, outVars, runs>>

Reboot ==
  /\ Fault({})
  /\ batch' = [b \in Batch |-> IF BatchAlive(b) THEN "dead" ELSE batch[b]]
  /\ py' = [b \in Batch |-> "none"] /\ member' = [b \in Batch |-> 1]
  /\ watch' = [b \in Batch |-> 0] /\ hard' = [b \in Batch |-> 0]
  /\ rows' = [b \in Batch |-> <<>>]
  /\ leader' = {} /\ children' = {} /\ nodes' = {}
  /\ phase' = [s \in Slot |-> "off"] /\ left' = [s \in Slot |-> 0]
  /\ engine' = [s \in Slot |-> "running"] /\ trial' = [s \in Slot |-> NoTrial]
  /\ UNCHANGED <<at, fileVars, outVars, runs>>

Next ==
  \/ \E b \in Batch : BatchStep(b) \/ PyStep(b) \/ Tick(b)
  \/ \E s \in Slot : Script(s) \/ CleanupGroup(s) \/ Engine(s)
  \/ \E b \in Batch : KillBatch(b) \/ KillPy(b) \/ Interrupt(b)
  \/ \E s \in Slot : KillScript(s) \/ ScriptWedges(s)
  \/ Reboot

Spec == Init /\ [][Next]_vars

(* Processes that are alive run; nobody promises that an engine finishes,  *)
(* that a second batch is started or that anything is killed.              *)
Fairness ==
  /\ \A b \in Batch : /\ WF_vars(Skip(b) \/ Run(b) \/ ChildExits(b) \/ Done(b))
                      /\ WF_vars(PyStep(b))
                      /\ WF_vars(Tick(b))
  /\ \A s \in Slot : WF_vars(Script(s) \/ CleanupGroup(s))

FairSpec == Spec /\ Fairness

-----------------------------------------------------------------------------
(* Properties *)

(* Every variable has its type. *)
TypeOK ==
  /\ batch \in [Batch -> {"idle", "loop", "child", "done", "dead"}]
  /\ at \in [Batch -> 1..(Len(Queue) + 1)]
  /\ py \in [Batch -> PySt]
  /\ member \in [Batch -> 1..Members]
  /\ watch \in [Batch -> 0..Slots]
  /\ hard \in [Batch -> 0..(POLL + MARGIN)]
  /\ rows \in [Batch -> Seq(Row)]
  /\ leader \subseteq Slot /\ children \subseteq Slot /\ nodes \subseteq Slot
  /\ phase \in [Slot -> Phase]
  /\ left \in [Slot -> Nat]
  /\ engine \in [Slot -> {"running", "marked", "writing", "written"}]
  /\ trial \in [Slot -> Trial \cup {NoTrial}]
  /\ scoring \in [Trial -> {"none", "partial", "whole"}]
  /\ fresh \subseteq Trial
  /\ csv \in [Name -> Seq(Row)] /\ report \subseteq Name
  /\ summary \in [Name -> {"none", "partial", "whole"}]
  /\ runs \in [Name -> Nat]
  /\ faults \in 0..MaxFaults /\ killed \subseteq {"batch", "python", "script"}

(* runner.py calls the harness sequential-only: one simulator at a time.   *)
(* It is, however batches are started, killed, interrupted and restarted,  *)
(* unless a run's eval_suite.py or a bringup script was killed: only then  *)
(* does a group outlive the trial it was launched for.                     *)
OneSimulator ==
  Cardinality(nodes) > 1 => killed \cap {"python", "script"} # {}

(* The lock lives as long as any process of the batch: two eval_suite.py   *)
(* never run at once, although the shell that took the lock may be dead.   *)
OneEvaluation ==
  \A b, c \in Batch : (BatchAlive(b) \/ PyAlive(b)) /\ (BatchAlive(c) \/ PyAlive(c)) => b = c

(* run_trial's own timeout never cuts the completion poll short: when it   *)
(* fires, the script has given the engine all of timeout_s, whatever the   *)
(* start-up took.                                                          *)
TimeoutAfterPoll ==
  [][\A b \in Batch : HardTimeout(b) =>
       /\ phase[watch[b]] \notin {"zenoh", "ready"}
       /\ phase[watch[b]] = "poll" => left[watch[b]] = 0]_vars

(* A row of results.csv was scored by the trial that was run for it, or    *)
(* is a zero row; a score of another launch can only appear when the run   *)
(* was started before and not reported.                                    *)
RowsAreOwn ==
  \A n \in Name : \A i \in DOMAIN csv[n] : csv[n][i] = "other" => runs[n] > 1

(* A batch skips a run once summary.json exists, even cut short by a kill: *)
(* by then results.csv has a row per member and report.md is there.        *)
SkippedIsReported ==
  \A n \in Name : summary[n] # "none" => Len(csv[n]) = Members /\ n \in report

(* A batch that is not killed comes to its end, although engines may never *)
(* finish, scripts wedge and evaluations die.                              *)
BatchEnds ==
  \A b \in Batch : batch[b] = "loop" ~> batch[b] \in {"done", "dead"}

(* The harness implements the promise about its queue. *)
Promise == INSTANCE EvalQueue WITH
  Runs <- Name,
  running <- {NameOf(b) : b \in {c \in Batch : PyAlive(c)}},
  reported <- {n \in Name : summary[n] # "none"}

ImplementsEvalQueue == Promise!Spec

=============================================================================
