--------------------------------- MODULE Suite ---------------------------------
(***************************************************************************)
(* The scenes a policy is trained and judged on, and the judgement.        *)
(* gen_config.py draws training scenes, one after the other over all       *)
(* strata; eval_lib/suite.py writes the fixed evaluation suite;            *)
(* fast_suite.py copies it with a shorter time limit.  Two runs over such  *)
(* directories are scored and compared trial by trial.  Scenes keep what   *)
(* decides whether a trial can be won at all: what is mounted on the       *)
(* board, and which plug is to go into which port.                         *)
(***************************************************************************)
EXTENDS Integers, Sequences, FiniteSets, FiniteSetsExt, SequencesExt

CONSTANTS
  DefaultReps, Overrides,   \* --reps; values of --weights, per stratum
  Stratified,               \* n of the suite
  RunLimits,                \* values of --limit
  Grades                    \* the scores a trial can be given

ASSUME SuiteAssumption ==
  /\ DefaultReps \in Nat /\ Stratified \in Nat \ {0} /\ RunLimits \subseteq Nat \ {0}
  /\ \A o \in Overrides : \A s \in DOMAIN o : o[s] \in Nat
  /\ Grades \subseteq [rest : Int, tier_3 : Int, contacts : Int, force : Int]

OfficialLimit == 180
FastLimit == 60

VARIABLES
  desk,        \* "draw"; "suite", "fast", "run", "compare", "over"
  genMode,     \* --mode: "near", "wide", "strata"; "plain" without distractors
  overrides,   \* the reps plan
  copies,        \* configs written of each stratum
  drawn,       \* the last of them, with its manifest row
  suiteDir, fastDir,   \* [configs, manifest] of the two suites
  runs,        \* rows and verdict of run A and of run B
  comparison   \* verdict of compare, "" before and "refused" when it raises

genVars   == <<genMode, overrides, copies, drawn>>
suiteVars == <<desk, genVars, suiteDir, fastDir, runs, comparison>>

NicRails == 0..4
ScRails  == 0..1
Nic(k) == <<"nic", k>>     \* nic_rail_k, on which nic_card_mount_k is built
Sc(k)  == <<"sc", k>>      \* sc_rail_k, on which sc_port_k is built

Scene(plug, board, target, port) ==
  [plug |-> plug, board |-> board, target |-> target, port |-> port,
   limit |-> OfficialLimit]

SfpPort(p) == IF p = 0 THEN "sfp_port_0" ELSE "sfp_port_1"

(* trial_1, trial_2 and trial_3 of eval_config.yaml. *)
Template ==
  <<Scene("sfp", {Nic(2), Sc(0)}, Nic(2), "sfp_port_0"),
    Scene("sfp", {Nic(3), Nic(4), Sc(0)}, Nic(4), "sfp_port_1"),
    Scene("sc", {Nic(0), Nic(1), Nic(2), Sc(0), Sc(1)}, Sc(1), "sc_port_base")>>

-----------------------------------------------------------------------------
(* gen_config.py: training scenes *)

Strata ==
  [i \in 1..12 |-> IF i <= 10
     THEN [plug |-> "sfp", rail |-> (i - 1) \div 2, port |-> SfpPort((i - 1) % 2)]
     ELSE [plug |-> "sc", rail |-> i - 11, port |-> "sc_port_base"]]

(* The plan is refused when it names a stratum there is not. *)
PlanLoads == DOMAIN overrides \subseteq Range(Strata)
Reps(i) == IF Strata[i] \in DOMAIN overrides THEN overrides[Strata[i]] ELSE DefaultReps

(* One or two other NIC cards, and beside an SC target the other SC port.   *)
Distractors(s) ==
  LET cards(ks) == UNION {kSubset(n, {Nic(k) : k \in ks}) : n \in 1..2} IN
  IF s.plug = "sfp" THEN cards(NicRails \ {s.rail})
                    ELSE {c \cup {Sc(1 - s.rail)} : c \in cards(NicRails)}

(* All rails are set anew; an SFP board always carries SC port 0. *)
StrataScene(s, others) ==
  IF s.plug = "sfp"
  THEN Scene("sfp", {Nic(s.rail), Sc(0)} \cup others, Nic(s.rail), s.port)
  ELSE Scene("sc", {Sc(s.rail)} \cup others, Sc(s.rail), "sc_port_base")

(* --mode near keeps the board of trial_1; --mode wide moves its card.      *)
Perturb ==
  IF genMode = "near" THEN {Template[1]}
  ELSE {Scene("sfp", {Nic(k), Sc(0)}, Nic(k), SfpPort(p)) : k \in NicRails, p \in 0..1}

Due == {i \in 1..12 : copies[i] < Reps(i)}

(* Repetitions are the outer loop: next is the first of the strata behind.  *)
RunStrata ==
  LET i == Min({c \in Due : \A d \in Due : copies[c] <= copies[d]}) IN
  /\ desk = "draw" /\ genMode \in {"strata", "plain"} /\ PlanLoads /\ Due # {}
  /\ \E others \in IF genMode = "plain" THEN {{}} ELSE Distractors(Strata[i]) :
       drawn' = [scene |-> StrataScene(Strata[i], others), index |-> drawn.index + 1]
  /\ copies' = [copies EXCEPT ![i] = @ + 1]
  /\ UNCHANGED <<desk, genMode, overrides, suiteDir, fastDir, runs, comparison>>

RunPerturb ==
  /\ desk = "draw" /\ genMode \in {"near", "wide"}
  /\ \E scene \in Perturb : drawn' = [drawn EXCEPT !.scene = scene]
  /\ UNCHANGED <<desk, genMode, overrides, copies, suiteDir, fastDir, runs, comparison>>

(* All is written, or the plan was refused. *)
GenEnds ==
  /\ desk = "draw" /\ (genMode \in {"strata", "plain"} /\ PlanLoads => Due = {})
  /\ desk' = "over"
  /\ UNCHANGED <<genVars, suiteDir, fastDir, runs, comparison>>

-----------------------------------------------------------------------------
(* suite.py and fast_suite.py: the evaluation suites *)

AllCells ==
  [i \in 1..20 |-> [rail |-> (i - 1) \div 4,
                    plug |-> IF ((i - 1) \div 2) % 2 = 0 THEN "SFP" ELSE "SC",
                    port |-> (i - 1) % 2]]

AssignStrata(n) == [i \in 1..n |-> AllCells[((i - 1) % 20) + 1]]

(* The SFP target replaces all NIC rails of the template; the SC target     *)
(* leaves the board, which carries both SC ports, as it is.                 *)
ApplySfpTarget(t, rail, port) ==
  Scene("sfp", {Nic(rail)} \cup {m \in t.board : m[1] = "sc"}, Nic(rail), SfpPort(port))
ApplyScTarget(t, port) == Scene("sc", t.board, Sc(port), "sc_port_base")

BuildConfig(cell) ==
  IF cell.plug = "SFP" THEN ApplySfpTarget(Template[1], cell.rail, cell.port)
                       ELSE ApplyScTarget(Template[3], cell.port)

(* The first number in the target's name, and the last digit of the port's. *)
InferOfficialStratum(t) ==
  [rail |-> t.target[2], plug |-> IF t.plug = "sfp" THEN "SFP" ELSE "SC",
   port |-> IF t.port = "sfp_port_1" THEN 1 ELSE 0]

Member(id, cell, scene) == [id |-> id, cell |-> cell, scene |-> scene]

Members ==
  [i \in 1..Stratified |->
     LET cell == AssignStrata(Stratified)[i] IN Member(<<"cfg", i>>, cell, BuildConfig(cell))]
  \o [k \in 1..3 |-> Member(<<"official", k>>, InferOfficialStratum(Template[k]), Template[k])]

Rows(members) == [i \in DOMAIN members |-> [id |-> members[i].id, cell |-> members[i].cell]]
NoDir == [configs |-> <<>>, manifest |-> <<>>]

(* The configs first, then the manifest with a row for each. *)
WriteSuite ==
  LET n == Len(suiteDir.configs) IN
  /\ desk = "suite"
  /\ IF n < Len(Members)
     THEN suiteDir' = [suiteDir EXCEPT !.configs = Append(@, Members[n + 1])]
     ELSE suiteDir' = [suiteDir EXCEPT !.manifest = Rows(Members)]
  /\ desk' = IF n < Len(Members) THEN desk ELSE "fast"
  /\ UNCHANGED <<genVars, fastDir, runs, comparison>>

SetTaskTimeLimits(m) == [m EXCEPT !.scene.limit = FastLimit]

Rewritten(n) == Append(fastDir.configs, SetTaskTimeLimits(suiteDir.configs[n + 1]))

BuildFast_ManifestFirst ==
  LET n == Len(fastDir.configs) IN
  /\ desk = "fast" /\ suiteDir.manifest # <<>>
  /\ fastDir' = IF n < Len(suiteDir.configs)
                THEN [configs |-> Rewritten(n), manifest |-> suiteDir.manifest] ELSE fastDir
  /\ desk' = IF n < Len(suiteDir.configs) THEN desk ELSE "run"
  /\ UNCHANGED <<genVars, suiteDir, runs, comparison>>

(* The configs are rewritten one by one; the manifest is copied at the end. *)
BuildFast ==
  LET n == Len(fastDir.configs) IN
  /\ desk = "fast" /\ suiteDir.manifest # <<>>
  /\ fastDir' = IF n < Len(suiteDir.configs) THEN [fastDir EXCEPT !.configs = Rewritten(n)]
                ELSE [fastDir EXCEPT !.manifest = suiteDir.manifest]
  /\ desk' = IF n < Len(suiteDir.configs) THEN desk ELSE "run"
  /\ UNCHANGED <<genVars, suiteDir, runs, comparison>>

(* A writer is killed, or raises: there is nothing to copy without a        *)
(* manifest.                                                                *)
WriterKilled ==
  /\ desk \in {"suite", "fast"}
  /\ desk' = IF desk = "suite" THEN "fast" ELSE "run"
  /\ UNCHANGED <<genVars, suiteDir, fastDir, runs, comparison>>

-----------------------------------------------------------------------------
(* scoring.py, runner.py and report.py: the judgement *)

GradeTotal(g) == g.rest + g.tier_3
Inserted(g) == g.tier_3 >= 75

ClassifyOutcome(g) ==
  IF Inserted(g) THEN "full"
  ELSE IF g.tier_3 \in 38..50 THEN "partial"
  ELSE IF g.contacts < 0 THEN "collision"
  ELSE IF g.force < 0 THEN "force"
  ELSE IF g.tier_3 \in 1..37 THEN "proximity" ELSE "miss"

FromBreakdown(row, g) ==
  [id |-> row.id, cell |-> row.cell, outcome |-> ClassifyOutcome(g),
   inserted |-> Inserted(g), total |-> GradeTotal(g)]
Failed(row) ==
  [id |-> row.id, cell |-> row.cell, outcome |-> "miss", inserted |-> FALSE, total |-> 0]

(* What scoring.yaml is parsed to, <<>> when there is none or it raises.    *)
Parsed == Grades \cup {<<>>}
ScoreMember(row, g) == IF g = <<>> THEN Failed(row) ELSE FromBreakdown(row, g)

ReportVerdict(rows) == IF \E i \in DOMAIN rows : rows[i].inserted THEN "PASS" ELSE "FAIL"

(* run_suite: the trials of the manifest, up to the limit; it raises where  *)
(* the manifest or a config is missing, and then no results are written.    *)
RunnableRows(dir, limit) ==
  LET m == SubSeq(dir.manifest, 1, Min({limit, Len(dir.manifest)})) IN
  IF \A i \in DOMAIN m : \E c \in Range(dir.configs) : c.id = m[i].id THEN m ELSE <<>>

RunSuite(run, fast, limit) ==
  LET m == RunnableRows(IF fast THEN fastDir ELSE suiteDir, limit) IN
  /\ desk = "run" /\ ~runs[run].over
  /\ run = "B" => runs["A"].over
  /\ \E grades \in [DOMAIN m -> Parsed] :
       LET rows == [i \in DOMAIN m |-> ScoreMember(m[i], grades[i])] IN
       runs' = [runs EXCEPT ![run] =
                  [over |-> TRUE, fast |-> fast, rows |-> rows, verdict |-> ReportVerdict(rows)]]
  /\ desk' = IF run = "B" THEN "compare" ELSE desk
  /\ UNCHANGED <<genVars, suiteDir, fastDir, comparison>>

(* Rows are read back from results.csv and paired by config id. *)
ReadResults(run) == runs[run].rows
Ids(rows) == {r.id : r \in Range(rows)}
Diffs(a, b) ==
  LET total(rows, id) == (CHOOSE r \in Range(rows) : r.id = id).total IN
  {total(a, id) - total(b, id) : id \in Ids(a)}

(* The bounds of a bootstrapped mean lie among the differences: the extreme *)
(* ones give every verdict there can be.                                    *)
BootstrapCi(d) == {ci \in {Min(d), Max(d)} \X {Min(d), Max(d)} : ci[1] <= ci[2]}

CompareVerdict(ci) ==
  IF ci[1] > 0 THEN "A beats B" ELSE IF ci[2] < 0 THEN "B beats A" ELSE "inconclusive"

Compare ==
  LET a == ReadResults("A")   b == ReadResults("B") IN
  /\ desk = "compare" /\ desk' = "over"
  /\ IF a = <<>> \/ Ids(a) # Ids(b) THEN comparison' = "refused"
     ELSE \E ci \in BootstrapCi(Diffs(a, b)) : comparison' = CompareVerdict(ci)
  /\ UNCHANGED <<genVars, suiteDir, fastDir, runs>>

-----------------------------------------------------------------------------
SuiteInit ==
  /\ desk \in {"draw", "suite"}
  /\ genMode \in IF desk = "draw" THEN {"near", "wide", "strata", "plain"} ELSE {"near"}
  /\ overrides \in Overrides /\ (genMode = "near" => overrides = <<>>)
  /\ copies = [i \in 1..12 |-> 0]
  /\ drawn = [scene |-> Template[1], index |-> -1] /\ suiteDir = NoDir /\ fastDir = NoDir
  /\ runs = [r \in {"A", "B"} |-> [over |-> FALSE, fast |-> FALSE, rows |-> <<>>, verdict |-> ""]]
  /\ comparison = ""

SuiteNext ==
  \/ RunStrata \/ RunPerturb \/ GenEnds
  \/ WriteSuite \/ BuildFast \/ WriterKilled
  \/ \E r \in {"A", "B"}, fast \in BOOLEAN, limit \in RunLimits : RunSuite(r, fast, limit)
  \/ Compare

SuiteSpec == SuiteInit /\ [][SuiteNext]_suiteVars

-----------------------------------------------------------------------------
(* Properties *)

(* A trial can be won: its target is mounted and takes the plug in hand. *)
Solvable(scene) ==
  /\ scene.target \in scene.board
  /\ scene.plug = "sfp" <=> scene.target[1] = "nic"
  /\ scene.plug = "sfp" <=> scene.port \in {"sfp_port_0", "sfp_port_1"}

(* The cell of a row says which port the trial is about: every SFP port is  *)
(* read back from the scene, an SC port is the cell's.  An official SC row  *)
(* tells the plug only: its cell has port 0, from the name of the port,     *)
(* while the SC port the trial is about is the rail's (sc_port_1).          *)
RowTells(c) ==
  IF c.cell.plug = "SFP" THEN c.cell = InferOfficialStratum(c.scene)
  ELSE c.scene.plug = "sc" /\ (c.id[1] = "cfg" => c.scene.target = Sc(c.cell.port))

(* Killed after any config, the generator has drawn the strata evenly, ... *)
EvenlyDrawn ==
  \A i, j \in 1..12 : Reps(i) = Reps(j) => copies[i] - copies[j] \in -1..1

Total(f) == FoldFunction(+, 0, f)

(* ... and no two configs from one seed. *)
SeededOnce == Total(copies) > 0 => drawn.index = Total(copies) - 1

(* A directory with a manifest has every config, at one time limit. *)
Whole(dir, limit) ==
  dir.manifest # <<>> =>
    /\ dir.manifest = Rows(dir.configs) /\ Len(dir.manifest) = Len(Members)
    /\ \A c \in Range(dir.configs) : c.scene.limit = limit

SceneOf(run, id) ==
  (CHOOSE c \in Range((IF run.fast THEN fastDir ELSE suiteDir).configs) : c.id = id).scene

(* A verdict compares the same scenes, the time limit apart, and nobody     *)
(* beats a run that was nowhere worse.                                      *)
PairedFairly ==
  LET a == runs["A"]  b == runs["B"] IN
  comparison \in {"A beats B", "B beats A", "inconclusive"} =>
    /\ Len(a.rows) = Len(b.rows)
    /\ \A i \in DOMAIN a.rows :
         /\ a.rows[i].id = b.rows[i].id
         /\ [SceneOf(a, a.rows[i].id) EXCEPT !.limit = 0]
              = [SceneOf(b, b.rows[i].id) EXCEPT !.limit = 0]
    /\ comparison = "A beats B" =>
         \E i \in DOMAIN a.rows : a.rows[i].total > b.rows[i].total
    /\ comparison = "B beats A" =>
         \E i \in DOMAIN a.rows : b.rows[i].total > a.rows[i].total

(* What a policy is compared on is comparable: every scene can be won, rows *)
(* name their target, training strata are drawn evenly, a suite directory   *)
(* that runs is whole, and a verdict is between trials of one scene.        *)
SuiteIsFair ==
  /\ Solvable(drawn.scene) /\ EvenlyDrawn /\ SeededOnce
  /\ \A c \in Range(suiteDir.configs) \cup Range(fastDir.configs) :
       Solvable(c.scene) /\ RowTells(c)
  /\ Whole(suiteDir, OfficialLimit) /\ Whole(fastDir, FastLimit)
  /\ PairedFairly

=============================================================================
