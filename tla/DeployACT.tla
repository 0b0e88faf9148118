------------------------------ MODULE DeployACT ------------------------------
(***************************************************************************)
(* DeployACT.insert_cable, the learned policy, with its two opt-in layers: *)
(* the temporal ensemble of action chunks (chunk_ensemble.py) and the      *)
(* guarded descent that takes over when the arm stalls                     *)
(* (guarded_descent.py: the scripted step descent, the spiral search, the  *)
(* learned specialist).                                                    *)
(*                                                                         *)
(* Space is a line through the port: a position is an integer, a unit      *)
(* vector is 1 or -1, and what a blend of directions adds to it is counted *)
(* in "aim".  A step of the descent is one unit, a unit per tick is the    *)
(* stall speed.  Forces are told apart by the two thresholds.              *)
(***************************************************************************)
EXTENDS Integers, Sequences, FiniteSets, FiniteSetsExt, SequencesExt

CONSTANTS
  Configs,        \* environment settings to try
  Episodes,       \* bound: goals executed one after the other
  Reach,          \* bound: measured positions are -Reach..Reach
  Ports, Axes,    \* what the auxiliary head may predict (axis 0: a 3-D head)
  Budget,         \* Duration(seconds=30.0)
  MinRuntime,     \* min_runtime_s
  StallWindow,    \* stall_window_s
  AxisWindow,     \* axis_window
  K,              \* length of a predicted chunk
  ExecSteps,      \* exec_steps
  AuxBuffer, AuxMinSamples, AuxMinMag, AuxMaxMag, AuxSpread,
  AuxMargin, AuxFixedTravel, TravelCap,
  SearchCap, SearchMaxSteps, SpecialistCap, SpecialistMaxSteps,
  MaxAim          \* bound: re-aiming steps that still turn the axis

(* The values the constructors reject with a ValueError are left out. *)
ASSUME DeployAssumption ==
  /\ Configs \subseteq [guarded : BOOLEAN, aux : BOOLEAN, reaim : BOOLEAN,
                        specialist : BOOLEAN, search : BOOLEAN, vertical : BOOLEAN,
                        ensemble : BOOLEAN]
  /\ Episodes \in Nat /\ Reach \in Nat /\ Ports \subseteq Int /\ Axes \subseteq {-1, 0, 1}
  /\ {Budget, MinRuntime, AuxMinMag, AuxMaxMag, AuxSpread, AuxMargin,
      SearchMaxSteps, SpecialistMaxSteps, MaxAim} \subseteq Nat
  /\ {StallWindow, AxisWindow, K, AuxBuffer, AuxMinSamples, AuxFixedTravel, TravelCap,
      SearchCap, SpecialistCap} \subseteq Nat \ {0}
  /\ ExecSteps \in 1..K

VARIABLES
  cfg,       \* GuardedDescentConfig and AIC_ENSEMBLE, read when the node starts
  episode,   \* which goal is executed
  out,       \* "run", "done" when the budget is over, "raised"
  clock,     \* seconds since insert_cable was entered
  pos, gap,  \* last measured position, seconds since then (0: none yet)
  low, fired,  \* StallDetector: _low_since (-1: None), _triggered
  moves,     \* ApproachAxisEstimator._buffer
  aux,       \* _aux_targets and _aux_axes, in lockstep
  desc,      \* the descent, of kind "none" while approaching
  cmd,       \* the pose target a descent commanded last
  step,      \* abs_step
  chunks     \* ChunkEnsemble._buffer: episode and start step of each chunk

stallVars  == <<low, fired, moves, aux>>
deployVars == <<cfg, episode, out, clock, pos, gap, stallVars, desc, cmd, step, chunks>>

Wrench == {"free", "touch", "spike"}  \* below engage_force, below, above the threshold
Axis  == {-1, 1}
Place == -Reach..Reach
Reading == [target : Ports, axis : Axes]
NoReading == [target |-> 0, axis |-> 2]

Abs(x)  == IF x < 0 THEN -x ELSE x
Sign(x) == IF x < 0 THEN -1 ELSE IF x > 0 THEN 1 ELSE 0
Least(x, y) == IF x < y THEN x ELSE y
Recent(s, n) == IF Len(s) > n THEN Tail(s) ELSE s    \* deque(maxlen=n) after an append
Total(s) == FoldLeft(LAMBDA x, y : x + y, 0, s)

NoDescent == [kind |-> "none", anchor |-> 0, axis |-> 0, cap |-> 0, steps |-> 0,
              contacts |-> 0, hold |-> FALSE, theta |-> 0, dir |-> 0, aim |-> 0]
Target(at, d) == [at |-> at, aim |-> d.aim]

(* The search and the specialist turn the stall machinery on by themselves. *)
FromEnv(env) == [env EXCEPT !.guarded = @ \/ env.specialist \/ env.search]

GuardedOn == cfg.guarded

DeployInit ==
  /\ cfg \in {FromEnv(env) : env \in Configs}
  /\ episode = 1 /\ out = "run"
  /\ clock = 0 /\ pos = 0 /\ gap = 0
  /\ low = -1 /\ fired = FALSE /\ moves = <<>> /\ aux = <<>>
  /\ desc = NoDescent /\ cmd = Target(0, NoDescent)
  /\ step = 0 /\ chunks = {}

-----------------------------------------------------------------------------
(* The stall and the bearing *)

(* The speed is zero on the first cycle. *)
Slow(p) == gap = 0 \/ Abs(p - pos) < gap

LowSince(p) == IF ~Slow(p) THEN -1 ELSE IF low = -1 THEN clock ELSE low

Stalls_Again(p) ==
  /\ GuardedOn /\ Slow(p)
  /\ clock >= MinRuntime
  /\ clock - LowSince(p) >= StallWindow

(* StallDetector.update: fires once, and then never again. *)
Stalls(p) ==
  /\ GuardedOn /\ ~fired /\ Slow(p)
  /\ clock >= MinRuntime
  /\ clock - LowSince(p) >= StallWindow

Moves(p) ==
  IF gap > 0 /\ p # pos THEN Recent(Append(moves, p - pos), AxisWindow) ELSE moves

(* Zero when nothing was recorded or the motions cancel out. *)
MotionAxis(p) == Sign(Total(Moves(p)))

AuxActive == GuardedOn /\ cfg.aux

(* Out-of-range magnitudes are not buffered. *)
Plausible(p, r) == r # NoReading /\ Abs(r.target - p) \in AuxMinMag..AuxMaxMag

Readings(p, r) ==
  IF AuxActive /\ Plausible(p, r)
  THEN Recent(Append(aux, r), AuxBuffer) ELSE aux

Median(s) ==
  LET t == SetToSortSeq(DOMAIN s, LAMBDA i, j : s[i] < s[j] \/ (s[i] = s[j] /\ i < j))
  IN  (s[t[(Len(s) + 1) \div 2]] + s[t[Len(s) \div 2 + 1]]) \div 2

AuxTarget(q) == Median([i \in DOMAIN q |-> q[i].target])

AuxTrusted(p, q) ==
  /\ AuxActive /\ Len(q) >= AuxMinSamples
  /\ Abs(AuxTarget(q) - p) \in AuxMinMag..AuxMaxMag
  /\ \A i, j \in DOMAIN q : q[i].target - q[j].target <= AuxSpread
  /\ MotionAxis(p) # -Sign(AuxTarget(q) - p)
  /\ AuxTarget(q) # p

(* The mean of the explicit axes, zero unless every reading has one. *)
AuxAxis(q) ==
  IF \E i \in DOMAIN q : q[i].axis = 0 THEN 0
  ELSE Sign(Total([i \in DOMAIN q |-> q[i].axis]))

Begin(kind, p, axis, cap) ==
  [NoDescent EXCEPT !.kind = kind, !.anchor = p, !.axis = axis, !.cap = cap]

(* The sign check turns an explicit axis towards the target: in one dimension *)
(* the two heads agree on the axis and differ in the cap.                     *)
EngageAux(p, q) ==
  LET d == AuxTarget(q) - p
  IN  Begin("guarded", p, Sign(d),
            Least(TravelCap, IF AuxAxis(q) # 0 THEN AuxFixedTravel ELSE Abs(d) + AuxMargin))

EngageDescent(p, q) ==
  IF AuxTrusted(p, q) THEN EngageAux(p, q)
  ELSE IF MotionAxis(p) = 0 THEN NoDescent
  ELSE Begin("guarded", p, MotionAxis(p), TravelCap)

BeginSpecialist(p) == Begin("specialist", p, 0, SpecialistCap)
EngageSpecialist(p) == BeginSpecialist(p)

BeginSearch(p, axis) == Begin("search", p, axis, SearchCap)
EngageSearch(p) ==
  LET axis == IF cfg.vertical THEN -1 ELSE MotionAxis(p)
  IN  IF axis = 0 THEN NoDescent ELSE BeginSearch(p, axis)

(* The search comes before the specialist, and that before the scripted     *)
(* descent.  NoDescent: no bearing, the learned path goes on.               *)
Engage(p, q) ==
  IF cfg.search THEN EngageSearch(p)
  ELSE IF cfg.specialist THEN EngageSpecialist(p)
  ELSE EngageDescent(p, q)

-----------------------------------------------------------------------------
(* One cycle of a descent *)

Hold(d) == [d EXCEPT !.hold = TRUE]
BackOff(d) ==
  [d EXCEPT !.hold = TRUE, !.contacts = @ + 1, !.steps = IF @ = 0 THEN 0 ELSE @ - 1]

GuardedAdvance_PastCap(d, f) ==
  IF d.hold THEN d
  ELSE IF f = "spike" THEN BackOff(d)
  ELSE IF d.steps > d.cap THEN Hold(d)
  ELSE [d EXCEPT !.steps = @ + 1]

GuardedAdvance(d, f) ==
  IF d.hold THEN d
  ELSE IF f = "spike" THEN BackOff(d)
  ELSE IF d.steps + 1 > d.cap THEN Hold(d)
  ELSE [d EXCEPT !.steps = @ + 1]

SearchAdvance(d, f) ==
  IF d.hold THEN d
  ELSE IF f = "spike" THEN BackOff(d)
  ELSE IF (SearchMaxSteps > 0 /\ d.steps >= SearchMaxSteps) \/ d.steps + 1 > d.cap THEN Hold(d)
  ELSE [d EXCEPT !.steps = @ + 1, !.theta = IF f = "touch" THEN @ + 1 ELSE @]

Clamp(d, x) ==
  IF x - d.anchor > d.cap THEN d.anchor + d.cap
  ELSE IF d.anchor - x > d.cap THEN d.anchor - d.cap ELSE x

(* The points of a chunk that moves the arm from p by v. *)
Path(p, v) == {p + Sign(v) * i : i \in 1..Abs(v)} \cup {p + v}

(* The descent after the cycle and where the arm is sent. *)
SpecialistAdvance(d, p, f, v) ==
  IF d.hold THEN <<d, p>>
  ELSE IF f = "spike"
       THEN <<[d EXCEPT !.hold = TRUE, !.contacts = @ + 1], p - d.dir>>
  ELSE IF SpecialistMaxSteps > 0 /\ d.steps >= SpecialistMaxSteps THEN <<Hold(d), p>>
  ELSE LET x == Clamp(d, p + v)
       IN  <<[d EXCEPT !.steps = @ + ExecSteps,
                       !.dir = IF x = p THEN @ ELSE Sign(x - p),
                       !.hold = \E y \in Path(p, v) : Clamp(d, y) # y], x>>

Commanded(d) == <<d, d.anchor + d.axis * d.steps>>

Advance(d, p, f, v) ==
  CASE d.kind = "guarded" -> Commanded(GuardedAdvance(d, f))
    [] d.kind = "search" -> Commanded(SearchAdvance(d, f))
    [] d.kind = "specialist" -> SpecialistAdvance(d, p, f, v)

-----------------------------------------------------------------------------
(* The loop of insert_cable *)

(* sleep_for between the sub-poses; a cycle without an observation makes the *)
(* next gap longer.                                                         *)
Sleeps(p) ==
  /\ pos' = p
  /\ gap' = 1 /\ clock' = clock + 1

Observes(p, r) ==
  /\ low' = IF GuardedOn THEN IF fired THEN low ELSE LowSince(p) ELSE -1
  /\ moves' = IF GuardedOn THEN Moves(p) ELSE <<>>
  /\ aux' = Readings(p, r)

Covers(c, s) == c[2] <= s /\ s <= c[2] + K - 1

Selects_NoPrune ==
  /\ step' = step + ExecSteps
  /\ chunks' = IF cfg.ensemble THEN chunks \cup {<<episode, step>>} ELSE chunks

Added == chunks \cup {<<episode, step>>}
Pruned(S, s) == {c \in S : c[2] + K - 1 >= s}

(* select_exec_twists buffers the chunk, averages and prunes; without an    *)
(* ensemble the chunk is used as it is.                                     *)
Selects ==
  /\ step' = step + ExecSteps
  /\ chunks' = IF cfg.ensemble THEN Pruned(Added, step + ExecSteps) ELSE chunks

LearnedPath(p) ==
  /\ Selects
  /\ Sleeps(p)

Running == out = "run" /\ clock < Budget
Measured == {p \in Place : Abs(p - pos) <= 1}

NoObservation ==
  /\ Running
  /\ clock' = clock + 1
  /\ gap' = IF gap = 0 THEN 0 ELSE Least(gap + 1, 2)
  /\ UNCHANGED <<cfg, episode, out, pos, stallVars, desc, cmd, step, chunks>>

Approach(p, r) ==
  /\ Running /\ desc = NoDescent
  /\ ~Stalls(p) \/ Engage(p, Readings(p, r)) = NoDescent
  /\ Observes(p, r)
  /\ fired' = (fired \/ Stalls(p))
  /\ LearnedPath(p)
  /\ UNCHANGED <<cfg, episode, out, desc, cmd>>

(* Once engaged the detector and the buffers are read no more: emptied here. *)
Handoff(p, r, f, v) ==
  LET a == Advance(Engage(p, Readings(p, r)), p, f, v) IN
  /\ Running /\ desc = NoDescent
  /\ Stalls(p) /\ Engage(p, Readings(p, r)) # NoDescent
  /\ low' = -1 /\ moves' = <<>> /\ aux' = <<>> /\ fired' = TRUE
  /\ desc' = a[1] /\ cmd' = Target(a[2], a[1])
  /\ Sleeps(p)
  /\ UNCHANGED <<cfg, episode, out, step, chunks>>

Reaims == AuxActive /\ cfg.reaim
Turns(p, r) == Reaims /\ Plausible(p, r) /\ r.target # desc.anchor

(* GuardedDescent.reaim turns the axis a little, in HOLD too. *)
Descend(p, r, f, v) ==
  \E turn \in IF Turns(p, r) /\ desc.aim < MaxAim THEN {0, 1} ELSE {0} :
    LET a == Advance([desc EXCEPT !.aim = @ + turn], p, f, v) IN
    /\ Running /\ desc # NoDescent
    /\ Reaims => desc.kind = "guarded"
    /\ desc' = a[1] /\ cmd' = Target(a[2], a[1])
    /\ Sleeps(p)
    /\ UNCHANGED <<cfg, episode, out, stallVars, step, chunks>>

(* The other descents have no reaim: a plausible reading is an              *)
(* AttributeError, any other is ignored.                                    *)
DescendUnaimed(p, r, f, v) ==
  LET a == Advance(desc, p, f, v) IN
  /\ Running /\ desc # NoDescent
  /\ Reaims /\ desc.kind # "guarded"
  /\ IF Turns(p, r)
     THEN /\ out' = "raised"
          /\ UNCHANGED <<clock, pos, gap, desc, cmd>>
     ELSE /\ desc' = a[1] /\ cmd' = Target(a[2], a[1])
          /\ Sleeps(p)
          /\ UNCHANGED out
  /\ UNCHANGED <<cfg, episode, stallVars, step, chunks>>

Finish ==
  /\ out = "run" /\ clock >= Budget
  /\ out' = "done"
  /\ UNCHANGED <<cfg, episode, clock, pos, gap, stallVars, desc, cmd, step, chunks>>

(* The next goal: a new controller, the same ensemble object, cleared. *)
NextEpisode ==
  /\ out # "run" /\ episode < Episodes
  /\ episode' = episode + 1 /\ out' = "run"
  /\ clock' = 0 /\ pos' = 0 /\ gap' = 0
  /\ low' = -1 /\ fired' = FALSE /\ moves' = <<>> /\ aux' = <<>>
  /\ desc' = NoDescent /\ cmd' = Target(0, NoDescent)
  /\ step' = 0 /\ chunks' = {}
  /\ UNCHANGED cfg

(* What is read is drawn only where it is used. *)
Heard == IF AuxActive /\ (desc = NoDescent \/ cfg.reaim)
         THEN Reading \cup {NoReading} ELSE {NoReading}
Felt  == IF cfg.search THEN Wrench ELSE IF GuardedOn THEN {"free", "spike"} ELSE {"free"}
Drift == IF cfg.specialist THEN -1..2 ELSE {0}
Read  == IF desc = NoDescent \/ desc.kind = "specialist" THEN Measured ELSE {pos}

DeployNext ==
  \/ NoObservation
  \/ \E p \in Measured, r \in Heard : Approach(p, r)
  \/ \E p \in Measured, r \in Heard, f \in Felt, v \in Drift : Handoff(p, r, f, v)
  \/ \E p \in Read, r \in Heard, f \in Felt, v \in Drift : Descend(p, r, f, v)
  \/ \E p \in Read, r \in Heard, f \in Felt, v \in Drift : DescendUnaimed(p, r, f, v)
  \/ Finish
  \/ NextEpisode

DeploySpec == DeployInit /\ [][DeployNext]_deployVars

-----------------------------------------------------------------------------
(* Properties *)

(* Every variable of the learned policy has its type. *)
DeployTypeOK ==
  /\ cfg \in {FromEnv(env) : env \in Configs} /\ episode \in Nat /\ out \in {"run", "done", "raised"}
  /\ clock \in 0..Budget /\ pos \in Place /\ gap \in 0..2
  /\ low \in Int /\ fired \in BOOLEAN
  /\ moves \in Seq(Int) /\ aux \in Seq(Reading)
  /\ desc \in [kind : {"none", "guarded", "search", "specialist"}, anchor : Place,
               axis : {-1, 0, 1}, cap : Nat, steps : Nat, contacts : Nat, hold : BOOLEAN,
               theta : Nat, dir : {-1, 0, 1}, aim : 0..MaxAim]
  /\ cmd \in [at : Int, aim : 0..MaxAim]
  /\ step \in Nat /\ chunks \subseteq Nat \X Nat

(* Commanded travel from the stall pose stays within the cap, and within   *)
(* travel_cap whatever the auxiliary head predicts.  A specialist that     *)
(* holds re-commands the measured pose, which no cap bounds.               *)
TravelCapped ==
  desc.kind # "none" /\ ~(desc.kind = "specialist" /\ desc.hold) =>
    /\ Abs(cmd.at - desc.anchor) <= desc.cap
    /\ desc.kind = "guarded" => desc.cap <= TravelCap

(* HOLD is final: the scripted descents go on commanding one pose, whatever *)
(* the wrench does; only re-aiming still moves it, and a specialist follows *)
(* the arm.                                                                 *)
HoldIsFrozen ==
  [][desc.hold /\ episode' = episode =>
       /\ desc'.hold /\ desc'.steps = desc.steps /\ desc'.contacts = desc.contacts
       /\ desc.kind # "specialist" => cmd'.at = cmd.at
       /\ ~Reaims /\ desc.kind # "specialist" => cmd' = cmd]_deployVars

(* An episode has one chance to hand over: after a stall without a bearing  *)
(* the learned path is kept, and after a handover it never drives again.    *)
OneHandoff ==
  [][episode' = episode =>
       /\ fired /\ desc = NoDescent => desc' = NoDescent
       /\ desc # NoDescent => desc'.kind = desc.kind /\ step' = step]_deployVars

(* What the ensemble averages was predicted in this episode, each chunk     *)
(* covers the next step to execute, and the buffer stays small.             *)
EnsembleFresh ==
  /\ \A c \in chunks : c[1] = episode /\ Covers(c, step)
  /\ Cardinality(chunks) <= (K - 1) \div ExecSteps

=============================================================================
