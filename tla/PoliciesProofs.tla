---------------------------- MODULE PoliciesProofs ----------------------------
(***************************************************************************)
(* What holds of the policies.  Of the learned one, for every              *)
(* configuration, cap, window and reading: its descent starts once, stays  *)
(* inside its cap and never leaves HOLD, and its ensemble averages no      *)
(* chunk of an earlier episode.  Of the scripted ones, for every geometry  *)
(* and every order of failing lookups: how deep they drive, and what their *)
(* integrators start from.                                                 *)
(***************************************************************************)
EXTENDS Policies, FiniteSetTheorems, TLAPS

-----------------------------------------------------------------------------
(* The learned policy *)

Kinds == {"guarded", "search", "specialist"}
Descent ==
  [kind : Kinds \cup {"none"}, anchor : Int, axis : {-1, 0, 1}, cap : Nat, steps : Nat,
   contacts : Nat, hold : BOOLEAN, theta : Nat, dir : {-1, 0, 1}, aim : Nat]

Scripted(d) == d.kind \in {"guarded", "search"}

\* The descent and what it commanded last belong together.
DescentInv ==
  /\ pos \in Int /\ episode \in Nat
  /\ desc \in Descent /\ (desc.kind = "none" => desc = NoDescent)
  /\ cmd \in [at : Int, aim : Nat]
  /\ desc.kind # "none" => cmd.aim = desc.aim
  /\ Scripted(desc) => cmd.at = desc.anchor + desc.axis * desc.steps /\ desc.steps <= desc.cap
  /\ desc.kind = "guarded" => desc.cap <= TravelCap
  /\ desc.kind = "specialist" /\ ~desc.hold => Abs(cmd.at - desc.anchor) <= desc.cap

LEMMA Bounds ==
  /\ Reach \in Nat /\ AuxMinMag \in Nat /\ AuxMaxMag \in Nat /\ AuxMargin \in Nat
  /\ SearchMaxSteps \in Nat /\ SpecialistMaxSteps \in Nat /\ MaxAim \in Nat
  /\ AuxFixedTravel \in Nat /\ TravelCap \in Nat /\ SearchCap \in Nat /\ SpecialistCap \in Nat
  /\ K \in Nat /\ ExecSteps \in Nat
  BY DeployAssumption

-----------------------------------------------------------------------------
(* The handover *)

LEMMA SignRange == ASSUME NEW x PROVE Sign(x) \in {-1, 0, 1}
  BY DEF Sign

LEMMA NoDescentType ==
  /\ NoDescent \in Descent /\ NoDescent.kind = "none" /\ ~NoDescent.hold
  /\ NoDescent.steps = 0 /\ NoDescent.aim = 0
  BY DEF NoDescent, Descent, Kinds

LEMMA BeginType ==
  ASSUME NEW k \in Kinds, NEW p \in Int, NEW x \in {-1, 0, 1}, NEW c \in Nat
  PROVE  /\ Begin(k, p, x, c) \in Descent
         /\ Begin(k, p, x, c).kind = k /\ Begin(k, p, x, c).cap = c
         /\ Begin(k, p, x, c).steps = 0 /\ ~Begin(k, p, x, c).hold
         /\ Begin(k, p, x, c) # NoDescent
  BY DEF Begin, NoDescent, Descent, Kinds

\* What EngageAux caps is a distance that AuxTrusted bounded.
LEMMA AuxCap ==
  ASSUME NEW p \in Int, NEW q, AuxTrusted(p, q)
  PROVE  LET c == Least(TravelCap, IF AuxAxis(q) # 0 THEN AuxFixedTravel
                                   ELSE Abs(AuxTarget(q) - p) + AuxMargin)
         IN  c \in Nat /\ c <= TravelCap
<1> DEFINE b == Abs(AuxTarget(q) - p)
<1>1. b \in AuxMinMag..AuxMaxMag BY DEF AuxTrusted
<1> HIDE DEF b
<1>2. b \in Nat BY <1>1, Bounds
<1>3. (IF AuxAxis(q) # 0 THEN AuxFixedTravel ELSE b + AuxMargin) \in Nat BY <1>2, Bounds
<1>4. QED BY <1>3, Bounds DEF Least, b

\* A descent starts at the stall pose, with nothing descended, in its cap.
LEMMA EngageType ==
  ASSUME NEW p \in Int, NEW q
  PROVE  \/ Engage(p, q) = NoDescent
         \/ /\ Engage(p, q) \in Descent /\ Engage(p, q).kind \in Kinds
            /\ Engage(p, q).steps = 0 /\ ~Engage(p, q).hold
            /\ Engage(p, q).kind = "guarded" => Engage(p, q).cap <= TravelCap
<1>1. MotionAxis(p) \in {-1, 0, 1} BY SignRange DEF MotionAxis
<1>2. CASE cfg.search
  <2> DEFINE axis == IF cfg.vertical THEN -1 ELSE MotionAxis(p)
  <2>1. axis \in {-1, 0, 1} BY <1>1
  <2>2. Engage(p, q) = NoDescent \/ Engage(p, q) = Begin("search", p, axis, SearchCap)
    BY <1>2 DEF Engage, EngageSearch, BeginSearch
  <2> HIDE DEF axis
  <2>3. QED BY <2>1, <2>2, BeginType, Bounds DEF Kinds
<1>3. CASE ~cfg.search /\ cfg.specialist
  <2>1. Engage(p, q) = Begin("specialist", p, 0, SpecialistCap)
    BY <1>3 DEF Engage, EngageSpecialist, BeginSpecialist
  <2>2. QED BY <2>1, BeginType, Bounds DEF Kinds
<1>4. CASE ~cfg.search /\ ~cfg.specialist
  <2>1. Engage(p, q) = EngageDescent(p, q) BY <1>4 DEF Engage
  <2>2. CASE AuxTrusted(p, q)
    <3> DEFINE c == Least(TravelCap, IF AuxAxis(q) # 0 THEN AuxFixedTravel
                                     ELSE Abs(AuxTarget(q) - p) + AuxMargin)
               x == Sign(AuxTarget(q) - p)
    <3>1. c \in Nat /\ c <= TravelCap BY <2>2, AuxCap
    <3>2. x \in {-1, 0, 1} BY SignRange
    <3>3. Engage(p, q) = Begin("guarded", p, x, c) BY <2>1, <2>2 DEF EngageDescent, EngageAux
    <3> HIDE DEF c, x
    <3>4. QED BY <3>1, <3>2, <3>3, BeginType DEF Kinds
  <2>3. CASE ~AuxTrusted(p, q)
    <3>1. Engage(p, q) = NoDescent \/ Engage(p, q) = Begin("guarded", p, MotionAxis(p), TravelCap)
      BY <2>1, <2>3 DEF EngageDescent
    <3>2. QED BY <1>1, <3>1, BeginType, Bounds DEF Kinds
  <2>4. QED BY <2>2, <2>3
<1>5. QED BY <1>2, <1>3, <1>4

-----------------------------------------------------------------------------
(* One cycle of a descent *)

Kept(d, e) ==
  /\ e \in Descent /\ e.kind = d.kind /\ e.anchor = d.anchor /\ e.axis = d.axis
  /\ e.cap = d.cap /\ e.aim = d.aim

LEMMA BackOffKeeps ==
  ASSUME NEW d \in Descent
  PROVE  /\ Kept(d, BackOff(d)) /\ BackOff(d).steps <= d.steps
         /\ Kept(d, Hold(d)) /\ Hold(d).steps = d.steps
<1> DEFINE n == IF d.steps = 0 THEN 0 ELSE d.steps - 1
           c == d.contacts + 1
<1>1. n \in Nat /\ n <= d.steps /\ c \in Nat BY DEF Descent
<1>2. Kept(d, Hold(d)) /\ Hold(d).steps = d.steps BY DEF Kept, Descent, Hold
<1>3. BackOff(d) = [d EXCEPT !.hold = TRUE, !.contacts = c, !.steps = n] BY DEF BackOff
<1> HIDE DEF n, c
<1>4. Kept(d, BackOff(d)) /\ BackOff(d).steps = n BY <1>1, <1>3 DEF Kept, Descent
<1>5. QED BY <1>1, <1>2, <1>4

LEMMA GuardedKeeps ==
  ASSUME NEW d \in Descent, NEW f, d.steps <= d.cap
  PROVE  /\ Kept(d, GuardedAdvance(d, f)) /\ GuardedAdvance(d, f).steps <= d.cap
         /\ d.hold => GuardedAdvance(d, f) = d
<1>1. d.steps \in Nat /\ d.cap \in Nat /\ Kept(d, d) BY DEF Descent, Kept
<1>2. ASSUME ~d.hold, f # "spike", ~(d.steps + 1 > d.cap)
      PROVE  Kept(d, GuardedAdvance(d, f)) /\ GuardedAdvance(d, f).steps <= d.cap
  <2>1. GuardedAdvance(d, f) = [d EXCEPT !.steps = @ + 1] BY <1>2 DEF GuardedAdvance
  <2>2. QED BY <1>1, <1>2, <2>1 DEF Kept, Descent
<1>3. QED BY <1>1, <1>2, BackOffKeeps DEF GuardedAdvance, Kept, Descent

LEMMA SearchKeeps ==
  ASSUME NEW d \in Descent, NEW f, d.steps <= d.cap
  PROVE  /\ Kept(d, SearchAdvance(d, f)) /\ SearchAdvance(d, f).steps <= d.cap
         /\ d.hold => SearchAdvance(d, f) = d
<1>1. d.steps \in Nat /\ d.cap \in Nat /\ d.theta \in Nat /\ Kept(d, d) BY DEF Descent, Kept
<1> DEFINE n == d.steps + 1
           t == IF f = "touch" THEN d.theta + 1 ELSE d.theta
           e == [d EXCEPT !.steps = n, !.theta = t]
<1>2. n \in Nat /\ t \in Nat /\ (~(n > d.cap) => n <= d.cap) BY <1>1
<1>3. \/ SearchAdvance(d, f) \in {d, BackOff(d), Hold(d)}
      \/ SearchAdvance(d, f) = e /\ ~d.hold /\ ~(n > d.cap)
  BY DEF SearchAdvance
<1>4. d.hold => SearchAdvance(d, f) = d BY DEF SearchAdvance
<1> HIDE DEF n, t
<1>5. Kept(d, e) /\ e.steps = n BY <1>2 DEF Kept, Descent
<1> HIDE DEF e
<1>6. BackOff(d).steps \in Nat BY BackOffKeeps DEF Kept, Descent
<1>7. QED BY <1>1, <1>2, <1>3, <1>4, <1>5, <1>6, BackOffKeeps

LEMMA ClampCapped ==
  ASSUME NEW d \in Descent, NEW x \in Int
  PROVE  Clamp(d, x) \in Int /\ Abs(Clamp(d, x) - d.anchor) <= d.cap
<1>1. d.anchor \in Int /\ d.cap \in Nat BY DEF Descent
<1>2. QED BY <1>1 DEF Clamp, Abs

LEMMA SpecialistKeeps ==
  ASSUME NEW d \in Descent, NEW p \in Int, NEW f, NEW v \in Int
  PROVE  LET a == SpecialistAdvance(d, p, f, v)
         IN  /\ Kept(d, a[1]) /\ a[2] \in Int
             /\ ~a[1].hold => Abs(a[2] - d.anchor) <= d.cap
             /\ d.hold => a[1] = d
<1> DEFINE a == SpecialistAdvance(d, p, f, v)
           x == Clamp(d, p + v)
<1>1. d.steps \in Nat /\ d.contacts \in Nat /\ d.dir \in {-1, 0, 1} /\ Kept(d, d)
  BY DEF Descent, Kept
<1>2. x \in Int /\ Abs(x - d.anchor) <= d.cap BY ClampCapped
<1>3. CASE d.hold
  <2>1. a = <<d, p>> BY <1>3 DEF SpecialistAdvance
  <2>2. QED BY <1>1, <1>3, <2>1
<1>4. CASE ~d.hold /\ f = "spike"
  <2> DEFINE c == d.contacts + 1
             e == [d EXCEPT !.hold = TRUE, !.contacts = c]
  <2>1. a = <<e, p - d.dir>> BY <1>4 DEF SpecialistAdvance
  <2>2. c \in Nat /\ p - d.dir \in Int BY <1>1
  <2> HIDE DEF c
  <2>3. Kept(d, e) /\ e.hold BY <1>1, <2>2 DEF Kept, Descent
  <2> HIDE DEF e
  <2>4. a[1] = e /\ a[2] \in Int BY <2>1, <2>2
  <2>5. QED BY <1>4, <2>3, <2>4
<1>5. CASE ~d.hold /\ f # "spike" /\ SpecialistMaxSteps > 0 /\ d.steps >= SpecialistMaxSteps
  <2>1. a = <<Hold(d), p>> BY <1>5 DEF SpecialistAdvance
  <2>2. Hold(d).hold BY DEF Hold, Descent
  <2>3. QED BY <1>5, <2>1, <2>2, BackOffKeeps
<1>6. CASE ~d.hold /\ f # "spike" /\ ~(SpecialistMaxSteps > 0 /\ d.steps >= SpecialistMaxSteps)
  <2> DEFINE h == \E y \in Path(p, v) : Clamp(d, y) # y
             r == IF x = p THEN d.dir ELSE Sign(x - p)
             e == [d EXCEPT !.steps = @ + ExecSteps, !.dir = r, !.hold = h]
  <2>1. a = <<e, x>> BY <1>6 DEF SpecialistAdvance
  <2>2. r \in {-1, 0, 1} BY <1>1, SignRange
  <2>3. h \in BOOLEAN OBVIOUS
  <2>4. d.steps + ExecSteps \in Nat BY <1>1, Bounds
  <2> HIDE DEF h, r, x
  <2>5. Kept(d, e) BY <2>2, <2>3, <2>4 DEF Kept, Descent
  <2>6. QED BY <1>2, <1>6, <2>1, <2>5
<1>7. QED BY <1>3, <1>4, <1>5, <1>6

\* A cycle of any descent keeps its kind, anchor, axis and cap, commands a
\* pose that its state names, and changes nothing in HOLD.
LEMMA AdvanceKeeps ==
  ASSUME NEW d \in Descent, d.kind \in Kinds, NEW p \in Int, NEW f, NEW v \in Int,
         Scripted(d) => d.steps <= d.cap
  PROVE  LET a == Advance(d, p, f, v)
         IN  /\ Kept(d, a[1]) /\ a[2] \in Int
             /\ Scripted(d) => a[2] = a[1].anchor + a[1].axis * a[1].steps
                               /\ a[1].steps <= a[1].cap
             /\ d.kind = "specialist" /\ ~a[1].hold => Abs(a[2] - d.anchor) <= d.cap
             /\ d.hold => a[1] = d
<1> DEFINE a == Advance(d, p, f, v)
<1>p. ASSUME NEW e \in Descent PROVE e.anchor + e.axis * e.steps \in Int
  <2>1. e.anchor \in Int /\ e.axis \in Int /\ e.steps \in Int BY DEF Descent
  <2>2. QED BY <2>1
<1>1. CASE d.kind = "guarded"
  <2> DEFINE e == GuardedAdvance(d, f)
  <2>1. a = <<e, d.anchor + d.axis * e.steps>> \/ a = Commanded(e) BY <1>1 DEF Advance
  <2>2. a = Commanded(e) BY <1>1 DEF Advance
  <2>3. Kept(d, e) /\ e.steps <= d.cap /\ (d.hold => e = d)
    BY <1>1, GuardedKeeps DEF Scripted
  <2> HIDE DEF e
  <2>4. QED BY <1>1, <1>p, <2>2, <2>3 DEF Kept, Commanded
<1>2. CASE d.kind = "search"
  <2> DEFINE e == SearchAdvance(d, f)
  <2>2. a = Commanded(e) BY <1>2 DEF Advance
  <2>3. Kept(d, e) /\ e.steps <= d.cap /\ (d.hold => e = d)
    BY <1>2, SearchKeeps DEF Scripted
  <2> HIDE DEF e
  <2>4. QED BY <1>2, <1>p, <2>2, <2>3 DEF Kept, Commanded
<1>3. CASE d.kind = "specialist"
  <2>1. a = SpecialistAdvance(d, p, f, v) BY <1>3 DEF Advance
  <2>2. ~Scripted(d) BY <1>3 DEF Scripted
  <2>3. QED BY <2>1, <2>2, SpecialistKeeps
<1>4. QED BY <1>1, <1>2, <1>3 DEF Kinds

-----------------------------------------------------------------------------
(* The loop *)

LEMMA Offered ==
  ASSUME DescentInv
  PROVE  /\ Measured \subseteq Int /\ Read \subseteq Int /\ Drift \subseteq Int
  BY Bounds DEF DescentInv, Measured, Read, Drift, Place

\* A descent and the target of its cycle satisfy the invariant.
LEMMA CommandedInv ==
  ASSUME NEW d \in Descent, NEW e \in Descent, NEW x \in Int, Kept(d, e), d.kind \in Kinds,
         Scripted(d) => x = e.anchor + e.axis * e.steps /\ e.steps <= e.cap,
         d.kind = "guarded" => d.cap <= TravelCap,
         d.kind = "specialist" /\ ~e.hold => Abs(x - d.anchor) <= d.cap,
         desc' = e, cmd' = Target(x, e), pos' \in Int, episode' \in Nat
  PROVE  DescentInv'
<1>1. e.kind = d.kind /\ e.anchor = d.anchor /\ e.cap = d.cap BY DEF Kept
<1>2. e.aim \in Nat BY DEF Descent
<1>3. cmd' \in [at : Int, aim : Nat] /\ cmd'.at = x /\ cmd'.aim = e.aim BY <1>2 DEF Target
<1>4. QED BY <1>1, <1>3 DEF DescentInv, Scripted, Kinds

LEMMA HandoffStep ==
  ASSUME DescentInv, NEW p \in Int, NEW r, NEW f, NEW v \in Int, Handoff(p, r, f, v)
  PROVE  DescentInv'
<1> DEFINE d == Engage(p, Readings(p, r))
           a == Advance(d, p, f, v)
<1>1. d # NoDescent /\ desc' = a[1] /\ cmd' = Target(a[2], a[1]) /\ pos' = p
      /\ episode' \in Nat
  BY DEF Handoff, Sleeps, DescentInv
<1>2. d \in Descent /\ d.kind \in Kinds /\ d.steps = 0 /\ ~d.hold
      /\ (d.kind = "guarded" => d.cap <= TravelCap)
  BY <1>1, EngageType
<1> HIDE DEF d
<1>3. d.steps <= d.cap BY <1>2 DEF Descent
<1>4. /\ Kept(d, a[1]) /\ a[2] \in Int
      /\ Scripted(d) => a[2] = a[1].anchor + a[1].axis * a[1].steps /\ a[1].steps <= a[1].cap
      /\ d.kind = "specialist" /\ ~a[1].hold => Abs(a[2] - d.anchor) <= d.cap
  BY <1>2, <1>3, AdvanceKeeps
<1>5. a[1] \in Descent BY <1>4 DEF Kept
<1> HIDE DEF a
<1>6. QED BY <1>1, <1>2, <1>4, <1>5, CommandedInv

\* What a cycle advances: the descent, its axis turned or not.
LEMMA TurnKeeps ==
  ASSUME DescentInv, desc # NoDescent, NEW t \in {0, 1}
  PROVE  LET d == [desc EXCEPT !.aim = @ + t]
         IN  /\ d \in Descent /\ d.kind = desc.kind /\ d.kind \in Kinds
             /\ d.anchor = desc.anchor /\ d.axis = desc.axis /\ d.cap = desc.cap
             /\ d.steps = desc.steps /\ d.hold = desc.hold /\ d.contacts = desc.contacts
             /\ Scripted(d) => d.steps <= d.cap
             /\ d.kind = "guarded" => d.cap <= TravelCap
             /\ t = 0 => d = desc
<1> DEFINE n == desc.aim + t
           d == [desc EXCEPT !.aim = n]
<1>1. desc \in Descent /\ desc.kind \in Kinds BY DEF DescentInv, Descent
<1>2. n \in Nat BY <1>1 DEF Descent
<1>3. t = 0 => n = desc.aim BY <1>1 DEF Descent
<1> HIDE DEF n
<1>4. /\ d \in Descent /\ d.kind = desc.kind /\ d.anchor = desc.anchor /\ d.axis = desc.axis
      /\ d.cap = desc.cap /\ d.steps = desc.steps /\ d.hold = desc.hold
      /\ d.contacts = desc.contacts
  BY <1>1, <1>2 DEF Descent
<1>5. t = 0 => d = desc BY <1>1, <1>3 DEF Descent
<1> HIDE DEF d
<1>6. QED BY <1>1, <1>4, <1>5 DEF DescentInv, Scripted, n, d

\* The descent of a cycle, and how it relates to the one before.
Cycle(d, p, f, v) ==
  LET a == Advance(d, p, f, v) IN
  /\ d \in Descent /\ d.kind \in Kinds /\ d.kind = desc.kind /\ d.hold = desc.hold
  /\ d.anchor = desc.anchor /\ d.axis = desc.axis /\ d.steps = desc.steps
  /\ d.contacts = desc.contacts
  /\ Scripted(d) => d.steps <= d.cap
  /\ d.kind = "guarded" => d.cap <= TravelCap
  /\ desc' = a[1] /\ cmd' = Target(a[2], a[1])

LEMMA DescendCycle ==
  ASSUME DescentInv, NEW p, NEW r, NEW f, NEW v, Descend(p, r, f, v)
  PROVE  \E d : Cycle(d, p, f, v) /\ (~Reaims => d = desc)
<1>1. PICK t \in {0, 1} :
        LET d == [desc EXCEPT !.aim = @ + t]
        IN  /\ desc # NoDescent /\ desc' = Advance(d, p, f, v)[1]
            /\ cmd' = Target(Advance(d, p, f, v)[2], Advance(d, p, f, v)[1])
            /\ ~Reaims => t = 0
  BY DEF Descend, Turns
<1>2. QED BY <1>1, TurnKeeps DEF Cycle

LEMMA UnaimedCycle ==
  ASSUME DescentInv, NEW p, NEW r, NEW f, NEW v, DescendUnaimed(p, r, f, v), ~Turns(p, r)
  PROVE  Cycle(desc, p, f, v)
<1>1. desc # NoDescent /\ desc' = Advance(desc, p, f, v)[1]
      /\ cmd' = Target(Advance(desc, p, f, v)[2], Advance(desc, p, f, v)[1])
  BY DEF DescendUnaimed
<1>2. desc \in Descent /\ desc.kind \in Kinds BY <1>1 DEF DescentInv, Descent
<1>3. QED BY <1>1, <1>2 DEF DescentInv, Cycle

LEMMA CycleStep ==
  ASSUME NEW d, NEW p \in Int, NEW f, NEW v \in Int, Cycle(d, p, f, v), pos' \in Int, episode' \in Nat
  PROVE  DescentInv'
<1> DEFINE a == Advance(d, p, f, v)
<1>1. d \in Descent /\ d.kind \in Kinds /\ (Scripted(d) => d.steps <= d.cap)
      /\ (d.kind = "guarded" => d.cap <= TravelCap)
      /\ desc' = a[1] /\ cmd' = Target(a[2], a[1])
  BY DEF Cycle
<1>2. /\ Kept(d, a[1]) /\ a[2] \in Int
      /\ Scripted(d) => a[2] = a[1].anchor + a[1].axis * a[1].steps /\ a[1].steps <= a[1].cap
      /\ d.kind = "specialist" /\ ~a[1].hold => Abs(a[2] - d.anchor) <= d.cap
  BY <1>1, AdvanceKeeps
<1>3. a[1] \in Descent BY <1>2 DEF Kept
<1> HIDE DEF a
<1>4. QED BY <1>1, <1>2, <1>3, CommandedInv

LEMMA DescentStep ==
  ASSUME DescentInv, [DeployNext]_deployVars
  PROVE  DescentInv'
<1>1. ASSUME NoObservation \/ Finish \/ UNCHANGED deployVars PROVE DescentInv'
  <2>1. episode' = episode /\ pos' = pos /\ desc' = desc /\ cmd' = cmd
    BY <1>1 DEF NoObservation, Finish, deployVars, stallVars
  <2>2. QED BY <2>1 DEF DescentInv, Scripted
<1>2. ASSUME NEW p \in Measured, NEW r \in Heard, Approach(p, r) PROVE DescentInv'
  <2>1. episode' = episode /\ pos' = p /\ desc' = desc /\ cmd' = cmd /\ p \in Int
    BY <1>2, Offered DEF Approach, LearnedPath, Sleeps
  <2>2. QED BY <2>1 DEF DescentInv, Scripted
<1>3. ASSUME NEW p \in Measured, NEW r \in Heard, NEW f \in Felt, NEW v \in Drift,
             Handoff(p, r, f, v)
      PROVE  DescentInv'
  BY <1>3, Offered, HandoffStep
<1>4. ASSUME NEW p \in Read, NEW r \in Heard, NEW f \in Felt, NEW v \in Drift,
             Descend(p, r, f, v)
      PROVE  DescentInv'
  <2>1. pos' = p /\ episode' \in Nat /\ p \in Int /\ v \in Int
    BY <1>4, Offered DEF Descend, Sleeps, DescentInv
  <2>2. QED BY <1>4, <2>1, DescendCycle, CycleStep
<1>5. ASSUME NEW p \in Read, NEW r \in Heard, NEW f \in Felt, NEW v \in Drift,
             DescendUnaimed(p, r, f, v)
      PROVE  DescentInv'
  <2>1. p \in Int /\ v \in Int BY <1>5, Offered
  <2>2. CASE Turns(p, r)
    <3>1. episode' = episode /\ pos' = pos /\ desc' = desc /\ cmd' = cmd BY <1>5, <2>2 DEF DescendUnaimed
    <3>2. QED BY <3>1 DEF DescentInv, Scripted
  <2>3. CASE ~Turns(p, r)
    <3>1. pos' = p /\ episode' \in Nat BY <1>5, <2>3 DEF DescendUnaimed, Sleeps, DescentInv
    <3>2. QED BY <1>5, <2>1, <2>3, <3>1, UnaimedCycle, CycleStep
  <2>4. QED BY <2>2, <2>3
<1>6. CASE NextEpisode
  <2>1. episode' \in Nat /\ pos' = 0 /\ desc' = NoDescent /\ cmd' = Target(0, NoDescent)
    BY <1>6 DEF NextEpisode, DescentInv
  <2>2. cmd' \in [at : Int, aim : Nat] BY <2>1, NoDescentType DEF Target
  <2>3. QED BY <2>1, <2>2, NoDescentType DEF DescentInv, Scripted
<1>7. QED BY <1>1, <1>2, <1>3, <1>4, <1>5, <1>6 DEF DeployNext

LEMMA DescentInit == DeployInit => DescentInv
<1> SUFFICES ASSUME DeployInit PROVE DescentInv OBVIOUS
<1>1. episode = 1 /\ pos = 0 /\ desc = NoDescent /\ cmd = Target(0, NoDescent) BY DEF DeployInit
<1>2. cmd \in [at : Int, aim : Nat] BY <1>1, NoDescentType DEF Target
<1>3. QED BY <1>1, <1>2, NoDescentType DEF DescentInv, Scripted

-----------------------------------------------------------------------------
(* The specification *)

\* DescentInv, what a descent is and what it commanded last, holds of the
\* learned policy in every configuration.
THEOREM DescentSound == DeploySpec => []DescentInv
<1>1. DescentInv /\ [DeployNext]_deployVars => DescentInv' BY DescentStep
<1>2. QED BY DescentInit, <1>1, PTL DEF DeploySpec

LEMMA ProductBound ==
  ASSUME NEW x \in Int, NEW a \in {-1, 0, 1}, NEW n \in Nat, NEW c \in Nat, n <= c
  PROVE  Abs((x + a * n) - x) <= c
<1>1. CASE a = 0 BY <1>1 DEF Abs
<1>2. CASE a = 1 BY <1>2 DEF Abs
<1>3. CASE a = -1 BY <1>3 DEF Abs
<1>4. QED BY <1>1, <1>2, <1>3

\* TravelCapped: the commanded travel from the stall pose stays within the
\* cap, whatever the forces, the readings and the specialist's twists.
THEOREM TravelIsCapped == DeploySpec => []TravelCapped
<1>1. DescentInv => TravelCapped
  <2> SUFFICES ASSUME DescentInv, desc.kind # "none", ~(desc.kind = "specialist" /\ desc.hold)
               PROVE  Abs(cmd.at - desc.anchor) <= desc.cap
    BY DEF TravelCapped, DescentInv
  <2>1. desc \in Descent BY DEF DescentInv
  <2>2. CASE desc.kind = "specialist" BY <2>2 DEF DescentInv
  <2>3. CASE Scripted(desc)
    <3>1. cmd.at = desc.anchor + desc.axis * desc.steps /\ desc.steps <= desc.cap
      BY <2>3 DEF DescentInv
    <3>2. desc.anchor \in Int /\ desc.axis \in {-1, 0, 1} /\ desc.steps \in Nat /\ desc.cap \in Nat
      BY <2>1 DEF Descent
    <3>3. QED BY <3>1, <3>2, ProductBound
  <2>4. QED BY <2>1, <2>2, <2>3 DEF Descent, Kinds, Scripted
<1>2. QED BY <1>1, DescentSound, PTL

HoldStep ==
  desc.hold /\ episode' = episode =>
    /\ desc'.hold /\ desc'.steps = desc.steps /\ desc'.contacts = desc.contacts
    /\ desc.kind # "specialist" => cmd'.at = cmd.at
    /\ ~Reaims /\ desc.kind # "specialist" => cmd' = cmd

LEMMA CycleHolds ==
  ASSUME DescentInv, NEW d, NEW p \in Int, NEW f, NEW v \in Int, Cycle(d, p, f, v),
         ~Reaims => d = desc
  PROVE  HoldStep
<1> SUFFICES ASSUME desc.hold PROVE HoldStep BY DEF HoldStep
<1> DEFINE a == Advance(d, p, f, v)
<1>1. /\ d \in Descent /\ d.kind \in Kinds /\ (Scripted(d) => d.steps <= d.cap)
      /\ desc' = a[1] /\ cmd' = Target(a[2], a[1]) /\ d.hold /\ d.kind = desc.kind
      /\ d.anchor = desc.anchor /\ d.axis = desc.axis /\ d.steps = desc.steps
      /\ d.contacts = desc.contacts
  BY DEF Cycle
<1>2. a[1] = d /\ (Scripted(d) => a[2] = d.anchor + d.axis * d.steps)
  BY <1>1, AdvanceKeeps
<1> HIDE DEF a
<1>3. desc'.hold /\ desc'.steps = desc.steps /\ desc'.contacts = desc.contacts BY <1>1, <1>2
<1>4. cmd' = Target(a[2], d) /\ cmd'.at = a[2] /\ cmd'.aim = d.aim BY <1>1, <1>2 DEF Target
<1>5. ASSUME desc.kind # "specialist" PROVE cmd'.at = cmd.at /\ (~Reaims => cmd' = cmd)
  <2>1. Scripted(d) /\ Scripted(desc) BY <1>1, <1>5 DEF Scripted, Kinds
  <2>2. cmd.at = desc.anchor + desc.axis * desc.steps /\ cmd.aim = desc.aim
        /\ cmd \in [at : Int, aim : Nat]
    BY <1>1, <2>1 DEF DescentInv, Kinds
  <2>3. cmd'.at = cmd.at BY <1>1, <1>2, <1>4, <2>1, <2>2
  <2>4. ASSUME ~Reaims PROVE cmd' = cmd
    <3>1. cmd'.aim = cmd.aim BY <1>4, <2>2, <2>4
    <3>2. cmd = [at |-> cmd.at, aim |-> cmd.aim] BY <2>2
    <3>3. cmd' = [at |-> cmd'.at, aim |-> cmd'.aim] BY <1>4 DEF Target
    <3>4. QED BY <2>3, <3>1, <3>2, <3>3
  <2>5. QED BY <2>3, <2>4
<1>6. QED BY <1>3, <1>5 DEF HoldStep

\* HoldIsFrozen: once in HOLD a descent stays there, and a scripted one
\* commands the same pose for the rest of the episode.
THEOREM HoldFrozen == DeploySpec => HoldIsFrozen
<1>1. ASSUME DescentInv, DeployNext PROVE HoldStep
  <2>1. CASE NoObservation \/ Finish
    <3>1. desc' = desc /\ cmd' = cmd BY <2>1 DEF NoObservation, Finish
    <3>2. QED BY <3>1 DEF HoldStep
  <2>2. ASSUME NEW p \in Measured, NEW r \in Heard, Approach(p, r) PROVE HoldStep
    BY <2>2 DEF Approach, HoldStep
  <2>3. ASSUME NEW p \in Measured, NEW r \in Heard, NEW f \in Felt, NEW v \in Drift,
               Handoff(p, r, f, v)
        PROVE  HoldStep
    BY <2>3, NoDescentType DEF Handoff, HoldStep
  <2>4. ASSUME NEW p \in Read, NEW r \in Heard, NEW f \in Felt, NEW v \in Drift,
               Descend(p, r, f, v)
        PROVE  HoldStep
    BY <1>1, <2>4, Offered, DescendCycle, CycleHolds
  <2>5. ASSUME NEW p \in Read, NEW r \in Heard, NEW f \in Felt, NEW v \in Drift,
               DescendUnaimed(p, r, f, v)
        PROVE  HoldStep
    <3>1. CASE Turns(p, r) BY <2>5, <3>1 DEF DescendUnaimed, HoldStep
    <3>2. CASE ~Turns(p, r) BY <1>1, <2>5, <3>2, Offered, UnaimedCycle, CycleHolds
    <3>3. QED BY <3>1, <3>2
  <2>6. CASE NextEpisode BY <1>1, <2>6 DEF NextEpisode, DescentInv, HoldStep
  <2>7. QED BY <1>1, <2>1, <2>2, <2>3, <2>4, <2>5, <2>6 DEF DeployNext
<1>2. DescentInv /\ [DeployNext]_deployVars => [HoldStep]_deployVars BY <1>1
<1>3. QED BY <1>2, DescentSound, PTL DEF DeploySpec, HoldIsFrozen, HoldStep

HandoffOnce ==
  episode' = episode =>
    /\ fired /\ desc = NoDescent => desc' = NoDescent
    /\ desc # NoDescent => desc'.kind = desc.kind /\ step' = step

LEMMA CycleOnce ==
  ASSUME NEW d, NEW p \in Int, NEW f, NEW v \in Int, Cycle(d, p, f, v), desc # NoDescent,
         step' = step
  PROVE  HandoffOnce
<1> DEFINE a == Advance(d, p, f, v)
<1>1. d \in Descent /\ d.kind \in Kinds /\ (Scripted(d) => d.steps <= d.cap)
      /\ desc' = a[1] /\ d.kind = desc.kind
  BY DEF Cycle
<1>2. Kept(d, a[1]) BY <1>1, AdvanceKeeps
<1> HIDE DEF a
<1>3. QED BY <1>1, <1>2 DEF Kept, HandoffOnce

\* OneHandoff: the learned path hands over at most once in an episode, and
\* never drives again after it did.
THEOREM HandsOverOnce == DeploySpec => OneHandoff
<1>1. ASSUME DescentInv, DeployNext PROVE HandoffOnce
  <2>1. CASE NoObservation \/ Finish BY <2>1 DEF NoObservation, Finish, HandoffOnce
  <2>2. ASSUME NEW p \in Measured, NEW r \in Heard, Approach(p, r) PROVE HandoffOnce
    BY <2>2 DEF Approach, HandoffOnce
  <2>3. ASSUME NEW p \in Measured, NEW r \in Heard, NEW f \in Felt, NEW v \in Drift,
               Handoff(p, r, f, v)
        PROVE  HandoffOnce
    BY <2>3 DEF Handoff, Stalls, HandoffOnce
  <2>4. ASSUME NEW p \in Read, NEW r \in Heard, NEW f \in Felt, NEW v \in Drift,
               Descend(p, r, f, v)
        PROVE  HandoffOnce
    <3>1. desc # NoDescent /\ step' = step BY <2>4 DEF Descend
    <3>2. QED BY <1>1, <2>4, <3>1, Offered, DescendCycle, CycleOnce
  <2>5. ASSUME NEW p \in Read, NEW r \in Heard, NEW f \in Felt, NEW v \in Drift,
               DescendUnaimed(p, r, f, v)
        PROVE  HandoffOnce
    <3>1. desc # NoDescent /\ step' = step BY <2>5 DEF DescendUnaimed
    <3>2. CASE Turns(p, r) BY <2>5, <3>1, <3>2 DEF DescendUnaimed, HandoffOnce
    <3>3. CASE ~Turns(p, r) BY <1>1, <2>5, <3>1, <3>3, Offered, UnaimedCycle, CycleOnce
    <3>4. QED BY <3>2, <3>3
  <2>6. CASE NextEpisode BY <1>1, <2>6 DEF NextEpisode, DescentInv, HandoffOnce
  <2>7. QED BY <1>1, <2>1, <2>2, <2>3, <2>4, <2>5, <2>6 DEF DeployNext
<1>2. DescentInv /\ [DeployNext]_deployVars => [HandoffOnce]_deployVars BY <1>1
<1>3. QED BY <1>2, DescentSound, PTL DEF DeploySpec, OneHandoff, HandoffOnce

-----------------------------------------------------------------------------
(* The ensemble *)

\* Every buffered chunk starts a whole number of selections ago.
ChunkInv ==
  /\ episode \in Nat /\ step \in Nat
  /\ ~cfg.ensemble => chunks = {}
  /\ \A c \in chunks :
       /\ c = <<episode, c[2]>> /\ c[2] \in Nat
       /\ \E m \in Nat : m >= 1 /\ c[2] + m * ExecSteps = step /\ m * ExecSteps <= K - 1

LEMMA StepSizes == K \in Nat /\ ExecSteps \in Nat /\ ExecSteps >= 1 /\ ExecSteps <= K
  BY DeployAssumption

LEMMA QuotientBound ==
  ASSUME NEW m \in Nat, NEW n \in Nat, n >= 1, NEW x \in Nat, m * n <= x
  PROVE  m <= x \div n
<1> DEFINE q == x \div n
<1>1. q \in Nat /\ x < (q + 1) * n OBVIOUS
<1> HIDE DEF q
<1>2. SUFFICES ASSUME m >= q + 1 PROVE FALSE BY <1>1 DEF q
<1>3. PICK k \in Nat : m = (q + 1) + k
  <2>1. m - (q + 1) \in Nat BY <1>1, <1>2
  <2>2. m = (q + 1) + (m - (q + 1)) BY <1>1
  <2>3. QED BY <2>1, <2>2
<1>4. m * n = (q + 1) * n + k * n BY <1>1, <1>3
<1>5. k * n \in Nat /\ (q + 1) * n \in Nat /\ m * n \in Nat BY <1>1
<1>6. QED BY <1>1, <1>4, <1>5

LEMMA SelectsStep ==
  ASSUME ChunkInv, Selects, episode' = episode, cfg' = cfg
  PROVE  ChunkInv'
<1>1. step' = step + ExecSteps /\ step' \in Nat BY StepSizes DEF Selects, ChunkInv
<1>2. ~cfg.ensemble => chunks' = {} BY DEF Selects, ChunkInv
<1>3. ASSUME NEW c \in chunks', cfg.ensemble
      PROVE  /\ c = <<episode, c[2]>> /\ c[2] \in Nat
             /\ \E m \in Nat : m >= 1 /\ c[2] + m * ExecSteps = step' /\ m * ExecSteps <= K - 1
  <2>1. c \in chunks \cup {<<episode, step>>} /\ c[2] + K - 1 >= step + ExecSteps
    BY <1>3 DEF Selects, Pruned, Added
  <2>2. CASE c = <<episode, step>>
    <3>1. c[2] = step /\ step \in Nat BY <2>2 DEF ChunkInv
    <3>2. 1 * ExecSteps = ExecSteps BY StepSizes
    <3>3. c[2] + 1 * ExecSteps = step' /\ 1 * ExecSteps <= K - 1
      BY <1>1, <2>1, <3>1, <3>2, StepSizes
    <3>4. QED BY <2>2, <3>1, <3>3
  <2>3. CASE c \in chunks
    <3>1. PICK m \in Nat : m >= 1 /\ c[2] + m * ExecSteps = step BY <2>3 DEF ChunkInv
    <3>2. c = <<episode, c[2]>> /\ c[2] \in Nat /\ step \in Nat BY <2>3 DEF ChunkInv
    <3>3. (m + 1) * ExecSteps = m * ExecSteps + ExecSteps /\ m * ExecSteps \in Nat
      BY StepSizes
    <3>4. c[2] + (m + 1) * ExecSteps = step' BY <1>1, <3>1, <3>2, <3>3, StepSizes
    <3>5. (m + 1) * ExecSteps <= K - 1 BY <1>1, <2>1, <3>1, <3>2, <3>3, StepSizes
    <3>6. QED BY <3>2, <3>4, <3>5
  <2>4. QED BY <2>1, <2>2, <2>3
<1>4. QED BY <1>1, <1>2, <1>3 DEF ChunkInv

LEMMA ChunkStep ==
  ASSUME ChunkInv, [DeployNext]_deployVars
  PROVE  ChunkInv'
<1>1. ASSUME NEW p, NEW r, Approach(p, r) PROVE ChunkInv'
  BY <1>1, SelectsStep DEF Approach, LearnedPath
<1>2. ASSUME episode' = episode, step' = step, chunks' = chunks, cfg' = cfg PROVE ChunkInv'
  BY <1>2 DEF ChunkInv
<1>4. CASE NoObservation \/ Finish \/ UNCHANGED deployVars
  BY <1>2, <1>4 DEF NoObservation, Finish, deployVars
<1>5. ASSUME NEW p, NEW r, NEW f, NEW v, Handoff(p, r, f, v) PROVE ChunkInv'
  BY <1>2, <1>5 DEF Handoff
<1>6. ASSUME NEW p, NEW r, NEW f, NEW v, Descend(p, r, f, v) PROVE ChunkInv'
  BY <1>2, <1>6 DEF Descend
<1>7. ASSUME NEW p, NEW r, NEW f, NEW v, DescendUnaimed(p, r, f, v) PROVE ChunkInv'
  BY <1>2, <1>7 DEF DescendUnaimed
<1>3. CASE NextEpisode BY <1>3 DEF NextEpisode, ChunkInv
<1>8. QED BY <1>1, <1>3, <1>4, <1>5, <1>6, <1>7 DEF DeployNext

LEMMA FreshChunks ==
  ASSUME ChunkInv
  PROVE  EnsembleFresh
<1> DEFINE N == (K - 1) \div ExecSteps
           f == [c \in chunks |-> CHOOSE m \in Nat :
                   m >= 1 /\ c[2] + m * ExecSteps = step /\ m * ExecSteps <= K - 1]
<1>1. ASSUME NEW c \in chunks
      PROVE  /\ f[c] \in Nat /\ f[c] >= 1 /\ c[2] + f[c] * ExecSteps = step
             /\ f[c] * ExecSteps <= K - 1 /\ c[2] \in Nat /\ c = <<episode, c[2]>>
  BY DEF ChunkInv
<1>2. K - 1 \in Nat /\ ExecSteps \in Nat /\ ExecSteps >= 1 BY StepSizes
<1>3. N \in Nat /\ \A m \in Nat : m * ExecSteps <= K - 1 => m <= N BY <1>2, QuotientBound
<1>d. DOMAIN f = chunks OBVIOUS
<1>f. f = [c \in chunks |-> f[c]] OBVIOUS
<1> HIDE DEF f, N
<1>4. \A c \in chunks : f[c] \in 1..N
  <2> SUFFICES ASSUME NEW c \in chunks PROVE f[c] \in 1..N OBVIOUS
  <2>1. f[c] \in Nat /\ f[c] >= 1 /\ f[c] * ExecSteps <= K - 1 BY <1>1
  <2>2. f[c] <= N BY <1>3, <2>1
  <2>3. QED BY <1>3, <2>1, <2>2
<1>5. f \in [chunks -> 1..N] BY <1>4, <1>f
<1>6. ASSUME NEW c \in chunks, NEW d \in chunks, f[c] = f[d] PROVE c = d
  <2> DEFINE x == f[c] * ExecSteps
  <2>1. f[c] \in Nat /\ c[2] \in Nat /\ d[2] \in Nat /\ c[2] + x = step
        /\ d[2] + f[d] * ExecSteps = step
    BY <1>1
  <2>2. x \in Nat /\ f[d] * ExecSteps = x BY <1>2, <1>6, <2>1
  <2> HIDE DEF x
  <2>4. c[2] = d[2] BY <2>1, <2>2
  <2>5. QED BY <1>1, <2>4
<1>7. ASSUME NEW c \in chunks PROVE c[1] = episode /\ Covers(c, step)
  <2> DEFINE x == f[c] * ExecSteps
  <2>1. f[c] \in Nat /\ c[2] + x = step /\ x <= K - 1 /\ c[2] \in Nat /\ c = <<episode, c[2]>>
    BY <1>1
  <2>2. x \in Nat BY <1>2, <2>1
  <2> HIDE DEF x
  <2>3. c[1] = episode BY <2>1
  <2>4. QED BY <2>1, <2>2, <2>3, StepSizes DEF Covers
<1>8. f \in Injection(chunks, 1..N) BY <1>5, <1>6 DEF Injection, IsInjective
<1>9. IsFiniteSet(1..N) /\ Cardinality(1..N) = N BY <1>3, FS_Interval
<1>10. Cardinality(chunks) <= N BY <1>8, <1>9, FS_Injection
<1>11. QED BY <1>7, <1>10 DEF EnsembleFresh, N

LEMMA ChunkInit == DeployInit => ChunkInv
  BY DEF DeployInit, ChunkInv

\* EnsembleFresh: the chunks that are averaged were predicted in this episode
\* and cover the next step, and no more of them are buffered than overlap.
THEOREM EnsembleIsFresh == DeploySpec => []EnsembleFresh
<1>1. ChunkInv /\ [DeployNext]_deployVars => ChunkInv' BY ChunkStep
<1>2. ChunkInv => EnsembleFresh BY FreshChunks
<1>3. QED BY ChunkInit, <1>1, <1>2, PTL DEF DeploySpec

-----------------------------------------------------------------------------
(* The scripted policies *)

\* Which policy is in which loop.
LoopInv ==
  /\ port \in {"sfp", "sc"} /\ seed \in Schedules /\ rows \in RowCounts
  /\ phase = "stage" => UsesPort
  /\ phase = "insert" => sp = "CheatCode"
  /\ phase \in {"near", "retract"} => sp = "DisassembleCode"
  /\ phase = "hover" => sp \in {"Oracle", "Specialist"}
  /\ phase \in {"offset", "correct", "centre"} => sp = "Oracle"
  /\ phase = "learn" => sp = "Specialist"

\* How far a loop has come down.
HeightInv ==
  /\ z \in Int /\ virt \in Int /\ row \in Nat
  /\ phase \in {"hover", "offset", "correct"} => z >= 0

PlaceInv == LoopInv /\ HeightInv

\* A lookup of the staging loop that succeeded has reset the integrators.
FreshInv ==
  /\ phase = "resolve" => ~staged
  /\ phase = "stage" /\ staged => integ = 0
  /\ phase \in {"insert", "near", "hover"} /\ staged => integ \in {0, goal}

-----------------------------------------------------------------------------
(* Heights *)

LEMMA Constants ==
  /\ StageZ \in Nat /\ StageZ > 0 /\ Standoff \in Nat /\ Standoff > 0 /\ CorrectAt \in Nat
  /\ SfpDepth \in Nat /\ ScDepth \in Nat /\ RetractDepth \in Nat /\ LearnDepth \in Nat
  /\ RowCounts \subseteq Nat /\ \A n \in RowCounts : n >= 2
  /\ Span \in Nat /\ Span > 0 /\ Lifts \subseteq 1..Span - 1
  /\ Coarse \in Nat /\ ScDepth < RetractDepth /\ RetractDepth < SfpDepth
  /\ SfpDepth < LearnDepth
  BY ScriptedAssumption

LEMMA LargerBounds ==
  ASSUME NEW a \in Int, NEW b \in Int
  PROVE  Larger(a, b) \in Int /\ Larger(a, b) >= a /\ Larger(a, b) >= b
  BY DEF Larger

\* What np.linspace returns between rising ends is above the first of them.
LEMMA LinspaceAbove ==
  ASSUME NEW a \in Int, NEW b \in Int, a <= b, NEW n \in Nat, n >= 1, NEW k \in Nat
  PROVE  Linspace(a, b, n, k) \in Int /\ Linspace(a, b, n, k) >= a
<1>1. CASE n = 1 BY <1>1 DEF Linspace
<1>2. CASE n > 1
  <2>1. b - a \in Nat /\ n - 1 \in Nat /\ n - 1 > 0 BY <1>2
  <2>2. (b - a) * k \in Nat BY <2>1
  <2>3. \A x, y \in Nat : y > 0 => x \div y \in Nat OBVIOUS
  <2>4. ((b - a) * k) \div (n - 1) \in Nat BY <2>1, <2>2, <2>3
  <2>5. Linspace(a, b, n, k) = a + ((b - a) * k) \div (n - 1) BY <1>2 DEF Linspace
  <2>6. QED BY <2>4, <2>5
<1>3. QED BY <1>1, <1>2

LEMMA ThirdBounds ==
  ASSUME rows \in RowCounts
  PROVE  /\ Third \in Nat /\ Third >= 1 /\ TransRows \in Nat
         /\ rows - Third - TransRows \in Nat /\ rows - Third - TransRows >= 1
<1>1. rows \in Nat /\ rows >= 2 BY Constants
<1>2. rows \div 3 \in Nat /\ 3 * (rows \div 3) <= rows BY <1>1
<1>3. Third \in Nat /\ Third >= 1 /\ (Third = 1 \/ Third = rows \div 3)
  BY <1>2 DEF Third, Larger
<1>4. CASE rows - 2 * Third < 1
  <2>1. TransRows = rows - Third - 1 BY <1>4 DEF TransRows
  <2>2. Third <= rows - 1 BY <1>1, <1>2, <1>3
  <2>3. QED BY <1>1, <1>3, <2>1, <2>2
<1>5. CASE ~(rows - 2 * Third < 1)
  <2>1. TransRows = Third BY <1>5 DEF TransRows
  <2>2. QED BY <1>1, <1>3, <1>5, <2>1
<1>6. QED BY <1>4, <1>5

\* The retract schedule goes up.
LEMMA RowHeights ==
  ASSUME seed \in Schedules, rows \in RowCounts, NEW i \in Nat, i < rows
  PROVE  Offset(i).z \in Int /\ Offset(i).z >= 0
<1>1. rows \in Nat /\ rows >= 1 BY Constants
<1>2. CASE seed = 0
  <2>1. Offset(i).z = Linspace(0, Span, rows, i) BY <1>2 DEF Offset, SpiralOffset
  <2>2. QED BY <1>1, <2>1, LinspaceAbove, Constants
<1>3. CASE seed # 0
  <2>1. seed \in Nat /\ seed < Span BY <1>3, Constants DEF Schedules
  <2>2. Offset(i) = LiftOffset(i) BY <1>3 DEF Offset
  <2>3. CASE i < Third
    <3>1. Offset(i).z = Linspace(0, seed, Third, i) BY <2>2, <2>3 DEF LiftOffset
    <3>2. 0 \in Int /\ seed \in Int /\ 0 <= seed /\ Third \in Nat /\ Third >= 1
      BY <2>1, ThirdBounds
    <3>3. QED BY <3>1, <3>2, LinspaceAbove
  <2>4. CASE ~(i < Third) /\ i < Third + TransRows
    <3>1. Offset(i).z = seed BY <2>2, <2>4 DEF LiftOffset
    <3>2. QED BY <2>1, <3>1
  <2>5. CASE ~(i < Third) /\ ~(i < Third + TransRows)
    <3>1. Offset(i).z = Linspace(seed, Span, rows - Third - TransRows, i - Third - TransRows)
      BY <2>2, <2>5 DEF LiftOffset
    <3>2. i - Third - TransRows \in Nat BY <1>1, <2>5, ThirdBounds
    <3>3. rows - Third - TransRows \in Nat /\ rows - Third - TransRows >= 1 BY ThirdBounds
    <3>4. seed \in Int /\ Span \in Int /\ seed <= Span BY <2>1, Constants
    <3>5. Offset(i).z \in Int /\ Offset(i).z >= seed
      BY <3>1, <3>2, <3>3, <3>4, LinspaceAbove
    <3>6. QED BY <2>1, <3>5
  <2>6. QED BY <2>3, <2>4, <2>5
<1>4. QED BY <1>2, <1>3

-----------------------------------------------------------------------------
(* The invariants *)

LEMMA LoopStep ==
  ASSUME LoopInv, [ScriptedNext]_scriptedVars
  PROVE  LoopInv'
<1> USE DEF LoopInv, UsesPort, At, Goto, Ends
<1>1. CASE Resolve BY <1>1 DEF Resolve
<1>2. CASE Stage
  <2>1. /\ sp' = sp /\ port' = port /\ seed' = seed /\ rows' = rows /\ UsesPort
        /\ phase' \in {"stage", AfterStage}
    BY <1>2 DEF Stage
  <2>2. /\ AfterStage = "insert" => sp = "CheatCode"
        /\ AfterStage = "near" => sp = "DisassembleCode"
        /\ AfterStage = "hover" => sp \in {"Oracle", "Specialist"}
        /\ AfterStage \in {"insert", "near", "hover"}
    BY <2>1 DEF AfterStage
  <2>3. QED BY <2>1, <2>2
<1>3. CASE InsertStep BY <1>3 DEF InsertStep
<1>4. CASE NearStep BY <1>4 DEF NearStep
<1>5. CASE RetractStep BY <1>5 DEF RetractStep
<1>6. CASE HoverStep BY <1>6 DEF HoverStep
<1>7. CASE OffsetStep BY <1>7 DEF OffsetStep
<1>8. CASE CorrectStep BY <1>8 DEF CorrectStep
<1>9. CASE CentreStep BY <1>9 DEF CentreStep
<1>10. CASE LearnWait BY <1>10 DEF LearnWait
<1>11. ASSUME NEW v \in -1..1, NEW f \in Forces, LearnStep(v, f) PROVE LoopInv'
  BY <1>11 DEF LearnStep
<1>12. CASE RunACT \/ WaveArm BY <1>12 DEF RunACT, WaveArm, TimedLoop
<1>13. CASE JointScript BY <1>13 DEF JointScript
<1>14. CASE NextGoal BY <1>14 DEF NextGoal
<1>15. CASE UNCHANGED scriptedVars BY <1>15 DEF scriptedVars, placeVars
<1>16. QED
  BY <1>1, <1>2, <1>3, <1>4, <1>5, <1>6, <1>7, <1>8, <1>9, <1>10, <1>11, <1>12, <1>13,
     <1>14, <1>15 DEF ScriptedNext, ScriptedStep

LEMMA LearnHeight ==
  ASSUME NEW v \in -1..1, virt \in Int
  PROVE  Larger(virt + v, LearnFloor) \in Int /\ Larger(virt + v, LearnFloor) >= LearnFloor
<1>1. LearnFloor \in Int BY Constants DEF LearnFloor
<1>2. QED BY <1>1, LargerBounds

LEMMA HoverHeight ==
  ASSUME z \in Int
  PROVE  LET h == Larger(Standoff, z - (IF port = "sc" THEN 1 ELSE Coarse))
         IN  h \in Int /\ h >= Standoff
<1>1. z - (IF port = "sc" THEN 1 ELSE Coarse) \in Int BY Constants
<1>2. Standoff \in Int BY Constants
<1>3. QED BY <1>1, <1>2, LargerBounds

LEMMA HeightStep ==
  ASSUME HeightInv, [ScriptedNext]_scriptedVars
  PROVE  HeightInv'
<1> USE DEF HeightInv, At, Goto, Ends
<1>1. CASE Resolve BY <1>1 DEF Resolve
<1>2. CASE Stage
  <2>1. StageZ \in Int /\ StageZ >= 0 BY Constants
  <2>2. z' = StageZ /\ virt' = virt BY <1>2 DEF Stage
  <2>3. row' \in {row + 1, 0} BY <1>2 DEF Stage
  <2>4. QED BY <2>1, <2>2, <2>3
<1>3. CASE InsertStep
  <2>1. z' \in {z, z - 1} /\ virt' = virt /\ row' = row /\ phase' \in {"insert", "done"}
    BY <1>3 DEF InsertStep
  <2>2. QED BY <2>1
<1>4. CASE NearStep
  <2>1. z - 1 \in Int /\ RetractStart \in Int BY Constants DEF RetractStart
  <2>2. Larger(RetractStart, z - 1) \in Int BY <2>1, LargerBounds
  <2>3. z' \in {z, Larger(RetractStart, z - 1)} /\ virt' = virt /\ row' \in {row, 0}
        /\ phase' \in {"near", "retract"}
    BY <1>4 DEF NearStep
  <2>4. QED BY <2>2, <2>3
<1>5. CASE RetractStep
  <2>1. z' = z /\ virt' = virt /\ row' \in {row, row + 1} /\ phase' \in {"retract", "done"}
    BY <1>5 DEF RetractStep
  <2>2. QED BY <2>1
<1>6. CASE HoverStep
  <2>1. Larger(Standoff, z - (IF port = "sc" THEN 1 ELSE Coarse)) \in Nat
    BY HoverHeight, Constants
  <2>2. Standoff \in Int BY Constants
  <2>3. /\ z' \in {z, Larger(Standoff, z - (IF port = "sc" THEN 1 ELSE Coarse))}
        /\ virt' \in {virt, Standoff} /\ row' \in {row, 0} /\ phase = "hover"
    BY <1>6 DEF HoverStep
  <2>4. QED BY <2>1, <2>2, <2>3
<1>7. CASE OffsetStep
  <2>1. CorrectAt \in Nat BY Constants
  <2>2. /\ z' = z \/ (z > CorrectAt /\ z' = z - 1)
        /\ virt' = virt /\ row' \in {row, 0} /\ phase = "offset"
    BY <1>7 DEF OffsetStep
  <2>3. QED BY <2>1, <2>2
<1>8. CASE CorrectStep
  <2>1. z' = z /\ virt' = virt /\ row' \in {row + 1, 0} /\ phase = "correct"
    BY <1>8 DEF CorrectStep
  <2>2. QED BY <2>1
<1>9. CASE CentreStep
  <2>1. z' \in {z, z - 1} /\ virt' = virt /\ row' = row /\ phase' \in {"centre", "done"}
    BY <1>9 DEF CentreStep
  <2>2. QED BY <2>1
<1>10. CASE LearnWait BY <1>10 DEF LearnWait
<1>11. ASSUME NEW v \in -1..1, NEW f \in Forces, LearnStep(v, f) PROVE HeightInv'
  <2>1. virt' \in Int BY <1>11, LearnHeight DEF LearnStep
  <2>2. z' = z /\ row' \in Nat /\ phase' = "learn" BY <1>11 DEF LearnStep
  <2>3. QED BY <2>1, <2>2
<1>12. CASE RunACT \/ WaveArm BY <1>12 DEF RunACT, WaveArm, TimedLoop
<1>13. CASE JointScript BY <1>13 DEF JointScript
<1>14. CASE NextGoal
  <2>1. StageZ \in Int BY Constants
  <2>2. QED BY <1>14, <2>1 DEF NextGoal
<1>15. CASE UNCHANGED scriptedVars BY <1>15 DEF scriptedVars, placeVars
<1>16. QED
  BY <1>1, <1>2, <1>3, <1>4, <1>5, <1>6, <1>7, <1>8, <1>9, <1>10, <1>11, <1>12, <1>13,
     <1>14, <1>15 DEF ScriptedNext, ScriptedStep

LEMMA FreshStep ==
  ASSUME PlaceInv, FreshInv, [ScriptedNext]_scriptedVars
  PROVE  FreshInv'
<1> USE DEF FreshInv, At, Goto, Ends, Command, Sent, Silent
<1>1. CASE Resolve BY <1>1 DEF Resolve
<1>2. CASE Stage BY <1>2 DEF Stage, AfterStage
<1>3. CASE InsertStep BY <1>3 DEF InsertStep
<1>4. CASE NearStep BY <1>4 DEF NearStep
<1>5. CASE RetractStep BY <1>5 DEF RetractStep
<1>6. CASE HoverStep BY <1>6 DEF HoverStep
<1>7. CASE OffsetStep BY <1>7 DEF OffsetStep
<1>8. CASE CorrectStep BY <1>8 DEF CorrectStep
<1>9. CASE CentreStep BY <1>9 DEF CentreStep
<1>10. CASE LearnWait BY <1>10 DEF LearnWait
<1>11. ASSUME NEW v \in -1..1, NEW f \in Forces, LearnStep(v, f) PROVE FreshInv'
  BY <1>11 DEF LearnStep
<1>12. CASE RunACT \/ WaveArm BY <1>12 DEF RunACT, WaveArm, TimedLoop
<1>13. CASE JointScript BY <1>13 DEF JointScript
<1>14. CASE NextGoal BY <1>14 DEF NextGoal
<1>15. CASE UNCHANGED scriptedVars BY <1>15 DEF scriptedVars, placeVars
<1>16. QED
  BY <1>1, <1>2, <1>3, <1>4, <1>5, <1>6, <1>7, <1>8, <1>9, <1>10, <1>11, <1>12, <1>13,
     <1>14, <1>15 DEF ScriptedNext, ScriptedStep

-----------------------------------------------------------------------------
(* Depth *)

\* The height of a command that was sent.
LEMMA CommandHeight ==
  ASSUME NEW h, NEW l, NEW r, Command(h, l, r), tip' # tip
  PROVE  tip'.z = h
  BY DEF Command, Sent, Silent

LEMMA DepthStep ==
  ASSUME PlaceInv, ScriptedNext, tip' # tip
  PROVE  tip'.z >= Deepest
<1>d. /\ Floor \in Int /\ Floor <= 0
      /\ RetractStart \in Int /\ RetractStart < 0 /\ LearnFloor \in Int /\ LearnFloor < Floor
      /\ Deepest \in Int /\ Deepest <= 0
  BY Constants DEF PlaceInv, LoopInv, Floor, RetractStart, LearnFloor, Deepest
<1>1. CASE Stage
  <2>1. tip'.z = StageZ BY <1>1 DEF Stage, Sent, Silent
  <2>2. QED BY <1>d, <2>1, Constants
<1>2. CASE InsertStep
  <2>1. sp = "CheatCode" /\ z \in Int BY <1>2 DEF InsertStep, At, PlaceInv, LoopInv, HeightInv
  <2>2. ~(z < Floor) /\ Command(z - 1, 0, FALSE) BY <1>2 DEF InsertStep, Silent
  <2>3. tip'.z = z - 1 BY <2>2, CommandHeight
  <2>4. Deepest = Floor - 1 BY <2>1 DEF Deepest
  <2>5. QED BY <1>d, <2>1, <2>2, <2>3, <2>4
<1>3. CASE NearStep
  <2>1. sp = "DisassembleCode" /\ z \in Int BY <1>3 DEF NearStep, At, PlaceInv, LoopInv, HeightInv
  <2>2. Command(Larger(RetractStart, z - 1), 0, FALSE) BY <1>3 DEF NearStep, Silent
  <2>3. tip'.z = Larger(RetractStart, z - 1) BY <2>2, CommandHeight
  <2>4. Deepest = RetractStart BY <2>1 DEF Deepest
  <2>5. QED BY <1>d, <2>1, <2>3, <2>4, LargerBounds
<1>4. CASE RetractStep
  <2>1. sp = "DisassembleCode" BY <1>4 DEF RetractStep, At, PlaceInv, LoopInv, HeightInv
  <2>2. row < rows /\ Command(RetractStart + Offset(row).z, Offset(row).lat, TRUE)
    BY <1>4 DEF RetractStep, Silent
  <2>3. tip'.z = RetractStart + Offset(row).z BY <2>2, CommandHeight
  <2>4. Deepest = RetractStart BY <2>1 DEF Deepest
  <2>5. Offset(row).z \in Int /\ Offset(row).z >= 0
    BY <2>2, RowHeights DEF PlaceInv, LoopInv, HeightInv
  <2>6. QED BY <1>d, <2>3, <2>4, <2>5
<1>5. CASE HoverStep
  <2>1. z \in Int BY DEF PlaceInv, HeightInv
  <2>2. PICK h \in Int : h >= Standoff /\ Command(h, LatOffset, FALSE)
    BY <1>5, <2>1, HoverHeight DEF HoverStep, Silent
  <2>3. tip'.z = h BY <2>2, CommandHeight
  <2>4. QED BY <1>d, <2>2, <2>3, Constants
<1>6. CASE OffsetStep
  <2>1. z \in Int BY DEF PlaceInv, HeightInv
  <2>2. z > CorrectAt /\ Command(z - 1, LatOffset, FALSE) BY <1>6 DEF OffsetStep, Silent
  <2>3. tip'.z = z - 1 BY <2>2, CommandHeight
  <2>4. QED BY <1>d, <2>1, <2>2, <2>3, Constants
<1>7. CASE CorrectStep
  <2>1. z \in Int /\ z >= 0 BY <1>7 DEF CorrectStep, At, PlaceInv, LoopInv, HeightInv
  <2>2. tip'.z = z BY <1>7, CommandHeight DEF CorrectStep
  <2>3. QED BY <1>d, <2>1, <2>2
<1>8. CASE CentreStep
  <2>1. z \in Int /\ sp = "Oracle" BY <1>8 DEF CentreStep, At, PlaceInv, LoopInv, HeightInv
  <2>2. z > Floor /\ Command(z - 1, 0, FALSE) BY <1>8 DEF CentreStep, Silent
  <2>3. tip'.z = z - 1 BY <2>2, CommandHeight
  <2>4. Deepest = Floor BY <2>1 DEF Deepest
  <2>5. QED BY <1>d, <2>1, <2>2, <2>3, <2>4
<1>9. ASSUME NEW v \in -1..1, NEW f \in Forces, LearnStep(v, f) PROVE tip'.z >= Deepest
  <2>1. sp = "Specialist" BY <1>9 DEF LearnStep, At, PlaceInv, LoopInv, HeightInv
  <2>2. tip'.z = Larger(virt + v, LearnFloor) BY <1>9, CommandHeight DEF LearnStep
  <2>3. virt + v \in Int BY DEF PlaceInv, HeightInv
  <2>4. Deepest = LearnFloor BY <2>1 DEF Deepest
  <2>5. QED BY <1>d, <2>2, <2>3, <2>4, LargerBounds
<1>10. CASE Resolve \/ LearnWait \/ RunACT \/ WaveArm \/ JointScript \/ NextGoal
  BY <1>10 DEF Resolve, LearnWait, RunACT, WaveArm, TimedLoop, JointScript, NextGoal, Silent
<1>11. QED
  BY <1>1, <1>2, <1>3, <1>4, <1>5, <1>6, <1>7, <1>8, <1>9, <1>10 DEF ScriptedNext, ScriptedStep

-----------------------------------------------------------------------------
(* Sideways motion *)

\* Until it has corrected, the oracle is no lower than where it corrects; and
\* in a retract the tip is where the schedule's row commanded last put it.
SideInv ==
  /\ phase = "hover" => z >= Standoff
  /\ phase \in {"offset", "correct"} => CorrectAt > 0 /\ z >= CorrectAt
  /\ phase \in {"resolve", "stage", "near"} => sent = 0
  /\ phase = "retract" => sent \in 0..row
  /\ phase = "retract" /\ sent # 0 =>
       tip.z = RetractStart + Offset(sent - 1).z /\ tip.lat = Offset(sent - 1).lat

LEMMA DivBounds ==
  ASSUME NEW x \in Nat, NEW m \in Nat, m > 0
  PROVE  x \div m \in Nat /\ (x \div m) * m <= x /\ x < (x \div m) * m + m
  OBVIOUS

LEMMA DivRises ==
  ASSUME NEW x \in Nat, NEW y \in Nat, NEW m \in Nat, m > 0, x <= y
  PROVE  x \div m <= y \div m
<1> DEFINE p == x \div m
           q == y \div m
<1>1. p \in Nat /\ q \in Nat /\ p * m <= x /\ y < q * m + m BY DivBounds
<1> HIDE DEF p, q
<1>2. SUFFICES ASSUME p >= q + 1 PROVE FALSE BY <1>1 DEF p, q
<1>3. p * m >= (q + 1) * m
  <2>1. \A d \in Nat : (q + 1 + d) * m >= (q + 1) * m BY <1>1
  <2>2. p - (q + 1) \in Nat /\ q + 1 + (p - (q + 1)) = p BY <1>1, <1>2
  <2>3. QED BY <2>1, <2>2
<1>4. (q + 1) * m = q * m + m BY <1>1
<1>5. QED BY <1>1, <1>3, <1>4

\* Between rising ends np.linspace rises, and up to its last value it is below
\* the upper end.
LEMMA LinspaceRises ==
  ASSUME NEW a \in Int, NEW b \in Int, a <= b, NEW n \in Nat, n >= 1,
         NEW i \in Nat, NEW j \in Nat, i <= j
  PROVE  Linspace(a, b, n, i) <= Linspace(a, b, n, j)
<1>1. CASE n = 1 BY <1>1 DEF Linspace
<1>2. CASE n > 1
  <2>1. b - a \in Nat /\ n - 1 \in Nat /\ n - 1 > 0 BY <1>2
  <2>2. (b - a) * i \in Nat /\ (b - a) * j \in Nat /\ (b - a) * i <= (b - a) * j
    <3>1. \A c, d \in Nat : c * i \in Nat /\ c * d \in Nat /\ c * i <= c * (i + d) OBVIOUS
    <3>2. j - i \in Nat /\ i + (j - i) = j OBVIOUS
    <3>3. QED BY <2>1, <3>1, <3>2
  <2>3. ((b - a) * i) \div (n - 1) <= ((b - a) * j) \div (n - 1) BY <2>1, <2>2, DivRises
  <2>4. /\ ((b - a) * i) \div (n - 1) \in Nat
        /\ ((b - a) * j) \div (n - 1) \in Nat
    BY <2>1, <2>2, DivBounds
  <2>5. /\ Linspace(a, b, n, i) = a + ((b - a) * i) \div (n - 1)
        /\ Linspace(a, b, n, j) = a + ((b - a) * j) \div (n - 1)
    BY <1>2 DEF Linspace
  <2>6. QED BY <2>3, <2>4, <2>5
<1>3. QED BY <1>1, <1>2

LEMMA LinspaceLast ==
  ASSUME NEW a \in Int, NEW b \in Int, a <= b, NEW n \in Nat, n > 1
  PROVE  Linspace(a, b, n, n - 1) = b
<1>1. b - a \in Nat /\ n - 1 \in Nat /\ n - 1 > 0 OBVIOUS
<1>2. \A c, m \in Nat : m > 0 => (c * m) \div m = c OBVIOUS
<1>3. ((b - a) * (n - 1)) \div (n - 1) = b - a BY <1>1, <1>2
<1>4. Linspace(a, b, n, n - 1) = a + ((b - a) * (n - 1)) \div (n - 1) BY DEF Linspace
<1>5. QED BY <1>1, <1>3, <1>4

LEMMA LinspaceBelow ==
  ASSUME NEW a \in Int, NEW b \in Int, a <= b, NEW n \in Nat, n >= 1, NEW k \in Nat, k < n
  PROVE  Linspace(a, b, n, k) <= b
<1>1. CASE n = 1 BY <1>1 DEF Linspace
<1>2. CASE n > 1
  <2>1. Linspace(a, b, n, k) <= Linspace(a, b, n, n - 1)
    <3>1. n - 1 \in Nat /\ k <= n - 1 OBVIOUS
    <3>2. QED BY <3>1, LinspaceRises
  <2>2. Linspace(a, b, n, n - 1) = b BY <1>2, LinspaceLast
  <2>3. QED BY <2>1, <2>2
<1>3. QED BY <1>1, <1>2

LEMMA TransLength == ASSUME rows \in RowCounts PROVE Third + TransRows <= rows
  BY ThirdBounds, Constants

\* The three parts of a lift-translate schedule.
LEMMA LiftParts ==
  ASSUME seed \in Lifts, rows \in RowCounts, NEW i \in Nat, i < rows
  PROVE  /\ Offset(i).z \in Int /\ Offset(i).lat \in Int
         /\ i < Third => Offset(i).z <= seed /\ Offset(i).lat = 0
         /\ i >= Third => Offset(i).z >= seed /\ Offset(i).lat >= 0
         /\ i >= Third /\ i < Third + TransRows => Offset(i).z = seed /\ Offset(i).lat <= LatMax
         /\ i >= Third + TransRows => Offset(i).lat = LatMax
<1>1. /\ seed \in Nat /\ seed # 0 /\ seed \in Int /\ seed <= Span
      /\ Span \in Int /\ LatMax \in Nat /\ LatMax \in Int /\ rows \in Nat
  BY Constants, ScriptedAssumption
<1>2. /\ Third \in Nat /\ Third >= 1 /\ TransRows \in Nat
      /\ rows - Third - TransRows \in Nat /\ rows - Third - TransRows >= 1
  BY ThirdBounds
<1>3. Offset(i) = LiftOffset(i) BY <1>1 DEF Offset
<1>4. CASE i < Third
  <2>1. Offset(i).z = Linspace(0, seed, Third, i) /\ Offset(i).lat = 0
    BY <1>3, <1>4 DEF LiftOffset
  <2>2. Offset(i).z \in Int /\ Offset(i).z <= seed
    <3>1. 0 \in Int /\ 0 <= seed BY <1>1
    <3>2. /\ Linspace(0, seed, Third, i) \in Int
          /\ Linspace(0, seed, Third, i) <= seed
      BY <1>1, <1>2, <1>4, <3>1, LinspaceAbove, LinspaceBelow
    <3>3. QED BY <2>1, <3>2
  <2>3. ~(i >= Third) /\ ~(i >= Third + TransRows) BY <1>2, <1>4
  <2>4. QED BY <2>1, <2>2, <2>3
<1>5. CASE i >= Third /\ i < Third + TransRows
  <2>1. ~(i < Third) /\ i - Third \in Nat /\ i - Third < TransRows /\ TransRows >= 1
    BY <1>2, <1>5
  <2>2. Offset(i).z = seed /\ Offset(i).lat = Linspace(0, LatMax, TransRows, i - Third)
    BY <1>3, <1>5, <2>1 DEF LiftOffset
  <2>3. /\ Linspace(0, LatMax, TransRows, i - Third) \in Int
        /\ Linspace(0, LatMax, TransRows, i - Third) >= 0
        /\ Linspace(0, LatMax, TransRows, i - Third) <= LatMax
    <3>1. 0 \in Int /\ 0 <= LatMax BY <1>1
    <3>2. QED BY <1>1, <1>2, <2>1, <3>1, LinspaceAbove, LinspaceBelow
  <2>4. QED BY <1>1, <1>2, <1>5, <2>1, <2>2, <2>3
<1>6. CASE i >= Third + TransRows
  <2>1. /\ ~(i < Third) /\ ~(i < Third + TransRows)
        /\ i - Third - TransRows \in Nat
    BY <1>2, <1>6
  <2>2. /\ Offset(i).z = Linspace(seed, Span, rows - Third - TransRows, i - Third - TransRows)
        /\ Offset(i).lat = LatMax
    BY <1>3, <2>1 DEF LiftOffset
  <2>3. Offset(i).z \in Int /\ Offset(i).z >= seed
    BY <1>1, <1>2, <2>1, <2>2, LinspaceAbove
  <2>4. QED BY <1>1, <2>1, <2>2, <2>3
<1>7. QED BY <1>2, <1>4, <1>5, <1>6

\* Row after row a schedule goes out and away from the axis.
LEMMA OffsetRises ==
  ASSUME seed \in Schedules, rows \in RowCounts,
         NEW i \in Nat, NEW j \in Nat, i <= j, j < rows
  PROVE  Offset(i).z <= Offset(j).z /\ Offset(i).lat <= Offset(j).lat
<1>1. /\ Span \in Int /\ Span >= 0 /\ LatMax \in Int /\ LatMax >= 0
      /\ rows \in Nat /\ rows >= 1 /\ i < rows
  BY Constants, ScriptedAssumption
<1>2. CASE seed = 0
  <2>1. /\ Offset(i).z = Linspace(0, Span, rows, i) /\ Offset(i).lat = Linspace(0, LatMax, rows, i)
        /\ Offset(j).z = Linspace(0, Span, rows, j) /\ Offset(j).lat = Linspace(0, LatMax, rows, j)
    BY <1>2 DEF Offset, SpiralOffset
  <2>2. QED BY <1>1, <2>1, LinspaceRises
<1>3. CASE seed # 0
  <2>1. seed \in Lifts /\ seed \in Nat /\ seed \in Int /\ seed <= Span
    BY <1>3, Constants DEF Schedules
  <2>2. /\ Third \in Nat /\ Third >= 1 /\ TransRows \in Nat
        /\ rows - Third - TransRows \in Nat /\ rows - Third - TransRows >= 1
    BY ThirdBounds
  <2>3. \A k \in Nat : Offset(k) = LiftOffset(k) BY <1>3 DEF Offset
  <2>4. CASE j < Third
    <3>1. /\ Offset(i).z = Linspace(0, seed, Third, i) /\ Offset(i).lat = 0
          /\ Offset(j).z = Linspace(0, seed, Third, j) /\ Offset(j).lat = 0
      BY <2>2, <2>3, <2>4 DEF LiftOffset
    <3>2. QED BY <2>1, <2>2, <3>1, LinspaceRises
  <2>5. CASE i < Third /\ j >= Third
    <3>1. /\ Offset(i).z \in Int /\ Offset(i).z <= seed /\ Offset(i).lat = 0
          /\ Offset(j).z \in Int /\ Offset(j).z >= seed /\ Offset(j).lat >= 0
      BY <1>1, <2>1, <2>5, LiftParts
    <3>2. QED BY <2>1, <3>1
  <2>6. CASE i >= Third /\ j < Third + TransRows
    <3>1. /\ i - Third \in Nat /\ j - Third \in Nat /\ i - Third <= j - Third
          /\ TransRows >= 1 /\ i < Third + TransRows /\ ~(i < Third) /\ ~(j < Third)
      BY <2>2, <2>6
    <3>2. /\ Offset(i).z = seed /\ Offset(i).lat = Linspace(0, LatMax, TransRows, i - Third)
          /\ Offset(j).z = seed /\ Offset(j).lat = Linspace(0, LatMax, TransRows, j - Third)
      BY <2>3, <2>6, <3>1 DEF LiftOffset
    <3>3. QED BY <1>1, <2>1, <2>2, <3>1, <3>2, LinspaceRises
  <2>7. CASE i >= Third /\ i < Third + TransRows /\ j >= Third + TransRows
    <3>1. /\ Offset(i).z = seed /\ Offset(i).lat <= LatMax
          /\ Offset(j).z >= seed /\ Offset(j).lat = LatMax
      BY <1>1, <2>1, <2>2, <2>7, LiftParts
    <3>2. QED BY <3>1
  <2>8. CASE i >= Third + TransRows
    <3>1. /\ i - Third - TransRows \in Nat /\ j - Third - TransRows \in Nat
          /\ i - Third - TransRows <= j - Third - TransRows
          /\ ~(i < Third) /\ ~(i < Third + TransRows) /\ ~(j < Third) /\ ~(j < Third + TransRows)
      BY <2>2, <2>8
    <3>2. /\ Offset(i).z = Linspace(seed, Span, rows - Third - TransRows, i - Third - TransRows)
          /\ Offset(i).lat = LatMax
          /\ Offset(j).z = Linspace(seed, Span, rows - Third - TransRows, j - Third - TransRows)
          /\ Offset(j).lat = LatMax
      BY <2>3, <3>1 DEF LiftOffset
    <3>3. QED BY <1>1, <2>1, <2>2, <3>1, <3>2, LinspaceRises
  <2>9. QED BY <2>2, <2>4, <2>5, <2>6, <2>7, <2>8
<1>4. QED BY <1>2, <1>3

\* A row of a spiral is off axis by its share of the radius.
LEMMA SpiralShare ==
  ASSUME rows \in RowCounts, NEW i \in Nat, i < rows
  PROVE  SpiralOffset(i).lat * Span <= LatMax * (SpiralOffset(i).z + 1)
<1> DEFINE m == rows - 1
           p == (LatMax * i) \div m
           q == (Span * i) \div m
<1>1. Span \in Nat /\ LatMax \in Nat /\ rows \in Nat /\ rows > 1 /\ m \in Nat /\ m > 0
  BY Constants, ScriptedAssumption
<1>2. LatMax * i \in Nat /\ Span * i \in Nat
  <2>1. \A c, d \in Nat : c * d \in Nat OBVIOUS
  <2>2. QED BY <1>1, <2>1
<1>3. /\ p \in Nat /\ p * m <= LatMax * i
      /\ q \in Nat /\ Span * i < q * m + m
  BY <1>1, <1>2, DivBounds
<1>4. SpiralOffset(i).lat = p /\ SpiralOffset(i).z = q
  <2>1. rows # 1 /\ LatMax - 0 = LatMax /\ Span - 0 = Span /\ 0 + p = p /\ 0 + q = q
    BY <1>1, <1>3
  <2>2. QED BY <2>1 DEF SpiralOffset, Linspace
<1> HIDE DEF m, p, q
<1>5. p * Span <= LatMax * (q + 1)
  <2>1. \A u, v, w \in Nat : u <= v => w * u <= w * v
    <3>1. \A u, d, w \in Nat : w * u <= w * (u + d) OBVIOUS
    <3>2. \A u, v \in Nat : u <= v => v - u \in Nat /\ u + (v - u) = v OBVIOUS
    <3>3. QED BY <3>1, <3>2
  <2>2. \A c, d \in Nat : c * d \in Nat OBVIOUS
  <2>3. Span * (p * m) <= Span * (LatMax * i) BY <1>1, <1>2, <1>3, <2>1, <2>2
  <2>4. LatMax * (Span * i) <= LatMax * ((q + 1) * m)
    <3>1. (q + 1) * m = q * m + m /\ (q + 1) * m \in Nat BY <1>1, <1>3, <2>2
    <3>2. Span * i <= (q + 1) * m BY <1>1, <1>2, <1>3, <3>1
    <3>3. QED BY <1>1, <1>2, <2>1, <3>1, <3>2
  <2>5. Span * (LatMax * i) = LatMax * (Span * i) BY <1>1
  <2>6. (p * Span) * m <= (LatMax * (q + 1)) * m
    <3>1. (p * Span) * m = Span * (p * m) BY <1>1, <1>3
    <3>2. (LatMax * (q + 1)) * m = LatMax * ((q + 1) * m) BY <1>1, <1>3
    <3>3. /\ Span * (p * m) \in Nat /\ Span * (LatMax * i) \in Nat
          /\ LatMax * ((q + 1) * m) \in Nat
      <4>1. q + 1 \in Nat BY <1>3
      <4>2. QED BY <1>1, <1>2, <1>3, <2>2, <4>1
    <3>4. QED BY <2>3, <2>4, <2>5, <3>1, <3>2, <3>3
  <2>7. \A u, v \in Nat : u * m <= v * m => u <= v
    <3>1. SUFFICES ASSUME NEW u \in Nat, NEW v \in Nat, u >= v + 1 PROVE u * m > v * m
      BY <1>1
    <3>2. \A d \in Nat : (v + 1 + d) * m >= v * m + m BY <1>1
    <3>3. u - (v + 1) \in Nat /\ v + 1 + (u - (v + 1)) = u BY <3>1
    <3>4. u * m >= v * m + m BY <3>2, <3>3
    <3>5. u * m \in Nat /\ v * m \in Nat BY <1>1, <2>2
    <3>6. QED BY <1>1, <3>4, <3>5
  <2>8. p * Span \in Nat /\ LatMax * (q + 1) \in Nat
    <3>1. q + 1 \in Nat BY <1>3
    <3>2. QED BY <1>1, <1>3, <2>2, <3>1
  <2>9. QED BY <2>6, <2>7, <2>8
<1>6. QED BY <1>4, <1>5

LEMMA SideStep ==
  ASSUME PlaceInv, SideInv, [ScriptedNext]_scriptedVars
  PROVE  SideInv'
<1> USE DEF SideInv, At, Goto, Ends
<1>1. CASE Resolve BY <1>1 DEF Resolve, Silent
<1>2. CASE Stage
  <2>1. StageZ >= Standoff BY ScriptedAssumption
  <2>2. /\ phase = "stage" /\ phase' \in {"stage", "insert", "near", "hover"}
        /\ z' = StageZ /\ sent' = sent
    BY <1>2 DEF Stage, AfterStage, Sent, Silent, NoteRow
  <2>3. QED BY <2>1, <2>2
<1>3. CASE InsertStep BY <1>3 DEF InsertStep
<1>4. CASE NearStep
  <2>1. /\ phase = "near" /\ phase' \in {"near", "retract"}
        /\ phase' = "retract" => row' = 0
        /\ sent' = sent
    BY <1>4 DEF NearStep, Command, Sent, Silent, NoteRow
  <2>2. QED BY <2>1
<1>5. CASE RetractStep
  <2>1. row \in Nat /\ sent \in 0..row
    BY <1>5 DEF RetractStep, PlaceInv, HeightInv
  <2>2. \A i : (Offset(i))' = Offset(i) /\ RetractStart' = RetractStart
    BY <1>5 DEF RetractStep, Offset, LiftOffset, SpiralOffset, Third, TransRows, RetractStart
  <2>3. CASE row < rows /\ Sent(RetractStart + Offset(row).z, Offset(row).lat, TRUE)
    <3>1. /\ tip'.z = RetractStart + Offset(row).z /\ tip'.lat = Offset(row).lat
          /\ sent' = row + 1 /\ row' = row + 1 /\ phase' = "retract"
      BY <1>5, <2>3 DEF RetractStep, Sent, NoteRow
    <3>2. sent' - 1 = row /\ sent' \in 0..row' BY <2>1, <3>1
    <3>3. (Offset(sent - 1))' = Offset(row)
      BY <1>5, <3>2 DEF RetractStep, Offset, LiftOffset, SpiralOffset, Third, TransRows
    <3>4. QED BY <2>2, <3>1, <3>2, <3>3
  <2>4. CASE row < rows /\ Silent
    <3>1. /\ phase = "retract" /\ phase' = "retract" /\ row' = row + 1
          /\ tip' = tip /\ sent' = sent
      BY <1>5, <2>4 DEF RetractStep, Silent
    <3>2. sent' \in 0..row' BY <2>1, <3>1
    <3>3. (Offset(sent - 1))' = Offset(sent - 1)
      BY <1>5, <3>1 DEF RetractStep, Offset, LiftOffset, SpiralOffset, Third, TransRows
    <3>4. QED BY <2>2, <3>1, <3>2, <3>3
  <2>5. CASE ~(row < rows) BY <1>5, <2>5 DEF RetractStep
  <2>6. QED BY <1>5, <2>3, <2>4, <2>5 DEF RetractStep, Command
<1>6. CASE HoverStep
  <2>1. CASE z > Standoff
    <3>1. /\ z' = Larger(Standoff, z - (IF port = "sc" THEN 1 ELSE Coarse))
          /\ phase = "hover" /\ phase' = phase
      BY <1>6, <2>1 DEF HoverStep
    <3>2. z' >= Standoff BY <3>1, HoverHeight DEF PlaceInv, HeightInv
    <3>3. QED BY <3>1, <3>2
  <2>2. CASE ~(z > Standoff)
    <3>1. /\ z' = z /\ z >= Standoff /\ phase' \in {"learn", "offset", "centre"}
          /\ phase' = "offset" => CorrectAt > 0
      BY <1>6, <2>2 DEF HoverStep
    <3>2. z \in Int /\ CorrectAt <= Standoff /\ CorrectAt \in Nat /\ Standoff \in Nat
      BY ScriptedAssumption DEF PlaceInv, HeightInv
    <3>3. QED BY <3>1, <3>2
  <2>3. QED BY <2>1, <2>2
<1>7. CASE OffsetStep
  <2>1. z \in Int /\ CorrectAt \in Nat BY ScriptedAssumption DEF PlaceInv, HeightInv
  <2>2. /\ phase = "offset" /\ phase' \in {"offset", "correct"}
        /\ z' = z \/ (z > CorrectAt /\ z' = z - 1)
    BY <1>7 DEF OffsetStep
  <2>3. QED BY <2>1, <2>2
<1>8. CASE CorrectStep
  <2>1. phase = "correct" /\ phase' \in {"correct", "centre"} /\ z' = z
    BY <1>8 DEF CorrectStep
  <2>2. QED BY <2>1
<1>9. CASE CentreStep BY <1>9 DEF CentreStep
<1>10. CASE LearnWait BY <1>10 DEF LearnWait
<1>11. ASSUME NEW v \in -1..1, NEW f \in Forces, LearnStep(v, f) PROVE SideInv'
  BY <1>11 DEF LearnStep
<1>12. CASE RunACT \/ WaveArm BY <1>12 DEF RunACT, WaveArm, TimedLoop, Silent
<1>13. CASE JointScript BY <1>13 DEF JointScript, Silent
<1>14. CASE NextGoal BY <1>14 DEF NextGoal
<1>15. CASE UNCHANGED scriptedVars
  <2>1. /\ UNCHANGED <<seed, rows, sent, phase, row, z, tip>>
    BY <1>15 DEF scriptedVars, placeVars
  <2>2. (Offset(sent - 1))' = Offset(sent - 1) /\ RetractStart' = RetractStart
    BY <2>1 DEF Offset, LiftOffset, SpiralOffset, Third, TransRows, RetractStart
  <2>3. QED BY <2>1, <2>2
<1>16. QED
  BY <1>1, <1>2, <1>3, <1>4, <1>5, <1>6, <1>7, <1>8, <1>9, <1>10, <1>11, <1>12, <1>13,
     <1>14, <1>15 DEF ScriptedNext, ScriptedStep

LEMMA SideInit == ScriptedInit => SideInv
  BY DEF ScriptedInit, SideInv

InBounds ==
  tip' # tip =>
    /\ tip'.lat # 0 => OffAxisAllowed(tip')
    /\ phase = "retract" /\ sent # 0 => tip'.z >= tip.z /\ tip'.lat >= tip.lat

LEMMA TipHeight ==
  ASSUME PlaceInv, ScriptedNext, tip' # tip, sp = "DisassembleCode"
  PROVE  tip'.z \in Int
<1>z. z \in Int /\ StageZ \in Int /\ RetractStart \in Int
  BY Constants DEF PlaceInv, HeightInv, RetractStart
<1>1. CASE Stage
  <2>1. tip'.z = StageZ BY <1>1 DEF Stage, Sent, Silent
  <2>2. QED BY <1>z, <2>1
<1>2. CASE NearStep
  <2>1. Command(Larger(RetractStart, z - 1), 0, FALSE) BY <1>2 DEF NearStep, Silent
  <2>2. tip'.z = Larger(RetractStart, z - 1) BY <2>1, CommandHeight
  <2>3. QED BY <1>z, <2>2, LargerBounds
<1>3. CASE RetractStep
  <2>1. row < rows /\ Command(RetractStart + Offset(row).z, Offset(row).lat, TRUE)
    BY <1>3 DEF RetractStep, Silent
  <2>2. tip'.z = RetractStart + Offset(row).z BY <2>1, CommandHeight
  <2>3. Offset(row).z \in Int BY <2>1, RowHeights DEF PlaceInv, LoopInv, HeightInv
  <2>4. QED BY <1>z, <2>2, <2>3
<1>4. ~(InsertStep \/ HoverStep \/ OffsetStep \/ CorrectStep \/ CentreStep)
      /\ ~(\E v \in -1..1, f \in Forces : LearnStep(v, f))
  BY DEF InsertStep, HoverStep, OffsetStep, CorrectStep, CentreStep, LearnStep, At, PlaceInv,
     LoopInv
<1>5. CASE Resolve \/ LearnWait \/ RunACT \/ WaveArm \/ JointScript \/ NextGoal
  BY <1>5 DEF Resolve, LearnWait, RunACT, WaveArm, TimedLoop, JointScript, NextGoal, Silent
<1>6. QED BY <1>1, <1>2, <1>3, <1>4, <1>5 DEF ScriptedNext, ScriptedStep

\* The row of a schedule is off axis only where its mode allows it.
LEMMA RowAllowed ==
  ASSUME sp = "DisassembleCode", seed \in Schedules, rows \in RowCounts,
         NEW i \in Nat, i < rows, NEW t,
         t.z = RetractStart + Offset(i).z, t.lat = Offset(i).lat, t.lat # 0
  PROVE  OffAxisAllowed(t)
<1>1. RetractStart \in Int BY Constants DEF RetractStart
<1>2. CASE seed # 0
  <2>1. seed \in Lifts /\ seed \in Nat BY <1>2, Constants DEF Schedules
  <2>2. i >= Third BY <2>1, ThirdBounds, LiftParts
  <2>3. Offset(i).z \in Int /\ Offset(i).z >= seed BY <2>1, <2>2, LiftParts
  <2>4. t.z >= RetractStart + seed BY <1>1, <2>1, <2>3
  <2>5. QED BY <1>2, <2>4 DEF OffAxisAllowed
<1>3. CASE seed = 0
  <2>1. Offset(i) = SpiralOffset(i) BY <1>3 DEF Offset
  <2>2. SpiralOffset(i).lat * Span <= LatMax * (SpiralOffset(i).z + 1) BY SpiralShare
  <2>3. SpiralOffset(i).z \in Int
    <3>1. /\ Span \in Int /\ 0 <= Span /\ rows \in Nat /\ rows >= 1
      BY Constants, ScriptedAssumption
    <3>2. QED BY <3>1, LinspaceAbove DEF SpiralOffset
  <2>4. t.z - RetractStart + 1 = SpiralOffset(i).z + 1 BY <1>1, <2>1, <2>3
  <2>5. QED BY <1>3, <2>1, <2>2, <2>4 DEF OffAxisAllowed
<1>4. QED BY <1>2, <1>3

LEMMA LateralStep ==
  ASSUME PlaceInv, SideInv, ScriptedNext
  PROVE  InBounds
<1> SUFFICES ASSUME tip' # tip
             PROVE  /\ tip'.lat # 0 => OffAxisAllowed(tip')
                    /\ phase = "retract" /\ sent # 0 => tip'.z >= tip.z /\ tip'.lat >= tip.lat
  BY DEF InBounds
<1>z. /\ z \in Int /\ virt \in Int /\ row \in Nat
      /\ CorrectAt \in Nat /\ Standoff \in Nat /\ CorrectAt <= Standoff
  BY ScriptedAssumption DEF PlaceInv, HeightInv
<1> USE DEF At, Command, Sent
<1>1. CASE Stage \/ InsertStep \/ NearStep \/ CentreStep
  BY <1>1 DEF Stage, InsertStep, NearStep, CentreStep, Silent
<1>2. CASE RetractStep
  <2>1. /\ sp = "DisassembleCode" /\ seed \in Schedules /\ rows \in RowCounts
        /\ phase = "retract" /\ row < rows
        /\ tip'.z = RetractStart + Offset(row).z /\ tip'.lat = Offset(row).lat
    BY <1>2 DEF RetractStep, PlaceInv, LoopInv, Silent
  <2>2. tip'.lat # 0 => OffAxisAllowed(tip') BY <1>z, <2>1, RowAllowed
  <2>3. ASSUME sent # 0 PROVE tip'.z >= tip.z /\ tip'.lat >= tip.lat
    <3>1. /\ sent - 1 \in Nat /\ sent - 1 <= row
          /\ tip.z = RetractStart + Offset(sent - 1).z /\ tip.lat = Offset(sent - 1).lat
      BY <1>z, <2>1, <2>3 DEF SideInv
    <3>2. /\ Offset(sent - 1).z <= Offset(row).z
          /\ Offset(sent - 1).lat <= Offset(row).lat
      BY <1>z, <2>1, <3>1, OffsetRises
    <3>3. /\ Offset(sent - 1).z \in Int /\ Offset(row).z \in Int /\ RetractStart \in Int
      <4>1. rows \in Nat /\ sent - 1 < rows BY <1>z, <2>1, <3>1, Constants
      <4>2. QED BY <1>z, <2>1, <3>1, <4>1, RowHeights, Constants DEF RetractStart
    <3>4. QED BY <2>1, <3>1, <3>2, <3>3
  <2>4. QED BY <2>2, <2>3
<1>3. CASE HoverStep
  <2>1. sp \in {"Oracle", "Specialist"} /\ phase = "hover"
    BY <1>3 DEF HoverStep, PlaceInv, LoopInv
  <2>2. tip'.z >= Standoff BY <1>3, <1>z, HoverHeight DEF HoverStep, Silent
  <2>3. tip'.z \in Int BY <1>3, <1>z, HoverHeight DEF HoverStep, Silent
  <2>4. QED BY <1>z, <2>1, <2>2, <2>3 DEF OffAxisAllowed
<1>4. CASE OffsetStep
  <2>1. sp = "Oracle" /\ phase = "offset" /\ CorrectAt > 0
    BY <1>4 DEF OffsetStep, PlaceInv, LoopInv, SideInv
  <2>2. tip'.z = z - 1 /\ z > CorrectAt BY <1>4 DEF OffsetStep, Silent
  <2>3. QED BY <1>z, <2>1, <2>2 DEF OffAxisAllowed
<1>5. CASE CorrectStep
  <2>1. sp = "Oracle" /\ phase = "correct" /\ CorrectAt > 0 /\ z >= CorrectAt
    BY <1>5 DEF CorrectStep, PlaceInv, LoopInv, SideInv
  <2>2. tip'.z = z BY <1>5 DEF CorrectStep, Silent
  <2>3. QED BY <1>z, <2>1, <2>2 DEF OffAxisAllowed
<1>6. ASSUME NEW v \in -1..1, NEW f \in Forces, LearnStep(v, f)
      PROVE  /\ tip'.lat # 0 => OffAxisAllowed(tip')
             /\ phase = "retract" /\ sent # 0 => tip'.z >= tip.z /\ tip'.lat >= tip.lat
  <2>1. sp = "Specialist" /\ phase = "learn" BY <1>6 DEF LearnStep, PlaceInv, LoopInv
  <2>2. QED BY <2>1 DEF OffAxisAllowed
<1>7. CASE Resolve \/ LearnWait \/ RunACT \/ WaveArm \/ JointScript \/ NextGoal
  BY <1>7 DEF Resolve, LearnWait, RunACT, WaveArm, TimedLoop, JointScript, NextGoal, Silent
<1>8. QED
  BY <1>1, <1>2, <1>3, <1>4, <1>5, <1>6, <1>7 DEF ScriptedNext, ScriptedStep

-----------------------------------------------------------------------------
(* The specification *)

LEMMA ScriptInit == ScriptedInit => PlaceInv /\ FreshInv
  BY Constants DEF ScriptedInit, PlaceInv, LoopInv, HeightInv, FreshInv, Schedules

\* PlaceInv and FreshInv hold of every scripted policy: which loop it is in,
\* how far that has come down, and whose error the integrators hold.
THEOREM ScriptsInPlace == ScriptedSpec => [](PlaceInv /\ FreshInv)
<1>1. PlaceInv /\ FreshInv /\ [ScriptedNext]_scriptedVars => PlaceInv' /\ FreshInv'
  BY LoopStep, HeightStep, FreshStep DEF PlaceInv
<1>2. QED BY ScriptInit, <1>1, PTL DEF ScriptedSpec

\* DepthBounded: no command goes below the floor of the policy and its port.
THEOREM DepthIsBounded == ScriptedSpec => DepthBounded
<1>1. PlaceInv /\ [ScriptedNext]_scriptedVars => [tip' # tip => tip'.z >= Deepest]_scriptedVars
  BY DepthStep
<1>2. QED BY <1>1, ScriptsInPlace, PTL DEF ScriptedSpec, DepthBounded

\* IntegratorFresh: after a staging lookup a descent starts from no error of
\* an earlier goal.
THEOREM IntegratorsFresh == ScriptedSpec => []IntegratorFresh
<1>1. FreshInv => IntegratorFresh BY DEF FreshInv, IntegratorFresh
<1>2. QED BY <1>1, ScriptsInPlace, PTL

\* LateralInBounds: nothing is commanded off the axis where it is not allowed,
\* and a retract goes neither back in nor back towards the axis.
THEOREM LateralIsBounded == ScriptedSpec => LateralInBounds
<1>1. PlaceInv /\ SideInv /\ [ScriptedNext]_scriptedVars => SideInv' /\ [InBounds]_scriptedVars
  BY SideStep, LateralStep
<1>2. LateralInBounds <=> [][InBounds]_scriptedVars
  BY DEF LateralInBounds, InBounds
<1>3. QED BY SideInit, <1>1, <1>2, ScriptsInPlace, PTL DEF ScriptedSpec

\* The comment beside LIFT_AXIAL_MIN_M wants a lift of more than the engagement,
\* so that the plug goes sideways above the mouth.  Where the lifts are so long
\* it does, whatever rows are lost; the default lifts of 10 mm are not.
THEOREM LongLiftsStayOut ==
  ASSUME \A lift \in Lifts : lift >= RetractDepth
  PROVE  ScriptedSpec =>
           [][tip' # tip /\ sp = "DisassembleCode" /\ seed # 0 /\ tip'.lat # 0
                => tip'.z >= 0]_scriptedVars
<1> DEFINE OutsideOnly == tip' # tip /\ sp = "DisassembleCode" /\ seed # 0 /\ tip'.lat # 0
                            => tip'.z >= 0
<1>1. PlaceInv /\ SideInv /\ [ScriptedNext]_scriptedVars => SideInv' /\ [OutsideOnly]_scriptedVars
  <2> SUFFICES ASSUME PlaceInv, SideInv, [ScriptedNext]_scriptedVars
               PROVE  SideInv' /\ [OutsideOnly]_scriptedVars
    OBVIOUS
  <2>1. ASSUME ScriptedNext, tip' # tip, sp = "DisassembleCode", seed # 0, tip'.lat # 0
        PROVE  tip'.z >= 0
    <3>1. tip'.z >= RetractStart + seed BY <2>1, LateralStep DEF InBounds, OffAxisAllowed
    <3>2. /\ seed \in Nat /\ seed >= RetractDepth /\ RetractDepth \in Nat
          /\ RetractStart = -RetractDepth
      BY <2>1, Constants DEF PlaceInv, LoopInv, Schedules, RetractStart
    <3>3. tip'.z \in Int BY <2>1, TipHeight
    <3>4. QED BY <3>1, <3>2, <3>3
  <2>2. QED BY <2>1, SideStep
<1>2. QED BY SideInit, <1>1, ScriptsInPlace, PTL DEF ScriptedSpec

-----------------------------------------------------------------------------
(* The policies together *)

\* PoliciesSpec: whichever policy a node loads, it takes the steps of that one
\* and the other stays where it started.
THEOREM PoliciesRunAlone == PoliciesSpec => DeploySpec /\ ScriptedSpec
<1>1. PoliciesInit => DeployInit /\ ScriptedInit
  BY DEF PoliciesInit
<1>2. ASSUME [PoliciesNext]_policiesVars
      PROVE  [DeployNext]_deployVars /\ [ScriptedNext]_scriptedVars
  <2>1. CASE UNCHANGED policiesVars
    BY <2>1 DEF policiesVars
  <2>2. CASE LearnedGoal
    BY <2>2 DEF LearnedGoal
  <2>3. CASE ScriptedGoal
    BY <2>3 DEF ScriptedGoal
  <2>4. QED
    BY <1>2, <2>1, <2>2, <2>3 DEF PoliciesNext
<1>3. QED
  BY <1>1, <1>2, PTL DEF PoliciesSpec, DeploySpec, ScriptedSpec

\* So what was proved of one policy holds of every node that is model-checked:
\* TravelCapped, EnsembleFresh, HoldIsFrozen and OneHandoff of the learned one,
\* IntegratorFresh, DepthBounded and LateralInBounds of the scripted ones.
THEOREM PoliciesSound ==
  PoliciesSpec => /\ [](TravelCapped /\ EnsembleFresh /\ IntegratorFresh)
                  /\ HoldIsFrozen /\ OneHandoff /\ DepthBounded /\ LateralInBounds
BY PoliciesRunAlone, TravelIsCapped, EnsembleIsFresh, IntegratorsFresh, HoldFrozen, HandsOverOnce,
   DepthIsBounded, LateralIsBounded, PTL

=============================================================================
