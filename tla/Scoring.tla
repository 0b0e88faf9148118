------------------------------- MODULE Scoring -------------------------------
(***************************************************************************)
(* ComputeScore of aic_scoring/src/ScoringTier2.cc: what it accumulates    *)
(* from the messages of a bag, and the points it gives for that.  Lengths  *)
(* are in mm, times in ms, forces in N, points in thousandths; the end     *)
(* effector moves on a line, and the plug is described by its distance     *)
(* from the axis of the port, its height over the port and its distance.   *)
(* The jerk is an arbitrary function of the velocities.                    *)
(***************************************************************************)
EXTENDS Integers, Sequences, SequencesExt

CONSTANTS
  Messages,      \* messages a bag may hold
  MaxBag,        \* bound: messages in a bag
  Copies,        \* recordings started so far: subscriptions to each topic
  Entrance,      \* height of the port's entrance
  PlugPoses,     \* poses of the plug at the end of a task
  StartDistances, \* distances of plug and port at its start
  Durations, Jerks  \* how long it took, and how smoothly the arm moved

ASSUME ScoringAssumption ==
  /\ Copies \in Nat \ {0} /\ Entrance \in Nat \ {0}
  /\ PlugPoses \subseteq [lateral : Nat, z : Int, dist : Nat]
  /\ StartDistances \subseteq Nat /\ Durations \subseteq Nat /\ Jerks \subseteq Nat
  /\ \A p \in PlugPoses : p.dist * p.dist = p.lateral * p.lateral + p.z * p.z
  /\ \A m \in Messages :
       /\ m.stamp \in Nat /\ m.topic \in {"tf", "state", "wrench", "contacts", "event"}
       /\ m.topic = "tf" => m.at \in Int
       /\ m.topic = "state" => m.tare \in Int
       /\ m.topic = "wrench" => m.force \in Int
       /\ m.topic = "contacts" => m.contacts \in BOOLEAN

VARIABLE content    \* of the bag: messages in the order they are read

ScoringInit == content = <<>>

\* The messages of a topic come in the order of their stamps.
InOrder(m) == \A i \in DOMAIN content : content[i].topic = m.topic => content[i].stamp <= m.stamp

Record(m) == Len(content) < MaxBag /\ InOrder(m) /\ content' = Append(content, m)

ScoringNext == \E m \in Messages : Record(m)
-----------------------------------------------------------------------------
(***************************************************************************)
(* First pass: one callback per message.                                   *)
(***************************************************************************)

Cleared == [poses |-> <<>>, velocities |-> <<>>, wrenches |-> <<>>, contacts |-> FALSE,
            port |-> "", tare |-> <<>>]

\* Appends what carries a stamp, unless the entry before has the same.
Fresh(q, e) == IF q # <<>> /\ Last(q).stamp = e.stamp THEN q ELSE Append(q, e)

TfCallback(d, m) == [d EXCEPT !.poses = Fresh(@, [stamp |-> m.stamp, at |-> m.at])]

ControllerStateCallback_NoCheck(d, m) ==
  [d EXCEPT !.tare = <<m.tare>>,
            !.velocities = Append(@, [stamp |-> m.stamp, speed |-> m.speed])]

ControllerStateCallback(d, m) ==
  [d EXCEPT !.tare = <<m.tare>>,
            !.velocities = Fresh(@, [stamp |-> m.stamp, speed |-> m.speed])]

\* Wrenches that come before the first tare are skipped.
WrenchCallback(d, m) ==
  IF d.tare = <<>> THEN d
  ELSE [d EXCEPT !.wrenches = Append(@, [stamp |-> m.stamp, force |-> m.force - d.tare[1]])]

ContactsCallback(d, m) == [d EXCEPT !.contacts = @ \/ m.contacts]

\* The last event wins.
InsertionEventCallback(d, m) == [d EXCEPT !.port = m.port]

Process(d, m) ==
  CASE m.topic = "tf"       -> TfCallback(d, m)
    [] m.topic = "state"    -> ControllerStateCallback(d, m)
    [] m.topic = "wrench"   -> WrenchCallback(d, m)
    [] m.topic = "contacts" -> ContactsCallback(d, m)
    [] m.topic = "event"    -> InsertionEventCallback(d, m)

Gathered(b) == FoldLeft(Process, Cleared, b)

-----------------------------------------------------------------------------
(***************************************************************************)
(* Second pass: what the categories are computed from.                     *)
(***************************************************************************)

Distance(x, y) == IF x < y THEN y - x ELSE x - y

SumUpTo(n, term(_)) == FoldFunction(+, 0, [i \in 1..n |-> term(i)])

PathLength(poses) ==
  SumUpTo(Len(poses) - 1, LAMBDA i : Distance(poses[i].at, poses[i + 1].at))

ForceThreshold == 20

\* Each sample over the threshold stands for the time since the one before.
TimeAboveThreshold(w) ==
  SumUpTo(Len(w) - 1, LAMBDA i : IF Distance(w[i + 1].force, 0) > ForceThreshold
                                 THEN w[i + 1].stamp - w[i].stamp ELSE 0)

Conduct(b) ==
  LET d == Gathered(b) IN
  [path |-> PathLength(d.poses), velocities |-> d.velocities,
   above |-> TimeAboveThreshold(d.wrenches), contacts |-> d.contacts, port |-> d.port]

\* max_score up to min_range, min_score from max_range on, and a line between.
InverseProportional_Swapped(max_score, min_score, max_range, min_range, m) ==
  IF m >= max_range THEN max_score
  ELSE IF m <= min_range THEN min_score
  ELSE min_score + ((max_range - m) * (max_score - min_score)) \div (max_range - min_range)

InverseProportional(max_score, min_score, max_range, min_range, m) ==
  IF m >= max_range THEN min_score
  ELSE IF m <= min_range THEN max_score
  ELSE min_score + ((max_range - m) * (max_score - min_score)) \div (max_range - min_range)

XYTolerance == 5
BottomTolerance == 10

PartiallyInserted(p) ==
  /\ p.lateral < XYTolerance
  /\ p.z < Entrance /\ p.z > -BottomTolerance

\* start is 0 if the transforms of the start are not found.
DistanceScore(start, p) ==
  IF PartiallyInserted(p)
  THEN InverseProportional(50000, 38000, Entrance, 0, p.z)
  ELSE InverseProportional(25000, 0, Entrance + start \div 2, Entrance, p.dist)

\* port is what the insertion event names: "right", "wrong", or "" for none.
Tier3(port, start, p) ==
  CASE port = "right" -> 75000
    [] port = "wrong" -> -12000
    [] OTHER          -> DistanceScore(start, p)

ForcePenalty(above) == IF above > 1000 THEN -12000 ELSE 0

ContactsPenalty(contacts) == IF contacts THEN -24000 ELSE 0

DurationScore(duration) == InverseProportional(12000, 0, 60000, 5000, duration)

JerkScore(jerk) == InverseProportional(6000, 0, 50, 0, jerk)

EfficiencyScore(start, path) == InverseProportional(6000, 0, 1000 + start, start, path)

\* The bonuses of tier 2 are for a task that was completed near its port.
Total(c, jerk, duration, start, p) ==
  LET tier3 == Tier3(c.port, start, p) IN
  tier3 + ForcePenalty(c.above) + ContactsPenalty(c.contacts)
    + IF tier3 > 0
      THEN DurationScore(duration) + JerkScore(jerk) + EfficiencyScore(start, c.path)
      ELSE 0

-----------------------------------------------------------------------------
(***************************************************************************)
(* Properties.                                                             *)
(***************************************************************************)

CopiesOf(b) == FlattenSeq([i \in DOMAIN b |-> [j \in 1..Copies |-> b[i]]])

\* Every StartRecording subscribes once more, so from the second recording on
\* a bag holds each message several times: no category notices.
CopiesHarmless == Conduct(CopiesOf(content)) = Conduct(content)

Endings == [jerk : Jerks, duration : Durations, start : StartDistances]

Points(c, e, p) == Total(c, e.jerk, e.duration, e.start, p)

\* The same conduct ends nearer to the goal: inside the port rather than before
\* it, deeper inside, or closer to it from outside.
Nearer(p, q) ==
  \/ PartiallyInserted(p) /\ ~PartiallyInserted(q)
  \/ PartiallyInserted(p) /\ PartiallyInserted(q) /\ p.z < q.z
  \/ ~PartiallyInserted(p) /\ ~PartiallyInserted(q) /\ p.dist < q.dist

\* To end nearer costs no points.
NearerNeverCosts(c) ==
  c.port = "" => \A e \in Endings : \A p, q \in PlugPoses :
    /\ Nearer(p, q) => Points(c, e, p) >= Points(c, e, q)
    /\ Points([c EXCEPT !.port = "right"], e, p) > Points(c, e, p)

\* More motion, force or contact, recorded after c and giving d, earns none.
RecordingNeverPays(c, d) ==
  \A e \in Endings : \A p \in PlugPoses : Points(d, e, p) <= Points(c, e, p)

\* A better trial never scores less: points only come from the end of the task,
\* the nearer the more, across the seams between proximity, partial and full
\* insertion and whether the bonuses are given or not; and nothing that is
\* recorded on the way, short of an insertion, pays.
PointsAreMonotone ==
  content # <<>> =>
    /\ NearerNeverCosts(Conduct(content))
    /\ Last(content).topic # "event" =>
         RecordingNeverPays(Conduct(Front(content)), Conduct(content))

=============================================================================
