--------------------------- MODULE MCTrialServices ---------------------------
EXTENDS TrialServices

MCOffLimitModels == <<"enclosure", "task_board">>

MCTopics == <<"/tf", "/scoring/tf">>

(* Two positions and velocities, a tare, a force on each side of the        *)
(* threshold once tared, both kinds of contact message and of insertion.    *)
MCMessages ==
       {[topic |-> "tf", stamp |-> t, at |-> 700 * t] : t \in {0, 1}}
  \cup {[topic |-> "state", stamp |-> t, speed |-> t, tare |-> 5] : t \in {0, 1}}
  \cup {[topic |-> "wrench", stamp |-> t, force |-> f] : t \in {0, 1800}, f \in {10, 30}}
  \cup {[topic |-> "contacts", stamp |-> 0, contacts |-> b] : b \in BOOLEAN}
  \cup {[topic |-> "event", stamp |-> 0, port |-> p] : p \in {"right", "wrong"}}

(* Seated, half way in, before the entrance, on the threshold, far away;    *)
(* beside the port at its depth, and below its bottom.                      *)
MCPlugPoses ==
  {[lateral |-> 0, z |-> z, dist |-> IF z < 0 THEN -z ELSE z] : z \in {-11, 0, 7, 15, 40, 300}}
  \cup {[lateral |-> 4, z |-> 3, dist |-> 5], [lateral |-> 5, z |-> 12, dist |-> 13]}

===============================================================================
