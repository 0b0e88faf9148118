------------------------------- MODULE Episodes -------------------------------
(***************************************************************************)
(* From a bag to training frames: prepare_dataset.py cuts the task window  *)
(* out of a bag, synchronizes the camera frames with the controller and    *)
(* marks the frame of the seat; reverse_disasm.py turns a retract around;  *)
(* episode_prep.py, called by train_v3._load_split, keeps the frames that  *)
(* are trained on and weights them.                                        *)
(*                                                                         *)
(* A frame has a capture time, a speed (TRUE: above the threshold) and the *)
(* tick of the bag it was taken at.  Frames are numbered from 1; a seat    *)
(* marker of 0 is insertion_frame = -1.                                    *)
(***************************************************************************)
EXTENDS Integers, Sequences, FiniteSets, FiniteSetsExt, SequencesExt

CONSTANTS
  BagTicks,     \* bound: length of a bag
  CmdMargin,    \* margin of compute_task_window
  MaxDt,        \* max_dt of synchronize_frames
  Neighbours,   \* other episodes the loader may read along
  Lookback, MinFrames, TrimMargin,   \* last_inch_s, last_inch_min_frames, margin
  RampFrames, WMax                   \* pushin_ramp_s, pushin_weight

ASSUME EpisodesAssumption ==
  /\ {BagTicks, CmdMargin, MaxDt, Lookback, TrimMargin, RampFrames} \subseteq Nat
  /\ MinFrames \in Nat \ {0} /\ WMax \in Nat \ {0}
  /\ Neighbours \subseteq [src : Seq(Nat), time : Seq(Nat), moves : Seq(BOOLEAN), seat : Nat]
  /\ \A e \in Neighbours : Len(e.moves) = Len(e.time)

VARIABLES
  made,     \* "bag", "frames", "empty", "loaded"
  ctrl,     \* controller state of each tick: "none", "still", "moving"
  seatAt,   \* tick of the insertion event, 0 for none
  ep1,      \* the episode
  turned,   \* it was reversed
  ds,       \* the dataset that was loaded
  lastInch, \* last_inch_enabled; else tail_trim
  keep, weight

episodesVars == <<made, ctrl, seatAt, ep1, turned, ds, lastInch, keep, weight>>

NoEpisode == [src |-> <<>>, time |-> <<>>, moves |-> <<>>, seat |-> 0]

EpisodesInit ==
  /\ made = "bag" /\ ctrl = <<>> /\ seatAt = 0
  /\ ep1 = NoEpisode /\ turned = FALSE /\ ds = <<>>
  /\ lastInch \in BOOLEAN /\ keep = {} /\ weight = <<>>

-----------------------------------------------------------------------------
(* prepare_dataset.py *)

Away(a, b) == IF a < b THEN b - a ELSE a - b

(* min(..., key=abs): the nearest, the first of two. *)
Nearest(S, t) ==
  CHOOSE a \in S : \A b \in S : Away(a, t) < Away(b, t) \/ (Away(a, t) = Away(b, t) /\ a <= b)

States == {t \in DOMAIN ctrl : ctrl[t] # "none"}

(* Every center image inside the window that has a controller state near.   *)
Synchronized(from, to) ==
  LET frames[t \in 0..Len(ctrl)] ==
        IF t = 0 THEN <<>>
        ELSE IF /\ from <= t /\ t <= to /\ States # {}
                /\ Away(Nearest(States, t), t) <= MaxDt
             THEN Append(frames[t - 1], t) ELSE frames[t - 1]
  IN  frames[Len(ctrl)]

SeatFrame(time, event) ==
  IF event = 0 \/ time = <<>> THEN 0
  ELSE CHOOSE k \in DOMAIN time :
         \A j \in DOMAIN time : \/ Away(time[k], event) < Away(time[j], event)
                                \/ Away(time[k], event) = Away(time[j], event) /\ k <= j

RecordTick(c) ==
  /\ made = "bag" /\ Len(ctrl) < BagTicks
  /\ ctrl' = Append(ctrl, c)
  /\ UNCHANGED <<made, seatAt, ep1, turned, ds, lastInch, keep, weight>>

(* Up to the last command and a margin; without a command it is unbounded. *)
TaskWindowEnd(first, last) == IF first = 0 THEN Len(ctrl) ELSE last + CmdMargin

ProcessBag(first, last, event) ==
  LET f == Synchronized(first, TaskWindowEnd(first, last)) IN
  /\ made = "bag" /\ ctrl # <<>>
  /\ seatAt' = event
  /\ ep1' = [src |-> f, time |-> f, moves |-> [k \in DOMAIN f |-> ctrl[Nearest(States, f[k])] = "moving"],
             seat |-> SeatFrame(f, event)]
  /\ made' = IF f = <<>> THEN "empty" ELSE "frames"
  /\ ctrl' = <<>>                         \* its messages are local variables
  /\ UNCHANGED <<turned, ds, lastInch, keep, weight>>

-----------------------------------------------------------------------------
(* reverse_disasm.py *)

RebuildTimestamps(t) == [j \in DOMAIN t |-> t[1] + (Last(t) - t[Len(t) + 1 - j])]

ReversedSeatIndex(n) == n

ReverseEpisode ==
  /\ made = "frames" /\ ~turned
  /\ ep1' = [src |-> Reverse(ep1.src), time |-> RebuildTimestamps(ep1.time),
             moves |-> Reverse(ep1.moves), seat |-> ReversedSeatIndex(Len(ep1.time))]
  /\ turned' = TRUE
  /\ UNCHANGED <<made, ctrl, seatAt, ds, lastInch, keep, weight>>

-----------------------------------------------------------------------------
(* episode_prep.py *)

Smaller(a, b) == IF a < b THEN a ELSE b

(* Last moving frame and the margin; everything when nothing moves. *)
TailTrimLength(moves, margin) ==
  LET n == Len(moves)
      m == {k \in 1..n : moves[k]}
  IN  IF m = {} THEN n ELSE Smaller(n, Max(m) + margin)

LastInchWindow_WithoutSeat(moves, seat) ==
  LET stop  == IF seat > 0 THEN Smaller(seat - 1, Len(moves)) ELSE TailTrimLength(moves, 0)
      start == IF Lookback < MinFrames THEN stop - MinFrames ELSE stop - Lookback
  IN  Max({0, start}) + 1 .. stop

LastInchWindow(moves, seat) ==
  LET stop  == IF seat > 0 THEN Smaller(seat, Len(moves)) ELSE TailTrimLength(moves, 0)
      start == IF Lookback < MinFrames THEN stop - MinFrames ELSE stop - Lookback
  IN  Max({0, start}) + 1 .. stop

(* np.linspace from 1 to WMax over the last frames; a ramp of one frame is WMax. *)
PushinWeight(n, k) ==
  LET m == Smaller(RampFrames, n) IN
  IF k <= n - m THEN 1 ELSE IF m = 1 THEN WMax
  ELSE 1 + ((WMax - 1) * (k - (n - m) - 1)) \div (m - 1)

EpisodeIds(d) == FlattenSeq([e \in DOMAIN d |-> [k \in DOMAIN d[e].time |-> e]])

(* First and last frame of every run of one id. *)
EpisodeBounds(ids) ==
  {p \in (DOMAIN ids) \X (DOMAIN ids) :
     /\ p[1] <= p[2] /\ \A k \in p[1]..p[2] : ids[k] = ids[p[1]]
     /\ p[1] = 1 \/ ids[p[1] - 1] # ids[p[1]]
     /\ p[2] = Len(ids) \/ ids[p[2] + 1] # ids[p[2]]}

(* The frames of a block that are kept, numbered within the block. *)
KeptTrimmed(e)  == 1..TailTrimLength(e.moves, TrimMargin)
KeptLastInch(e) == LastInchWindow(e.moves, e.seat)
KeptOf(e) == IF lastInch THEN KeptLastInch(e) ELSE KeptTrimmed(e)

LoadSplit(d) ==
  LET ids == EpisodeIds(d)
      kept == [b \in EpisodeBounds(ids) |-> KeptOf(d[ids[b[1]]])] IN
  /\ made = "frames"
  /\ ds' = d
  /\ keep' = UNION {{b[1] - 1 + k : k \in kept[b]} : b \in DOMAIN kept}
  /\ weight' = [g \in DOMAIN ids |->
       LET b == CHOOSE c \in DOMAIN kept : g \in c[1]..c[2]
           k == g - b[1] + 1
       IN  IF k \in kept[b]
           THEN PushinWeight(Cardinality(kept[b]), k - Min(kept[b]) + 1) ELSE 0]
  /\ made' = "loaded"
  /\ UNCHANGED <<ctrl, seatAt, ep1, turned, lastInch>>

EpisodesNext ==
  \/ \E c \in {"none", "still", "moving"} : RecordTick(c)
  \/ \E first, last, event \in 0..BagTicks :
       /\ first <= last /\ last <= Len(ctrl) /\ event <= Len(ctrl)
       /\ first = 0 => last = 0
       /\ ProcessBag(first, last, event)
  \/ ReverseEpisode
  \/ LoadSplit(<<ep1>>)
  \/ \E e \in Neighbours : LoadSplit(<<e, ep1>>) \/ LoadSplit(<<ep1, e>>)

EpisodesSpec == EpisodesInit /\ [][EpisodesNext]_episodesVars

-----------------------------------------------------------------------------
(* Properties *)

Offset1(e) == IF ds[1] = e THEN 0 ELSE Len(ds[1].time)

(* Training on the last inch keeps, of a demo that seated, frames up to the *)
(* one nearest to the seat and none later, at least MinFrames of them where *)
(* there are, and weights the last one most, wherever the episode lies in   *)
(* the dataset; of a reversed retract, the frames nearest to the port.      *)
DemoEndsAtSeat ==
  made = "loaded" /\ lastInch =>
    LET n == Len(ep1.time)
        K == {k \in 1..n : Offset1(ep1) + k \in keep} IN
    /\ K # {} /\ Min(K)..Max(K) = K
    /\ Cardinality(K) >= MinFrames \/ Min(K) = 1
    /\ ~turned /\ seatAt # 0 =>
         \A k \in 1..n : Away(ep1.src[Max(K)], seatAt) <= Away(ep1.src[k], seatAt)
    /\ ~turned /\ seatAt = 0 => \A k \in 1..n : k > Max(K) => ~ep1.moves[k]
    /\ turned => \A k \in K, j \in (1..n) \ K : ep1.src[k] < ep1.src[j]
    /\ \A j, k \in 1..n : j < k => ep1.time[j] < ep1.time[k]
    /\ \A g \in DOMAIN weight : weight[g] > 0 <=> g \in keep
    /\ RampFrames > 0 => weight[Offset1(ep1) + Max(K)] = WMax

=============================================================================
