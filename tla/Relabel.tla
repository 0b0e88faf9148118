-------------------------------- MODULE Relabel --------------------------------
(***************************************************************************)
(* dagger_relabel.py: a bag recorded while the deployed policy ran becomes *)
(* a training episode labelled with the true port.  The bag is read twice: *)
(* for the transforms, from which the port's place in the base frame is    *)
(* computed, and for the frames, of which the stall window is kept.  The   *)
(* window is the one the live StallDetector acted on, if the two agree:    *)
(* both are fed here, frame by frame.                                      *)
(*                                                                         *)
(* A rigid transform is <<s, t>>, the motion x |-> s * x + t of a line: as *)
(* in space, the order in which transforms are composed matters.           *)
(***************************************************************************)
EXTENDS Integers, Sequences, FiniteSets, FiniteSetsExt, SequencesExt

CONSTANTS
  World,        \* where each TF frame really is: a transform per frame name
  BaseFrame, Aliases, Entrances,   \* base_link, WORLD_ALIASES, *_entrance
  TfLinks,      \* parent and child of the transforms /tf and /tf_static carry
  ScoringLinks, \* and /scoring/tf
  FrameOptions, \* values of --port-frame, "" for none
  MaxFrames,    \* bound: frames of the bag
  Strides,      \* time from one frame to the next
  Lags,         \* time the policy had run when the first frame was taken
  MinRun, StallSpan, StallLookback, MinKept, FallbackFrames

ASSUME RelabelAssumption ==
  /\ \A f \in DOMAIN World : World[f] \in {-1, 1} \X Int
  /\ BaseFrame \in DOMAIN World /\ Entrances \subseteq DOMAIN World
  /\ TfLinks \cup ScoringLinks \subseteq (DOMAIN World) \X (DOMAIN World)
  /\ \A a \in Aliases \cap DOMAIN World : World[a] = <<1, 0>>
  /\ Strides \subseteq Nat \ {0} /\ Lags \subseteq Nat
  /\ {MaxFrames, MinRun, StallLookback} \subseteq Nat
  /\ {StallSpan, MinKept, FallbackFrames} \subseteq Nat \ {0}

VARIABLES
  stage,       \* "tf", "frames", "done" or "failed"
  portFrame,   \* --port-frame
  edges,       \* TransformForest.edges: parent and transform of each child
  scoped,      \* scoring_frames
  port,        \* the frame picked and where it was found
  slow, stamp, \* per frame: speed below the threshold, capture time
  lag, lowSince, firedAt,  \* the live detector: _low_since, frame it fired at
  window       \* first and last frame kept

tfVars     == <<portFrame, edges, scoped, port>>
traceVars  == <<slow, stamp, lowSince, firedAt>>
relabelVars == <<stage, tfVars, traceVars, lag, window>>

NoPort == [frame |-> "", at |-> 0]

RelabelInit ==
  /\ stage = "tf" /\ portFrame \in FrameOptions
  /\ edges = <<>> /\ scoped = {} /\ port = NoPort
  /\ slow = <<>> /\ stamp = <<>> /\ lag \in Lags
  /\ lowSince = 0 /\ firedAt = 0 /\ window = <<>>

-----------------------------------------------------------------------------
(* Transforms *)

Mul(a, b) == <<a[1] * b[1], a[1] * b[2] + a[2]>>
Inv(a)    == <<a[1], -(a[1] * a[2])>>
Still     == <<1, 0>>

FrameIds == DOMAIN edges \cup {edges[c].parent : c \in DOMAIN edges}

(* From a frame up to its root; with a cycle, up to where it would close.   *)
ChainToRoot(f) ==
  LET up[n \in 0..Cardinality(FrameIds)] ==
        IF n = 0 THEN <<f>>
        ELSE LET c == up[n - 1] IN
             IF Last(c) \in DOMAIN edges /\ edges[Last(c)].parent \notin ToSet(c)
             THEN Append(c, edges[Last(c)].parent) ELSE c
  IN  up[Cardinality(FrameIds)]

Cyclic(c) == Last(c) \in DOMAIN edges

TransformUpTo_WrongOrder(f, ancestor) ==
  LET c == ChainToRoot(f)
  IN  FoldLeft(LAMBDA m, g : Mul(m, edges[g].motion), Still,
               SubSeq(c, 1, SelectInSeq(c, LAMBDA g : g = ancestor) - 1))

TransformUpTo(f, ancestor) ==
  LET c == ChainToRoot(f)
  IN  FoldLeft(LAMBDA m, g : Mul(edges[g].motion, m), Still,
               SubSeq(c, 1, SelectInSeq(c, LAMBDA g : g = ancestor) - 1))

(* The nearest common ancestor, else two roots that both stand for the world. *)
Meeting(target, source) ==
  LET tc == ChainToRoot(target)
      sc == ChainToRoot(source)
      common == {i \in DOMAIN sc : sc[i] \in ToSet(tc)}
  IN  IF Cyclic(tc) \/ Cyclic(sc) THEN <<>>
      ELSE IF common # {} THEN <<sc[Min(common)], sc[Min(common)]>>
      ELSE IF Last(tc) \in Aliases /\ Last(sc) \in Aliases THEN <<Last(tc), Last(sc)>>
      ELSE <<>>

Resolvable(target, source) ==
  {target, source} \subseteq FrameIds /\ Meeting(target, source) # <<>>

ResolveFrames(target, source) ==
  LET at == Meeting(target, source)
  IN  Mul(Inv(TransformUpTo(target, at[1])), TransformUpTo(source, at[2]))

(* What select_entrance_frame may choose: nothing when it is ambiguous.     *)
EntranceFrames ==
  LET known == FrameIds \cap Entrances IN
  IF portFrame # "" THEN FrameIds \cap {portFrame}
  ELSE IF Cardinality(known) > 1 /\ Cardinality(known \cap scoped) = 1
       THEN known \cap scoped
  ELSE IF Cardinality(known) = 1 THEN known ELSE {}

(* The last transform of a child wins, and may give it another parent. *)
AddTransform(parent, child) ==
  edges' = [c \in DOMAIN edges \cup {child} |->
              IF c # child THEN edges[c]
              ELSE [parent |-> parent, motion |-> Mul(Inv(World[parent]), World[child])]]

ReadTransform(l) ==
  /\ stage = "tf"
  /\ AddTransform(l[1], l[2])
  /\ \/ l \in TfLinks /\ UNCHANGED scoped
     \/ l \in ScoringLinks /\ scoped' = scoped \cup {l[2]}
  /\ UNCHANGED <<stage, portFrame, port, traceVars, lag, window>>

ReadPortTarget ==
  /\ stage = "tf"
  /\ \/ \E f \in EntranceFrames :
          /\ Resolvable(BaseFrame, f)
          /\ port' = [frame |-> f, at |-> ResolveFrames(BaseFrame, f)[2]]
          /\ stage' = "frames"
     \/ /\ \A f \in EntranceFrames : ~Resolvable(BaseFrame, f)
        /\ stage' = "failed" /\ UNCHANGED port
  /\ edges' = <<>> /\ scoped' = {}       \* the forest is a local variable
  /\ UNCHANGED <<portFrame, traceVars, lag, window>>

-----------------------------------------------------------------------------
(* Frames.  They are numbered from 1, a window is its first and last one.   *)

(* StallDetector.update on the policy's clock *)
Capture(s, dt) ==
  LET n == Len(slow) + 1
      t == IF n = 1 THEN 0 ELSE stamp[n - 1] + dt
      since == IF ~s THEN 0 ELSE IF lowSince = 0 THEN n ELSE lowSince
      span  == t - (IF since = n THEN t ELSE stamp[since]) IN
  /\ stage = "frames" /\ n <= MaxFrames
  /\ slow' = Append(slow, s) /\ stamp' = Append(stamp, t)
  /\ IF firedAt # 0 THEN UNCHANGED <<lowSince, firedAt>>
     ELSE /\ lowSince' = since
          /\ firedAt' = IF s /\ t + lag >= MinRun /\ span >= StallSpan THEN n ELSE 0
  /\ UNCHANGED <<stage, tfVars, lag, window>>

Onset_NeverReset(i) == Min({j \in 1..i : slow[j]})

(* First frame of the slow span that frame i is in. *)
Onset(i) == Min({j \in 1..i : \A k \in j..i : slow[k]})

StalledAt(i) ==
  slow[i] /\ stamp[i] - stamp[1] >= MinRun /\ stamp[i] - stamp[Onset(i)] >= StallSpan

LookbackStart(i) == Min({j \in 1..i : \A k \in j..i : stamp[k] >= stamp[i] - StallLookback})

Larger1(a, b) == IF a > b THEN a ELSE b

(* <<>> when the trace never stalls *)
StallWindow ==
  LET n == Len(slow)
      stalls == {i \in 1..n : StalledAt(i)}
      first == LookbackStart(Onset(Min(stalls)))
  IN  IF stalls = {} THEN <<>>
      ELSE IF n - first + 1 < MinKept THEN <<Larger1(1, n - MinKept + 1), n>>
      ELSE <<first, n>>

TerminalWindow == <<Larger1(1, Len(slow) - FallbackFrames + 1), Len(slow)>>

SelectWindow == IF StallWindow # <<>> THEN StallWindow ELSE TerminalWindow

(* A bag without synchronized frames is an error. *)
RelabelBag ==
  /\ stage = "frames"
  /\ IF slow = <<>> THEN stage' = "failed" /\ UNCHANGED window
     ELSE window' = SelectWindow /\ stage' = "done"
  /\ UNCHANGED <<tfVars, traceVars, lag>>

RelabelNext ==
  \/ \E l \in TfLinks \cup ScoringLinks : ReadTransform(l)
  \/ ReadPortTarget
  \/ \E s \in BOOLEAN, dt \in Strides : Capture(s, dt)
  \/ RelabelBag

RelabelSpec == RelabelInit /\ [][RelabelNext]_relabelVars

-----------------------------------------------------------------------------
(* Properties *)

(* Whatever order the transforms are read in, however the tree is cut up    *)
(* between world and aic_world and whichever frames change their parent:    *)
(* the port label is where the port really is, and among several entrances  *)
(* it is the one named, or the one the scoring topic singles out.           *)
PortIsTrue ==
  [][port' # port =>
       /\ port'.at = Mul(Inv(World[BaseFrame]), World[port'.frame])[2]
       /\ IF portFrame # "" THEN port'.frame = portFrame
          ELSE \A f \in FrameIds \cap Entrances : f # port'.frame => f \notin scoped]_relabelVars

(* The offline window finds a stall exactly where the live detector handed  *)
(* over: never one the policy did not see, and, unless the policy's earlier *)
(* start let it fire within the grace period, the frames from the onset of  *)
(* the stall it acted on to the end, and enough of them.                    *)
OfflineSeesTheStall ==
  slow # <<>> =>
    /\ StallWindow # <<>> => firedAt # 0
    /\ firedAt # 0 /\ stamp[firedAt] >= MinRun =>
         /\ StallWindow # <<>>
         /\ StallWindow[1] <= lowSince
         /\ StallWindow[2] = Len(slow)
         /\ StallWindow[1] = 1 \/ StallWindow[2] - StallWindow[1] + 1 >= MinKept
         /\ window # <<>> => window = StallWindow

=============================================================================
