------------------------------ MODULE AicAdapter ------------------------------
(***************************************************************************)
(* The observation adapter, aic_adapter/src/aic_adapter.cpp: one thread    *)
(* keeps the last image of each camera and the last samples of three       *)
(* topics, and joins them to an observation when the images are of one     *)
(* instant.  Messages of a topic arrive in order, some late, some never;   *)
(* an image and a sample are their stamps.                                 *)
(***************************************************************************)
EXTENDS Integers, Sequences, FiniteSets, SequencesExt, FiniteSetsExt

CONSTANTS
  Cameras,          \* number of cameras
  SampleTopics,     \* topics samples come from: wrench, joint and controller states
  DequeMaxLength,
  MaxTime, MaxWait  \* bounds: instants of a run, messages of a topic on their way

ASSUME AdapterAssumption ==
  /\ Cameras \in Nat \ {0} /\ DequeMaxLength \in Nat \ {0}
  /\ MaxTime \in Nat /\ MaxWait \in Nat

Camera == 1..Cameras

VARIABLES
  now,
  images_on_way, samples_on_way, \* published and not delivered, oldest first
  images,      \* last image of each camera: stamp, -1 if none, and pixels
  infos,       \* cameras whose camera_info has come
  deques,      \* samples of each topic, newest first
  delivered,   \* all samples delivered
  observation  \* what the last callback published, <<>> if nothing

wayVars == <<images_on_way, samples_on_way>>
adapterVars == <<now, wayVars, images, infos, deques, delivered, observation>>

AdapterInit ==
  /\ now = 0
  /\ images_on_way = [c \in Camera |-> <<>>] /\ samples_on_way = [t \in SampleTopics |-> <<>>]
  /\ images = [c \in Camera |-> [stamp |-> -1, pixels |-> FALSE]] /\ infos = {}
  /\ deques = [t \in SampleTopics |-> <<>>] /\ delivered = [t \in SampleTopics |-> {}]
  /\ observation = <<>>

-----------------------------------------------------------------------------
(***************************************************************************)
(* The cameras and sensors, and the network.                               *)
(***************************************************************************)

\* All cameras take an image, or every topic has a sample; either may be lost.
Tick ==
  /\ now < MaxTime /\ now' = now + 1
  /\ \E cams \in SUBSET Camera, ts \in SUBSET SampleTopics :
       /\ images_on_way' = [c \in Camera |->
            IF c \in cams THEN Append(images_on_way[c], now') ELSE images_on_way[c]]
       /\ samples_on_way' = [t \in SampleTopics |->
            IF t \in ts THEN Append(samples_on_way[t], now') ELSE samples_on_way[t]]
  /\ \A c \in Camera : Len(images_on_way'[c]) <= MaxWait
  /\ \A t \in SampleTopics : Len(samples_on_way'[t]) <= MaxWait
  /\ observation' = <<>>
  /\ UNCHANGED <<images, infos, deques, delivered>>

-----------------------------------------------------------------------------
(***************************************************************************)
(* The node's callbacks.                                                   *)
(***************************************************************************)

CameraInfo(c) ==
  /\ infos' = infos \cup {c} /\ c \notin infos
  /\ observation' = <<>>
  /\ UNCHANGED <<now, wayVars, images, deques, delivered>>

Shortened(q) ==
  SubSeq(q, 1, IF Len(q) < DequeMaxLength THEN Len(q) ELSE DequeMaxLength)

\* push_front, and pop_back of what is too many.
PushFront(q, e) == Shortened(<<e>> \o q)

Sample(t) ==
  /\ samples_on_way[t] # <<>>
  /\ samples_on_way' = [samples_on_way EXCEPT ![t] = Tail(@)]
  /\ LET e == Head(samples_on_way[t]) IN
     /\ deques' = [deques EXCEPT ![t] = PushFront(@, e)]
     /\ delivered' = [delivered EXCEPT ![t] = @ \cup {e}]
  /\ observation' = <<>>
  /\ UNCHANGED <<now, images_on_way, images, infos>>

\* The first sample from the front that is not after the image; none leaves the
\* message as it was made.
Chosen(q, stamp) ==
  LET fit == {i \in DOMAIN q : q[i] <= stamp} IN IF fit = {} THEN -1 ELSE q[Min(fit)]

Aligned_First(im) == \E c \in Camera \ {1} : im[c].stamp = im[1].stamp

\* Every image is of the instant of the first: two stamps are one instant if
\* less than a millisecond lies between.
Aligned(im) == \A c \in Camera : im[c].stamp = im[1].stamp

\* The images are moved out of the buffer, which keeps their stamps.
ImageCallback(c) ==
  LET im == [images EXCEPT ![c] = [stamp |-> Head(images_on_way[c]), pixels |-> TRUE]]
      ready == (\A d \in Camera : im[d].stamp # -1) /\ infos = Camera /\ Aligned(im)
      stamp == im[1].stamp
  IN
  /\ images_on_way[c] # <<>>
  /\ images_on_way' = [images_on_way EXCEPT ![c] = Tail(@)]
  /\ IF ready
     THEN /\ observation' = <<[stamp |-> stamp,
                              pixels |-> {d \in Camera : im[d].pixels},
                              stamps |-> {im[d].stamp : d \in Camera},
                              samples |-> [t \in SampleTopics |-> Chosen(deques[t], stamp)]]>>
          /\ images' = [d \in Camera |-> [im[d] EXCEPT !.pixels = FALSE]]
     ELSE observation' = <<>> /\ images' = im
  /\ UNCHANGED <<now, samples_on_way, infos, deques, delivered>>

AdapterNext ==
  \/ Tick
  \/ \E c \in Camera : CameraInfo(c) \/ ImageCallback(c)
  \/ \E t \in SampleTopics : Sample(t)

-----------------------------------------------------------------------------
(***************************************************************************)
(* Properties.                                                             *)
(***************************************************************************)

Published == {observation[i] : i \in DOMAIN observation}

\* The images of an observation are of one instant and none is an image that
\* was moved to an observation before, whichever cameras were late or lost one.
ImagesAreWhole ==
  \A o \in Published : o.pixels = Camera /\ o.stamps = {o.stamp}

\* A sample is the newest one received that is not later than the images: of
\* those received after it none would do, and there is one unless so many newer
\* ones came before the images that it was dropped.
SampleIsNewest ==
  \A o \in Published, t \in SampleTopics :
    LET before == {r \in delivered[t] : r <= o.stamp}
        after == delivered[t] \ before
    IN  o.samples[t] = IF before = {} \/ Cardinality(after) >= DequeMaxLength
                       THEN -1 ELSE Max(before)

\* An observation is of one instant: whole images, and samples that go with them.
ObservationIsOfOneInstant == ImagesAreWhole /\ SampleIsNewest

=============================================================================
