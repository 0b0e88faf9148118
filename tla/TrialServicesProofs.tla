------------------------- MODULE TrialServicesProofs -------------------------
(***************************************************************************)
(* What holds of the services of a trial for any off-limit models, cables, *)
(* joints, cameras, topics and number of trials, however their callbacks   *)
(* fall: one inductive invariant for each, and with them the invariants    *)
(* the runs check.                                                         *)
(***************************************************************************)
EXTENDS TrialServices, FoldLemmas, FiniteSetTheorems, SequenceTheorems, TLAPS

-----------------------------------------------------------------------------
(***************************************************************************)
(* OffLimitContacts.                                                       *)
(***************************************************************************)

\* What an entity may be called.
Given == Names \cup Spawned \cup {"renamed"}

\* What stands in the world from the start stays, alone of its name; an entity
\* of a name that is off limits has gone before the next of that name comes.
NameInv ==
  /\ \A n \in Names \ Spawned : \E e \in present : name[e] = n
  /\ \A d, e \in DOMAIN name : d < e /\ name[d] = name[e] /\ name[d] \in Names
       => d \notin present /\ name[d] \in Spawned

\* One entity of each name is watched; the spawned name is the last to be found.
WatchedInv ==
  /\ offLimitEntities \subseteq DOMAIN name
  /\ \A e \in offLimitEntities : name[e] \in Names
  /\ \A d, e \in offLimitEntities : name[d] = name[e] => d = e
  /\ (\E e \in offLimitEntities : name[e] \in Spawned) =>
       \A n \in Names : \E e \in offLimitEntities : name[e] = n

OffLimitInv ==
  /\ name \in Seq(Given) /\ present \subseteq DOMAIN name
  /\ contacts \in [1..Collisions -> SUBSET present]
  /\ NameInv /\ WatchedInv /\ PenaltyIsDeserved

\* There are finitely many names to look for.
LEMMA NamesFinite == IsFiniteSet(Names)
<1>1. DOMAIN OffLimitModels = 1..Len(OffLimitModels) /\ Len(OffLimitModels) \in Nat
  BY OffLimitAssumption
<1>2. IsFiniteSet(1..Len(OffLimitModels))
  BY <1>1, FS_Interval
<1> DEFINE f == [i \in 1..Len(OffLimitModels) |-> OffLimitModels[i]]
<1>3. f \in Surjection(1..Len(OffLimitModels), Names)
  BY <1>1 DEF Surjection, Names
<1>4. QED
  BY <1>2, <1>3, FS_Surjection

\* As many entities as names are watched just if there is one of each name.
LEMMA AllWatched ==
  ASSUME name \in Seq(Given), WatchedInv
  PROVE  Cardinality(offLimitEntities) = Cardinality(Names)
           <=> \A n \in Names : \E e \in offLimitEntities : name[e] = n
<1> DEFINE f == [e \in offLimitEntities |-> name[e]]
<1>1. f \in Injection(offLimitEntities, Names)
  BY DEF WatchedInv, Injection, IsInjective
<1>2. Cardinality(offLimitEntities) = Cardinality(Names) <=> f \in Surjection(offLimitEntities, Names)
  BY <1>1, NamesFinite, FS_Injection
<1>3. f \in Surjection(offLimitEntities, Names) <=> \A n \in Names : \E e \in offLimitEntities : f[e] = n
  BY <1>1 DEF Surjection, Injection
<1>4. QED
  BY <1>2, <1>3

\* Names that no trial spawns are resolved at once, and the one it spawns as
\* soon as it is there.
LEMMA PresentResolved ==
  ASSUME name \in Seq(Given), present \subseteq DOMAIN name, NameInv,
         NEW e \in present, name[e] \in Names
  PROVE  e \in Resolved
<1>1. PICK i \in DOMAIN OffLimitModels : name[e] = OffLimitModels[i]
  BY DEF Names
<1>2. \A d \in present : name[d] = name[e] => d = e
  <2> SUFFICES ASSUME NEW d \in present, name[d] = name[e], d # e
               PROVE  FALSE
    OBVIOUS
  <2>1. d \in DOMAIN name /\ e \in DOMAIN name /\ (d < e \/ e < d)
    OBVIOUS
  <2>2. QED
    BY <2>1 DEF NameInv
<1>3. ASSUME NEW j \in 1..i
      PROVE  Cardinality(Candidates(OffLimitModels[j])) = 1
  <2>1. j \in DOMAIN OffLimitModels /\ i \in 1..Len(OffLimitModels)
    BY OffLimitAssumption
  <2>2. CASE j = i
    <3>1. Candidates(OffLimitModels[j]) = {e}
      BY <1>1, <1>2, <2>2 DEF Candidates
    <3>2. QED
      BY <3>1, FS_Singleton
  <2>3. CASE j # i
    <3>1. OffLimitModels[j] \in Names \ Spawned
      BY <2>1, <2>3, SpawnedLastAssumption, OffLimitAssumption DEF Names
    <3>2. PICK x \in present : name[x] = OffLimitModels[j]
      BY <3>1 DEF NameInv
    <3>3. ASSUME NEW d \in present, name[d] = name[x]
          PROVE  d = x
      <4>1. d \in DOMAIN name /\ x \in DOMAIN name
        OBVIOUS
      <4>2. d < x \/ x < d \/ d = x
        BY <4>1
      <4>3. QED
        BY <3>1, <3>2, <3>3, <4>1, <4>2 DEF NameInv
    <3>4. Candidates(OffLimitModels[j]) = {x}
      BY <3>2, <3>3 DEF Candidates
    <3>5. QED
      BY <3>4, FS_Singleton
  <2>4. QED
    BY <2>2, <2>3
<1>4. QED
  BY <1>1, <1>3 DEF Resolved

\* The world as it is loaded has its off-limit models under their names.
LEMMA OffLimitStarts == OffLimitInit => OffLimitInv
<1> SUFFICES ASSUME OffLimitInit
             PROVE  OffLimitInv
  OBVIOUS
<1>1. PICK w \in 0..Len(OffLimitModels) : name \in Bijection(1..w, Names \ Spawned)
  BY DEF OffLimitInit
<1>2. Names \subseteq Given
  BY DEF Given
<1>3. /\ name \in [1..w -> Names \ Spawned] /\ w \in Nat /\ DOMAIN name = 1..w
      /\ \A n \in Names \ Spawned : \E e \in 1..w : name[e] = n
      /\ \A d, e \in 1..w : name[d] = name[e] => d = e
  BY <1>1, OffLimitAssumption DEF Bijection, Injection, Surjection, IsInjective
<1>4. name \in Seq(Given)
  <2>1. name \in [1..w -> Given]
    BY <1>2, <1>3
  <2>2. QED
    BY <1>3, <2>1, SeqDef
<1>5. NameInv
  BY <1>3 DEF NameInv, OffLimitInit
<1>6. WatchedInv
  BY DEF WatchedInv, OffLimitInit
<1>7. PenaltyIsDeserved
  BY DEF PenaltyIsDeserved, PenaltyIsOffLimit, FirstIsReported, Counted, OffLimitInit
<1>8. contacts \in [1..Collisions -> SUBSET present]
  BY DEF OffLimitInit
<1>9. QED
  BY <1>4, <1>5, <1>6, <1>7, <1>8 DEF OffLimitInv, OffLimitInit

\* A step that publishes nothing penalises nothing.
LEMMA Forgotten == Forget => PenaltyIsDeserved'
BY DEF Forget, PenaltyIsDeserved, PenaltyIsOffLimit, FirstIsReported, Counted

\* Every step of the simulator and of the plugin keeps the invariant.
LEMMA WatchingSteps ==
  ASSUME OffLimitInv, [OffLimitNext]_offLimitVars
  PROVE  OffLimitInv'
<1> USE DEF OffLimitInv
<1>1. ASSUME NEW n \in Spawned, SpawnModel(n)
      PROVE  OffLimitInv'
  <2> DEFINE new == IF \A e \in present : name[e] # n THEN n ELSE "renamed"
  <2>1. /\ new \in Given /\ name' = Append(name, new)
        /\ Len(name) \in Nat /\ DOMAIN name = 1..Len(name)
    <3>1. name' = Append(name, new)
      BY <1>1, Zenon DEF SpawnModel
    <3>2. new \in Given
      BY DEF Given
    <3>3. QED
      BY <3>1, <3>2
  <2>2. /\ name' \in Seq(Given) /\ Len(name') = Len(name) + 1
        /\ DOMAIN name' = 1..(Len(name) + 1)
        /\ name'[Len(name) + 1] = new
        /\ \A e \in DOMAIN name : name'[e] = name[e]
    BY <2>1
  <2>3. present' = present \cup {Len(name) + 1}
    BY <1>1, <2>2 DEF SpawnModel
  <2>4. NameInv'
    <3>1. ASSUME NEW m \in Names \ Spawned
          PROVE  \E e \in present' : name'[e] = m
      BY <2>2, <2>3 DEF NameInv
    <3>2. ASSUME NEW d \in DOMAIN name', NEW e \in DOMAIN name', d < e,
                 name'[d] = name'[e], name'[d] \in Names
          PROVE  d \notin present' /\ name'[d] \in Spawned
      <4>1. d \in DOMAIN name /\ d # Len(name) + 1
        BY <2>2, <3>2
      <4>2. CASE e \in DOMAIN name
        BY <2>2, <2>3, <3>2, <4>1, <4>2 DEF NameInv
      <4>3. CASE e = Len(name) + 1
        <5>1. new \in Names /\ name[d] = new
          BY <2>2, <3>2, <4>1, <4>3
        <5>2. new = n /\ \A x \in present : name[x] # n
          BY <5>1, SpawnedLastAssumption
        <5>3. QED
          BY <2>2, <2>3, <4>1, <5>1, <5>2
      <4>4. QED
        BY <2>1, <2>2, <4>2, <4>3
    <3>3. QED
      BY <3>1, <3>2 DEF NameInv
  <2>5. WatchedInv'
    <3>1. offLimitEntities' = offLimitEntities
      BY <1>1 DEF SpawnModel
    <3>2. \A e \in offLimitEntities : name'[e] = name[e] /\ e \in DOMAIN name'
      BY <2>1, <2>2 DEF WatchedInv
    <3>3. QED
      BY <3>1, <3>2 DEF WatchedInv
  <2>6. contacts' \in [1..Collisions -> SUBSET present']
    BY <1>1, <2>3 DEF SpawnModel
  <2>7. present' \subseteq DOMAIN name'
    BY <2>1, <2>2, <2>3
  <2>8. QED
    BY <1>1, <2>2, <2>4, <2>5, <2>6, <2>7, Forgotten DEF SpawnModel
<1>2. ASSUME NEW e \in present, DeleteModel(e)
      PROVE  OffLimitInv'
  <2>1. name' = name /\ offLimitEntities' = offLimitEntities /\ present' = present \ {e}
    BY <1>2 DEF DeleteModel
  <2>2. name[e] \notin Names \ Spawned
    BY <1>2, SpawnedLastAssumption DEF DeleteModel
  <2>3. NameInv'
    BY <2>1, <2>2 DEF NameInv
  <2>4. WatchedInv'
    BY <2>1 DEF WatchedInv
  <2>5. contacts' \in [1..Collisions -> SUBSET present']
    BY <1>2, <2>1 DEF DeleteModel
  <2>6. QED
    BY <1>2, <2>1, <2>3, <2>4, <2>5, Forgotten DEF DeleteModel
<1>3. ASSUME Simulate
      PROVE  OffLimitInv'
  <2>1. NameInv' /\ WatchedInv'
    BY <1>3 DEF Simulate, NameInv, WatchedInv
  <2>2. QED
    BY <1>3, <2>1, Forgotten DEF Simulate
<1>4. ASSUME Update
      PROVE  OffLimitInv'
  <2>1. /\ name' = name /\ present' = present /\ contacts' = contacts
        /\ offLimitEntities' = Watched
    BY <1>4 DEF Update
  <2>2. NameInv'
    BY <2>1 DEF NameInv
  <2>3. \A e \in Resolved : e \in present /\ name[e] \in Names
    BY DEF Resolved, Names
  <2>4. \A d, e \in Resolved : name[d] = name[e] => d = e
    <3> SUFFICES ASSUME NEW d \in Resolved, NEW e \in Resolved, name[d] = name[e], d # e
                 PROVE  FALSE
      OBVIOUS
    <3>1. d \in DOMAIN name /\ e \in DOMAIN name /\ (d < e \/ e < d)
      BY <2>3
    <3>2. QED
      BY <2>3, <3>1 DEF NameInv
  <2>5. WatchedInv'
    <3>1. CASE Cardinality(offLimitEntities) = Cardinality(Names)
      BY <2>1, <3>1 DEF Watched, WatchedInv
    <3>2. CASE Cardinality(offLimitEntities) # Cardinality(Names)
      <4>1. Watched = offLimitEntities \cup Resolved
        BY <3>2 DEF Watched
      <4>2. \A e \in offLimitEntities : name[e] \notin Spawned
        BY <3>2, AllWatched DEF WatchedInv
      <4>3. ASSUME NEW d \in offLimitEntities, NEW e \in Resolved, name[d] = name[e]
            PROVE  d = e
        <5>1. /\ d \in DOMAIN name /\ e \in DOMAIN name
              /\ name[d] \in Names /\ name[d] \notin Spawned
          BY <2>3, <4>2 DEF WatchedInv
        <5>2. d < e \/ e < d \/ d = e
          BY <5>1
        <5>3. QED
          BY <4>3, <5>1, <5>2 DEF NameInv
      <4>4. \A d, e \in Watched : name[d] = name[e] => d = e
        BY <2>4, <4>1, <4>3 DEF WatchedInv
      <4>5. ASSUME NEW e \in Watched, name[e] \in Spawned, NEW n \in Names
            PROVE  \E x \in Watched : name[x] = n
        <5>1. e \in Resolved
          BY <4>1, <4>2, <4>5
        <5>2. CASE n \in Spawned
          <6>1. n = name[e]
            BY <2>3, <4>5, <5>1, <5>2, SpawnedLastAssumption DEF Names
          <6>2. QED
            BY <6>1
        <5>3. CASE n \notin Spawned
          <6>1. PICK x \in present : name[x] = n
            BY <5>3 DEF NameInv
          <6>2. x \in Resolved
            BY <6>1, PresentResolved
          <6>3. QED
            BY <4>1, <6>1, <6>2
        <5>4. QED
          BY <5>2, <5>3
      <4>6. /\ Watched \subseteq DOMAIN name
            /\ \A e \in Watched : name[e] \in Names
        BY <2>3, <4>1 DEF WatchedInv
      <4>7. QED
        BY <2>1, <4>4, <4>5, <4>6 DEF WatchedInv
    <3>3. QED
      BY <3>1, <3>2
  <2>6. PenaltyIsOffLimit'
    <3> SUFFICES ASSUME NEW m \in messages', m # {}
                 PROVE  \E e \in m : name[e] \in Names
      BY <2>1 DEF PenaltyIsOffLimit, Counted, OffLimit
    <3>1. PICK c \in 1..Collisions : m = contacts[c] /\ ShouldPublish(Watched, c)
      BY <1>4 DEF Update
    <3>2. PICK d \in 1..c : /\ contacts[d] \cap Watched # {}
                            /\ \A k \in (d + 1)..c : contacts[k] = {}
      BY <3>1 DEF ShouldPublish
    <3>3. d = c
      BY <3>1, <3>2
    <3>4. QED
      BY <2>1, <2>5, <3>1, <3>2, <3>3 DEF WatchedInv
  <2>7. FirstIsReported'
    <3> SUFFICES ASSUME NEW c \in 1..Collisions, NEW e \in contacts[c], name[e] \in Names,
                        \A d \in 1..(e - 1) : name[d] # name[e]
                 PROVE  \E m \in messages' \ {{}} : e \in m
      BY <2>1 DEF FirstIsReported, Counted, OffLimit
    <3>1. e \in present /\ e \in Nat \ {0} /\ e \in DOMAIN name
      OBVIOUS
    <3>2. e \in Watched
      <4>1. CASE Cardinality(offLimitEntities) = Cardinality(Names)
        <5>1. PICK x \in offLimitEntities : name[x] = name[e]
          BY <4>1, AllWatched
        <5>2. x \in DOMAIN name /\ x \in Nat \ {0} /\ ~(x < e)
          BY <3>1, <5>1 DEF WatchedInv
        <5>3. ~(e < x)
          BY <3>1, <5>1, <5>2 DEF NameInv
        <5>4. QED
          BY <3>1, <4>1, <5>2, <5>3 DEF Watched
      <4>2. CASE Cardinality(offLimitEntities) # Cardinality(Names)
        BY <3>1, <4>2, PresentResolved DEF Watched
      <4>3. QED
        BY <4>1, <4>2
    <3>3. ShouldPublish(Watched, c)
      <4>1. contacts[c] \cap Watched # {} /\ c \in 1..c /\ (c + 1)..c = {}
        BY <3>2
      <4>2. QED
        BY <4>1 DEF ShouldPublish
    <3>4. contacts[c] \in messages' /\ contacts[c] # {}
      BY <1>4, <3>3 DEF Update
    <3>5. QED
      BY <3>4
  <2>8. QED
    BY <2>1, <2>2, <2>5, <2>6, <2>7 DEF PenaltyIsDeserved
<1>5. ASSUME Skip
      PROVE  OffLimitInv'
  <2>1. NameInv' /\ WatchedInv'
    BY <1>5 DEF Skip, NameInv, WatchedInv
  <2>2. QED
    BY <1>5, <2>1, Forgotten DEF Skip
<1>6. ASSUME UNCHANGED offLimitVars
      PROVE  OffLimitInv'
  <2>1. NameInv' /\ WatchedInv'
    BY <1>6 DEF offLimitVars, NameInv, WatchedInv
  <2>2. PenaltyIsDeserved'
    BY <1>6 DEF offLimitVars, PenaltyIsDeserved, PenaltyIsOffLimit, FirstIsReported, Counted, OffLimit
  <2>3. QED
    BY <1>6, <2>1, <2>2 DEF offLimitVars
<1>7. QED
  BY <1>1, <1>2, <1>3, <1>4, <1>5, <1>6 DEF OffLimitNext, OffLimitPreUpdate

-----------------------------------------------------------------------------
(***************************************************************************)
(* AicAdapter.                                                             *)
(***************************************************************************)

Stamped == [stamp : Nat \cup {-1}, pixels : BOOLEAN]

\* What is on its way comes in the order it was taken, after a and until n.
InOrderAfter(a, q, n) ==
  /\ q \in Seq(Nat)
  /\ \A i \in DOMAIN q : a < q[i] /\ q[i] <= n
  /\ \A i, j \in DOMAIN q : i < j => q[i] < q[j]

\* An image that was moved out is of the last observation's instant, and every
\* camera has come as far.
ImagesInv ==
  /\ images \in [Camera -> Stamped]
  /\ \A c \in Camera : images[c].stamp <= now /\ InOrderAfter(images[c].stamp, images_on_way[c], now)
  /\ \A c, d \in Camera : ~images[d].pixels => images[c].stamp >= images[d].stamp

Elements(q) == {q[i] : i \in DOMAIN q}

\* A deque holds the newest samples delivered, all of them if it is not full.
NewestOf(q, d) ==
  /\ q \in Seq(Nat) /\ Len(q) <= DequeMaxLength
  /\ Elements(q) \subseteq d
  /\ \A i, j \in DOMAIN q : i < j => q[j] < q[i]
  /\ \A r \in d \ Elements(q) : Len(q) = DequeMaxLength /\ \A i \in DOMAIN q : r < q[i]

SamplesInv ==
  \A t \in SampleTopics :
    /\ delivered[t] \subseteq 0..now
    /\ \A r \in delivered[t] : InOrderAfter(r, samples_on_way[t], now)
    /\ InOrderAfter(-1, samples_on_way[t], now)
    /\ NewestOf(deques[t], delivered[t])

AdapterInv ==
  /\ now \in Nat
  /\ DOMAIN images_on_way = Camera /\ DOMAIN samples_on_way = SampleTopics
  /\ DOMAIN deques = SampleTopics /\ DOMAIN delivered = SampleTopics
  /\ ImagesInv /\ SamplesInv /\ ObservationIsOfOneInstant

\* The size of an interval that starts at 1.
LEMMA IntervalSize ==
  ASSUME NEW n \in Nat
  PROVE  IsFiniteSet(1..n) /\ Cardinality(1..n) = n
<1>1. Cardinality(1..n) = IF 1 > n THEN 0 ELSE n - 1 + 1
  BY FS_Interval
<1>2. QED
  BY <1>1, FS_Interval

\* The first that fits from the front is the newest that does, unless the deque
\* is full of newer ones.
LEMMA ChosenIsNewest ==
  ASSUME NEW q, NEW d \in SUBSET Nat, IsFiniteSet(d), NewestOf(q, d), NEW s \in Nat
  PROVE  LET before == {r \in d : r <= s}
             after == d \ before
         IN  Chosen(q, s) = IF before = {} \/ Cardinality(after) >= DequeMaxLength
                            THEN -1 ELSE Max(before)
<1> DEFINE before == {r \in d : r <= s}
           after == d \ before
           fit == {i \in DOMAIN q : q[i] <= s}
<1>1. q \in Seq(Nat) /\ Len(q) \in Nat /\ DOMAIN q = 1..Len(q)
  BY DEF NewestOf
<1>2. \A i \in DOMAIN q : q[i] \in Nat /\ q[i] \in d /\ q[i] \in Elements(q)
  BY <1>1 DEF NewestOf, Elements
<1>3. Len(q) <= DequeMaxLength /\ DequeMaxLength \in Nat
  BY AdapterAssumption DEF NewestOf
<1>4. \A i, j \in DOMAIN q : i < j => q[j] < q[i]
  BY DEF NewestOf
<1>5. \A r \in d \ Elements(q) : Len(q) = DequeMaxLength /\ \A i \in DOMAIN q : r < q[i]
  BY DEF NewestOf
<1>6. IsFiniteSet(Elements(q)) /\ Cardinality(Elements(q)) = Len(q)
  <2> DEFINE f == [i \in 1..Len(q) |-> q[i]]
  <2> HIDE DEF before, after, fit
  <2>1. f \in Surjection(1..Len(q), Elements(q))
    BY <1>1 DEF Surjection, Elements
  <2>2. f \in Injection(1..Len(q), Elements(q))
    <3> SUFFICES ASSUME NEW i \in 1..Len(q), NEW j \in 1..Len(q), q[i] = q[j], i # j
                 PROVE  FALSE
      BY <2>1 DEF Injection, IsInjective, Surjection
    <3>1. i < j \/ j < i
      BY <1>1
    <3>2. q[i] \in Nat /\ q[j] \in Nat
      BY <1>1, <1>2
    <3>3. QED
      BY <1>1, <1>4, <3>1, <3>2
  <2>3. IsFiniteSet(1..Len(q)) /\ Cardinality(1..Len(q)) = Len(q)
    BY <1>1, IntervalSize
  <2>4. QED
    BY <2>1, <2>2, <2>3, FS_Surjection
<1>7. IsFiniteSet(after) /\ Cardinality(after) \in Nat
  BY FS_Subset, FS_CardinalityType
<1>8. \A a \in after : a \in Nat /\ s < a /\ a \in d
  OBVIOUS
<1>9. CASE Cardinality(after) >= DequeMaxLength
  <2>1. ASSUME NEW i \in fit
        PROVE  FALSE
    <3>1. i \in DOMAIN q /\ q[i] <= s /\ q[i] \in Nat /\ q[i] \in Elements(q)
      BY <1>2
    <3>2. ASSUME NEW a \in after
          PROVE  a \in Elements(q) /\ a # q[i]
      <4>1. a \in Nat /\ s < a /\ a \in d
        BY <1>8
      <4>2. ~(a < q[i]) /\ a # q[i]
        BY <3>1, <4>1
      <4>3. QED
        BY <1>5, <3>1, <4>1, <4>2
    <3> HIDE DEF before, after, fit
    <3>3. Cardinality(Elements(q) \ {q[i]}) = Len(q) - 1
      <4>1. Cardinality(Elements(q) \ {q[i]}) =
              IF q[i] \in Elements(q) THEN Cardinality(Elements(q)) - 1
                                     ELSE Cardinality(Elements(q))
        BY <1>6, FS_RemoveElement, Zenon
      <4>2. QED
        BY <1>6, <3>1, <4>1
    <3>4. IsFiniteSet(Elements(q) \ {q[i]}) /\ after \subseteq Elements(q) \ {q[i]}
      BY <1>6, <3>2, FS_RemoveElement
    <3>5. Cardinality(after) <= Len(q) - 1
      BY <3>3, <3>4, FS_Subset
    <3>6. QED
      BY <1>1, <1>3, <1>7, <1>9, <3>5
  <2>2. Chosen(q, s) = -1
    BY <2>1 DEF Chosen
  <2>3. QED
    BY <1>9, <2>2
<1>10. CASE before = {}
  <2>1. fit = {}
    BY <1>2, <1>10
  <2>2. Chosen(q, s) = -1
    BY <2>1 DEF Chosen
  <2>3. QED
    BY <1>10, <2>2
<1>11. CASE before # {} /\ ~(Cardinality(after) >= DequeMaxLength)
  <2>1. fit # {}
    <3> SUFFICES ASSUME fit = {}
                 PROVE  FALSE
      OBVIOUS
    <3>1. Elements(q) \subseteq after
      BY <1>1, <1>2 DEF Elements
    <3>2. Len(q) <= Cardinality(after)
      BY <1>6, <1>7, <3>1, FS_Subset
    <3>3. Len(q) # DequeMaxLength
      BY <1>1, <1>3, <1>7, <1>11, <3>2
    <3>4. d \subseteq Elements(q)
      BY <1>5, <3>3
    <3>5. QED
      BY <1>11, <3>1, <3>4
  <2> DEFINE m == Min(fit)
  <2>2. m \in fit /\ \A i \in fit : m <= i
    <3>1. fit \in SUBSET Nat
      BY <1>1
    <3>2. QED
      BY <2>1, <3>1, LeastNumber
  <2>3. /\ m \in DOMAIN q /\ m \in Nat /\ q[m] \in Nat
        /\ q[m] \in d /\ q[m] <= s
    BY <1>1, <1>2, <2>2
  <2>4. ASSUME NEW r \in before
        PROVE  r <= q[m]
    <3> HIDE DEF m
    <3>1. r \in Nat /\ r \in d /\ r <= s
      OBVIOUS
    <3>2. CASE r \in Elements(q)
      <4>1. PICK i \in DOMAIN q : r = q[i]
        BY <3>2 DEF Elements
      <4>2. i \in fit /\ i \in Nat /\ m <= i
        BY <1>1, <2>2, <3>1, <4>1
      <4>3. m = i \/ m < i
        BY <2>3, <4>2
      <4>4. m = i \/ q[i] < q[m]
        BY <1>4, <2>3, <4>1, <4>3
      <4>5. QED
        BY <2>3, <3>1, <4>1, <4>4
    <3>3. CASE r \notin Elements(q)
      BY <1>5, <2>3, <3>1, <3>3
    <3>4. QED
      BY <3>2, <3>3
  <2>5. Max(before) = q[m]
    <3> HIDE DEF m
    <3>1. q[m] \in before /\ \A y \in before : q[m] >= y /\ y \in Nat
      BY <2>3, <2>4
    <3> HIDE DEF before
    <3>2. Max(before) \in before /\ \A y \in before : Max(before) >= y
      BY <3>1 DEF Max
    <3>3. q[m] >= Max(before) /\ Max(before) >= q[m] /\ Max(before) \in Nat
      BY <3>1, <3>2
    <3>4. QED
      BY <2>3, <3>3
  <2>6. Chosen(q, s) = q[m]
    BY <2>1 DEF Chosen
  <2>7. QED
    BY <1>11, <2>5, <2>6
<1>12. QED
  BY <1>9, <1>10, <1>11

\* An adapter that has received nothing.
LEMMA AdapterStarts == AdapterInit => AdapterInv
<1> SUFFICES ASSUME AdapterInit
             PROVE  AdapterInv
  OBVIOUS
<1> USE DEF AdapterInit
<1>1. \A a \in Int : InOrderAfter(a, <<>>, now)
  BY DEF InOrderAfter
<1>2. ImagesInv
  BY <1>1 DEF ImagesInv, Stamped
<1>3. NewestOf(<<>>, {})
  BY AdapterAssumption DEF NewestOf, Elements
<1>4. SamplesInv
  BY <1>1, <1>3 DEF SamplesInv
<1>5. ObservationIsOfOneInstant
  BY DEF ObservationIsOfOneInstant, ImagesAreWhole, SampleIsNewest, Published
<1>6. QED
  BY <1>2, <1>4, <1>5 DEF AdapterInv

\* Only what is published can be of several instants.
LEMMA NothingPublished == observation' = <<>> => ObservationIsOfOneInstant'
BY DEF ObservationIsOfOneInstant, ImagesAreWhole, SampleIsNewest, Published

\* A message taken now goes behind those on their way.
LEMMA TakenInOrder ==
  ASSUME NEW a \in Int, NEW q, NEW n \in Nat, InOrderAfter(a, q, n), a <= n
  PROVE  InOrderAfter(a, q, n + 1) /\ InOrderAfter(a, Append(q, n + 1), n + 1)
<1>1. /\ q \in Seq(Nat) /\ Len(q) \in Nat /\ DOMAIN q = 1..Len(q)
      /\ \A i \in DOMAIN q : a < q[i] /\ q[i] <= n /\ q[i] \in Nat
      /\ \A i, j \in DOMAIN q : i < j => q[i] < q[j]
  BY DEF InOrderAfter
<1>2. \A i \in DOMAIN q : q[i] <= n + 1
  BY <1>1
<1>3. InOrderAfter(a, q, n + 1)
  BY <1>1, <1>2 DEF InOrderAfter
<1> DEFINE p == Append(q, n + 1)
<1>4. /\ p \in Seq(Nat) /\ Len(p) = Len(q) + 1 /\ DOMAIN p = 1..(Len(q) + 1)
      /\ p[Len(q) + 1] = n + 1 /\ \A i \in 1..Len(q) : p[i] = q[i]
  BY <1>1
<1>5. \A i \in DOMAIN p : a < p[i] /\ p[i] <= n + 1
  <2> SUFFICES ASSUME NEW i \in DOMAIN p
               PROVE  a < p[i] /\ p[i] <= n + 1
    OBVIOUS
  <2> HIDE DEF p
  <2>1. i \in 1..Len(q) \/ i = Len(q) + 1
    BY <1>1, <1>4
  <2>2. QED
    BY <1>1, <1>2, <1>4, <2>1
<1>6. \A i, j \in DOMAIN p : i < j => p[i] < p[j]
  <2> SUFFICES ASSUME NEW i \in DOMAIN p, NEW j \in DOMAIN p, i < j
               PROVE  p[i] < p[j]
    OBVIOUS
  <2> HIDE DEF p
  <2>1. i \in 1..Len(q) /\ (j \in 1..Len(q) \/ j = Len(q) + 1)
    BY <1>1, <1>4
  <2>2. p[i] = q[i] /\ q[i] <= n /\ q[i] \in Nat
    BY <1>1, <1>4, <2>1
  <2>3. CASE j \in 1..Len(q)
    BY <1>1, <1>4, <2>1, <2>2, <2>3
  <2>4. CASE j = Len(q) + 1
    BY <1>4, <2>2, <2>4
  <2>5. QED
    BY <2>1, <2>3, <2>4
<1>7. QED
  BY <1>3, <1>4, <1>5, <1>6 DEF InOrderAfter

\* What is delivered comes before what is still on its way.
LEMMA DeliveredInOrder ==
  ASSUME NEW a \in Int, NEW q, NEW n \in Nat, InOrderAfter(a, q, n), q # <<>>
  PROVE  /\ Head(q) \in Nat /\ a < Head(q) /\ Head(q) <= n
         /\ InOrderAfter(a, Tail(q), n) /\ InOrderAfter(Head(q), Tail(q), n)
<1>1. /\ q \in Seq(Nat) /\ Len(q) \in Nat \ {0} /\ DOMAIN q = 1..Len(q)
      /\ \A i \in DOMAIN q : a < q[i] /\ q[i] <= n /\ q[i] \in Nat
      /\ \A i, j \in DOMAIN q : i < j => q[i] < q[j]
  BY DEF InOrderAfter
<1> DEFINE p == Tail(q)
<1>2. /\ p \in Seq(Nat) /\ Len(p) = Len(q) - 1 /\ DOMAIN p = 1..(Len(q) - 1)
      /\ \A i \in 1..(Len(q) - 1) : p[i] = q[i + 1]
      /\ Head(q) = q[1]
  BY <1>1
<1> HIDE DEF p
<1>3. \A i \in DOMAIN p : i \in Nat /\ 1 < i + 1 /\ i + 1 \in DOMAIN q /\ p[i] = q[i + 1]
  BY <1>1, <1>2
<1>4. 1 \in DOMAIN q
  BY <1>1
<1>5. \A i \in DOMAIN p : a < p[i] /\ q[1] < p[i] /\ p[i] <= n
  BY <1>1, <1>3, <1>4
<1>6. \A i, j \in DOMAIN p : i < j => p[i] < p[j]
  BY <1>1, <1>3
<1>7. InOrderAfter(a, p, n) /\ InOrderAfter(Head(q), p, n)
  BY <1>2, <1>5, <1>6 DEF InOrderAfter
<1>8. QED
  BY <1>1, <1>2, <1>4, <1>7 DEF p

\* Pushing the next sample, and dropping the oldest of a full deque, leaves
\* the newest.
LEMMA PushedIsNewest ==
  ASSUME NEW q, NEW d \in SUBSET Nat, NewestOf(q, d), NEW e \in Nat, \A r \in d : r < e
  PROVE  NewestOf(PushFront(q, e), d \cup {e})
<1> DEFINE w == <<e>> \o q
           n == IF Len(w) < DequeMaxLength THEN Len(w) ELSE DequeMaxLength
           p == SubSeq(w, 1, n)
<1>1. q \in Seq(Nat) /\ Len(q) \in Nat /\ DOMAIN q = 1..Len(q)
  BY DEF NewestOf
<1>2. /\ \A i \in DOMAIN q : q[i] \in Nat /\ q[i] \in d
      /\ \A i, j \in DOMAIN q : i < j => q[j] < q[i]
  BY <1>1 DEF NewestOf, Elements
<1>3. DequeMaxLength \in Nat \ {0} /\ Len(q) <= DequeMaxLength
  BY AdapterAssumption DEF NewestOf
<1>4. /\ w \in Seq(Nat) /\ Len(w) = Len(q) + 1 /\ w[1] = e
      /\ \A i \in 2..(Len(q) + 1) : w[i] = q[i - 1]
  BY <1>1
<1> HIDE DEF w
<1>5. n \in Nat \ {0} /\ n <= Len(q) + 1 /\ n <= DequeMaxLength
  BY <1>1, <1>3, <1>4
<1>6. n = Len(q) + 1 \/ n = DequeMaxLength
  BY <1>1, <1>4
<1> HIDE DEF n
<1>7. /\ p \in Seq(Nat) /\ Len(p) = n /\ DOMAIN p = 1..n
      /\ \A i \in 1..n : p[i] = w[i]
  BY <1>1, <1>4, <1>5
<1> HIDE DEF p
<1>8. p[1] = e /\ 1 \in DOMAIN p
  BY <1>4, <1>5, <1>7
<1>9. \A i \in DOMAIN p : i # 1 => i \in Nat /\ i - 1 \in DOMAIN q /\ p[i] = q[i - 1]
  <2> SUFFICES ASSUME NEW i \in DOMAIN p, i # 1
               PROVE  i \in Nat /\ i - 1 \in DOMAIN q /\ p[i] = q[i - 1]
    OBVIOUS
  <2>1. i \in 1..n /\ p[i] = w[i]
    BY <1>7
  <2>2. i \in 2..(Len(q) + 1)
    BY <1>1, <1>5, <2>1
  <2>3. QED
    BY <1>1, <1>4, <2>1, <2>2
<1>10. Elements(p) \subseteq d \cup {e}
  BY <1>2, <1>8, <1>9 DEF Elements
<1>11. \A i, j \in DOMAIN p : i < j => p[j] < p[i]
  <2> SUFFICES ASSUME NEW i \in DOMAIN p, NEW j \in DOMAIN p, i < j
               PROVE  p[j] < p[i]
    OBVIOUS
  <2>1. i \in Nat /\ j \in Nat /\ j # 1 /\ i >= 1
    BY <1>5, <1>7
  <2>2. CASE i = 1
    BY <1>2, <1>8, <1>9, <2>1, <2>2
  <2>3. CASE i # 1
    <3>1. i - 1 \in DOMAIN q /\ j - 1 \in DOMAIN q /\ i - 1 < j - 1
      BY <1>9, <2>1, <2>3
    <3>2. QED
      BY <1>2, <1>9, <2>1, <2>3, <3>1
  <2>4. QED
    BY <2>2, <2>3
<1>12. ASSUME NEW r \in (d \cup {e}) \ Elements(p)
       PROVE  n = DequeMaxLength /\ \A i \in DOMAIN p : r < p[i]
  <2>1. r \in d /\ r < e /\ r \in Nat
    BY <1>8 DEF Elements
  <2>2. CASE r \in Elements(q)
    <3>1. PICK k \in DOMAIN q : r = q[k]
      BY <2>2 DEF Elements
    <3>2. k \in Nat /\ k + 1 > n
      <4>1. SUFFICES ASSUME k + 1 <= n
                     PROVE  FALSE
        BY <1>1, <1>5
      <4>2. k + 1 \in DOMAIN p /\ k + 1 # 1 /\ (k + 1) - 1 = k
        BY <1>1, <1>7, <4>1
      <4>3. p[k + 1] = r
        BY <1>9, <3>1, <4>2
      <4>4. QED
        BY <4>2, <4>3 DEF Elements
    <3>3. n = DequeMaxLength
      BY <1>1, <1>6, <3>1, <3>2
    <3>4. ASSUME NEW i \in DOMAIN p
          PROVE  r < p[i]
      <4>1. CASE i = 1
        BY <1>8, <2>1, <4>1
      <4>2. CASE i # 1
        <5>1. i - 1 \in DOMAIN q /\ i - 1 < k /\ p[i] = q[i - 1]
          BY <1>5, <1>7, <1>9, <3>2, <4>2
        <5>2. QED
          BY <1>2, <3>1, <5>1
      <4>3. QED
        BY <4>1, <4>2
    <3>5. QED
      BY <3>3, <3>4
  <2>3. CASE r \notin Elements(q)
    <3>1. Len(q) = DequeMaxLength /\ \A i \in DOMAIN q : r < q[i]
      BY <2>1, <2>3 DEF NewestOf
    <3>2. n = DequeMaxLength
      BY <1>3, <1>5, <1>6, <3>1
    <3>3. QED
      BY <1>8, <1>9, <2>1, <3>1, <3>2
  <2>4. QED
    BY <2>2, <2>3
<1>13. NewestOf(p, d \cup {e})
  BY <1>5, <1>7, <1>10, <1>11, <1>12 DEF NewestOf
<1>14. QED
  BY <1>13 DEF PushFront, Shortened, p, n, w

\* Every message, late or lost, and every callback keeps the invariant.
LEMMA ObservingSteps ==
  ASSUME AdapterInv, [AdapterNext]_adapterVars
  PROVE  AdapterInv'
<1> USE DEF AdapterInv
<1>1. ASSUME Tick
      PROVE  AdapterInv'
  <2>1. PICK cams \in SUBSET Camera, ts \in SUBSET SampleTopics :
          /\ images_on_way' = [c \in Camera |->
               IF c \in cams THEN Append(images_on_way[c], now') ELSE images_on_way[c]]
          /\ samples_on_way' = [t \in SampleTopics |->
               IF t \in ts THEN Append(samples_on_way[t], now') ELSE samples_on_way[t]]
    BY <1>1 DEF Tick
  <2>2. /\ now' = now + 1 /\ images' = images /\ deques' = deques
        /\ delivered' = delivered /\ observation' = <<>>
    BY <1>1 DEF Tick
  <2>3. ASSUME NEW c \in Camera
        PROVE  images[c].stamp <= now' /\ InOrderAfter(images[c].stamp, images_on_way'[c], now')
    <3>1. images[c].stamp \in Int /\ images[c].stamp <= now
      BY DEF ImagesInv, Stamped
    <3>2. /\ InOrderAfter(images[c].stamp, images_on_way[c], now + 1)
          /\ InOrderAfter(images[c].stamp, Append(images_on_way[c], now + 1), now + 1)
      BY <3>1, TakenInOrder DEF ImagesInv
    <3>3. QED
      BY <2>1, <2>2, <3>1, <3>2
  <2>4. ImagesInv'
    BY <2>2, <2>3 DEF ImagesInv
  <2>5. ASSUME NEW t \in SampleTopics, NEW r \in Int, r <= now,
               InOrderAfter(r, samples_on_way[t], now)
        PROVE  InOrderAfter(r, samples_on_way'[t], now')
    <3>1. /\ InOrderAfter(r, samples_on_way[t], now + 1)
          /\ InOrderAfter(r, Append(samples_on_way[t], now + 1), now + 1)
      BY <2>5, TakenInOrder
    <3>2. QED
      BY <2>1, <2>2, <3>1
  <2>6. SamplesInv'
    <3> SUFFICES ASSUME NEW t \in SampleTopics
                 PROVE  /\ delivered[t] \subseteq 0..(now + 1)
                        /\ \A r \in delivered[t] : InOrderAfter(r, samples_on_way'[t], now')
                        /\ InOrderAfter(-1, samples_on_way'[t], now')
                        /\ NewestOf(deques[t], delivered[t])
      BY <2>2 DEF SamplesInv
    <3>1. \A r \in delivered[t] : r \in Int /\ r <= now /\ r \in 0..(now + 1)
      BY DEF SamplesInv
    <3>2. QED
      BY <2>5, <3>1 DEF SamplesInv
  <2>7. QED
    BY <2>1, <2>2, <2>4, <2>6, NothingPublished
<1>2. ASSUME NEW c \in Camera, CameraInfo(c)
      PROVE  AdapterInv'
  <2>1. ImagesInv' /\ SamplesInv'
    BY <1>2 DEF CameraInfo, wayVars, ImagesInv, SamplesInv
  <2>2. QED
    BY <1>2, <2>1, NothingPublished DEF CameraInfo, wayVars
<1>3. ASSUME NEW t \in SampleTopics, Sample(t)
      PROVE  AdapterInv'
  <2> DEFINE e == Head(samples_on_way[t])
  <2>1. /\ samples_on_way[t] # <<>>
        /\ samples_on_way' = [samples_on_way EXCEPT ![t] = Tail(@)]
        /\ deques' = [deques EXCEPT ![t] = PushFront(@, e)]
        /\ delivered' = [delivered EXCEPT ![t] = @ \cup {e}]
        /\ observation' = <<>> /\ now' = now
        /\ images_on_way' = images_on_way /\ images' = images
    BY <1>3 DEF Sample
  <2>2. /\ delivered[t] \subseteq 0..now /\ delivered[t] \in SUBSET Nat
        /\ \A r \in delivered[t] : r \in Int /\ InOrderAfter(r, samples_on_way[t], now)
        /\ InOrderAfter(-1, samples_on_way[t], now)
        /\ NewestOf(deques[t], delivered[t])
    BY DEF SamplesInv
  <2>3. /\ e \in Nat /\ e <= now /\ InOrderAfter(-1, Tail(samples_on_way[t]), now)
        /\ InOrderAfter(e, Tail(samples_on_way[t]), now)
    BY <2>1, <2>2, DeliveredInOrder
  <2>4. \A r \in delivered[t] : r < e /\ InOrderAfter(r, Tail(samples_on_way[t]), now)
    BY <2>1, <2>2, DeliveredInOrder
  <2>5. NewestOf(PushFront(deques[t], e), delivered[t] \cup {e})
    BY <2>2, <2>3, <2>4, PushedIsNewest
  <2> HIDE DEF e
  <2>6. SamplesInv'
    <3> SUFFICES ASSUME NEW u \in SampleTopics
                 PROVE  /\ delivered'[u] \subseteq 0..now
                        /\ \A r \in delivered'[u] : InOrderAfter(r, samples_on_way'[u], now)
                        /\ InOrderAfter(-1, samples_on_way'[u], now)
                        /\ NewestOf(deques'[u], delivered'[u])
      BY <2>1 DEF SamplesInv
    <3>1. CASE u = t
      <4>1. /\ delivered'[u] = delivered[t] \cup {e}
            /\ samples_on_way'[u] = Tail(samples_on_way[t])
            /\ deques'[u] = PushFront(deques[t], e)
        BY <2>1, <3>1
      <4>2. QED
        BY <2>2, <2>3, <2>4, <2>5, <4>1
    <3>2. CASE u # t
      BY <2>1, <3>2 DEF SamplesInv
    <3>3. QED
      BY <3>1, <3>2
  <2>7. ImagesInv'
    BY <2>1 DEF ImagesInv
  <2>8. QED
    BY <2>1, <2>6, <2>7, NothingPublished
<1>4. ASSUME NEW c \in Camera, ImageCallback(c)
      PROVE  AdapterInv'
  <2> DEFINE s == Head(images_on_way[c])
             im == [images EXCEPT ![c] = [stamp |-> s, pixels |-> TRUE]]
             ready == (\A d \in Camera : im[d].stamp # -1) /\ infos = Camera /\ Aligned(im)
             o == [stamp |-> im[1].stamp,
                   pixels |-> {d \in Camera : im[d].pixels},
                   stamps |-> {im[d].stamp : d \in Camera},
                   samples |-> [t \in SampleTopics |-> Chosen(deques[t], im[1].stamp)]]
  <2>1. /\ images_on_way[c] # <<>>
        /\ images_on_way' = [images_on_way EXCEPT ![c] = Tail(@)]
        /\ now' = now /\ samples_on_way' = samples_on_way /\ deques' = deques
        /\ delivered' = delivered
    BY <1>4 DEF ImageCallback
  <2>2. /\ ready => observation' = <<o>> /\ images' = [d \in Camera |-> [im[d] EXCEPT !.pixels = FALSE]]
        /\ ~ready => observation' = <<>> /\ images' = im
    BY <1>4 DEF ImageCallback
  <2>3. /\ images \in [Camera -> Stamped]
        /\ \A d \in Camera : images[d].stamp \in Int /\ images[d].stamp <= now
        /\ \A d \in Camera : InOrderAfter(images[d].stamp, images_on_way[d], now)
        /\ \A d, x \in Camera : ~images[d].pixels => images[x].stamp >= images[d].stamp
    BY DEF ImagesInv, Stamped
  <2>4. /\ s \in Nat /\ images[c].stamp < s /\ s <= now
        /\ InOrderAfter(s, Tail(images_on_way[c]), now)
    BY <2>1, <2>3, DeliveredInOrder
  <2> HIDE DEF s
  <2>5. /\ im \in [Camera -> Stamped] /\ im[c].stamp = s /\ im[c].pixels
        /\ \A d \in Camera : d # c => im[d] = images[d]
    BY <2>3, <2>4 DEF Stamped
  <2> HIDE DEF im
  <2>6. \A d \in Camera : /\ im[d].stamp \in Int /\ im[d].stamp <= now
                           /\ InOrderAfter(im[d].stamp, images_on_way'[d], now)
    <3> SUFFICES ASSUME NEW d \in Camera
                 PROVE  /\ im[d].stamp \in Int /\ im[d].stamp <= now
                        /\ InOrderAfter(im[d].stamp, images_on_way'[d], now)
      OBVIOUS
    <3>1. CASE d = c
      BY <2>1, <2>4, <2>5, <3>1
    <3>2. CASE d # c
      BY <2>1, <2>3, <2>5, <3>2
    <3>3. QED
      BY <3>1, <3>2
  <2>7. \A d, x \in Camera : ~im[d].pixels => im[x].stamp >= im[d].stamp /\ im[d].stamp < s
    <3> SUFFICES ASSUME NEW d \in Camera, NEW x \in Camera, ~im[d].pixels
                 PROVE  im[x].stamp >= im[d].stamp /\ im[d].stamp < s
      OBVIOUS
    <3>1. d # c /\ im[d] = images[d]
      BY <2>5
    <3>2. images[x].stamp >= images[d].stamp /\ images[c].stamp >= images[d].stamp
      BY <2>3, <3>1
    <3>3. CASE x = c
      BY <2>3, <2>4, <2>5, <3>1, <3>2, <3>3
    <3>4. CASE x # c
      BY <2>3, <2>4, <2>5, <3>1, <3>2, <3>4
    <3>5. QED
      BY <3>3, <3>4
  <2>8. SamplesInv'
    BY <2>1 DEF SamplesInv
  <2>9. CASE ready
    <3>1. \A d \in Camera : im[d].stamp = s /\ 1 \in Camera
      BY <2>5, <2>9, AdapterAssumption DEF Aligned, Camera
    <3>2. \A d \in Camera : im[d].pixels
      <4> SUFFICES ASSUME NEW d \in Camera, ~im[d].pixels
                   PROVE  FALSE
        OBVIOUS
      <4>1. im[d].stamp < s /\ im[d].stamp = s
        BY <2>7, <3>1
      <4>2. QED
        BY <2>4, <4>1
    <3>3. images' = [d \in Camera |-> [im[d] EXCEPT !.pixels = FALSE]]
      BY <2>2, <2>9
    <3>4. ImagesInv'
      <4>1. \A d \in Camera : images'[d].stamp = s
        BY <2>5, <3>1, <3>3 DEF Stamped
      <4>2. images' \in [Camera -> Stamped]
        BY <2>5, <3>3 DEF Stamped
      <4>3. \A d \in Camera : InOrderAfter(s, images_on_way'[d], now)
        BY <2>6, <3>1
      <4>4. \A d \in Camera : /\ images'[d].stamp <= now'
                               /\ InOrderAfter(images'[d].stamp, images_on_way'[d], now')
        BY <2>1, <2>4, <4>1, <4>3
      <4>5. \A d, x \in Camera : images'[d].stamp >= images'[x].stamp
        BY <2>4, <4>1
      <4>6. QED
        BY <4>2, <4>4, <4>5 DEF ImagesInv
    <3>5. Published' = {o}
      <4>1. observation' = <<o>>
        BY <2>2, <2>9
      <4> HIDE DEF o
      <4>2. QED
        BY <4>1 DEF Published
    <3>6. o.stamp = s /\ o.pixels = Camera /\ o.stamps = {s}
      BY <3>1, <3>2
    <3>7. \A t \in SampleTopics : o.samples[t] = Chosen(deques[t], s)
      BY <3>1
    <3> HIDE DEF o
    <3>8. ImagesAreWhole'
      BY <3>5, <3>6 DEF ImagesAreWhole
    <3>9. SampleIsNewest'
      <4> SUFFICES ASSUME NEW t \in SampleTopics
                   PROVE  LET before == {r \in delivered[t] : r <= s}
                              after == delivered[t] \ before
                          IN  o.samples[t] = IF before = {} \/ Cardinality(after) >= DequeMaxLength
                                             THEN -1 ELSE Max(before)
        BY <2>1, <3>5, <3>6 DEF SampleIsNewest
      <4>1. delivered[t] \subseteq 0..now /\ delivered[t] \in SUBSET Nat
        BY DEF SamplesInv
      <4>2. IsFiniteSet(0..now)
        BY FS_Interval
      <4>3. IsFiniteSet(delivered[t])
        BY <4>1, <4>2, FS_Subset
      <4>4. NewestOf(deques[t], delivered[t])
        BY DEF SamplesInv
      <4>5. QED
        BY <2>4, <3>7, <4>1, <4>3, <4>4, ChosenIsNewest
    <3>10. QED
      BY <2>1, <2>8, <3>4, <3>8, <3>9 DEF ObservationIsOfOneInstant
  <2>10. CASE ~ready
    <3>1. images' = im /\ observation' = <<>>
      BY <2>2, <2>10
    <3>2. ImagesInv'
      BY <2>1, <2>5, <2>6, <2>7, <3>1 DEF ImagesInv
    <3>3. QED
      BY <2>1, <2>8, <3>1, <3>2, NothingPublished
  <2>11. QED
    BY <2>9, <2>10
<1>5. ASSUME UNCHANGED adapterVars
      PROVE  AdapterInv'
  <2>1. ImagesInv' /\ SamplesInv'
    BY <1>5 DEF adapterVars, wayVars, ImagesInv, SamplesInv
  <2>2. ObservationIsOfOneInstant'
    <3>1. observation' = observation /\ delivered' = delivered
      BY <1>5 DEF adapterVars
    <3>2. QED
      BY <3>1 DEF ObservationIsOfOneInstant, ImagesAreWhole, SampleIsNewest, Published
  <2>3. QED
    BY <1>5, <2>1, <2>2 DEF adapterVars, wayVars
<1>6. QED
  BY <1>1, <1>2, <1>3, <1>4, <1>5 DEF AdapterNext

-----------------------------------------------------------------------------
(***************************************************************************)
(* ResetJointsPlugin.                                                      *)
(***************************************************************************)

\* The safety half of RequestsAreServed: besides that an answer is about its
\* own joints, no request with joints in it is turned away.
NoneTurnedAway ==
  \A r \in DOMAIN answers : answers[r] = "rejected" => requests[r] = {}

\* The map and the promise belong to the request whose callback waits: while
\* there is a promise its joints are to be reset, and then they have been.
ServingInv ==
  IF serving = 0 THEN requestedJoints = {} /\ ~reset_promise
  ELSE /\ requests[serving] # {}
       /\ IF reset_promise THEN requestedJoints = requests[serving]
          ELSE requestedJoints = {} /\ requests[serving] \cap Joints \subseteq resets[serving]

ResetJointsInv ==
  /\ requests \in Seq(SUBSET (Joints \cup Unknown)) /\ resets \in Seq(SUBSET Joints)
  /\ answers \in Seq({"none", "rejected", "success"})
  /\ Len(resets) = Len(requests) /\ Len(answers) = Len(requests)
  /\ serving \in 0..Len(requests) /\ queue \in Seq(1..Len(requests))
  /\ reset_promise \in BOOLEAN
  /\ ServingInv /\ AnswerIsOwn /\ NoneTurnedAway

\* A plugin nobody has called.
LEMMA ResetJointsStarts == ResetJointsInit => ResetJointsInv
<1> SUFFICES ASSUME ResetJointsInit
             PROVE  ResetJointsInv
  OBVIOUS
<1> USE DEF ResetJointsInit
<1>1. Len(requests) = 0 /\ DOMAIN answers = {}
  OBVIOUS
<1>2. ServingInv /\ AnswerIsOwn /\ NoneTurnedAway
  BY <1>1 DEF ServingInv, AnswerIsOwn, NoneTurnedAway
<1>3. /\ requests \in Seq(SUBSET (Joints \cup Unknown)) /\ resets \in Seq(SUBSET Joints)
      /\ answers \in Seq({"none", "rejected", "success"}) /\ queue \in Seq(1..Len(requests))
  BY EmptySeq
<1>4. Len(resets) = Len(requests) /\ Len(answers) = Len(requests)
  OBVIOUS
<1>5. serving = 0 /\ reset_promise = FALSE /\ serving \in 0..Len(requests)
  BY <1>1
<1>6. QED
  BY <1>2, <1>3, <1>4, <1>5 DEF ResetJointsInv

\* Every call, every step of the service and every update keeps the invariant.
LEMMA ServingSteps ==
  ASSUME ResetJointsInv, [ResetJointsNext]_resetJointsVars
  PROVE  ResetJointsInv'
<1> USE DEF ResetJointsInv
<1>0. /\ Len(requests) \in Nat /\ DOMAIN requests = 1..Len(requests)
      /\ DOMAIN resets = 1..Len(requests) /\ DOMAIN answers = 1..Len(requests)
  OBVIOUS
<1>1. ASSUME NEW names \in SUBSET (Joints \cup Unknown), Call(names)
      PROVE  ResetJointsInv'
  <2> DEFINE n == Len(requests) + 1
  <2>1. /\ requests' = Append(requests, names) /\ resets' = Append(resets, {})
        /\ answers' = Append(answers, "none") /\ queue' = Append(queue, n)
        /\ UNCHANGED <<serving, requestedJoints, reset_promise>>
    BY <1>1 DEF Call
  <2>2. /\ requests' \in Seq(SUBSET (Joints \cup Unknown)) /\ resets' \in Seq(SUBSET Joints)
        /\ answers' \in Seq({"none", "rejected", "success"})
        /\ Len(requests') = n /\ Len(resets') = n /\ Len(answers') = n
        /\ DOMAIN answers' = 1..n
    BY <1>0, <2>1
  <2>3. /\ \A r \in 1..Len(requests) :
             requests'[r] = requests[r] /\ resets'[r] = resets[r] /\ answers'[r] = answers[r]
        /\ answers'[n] = "none"
    BY <1>0, <2>1
  <2>4. queue' \in Seq(1..n)
    <3>1. queue \in Seq(1..n) /\ n \in 1..n
      BY <1>0, SeqMonotonic
    <3>2. QED
      BY <2>1, <3>1
  <2>5. ServingInv'
    BY <1>0, <2>1, <2>3 DEF ServingInv
  <2>6. AnswerIsOwn' /\ NoneTurnedAway'
    <3> SUFFICES ASSUME NEW r \in 1..n
                 PROVE  /\ answers'[r] = "success" => requests'[r] \cap Joints \subseteq resets'[r]
                        /\ answers'[r] = "rejected" => requests'[r] = {}
      BY <2>2 DEF AnswerIsOwn, NoneTurnedAway
    <3>1. CASE r = n
      BY <2>3, <3>1
    <3>2. CASE r \in 1..Len(requests)
      <4>1. /\ answers[r] = "success" => requests[r] \cap Joints \subseteq resets[r]
            /\ answers[r] = "rejected" => requests[r] = {}
        BY <1>0, <3>2 DEF AnswerIsOwn, NoneTurnedAway
      <4>2. requests'[r] = requests[r] /\ resets'[r] = resets[r] /\ answers'[r] = answers[r]
        BY <2>3, <3>2
      <4>3. answers'[r] = "success" => requests'[r] \cap Joints \subseteq resets'[r]
        BY <4>1, <4>2
      <4>4. answers'[r] = "rejected" => requests'[r] = {}
        BY <4>1, <4>2
      <4>5. QED
        BY <4>3, <4>4
    <3>3. r = n \/ r \in 1..Len(requests)
      BY <1>0
    <3>4. QED
      BY <3>1, <3>2, <3>3
  <2>7. serving' \in 0..n
    BY <1>0, <2>1
  <2>8. QED
    BY <2>1, <2>2, <2>4, <2>5, <2>6, <2>7
<1>2. ASSUME NEW r \in 1..MaxRequests, Taken(r)
      PROVE  /\ r \in 1..Len(requests) /\ queue' \in Seq(1..Len(requests))
             /\ serving = 0 /\ requestedJoints = {} /\ ~reset_promise
  BY <1>2 DEF Taken, ServingInv
<1>3. ASSUME NEW r \in 1..MaxRequests, Reject(r)
      PROVE  ResetJointsInv'
  <2>1. /\ r \in 1..Len(requests) /\ queue' \in Seq(1..Len(requests))
        /\ requests[r] = {} /\ answers' = [answers EXCEPT ![r] = "rejected"]
        /\ UNCHANGED <<requests, serving, requestedJoints, reset_promise, resets>>
    BY <1>2, <1>3 DEF Reject, Answer
  <2>2. /\ answers' \in Seq({"none", "rejected", "success"}) /\ Len(answers') = Len(requests)
        /\ DOMAIN answers' = DOMAIN answers
        /\ \A q \in DOMAIN answers : answers'[q] = IF q = r THEN "rejected" ELSE answers[q]
    BY <1>0, <2>1
  <2>3. ServingInv'
    BY <2>1 DEF ServingInv
  <2>4. AnswerIsOwn' /\ NoneTurnedAway'
    BY <2>1, <2>2 DEF AnswerIsOwn, NoneTurnedAway
  <2>5. QED
    BY <2>1, <2>2, <2>3, <2>4
<1>4. ASSUME NEW r \in 1..MaxRequests, Accept(r)
      PROVE  ResetJointsInv'
  <2>1. /\ r \in 1..Len(requests) /\ queue' \in Seq(1..Len(requests))
        /\ requests[r] # {} /\ serving' = r /\ reset_promise' = TRUE
        /\ requestedJoints' = requests[r] /\ UNCHANGED <<requests, resets, answers>>
    BY <1>2, <1>4 DEF Accept
  <2>2. ServingInv'
    BY <1>0, <2>1 DEF ServingInv
  <2>3. AnswerIsOwn' /\ NoneTurnedAway'
    BY <2>1 DEF AnswerIsOwn, NoneTurnedAway
  <2>4. QED
    BY <1>0, <2>1, <2>2, <2>3
<1>5. ASSUME ReturnSuccess
      PROVE  ResetJointsInv'
  <2>1. /\ serving \in 1..Len(requests) /\ ~reset_promise
        /\ answers' = [answers EXCEPT ![serving] = "success"] /\ serving' = 0
        /\ UNCHANGED <<requests, queue, requestedJoints, reset_promise, resets>>
    BY <1>0, <1>5 DEF ReturnSuccess, Answer
  <2>2. requestedJoints = {} /\ requests[serving] \cap Joints \subseteq resets[serving]
    BY <1>0, <2>1 DEF ServingInv
  <2>3. /\ answers' \in Seq({"none", "rejected", "success"}) /\ Len(answers') = Len(requests)
        /\ DOMAIN answers' = DOMAIN answers
        /\ \A q \in DOMAIN answers : answers'[q] = IF q = serving THEN "success" ELSE answers[q]
    BY <1>0, <2>1
  <2>4. AnswerIsOwn' /\ NoneTurnedAway'
    BY <2>1, <2>2, <2>3 DEF AnswerIsOwn, NoneTurnedAway
  <2>5. ServingInv'
    BY <2>1, <2>2 DEF ServingInv
  <2>6. QED
    BY <1>0, <2>1, <2>3, <2>4, <2>5
<1>6. ASSUME ResetJointsPreUpdate
      PROVE  ResetJointsInv'
  <2>1. /\ requestedJoints # {} /\ requestedJoints' = {} /\ reset_promise' = FALSE
        /\ resets' = [r \in DOMAIN resets |->
                       IF r = serving THEN requestedJoints \cap Joints ELSE resets[r]]
        /\ UNCHANGED <<requests, queue, serving, answers>>
    BY <1>6 DEF ResetJointsPreUpdate, ResetFound
  <2>2. serving # 0 /\ serving \in 1..Len(requests) /\ requestedJoints = requests[serving]
        /\ requests[serving] # {}
    BY <1>0, <2>1 DEF ServingInv
  <2>3. /\ resets' \in [1..Len(requests) -> SUBSET Joints]
        /\ resets' \in Seq(SUBSET Joints) /\ Len(resets') = Len(requests)
    <3>1. resets' = [r \in 1..Len(requests) |->
                       IF r = serving THEN requestedJoints \cap Joints ELSE resets[r]]
      BY <1>0, <2>1
    <3>2. \A r \in 1..Len(requests) : resets[r] \in SUBSET Joints
      BY <1>0
    <3>3. resets' \in [1..Len(requests) -> SUBSET Joints]
      BY <3>1, <3>2
    <3>4. Len(resets') = Len(requests)
      BY <1>0, <3>1
    <3>5. Len(requests) \in Nat
      BY <1>0
    <3>6. resets' \in Seq(SUBSET Joints)
      BY <3>3, <3>5, SeqDef
    <3>7. QED
      BY <3>3, <3>4, <3>6
  <2>4. ServingInv'
    BY <1>0, <2>1, <2>2 DEF ServingInv
  <2>5. AnswerIsOwn' /\ NoneTurnedAway'
    BY <1>0, <2>1, <2>2 DEF AnswerIsOwn, NoneTurnedAway
  <2>6. QED
    BY <1>0, <2>1, <2>3, <2>4, <2>5
<1>7. ASSUME Unload \/ Join \/ UNCHANGED resetJointsVars
      PROVE  ResetJointsInv'
  <2>1. UNCHANGED <<requests, queue, serving, requestedJoints, reset_promise, resets, answers>>
    BY <1>7 DEF Unload, Join, resetJointsVars
  <2>2. ServingInv' /\ AnswerIsOwn' /\ NoneTurnedAway'
    BY <2>1 DEF ServingInv, AnswerIsOwn, NoneTurnedAway
  <2>3. QED
    BY <2>1, <2>2
<1>8. QED
  BY <1>1, <1>3, <1>4, <1>5, <1>6, <1>7 DEF ResetJointsNext, Service

-----------------------------------------------------------------------------
(***************************************************************************)
(* CablePlugin.                                                            *)
(***************************************************************************)

\* Once every cable that was spawned has noticed its removal there is neither
\* a joint nor a static model: the safety half of NothingLeftBehind.
RemovedLeavesNothing ==
  (\A c \in Cable : cableState[c] \in {"INITIALIZATION", "CABLE_REMOVED"})
    => joints = {} /\ staticModels = {}

\* An insertion is announced once, of a cable whose plug was let go at a touch,
\* and names a port; a cable that is not deleted and is done was announced: the
\* safety half of ReleasedIsInserted.
InsertionsAreReal ==
  /\ \A i \in DOMAIN insertions : insertions[i][1] \in released /\ insertions[i][2] \in Ports
  /\ \A i, j \in DOMAIN insertions : insertions[i][1] = insertions[j][1] => i = j
  /\ \A c \in Cable : cableState[c] = "COMPLETED" => Inserted(c)

Idle == {"INITIALIZATION", "CABLE_REMOVED"}

\* What the plugin of a cable that is neither done nor removed holds.
FieldsInv ==
  \A c \in Cable : cableState[c] \notin {"COMPLETED", "CABLE_REMOVED"} =>
    fields[c] = IF cableState[c] = "CABLE_ATTACHED_TO_GRIPPER" THEN {"joint0"} ELSE {}

\* Whatever stands in the simulator is held by a plugin that still runs.
HeldInv ==
  /\ FieldsInv
  /\ fields \in [Cable -> SUBSET {"joint0", "static0", "static1", "locked"}]
  /\ DOMAIN staticEntities = Cable
  /\ \A j \in joints : /\ j \in Cable \X {"joint0", "static0", "static1", "locked"}
                       /\ j[2] \in fields[j[1]] /\ cableState[j[1]] \notin Idle
  /\ \A x \in staticModels : \E c \in Cable : x \in staticEntities[c] /\ cableState[c] \notin Idle

\* Where the plugin of a cable is when its touch was acted on, and when it was
\* announced.
ReleasedInv ==
  /\ \A c \in released : c \in Cable /\ cableState[c] \in {"ATTACH_CABLE_TO_PORT", "COMPLETED", "CABLE_REMOVED"}
  /\ \A i \in DOMAIN insertions : /\ insertions[i] \in Cable \X Ports
                                  /\ insertions[i][1] \in released
                                  /\ cableState[insertions[i][1]] \in {"COMPLETED", "CABLE_REMOVED"}
  /\ \A c \in Cable : cableState[c] = "ATTACH_CABLE_TO_PORT" => c \in released

\* The port is written before the flag and never cleared.
TouchInv ==
  /\ DOMAIN touchEventCallbackNamespace = Cable
  /\ attachCableConnection0ToPort \in [Cable -> BOOLEAN]
  /\ delivering # <<>> => /\ delivering \in Cable \X Ports \X BOOLEAN
                          /\ touchEventCallbackNamespace[delivering[1]] \in Ports
  /\ \A c \in Cable : attachCableConnection0ToPort[c] \/ c \in released
       => touchEventCallbackNamespace[c] \in Ports

CableInv ==
  /\ DOMAIN cableState = Cable /\ insertions \in Seq(Cable \X Ports)
  /\ HeldInv /\ ReleasedInv /\ TouchInv /\ RemovedLeavesNothing /\ InsertionsAreReal

\* No cable has been spawned.
LEMMA CableStarts == CableInit => CableInv
BY DEF CableInit, CableInv, HeldInv, FieldsInv, ReleasedInv, TouchInv, RemovedLeavesNothing,
       InsertionsAreReal, Inserted, Idle

\* What no plugin that runs holds is not there.
LEMMA HeldMeansNothingLeft ==
  /\ HeldInv => RemovedLeavesNothing
  /\ HeldInv' => RemovedLeavesNothing'
BY DEF HeldInv, RemovedLeavesNothing, Idle

\* A step that leaves the insertions alone and completes no cable.
LEMMA SameInsertions ==
  ASSUME InsertionsAreReal, UNCHANGED insertions, released \subseteq released',
         \A c \in Cable : cableState'[c] = "COMPLETED" => cableState[c] = "COMPLETED"
  PROVE  InsertionsAreReal'
BY DEF InsertionsAreReal, Inserted

\* Every update of a plugin, every touch and every deletion keeps the invariant.
LEMMA CableSteps ==
  ASSUME CableInv, [CableNext]_cableVars
  PROVE  CableInv'
<1> USE DEF CableInv
<1>1. ASSUME NEW c \in Cable, Configure(c)
      PROVE  CableInv'
  <2>1. /\ cableState' = [cableState EXCEPT ![c] = "HARNESS"] /\ cableState[c] = "INITIALIZATION"
        /\ UNCHANGED <<fields, joints, staticModels, staticEntities, delivering,
                       touchEventCallbackNamespace, attachCableConnection0ToPort, released, insertions>>
    BY <1>1 DEF Configure, Enter, simVars, messageVars
  <2>2. HeldInv' /\ ReleasedInv' /\ TouchInv'
    BY <2>1 DEF HeldInv, FieldsInv, ReleasedInv, TouchInv, Idle
  <2>3. InsertionsAreReal'
    BY <2>1, SameInsertions
  <2>4. QED
    BY <2>1, <2>2, <2>3, HeldMeansNothingLeft
<1>2. ASSUME NEW c \in Cable, DeleteCable(c)
      PROVE  CableInv'
  <2>1. UNCHANGED <<cableState, fields, joints, staticModels, staticEntities, delivering,
                    touchEventCallbackNamespace, attachCableConnection0ToPort, released, insertions>>
    BY <1>2 DEF DeleteCable, simVars, messageVars
  <2>2. HeldInv' /\ ReleasedInv' /\ TouchInv'
    BY <2>1 DEF HeldInv, FieldsInv, ReleasedInv, TouchInv
  <2>3. InsertionsAreReal'
    BY <2>1, SameInsertions
  <2>4. QED
    BY <2>1, <2>2, <2>3, HeldMeansNothingLeft
<1>3. ASSUME NEW c \in Cable, Removal(c)
      PROVE  CableInv'
  <2>1. /\ cableState' = [cableState EXCEPT ![c] = "CABLE_REMOVED"]
        /\ joints' = joints \ ({c} \X fields[c])
        /\ staticModels' = staticModels \ staticEntities[c]
        /\ staticEntities' = [staticEntities EXCEPT ![c] = {}]
        /\ UNCHANGED <<fields, delivering, touchEventCallbackNamespace,
                       attachCableConnection0ToPort, released, insertions>>
    BY <1>3 DEF Removal, Enter, messageVars
  <2>2. HeldInv'
    <3>1. ASSUME NEW j \in joints'
          PROVE  /\ j \in Cable \X {"joint0", "static0", "static1", "locked"}
                 /\ j[2] \in fields[j[1]] /\ cableState'[j[1]] \notin Idle
      <4>1. /\ j \in Cable \X {"joint0", "static0", "static1", "locked"}
            /\ j[2] \in fields[j[1]] /\ cableState[j[1]] \notin Idle
        BY <2>1 DEF HeldInv
      <4>2. j = <<j[1], j[2]>>
        BY <4>1
      <4>3. j[1] # c
        BY <2>1, <4>1, <4>2
      <4>4. QED
        BY <2>1, <4>1, <4>3
    <3>2. ASSUME NEW x \in staticModels'
          PROVE  \E d \in Cable : x \in staticEntities'[d] /\ cableState'[d] \notin Idle
      <4>1. PICK d \in Cable : x \in staticEntities[d] /\ cableState[d] \notin Idle
        BY <2>1 DEF HeldInv
      <4>2. d # c
        BY <2>1, <4>1
      <4>3. QED
        BY <2>1, <4>1, <4>2 DEF HeldInv
    <3>3. QED
      BY <2>1, <3>1, <3>2 DEF HeldInv, FieldsInv
  <2>3. ReleasedInv' /\ TouchInv'
    BY <2>1 DEF ReleasedInv, TouchInv
  <2>4. InsertionsAreReal'
    BY <2>1, SameInsertions
  <2>5. QED
    BY <2>1, <2>2, <2>3, <2>4, HeldMeansNothingLeft
<1>4. ASSUME NEW c \in Cable, Harness(c)
      PROVE  CableInv'
  <2> DEFINE links == {"connection_0", "connection_1"}
  <2>1. /\ cableState' = [cableState EXCEPT ![c] = "CREATE_CONNECTIONS"] /\ cableState[c] = "HARNESS"
        /\ staticModels' = staticModels \cup links
        /\ staticEntities' = [staticEntities EXCEPT ![c] = @ \cup (links \ staticModels)]
        /\ UNCHANGED <<fields, joints, delivering, touchEventCallbackNamespace,
                       attachCableConnection0ToPort, released, insertions>>
    BY <1>4 DEF Harness, In, Enter, MakeStatic, messageVars
  <2> HIDE DEF links
  <2>2. HeldInv'
    <3>1. \A x \in staticModels' : \E d \in Cable : x \in staticEntities'[d] /\ cableState'[d] \notin Idle
      BY <2>1 DEF HeldInv, Idle
    <3>2. QED
      BY <2>1, <3>1 DEF HeldInv, FieldsInv, Idle
  <2>3. ReleasedInv' /\ TouchInv'
    BY <2>1 DEF ReleasedInv, TouchInv
  <2>4. InsertionsAreReal'
    BY <2>1, SameInsertions
  <2>5. QED
    BY <2>1, <2>2, <2>3, <2>4, HeldMeansNothingLeft
<1>5. ASSUME NEW c \in Cable, CreateConnections(c)
      PROVE  CableInv'
  <2>1. /\ cableState' = [cableState EXCEPT ![c] = "CABLE_ATTACHED_TO_GRIPPER"]
        /\ cableState[c] = "CREATE_CONNECTIONS"
        /\ fields' = [fields EXCEPT ![c] = {"joint0"}] /\ joints' = joints \cup {<<c, "joint0">>}
        /\ UNCHANGED <<staticModels, staticEntities, delivering, touchEventCallbackNamespace,
                       attachCableConnection0ToPort, released, insertions>>
    BY <1>5 DEF CreateConnections, In, Enter, messageVars
  <2>2. HeldInv'
    <3>1. ASSUME NEW j \in joints'
          PROVE  /\ j \in Cable \X {"joint0", "static0", "static1", "locked"}
                 /\ j[2] \in fields'[j[1]] /\ cableState'[j[1]] \notin Idle
      <4>1. CASE j = <<c, "joint0">>
        BY <2>1, <4>1 DEF HeldInv, Idle
      <4>2. CASE j \in joints
        <5>1. /\ j \in Cable \X {"joint0", "static0", "static1", "locked"}
              /\ j[2] \in fields[j[1]] /\ cableState[j[1]] \notin Idle
          BY <4>2 DEF HeldInv
        <5>2. j[1] # c
          BY <2>1, <5>1 DEF HeldInv, FieldsInv
        <5>3. QED
          BY <2>1, <5>1, <5>2 DEF HeldInv
      <4>3. QED
        BY <2>1, <4>1, <4>2
    <3>2. \A x \in staticModels' : \E d \in Cable : x \in staticEntities'[d] /\ cableState'[d] \notin Idle
      BY <2>1 DEF HeldInv, Idle
    <3>3. FieldsInv'
      BY <2>1 DEF HeldInv, FieldsInv
    <3>4. QED
      BY <2>1, <3>1, <3>2, <3>3 DEF HeldInv
  <2>3. ReleasedInv' /\ TouchInv'
    BY <2>1 DEF ReleasedInv, TouchInv
  <2>4. InsertionsAreReal'
    BY <2>1, SameInsertions
  <2>5. QED
    BY <2>1, <2>2, <2>3, <2>4, HeldMeansNothingLeft
<1>6. ASSUME NEW c \in Cable, SubscribeToPort(c)
      PROVE  CableInv'
  <2>1. UNCHANGED <<cableState, fields, joints, staticModels, staticEntities, delivering,
                    touchEventCallbackNamespace, attachCableConnection0ToPort, released, insertions>>
    BY <1>6 DEF SubscribeToPort, simVars, messageVars
  <2>2. HeldInv' /\ ReleasedInv' /\ TouchInv'
    BY <2>1 DEF HeldInv, FieldsInv, ReleasedInv, TouchInv
  <2>3. InsertionsAreReal'
    BY <2>1, SameInsertions
  <2>4. QED
    BY <2>1, <2>2, <2>3, HeldMeansNothingLeft
<1>7. ASSUME NEW c \in Cable, Insert(c)
      PROVE  CableInv'
  <2>1. /\ cableState' = [cableState EXCEPT ![c] = "ATTACH_CABLE_TO_PORT"]
        /\ cableState[c] = "CABLE_ATTACHED_TO_GRIPPER"
        /\ attachCableConnection0ToPort[c] /\ released' = released \cup {c}
        /\ fields' = [fields EXCEPT ![c] = {}] /\ joints' = joints \ {<<c, "joint0">>}
        /\ UNCHANGED <<staticModels, staticEntities, delivering, touchEventCallbackNamespace,
                       attachCableConnection0ToPort, insertions>>
    BY <1>7 DEF Insert, In, Enter, messageVars
  <2>2. HeldInv'
    <3>1. ASSUME NEW j \in joints'
          PROVE  /\ j \in Cable \X {"joint0", "static0", "static1", "locked"}
                 /\ j[2] \in fields'[j[1]] /\ cableState'[j[1]] \notin Idle
      <4>1. /\ j \in Cable \X {"joint0", "static0", "static1", "locked"}
            /\ j[2] \in fields[j[1]] /\ cableState[j[1]] \notin Idle /\ j # <<c, "joint0">>
        BY <2>1 DEF HeldInv
      <4>2. j = <<j[1], j[2]>>
        BY <4>1
      <4>3. fields[c] = {"joint0"}
        BY <2>1 DEF HeldInv, FieldsInv
      <4>4. j[1] # c
        BY <4>1, <4>2, <4>3
      <4>5. QED
        BY <2>1, <4>1, <4>4 DEF HeldInv
    <3>2. \A x \in staticModels' : \E d \in Cable : x \in staticEntities'[d] /\ cableState'[d] \notin Idle
      BY <2>1 DEF HeldInv, Idle
    <3>3. FieldsInv'
      BY <2>1 DEF HeldInv, FieldsInv
    <3>4. QED
      BY <2>1, <3>1, <3>2, <3>3 DEF HeldInv
  <2>3. ReleasedInv' /\ TouchInv'
    BY <2>1 DEF ReleasedInv, TouchInv
  <2>4. InsertionsAreReal'
    BY <2>1, SameInsertions
  <2>5. QED
    BY <2>1, <2>2, <2>3, <2>4, HeldMeansNothingLeft
<1>8. ASSUME NEW c \in Cable, AttachToPort(c)
      PROVE  CableInv'
  <2> DEFINE links == {"connection_0", "connection_1", "end_effector"}
             port == touchEventCallbackNamespace[c]
             three == {"static0", "static1", "locked"}
  <2>1. /\ cableState' = [cableState EXCEPT ![c] = "COMPLETED"]
        /\ cableState[c] = "ATTACH_CABLE_TO_PORT"
        /\ staticModels' = staticModels \cup links
        /\ staticEntities' = [staticEntities EXCEPT ![c] = @ \cup (links \ staticModels)]
        /\ fields' = [fields EXCEPT ![c] = three] /\ joints' = joints \cup ({c} \X three)
        /\ insertions' = Append(insertions, <<c, port>>)
        /\ UNCHANGED <<delivering, touchEventCallbackNamespace, attachCableConnection0ToPort, released>>
    BY <1>8 DEF AttachToPort, In, Enter, MakeStatic, messageVars
  <2>2. c \in released /\ port \in Ports
    BY <2>1 DEF ReleasedInv, TouchInv
  <2> HIDE DEF links, port
  <2>3. HeldInv'
    <3>1. \A x \in staticModels' : \E d \in Cable : x \in staticEntities'[d] /\ cableState'[d] \notin Idle
      BY <2>1 DEF HeldInv, Idle
    <3>2. ASSUME NEW j \in joints'
          PROVE  /\ j \in Cable \X {"joint0", "static0", "static1", "locked"}
                 /\ j[2] \in fields'[j[1]] /\ cableState'[j[1]] \notin Idle
      <4>1. CASE j \in {c} \X three
        BY <2>1, <4>1 DEF HeldInv, Idle
      <4>2. CASE j \in joints
        <5>1. /\ j \in Cable \X {"joint0", "static0", "static1", "locked"}
              /\ j[2] \in fields[j[1]] /\ cableState[j[1]] \notin Idle
          BY <4>2 DEF HeldInv
        <5>2. CASE j[1] # c
          BY <2>1, <5>1, <5>2 DEF HeldInv
        <5>3. j[1] # c
          BY <2>1, <5>1 DEF HeldInv, FieldsInv
        <5>4. QED
          BY <5>2, <5>3
      <4>3. QED
        BY <2>1, <4>1, <4>2
    <3>3. QED
      BY <2>1, <3>1, <3>2 DEF HeldInv, FieldsInv
  <2>4. /\ insertions' \in Seq(Cable \X Ports) /\ Len(insertions) \in Nat
        /\ DOMAIN insertions = 1..Len(insertions) /\ DOMAIN insertions' = 1..(Len(insertions) + 1)
        /\ insertions'[Len(insertions) + 1] = <<c, port>>
        /\ \A i \in 1..Len(insertions) : insertions'[i] = insertions[i]
    BY <2>1, <2>2
  <2>5. \A i \in DOMAIN insertions' : i \in 1..Len(insertions) \/ i = Len(insertions) + 1
    BY <2>4
  <2>6. ReleasedInv'
    BY <2>1, <2>2, <2>4, <2>5 DEF ReleasedInv
  <2>7. \A i \in 1..Len(insertions) : insertions[i][1] # c
    BY <2>1, <2>4 DEF ReleasedInv
  <2>8. InsertionsAreReal'
    <3>1. \A i \in DOMAIN insertions' : insertions'[i][1] \in released' /\ insertions'[i][2] \in Ports
      BY <2>1, <2>2, <2>4, <2>5 DEF InsertionsAreReal
    <3>2. \A i, j \in DOMAIN insertions' : insertions'[i][1] = insertions'[j][1] => i = j
      BY <2>4, <2>5, <2>7 DEF InsertionsAreReal
    <3>3. ASSUME NEW d \in Cable, cableState'[d] = "COMPLETED"
          PROVE  \E i \in DOMAIN insertions' : insertions'[i][1] = d
      <4>1. CASE d = c
        <5>1. Len(insertions) + 1 \in DOMAIN insertions'
          BY <2>4
        <5>2. QED
          BY <2>4, <4>1, <5>1
      <4>2. CASE d # c
        <5>1. PICK i \in 1..Len(insertions) : insertions[i][1] = d
          BY <2>1, <2>4, <3>3, <4>2 DEF InsertionsAreReal, Inserted
        <5>2. i \in DOMAIN insertions' /\ insertions'[i][1] = d
          BY <2>4, <5>1
        <5>3. QED
          BY <5>2
      <4>3. QED
        BY <4>1, <4>2
    <3>4. QED
      BY <3>1, <3>2, <3>3 DEF InsertionsAreReal, Inserted
  <2>9. TouchInv'
    BY <2>1 DEF TouchInv
  <2>10. QED
    BY <2>1, <2>3, <2>4, <2>6, <2>8, <2>9, HeldMeansNothingLeft
<1>9. ASSUME NEW c \in Cable, NEW port \in Ports, NEW data \in BOOLEAN, TouchCallback(c, port, data)
      PROVE  CableInv'
  <2>1. /\ delivering' = <<c, port, data>>
        /\ touchEventCallbackNamespace' = [touchEventCallbackNamespace EXCEPT ![c] = port]
        /\ UNCHANGED <<cableState, fields, joints, staticModels, staticEntities,
                       attachCableConnection0ToPort, released, insertions>>
    BY <1>9 DEF TouchCallback, simVars
  <2>2. HeldInv' /\ ReleasedInv' /\ TouchInv'
    BY <2>1 DEF HeldInv, FieldsInv, ReleasedInv, TouchInv
  <2>3. InsertionsAreReal'
    BY <2>1, SameInsertions
  <2>4. QED
    BY <2>1, <2>2, <2>3, HeldMeansNothingLeft
<1>10. ASSUME TouchCallbackEnds
       PROVE  CableInv'
  <2>1. /\ delivering # <<>> /\ delivering' = <<>>
        /\ attachCableConnection0ToPort' =
             [attachCableConnection0ToPort EXCEPT ![delivering[1]] = delivering[3]]
        /\ UNCHANGED <<cableState, fields, joints, staticModels, staticEntities,
                       touchEventCallbackNamespace, released, insertions>>
    BY <1>10 DEF TouchCallbackEnds, simVars
  <2>2. HeldInv' /\ ReleasedInv'
    BY <2>1 DEF HeldInv, FieldsInv, ReleasedInv
  <2>3. TouchInv'
    BY <2>1 DEF TouchInv
  <2>4. InsertionsAreReal'
    BY <2>1, SameInsertions
  <2>5. QED
    BY <2>1, <2>2, <2>3, <2>4, HeldMeansNothingLeft
<1>11. ASSUME UNCHANGED cableVars
       PROVE  CableInv'
  <2>1. UNCHANGED <<cableState, fields, joints, staticModels, staticEntities, delivering,
                    touchEventCallbackNamespace, attachCableConnection0ToPort, released, insertions>>
    BY <1>11 DEF cableVars, simVars, messageVars
  <2>2. HeldInv' /\ ReleasedInv' /\ TouchInv'
    BY <2>1 DEF HeldInv, FieldsInv, ReleasedInv, TouchInv
  <2>3. InsertionsAreReal'
    BY <2>1, SameInsertions
  <2>4. QED
    BY <2>1, <2>2, <2>3, HeldMeansNothingLeft
<1>12. QED
  BY <1>1, <1>2, <1>3, <1>4, <1>5, <1>6, <1>7, <1>8, <1>9, <1>10, <1>11
  DEF CableNext, CablePreUpdate

-----------------------------------------------------------------------------
(***************************************************************************)
(* Recorder.                                                               *)
(***************************************************************************)

\* Where the engine's thread is between the opening of a recording and its end.
RecordingAt ==
  {"subscribe", "clear_start", "wait_start", "send_goal", "executing", "clear_stop", "wait_stop"}

RecordsInv ==
  /\ DOMAIN bag = {"trial", "open", "messages"} /\ DOMAIN times = {"start", "end"}
  /\ callback.at \in {"writing", "flag"} => DOMAIN callback = {"at", "message"}

\* The trial, and which of them have a score.
TrialInv ==
  /\ trial \in 0..NTrials /\ scored \subseteq 1..trial
  /\ pc \notin {"trial_end", "finished", "stopped", "died"} => trial \in 1..NTrials \ scored

\* A recording is of the trial it was opened for and stays open until its end.
StateInv ==
  /\ pc \in RecordingAt => state = "Recording" /\ bag.open /\ bag.trial = trial
  /\ pc \in {"closing", "opening", "score"} => state = "Idle"
  /\ pc \in {"opening", "score", "reading"} => ~bag.open
  /\ pc \in {"score", "reading"} =>
       bag.trial = trial /\ state # "Recording" /\ callback.at \notin {"writing", "flag"}

\* A flag is set for a message the bag holds.
FlagInv ==
  /\ pc \in {"subscribe", "clear_start", "wait_start"} /\ callback.at = "flag" =>
       callback.message \in bag.messages
  /\ pc = "wait_start" => received \subseteq {m.topic : m \in bag.messages}
  /\ pc \in {"send_goal", "executing"} => Tf \subseteq {m.topic : m \in bag.messages}

\* Nothing of an earlier trial is left in what a score is computed from.
ScoreInv ==
  /\ pc \in RecordingAt \cup {"closing", "opening", "score", "reading"} => read = {}
  /\ pc \in {"closing", "opening", "subscribe", "clear_start", "wait_start", "send_goal"} =>
       times.end = 0
  /\ pc \in {"executing", "clear_stop", "wait_stop", "score", "reading"} =>
       times.start = trial /\ times.end \in {0, trial}
  /\ pc = "trial_end" /\ trial \in scored => ~bag.open /\ state = "Idle"

RecorderInv ==
  RecordsInv /\ TrialInv /\ StateInv /\ FlagInv /\ ScoreInv /\ OwnScore

\* A recorder that has never recorded.
LEMMA RecorderStarts == RecorderInit => RecorderInv
BY RecorderAssumption
DEF RecorderInit, RecorderInv, RecordsInv, TrialInv, StateInv, FlagInv, ScoreInv, OwnScore,
    RecordingAt

\* What an invariant reads of the state.
recordingVars == <<pc, trial, times, read, scored, state, bag, received, callback>>

\* Queues and publishers may change: no invariant reads them.
LEMMA RecorderUnmoved ==
  ASSUME RecorderInv, UNCHANGED recordingVars
  PROVE  RecorderInv'
BY DEF recordingVars, RecorderInv, RecordsInv, TrialInv, StateInv, FlagInv, ScoreInv, OwnScore

\* The engine's thread.
LEMMA EngineSteps ==
  ASSUME RecorderInv, Engine
  PROVE  RecorderInv'
<1> USE DEF RecorderInv
<1>0. NTrials \in Nat
  BY RecorderAssumption
<1>1. CASE NextTrial
  <2>1. /\ pc = "trial_end" /\ pc' = "endpoints" /\ trial < NTrials /\ trial' = trial + 1
        /\ UNCHANGED <<times, read, scored, state, bag, received, callback>>
    BY <1>1 DEF NextTrial, Goto
  <2>2. TrialInv'
    BY <1>0, <2>1 DEF TrialInv
  <2>3. QED
    BY <2>1, <2>2 DEF RecordsInv, StateInv, FlagInv, ScoreInv, OwnScore, RecordingAt
<1>2. CASE RunDone
  <2>1. /\ pc = "trial_end" /\ pc' = "finished"
        /\ UNCHANGED <<trial, times, read, scored, state, bag, received, callback>>
    BY <1>2 DEF RunDone, Goto
  <2>2. QED
    BY <2>1 DEF RecordsInv, TrialInv, StateInv, FlagInv, ScoreInv, OwnScore, RecordingAt
<1>3. CASE CheckEndpoints
  <2>1. /\ pc = "endpoints" /\ pc' \in {"endpoints", "start", "stopped"}
        /\ UNCHANGED <<trial, times, read, scored, state, bag, received, callback>>
    BY <1>3 DEF CheckEndpoints, Retry, Goto
  <2>2. QED
    BY <2>1 DEF RecordsInv, TrialInv, StateInv, FlagInv, ScoreInv, OwnScore, RecordingAt
<1>4. CASE Reset
  <2>1. /\ pc = "start" /\ pc' = "closing" /\ state' = "Idle"
        /\ times' = [start |-> 0, end |-> 0] /\ read' = {}
        /\ UNCHANGED <<trial, scored, bag, received, callback>>
    BY <1>4 DEF Reset, Goto
  <2>2. DOMAIN times' = {"start", "end"} /\ times'.end = 0
    BY <2>1
  <2>3. QED
    BY <2>1, <2>2 DEF RecordsInv, TrialInv, StateInv, FlagInv, ScoreInv, OwnScore, RecordingAt
<1>5. CASE ResetBag
  <2>1. /\ pc = "closing" /\ pc' = "opening" /\ bag' = [bag EXCEPT !.open = FALSE]
        /\ UNCHANGED <<trial, times, read, scored, state, received, callback>>
    BY <1>5 DEF ResetBag, Goto
  <2>2. DOMAIN bag' = {"trial", "open", "messages"} /\ ~bag'.open
    BY <2>1 DEF RecordsInv
  <2>3. QED
    BY <2>1, <2>2 DEF RecordsInv, TrialInv, StateInv, FlagInv, ScoreInv, OwnScore, RecordingAt
<1>6. CASE OpenBag
  <2>1. /\ pc = "opening" /\ callback.at \notin {"writing", "flag"} /\ pc' = "subscribe"
        /\ state' = "Recording" /\ bag' = [trial |-> trial, open |-> TRUE, messages |-> {}]
        /\ UNCHANGED <<trial, times, read, scored, received, callback>>
    BY <1>6 DEF OpenBag, Goto, MutexFree
  <2>2. DOMAIN bag' = {"trial", "open", "messages"} /\ bag'.open /\ bag'.trial = trial
    BY <2>1
  <2>3. RecordsInv' /\ TrialInv'
    BY <2>1, <2>2 DEF RecordsInv, TrialInv
  <2>4. StateInv'
    BY <2>1, <2>2 DEF StateInv
  <2>5. FlagInv' /\ ScoreInv' /\ OwnScore'
    BY <2>1, <2>2 DEF FlagInv, ScoreInv, OwnScore, RecordingAt
  <2>6. QED
    BY <2>3, <2>4, <2>5
<1>7. CASE OpenFails
  <2>1. /\ pc = "opening" /\ pc' \in {"start", "stopped"}
        /\ UNCHANGED <<trial, times, read, scored, state, bag, received, callback>>
    BY <1>7 DEF OpenFails, Retry, Goto
  <2>2. QED
    BY <2>1 DEF RecordsInv, TrialInv, StateInv, FlagInv, ScoreInv, OwnScore, RecordingAt
<1>8. CASE Subscribe
  <2>1. /\ pc = "subscribe" /\ pc' = "clear_start"
        /\ UNCHANGED <<trial, times, read, scored, state, bag, received, callback>>
    BY <1>8 DEF Subscribe, Goto
  <2>2. QED
    BY <2>1 DEF RecordsInv, TrialInv, StateInv, FlagInv, ScoreInv, OwnScore, RecordingAt
<1>9. CASE ClearFlags
  <2>1. /\ \/ pc = "clear_start" /\ pc' = "wait_start"
           \/ pc = "clear_stop" /\ pc' = "wait_stop"
        /\ received' = {}
        /\ UNCHANGED <<trial, times, read, scored, state, bag, callback>>
    BY <1>9 DEF ClearFlags, Goto
  <2>2. QED
    BY <2>1 DEF RecordsInv, TrialInv, StateInv, FlagInv, ScoreInv, OwnScore, RecordingAt
<1>10. CASE Started
  <2>1. /\ pc = "wait_start" /\ pc' = "send_goal" /\ received = Tf
        /\ UNCHANGED <<trial, times, read, scored, state, bag, received, callback>>
    BY <1>10 DEF Started, Goto
  <2>2. QED
    BY <2>1 DEF RecordsInv, TrialInv, StateInv, FlagInv, ScoreInv, OwnScore, RecordingAt
<1>11. CASE StartTimesOut
  <2>1. /\ pc = "wait_start" /\ pc' \in {"start", "stopped"}
        /\ UNCHANGED <<trial, times, read, scored, state, bag, received, callback>>
    BY <1>11 DEF StartTimesOut, Retry, Goto
  <2>2. QED
    BY <2>1 DEF RecordsInv, TrialInv, StateInv, FlagInv, ScoreInv, OwnScore, RecordingAt
<1>12. CASE SendGoal
  <2>1. /\ pc = "send_goal"
        /\ \/ pc' = "executing" /\ times' = [times EXCEPT !.start = trial]
           \/ pc' = "stopped" /\ times' = times
        /\ UNCHANGED <<trial, read, scored, state, bag, received, callback>>
    BY <1>12 DEF SendGoal, Goto
  <2>2. /\ DOMAIN times' = {"start", "end"} /\ times'.end = 0
        /\ pc' = "executing" => times'.start = trial
    BY <2>1 DEF RecordsInv, ScoreInv
  <2>3. QED
    BY <2>1, <2>2 DEF RecordsInv, TrialInv, StateInv, FlagInv, ScoreInv, OwnScore, RecordingAt
<1>13. CASE TaskEnds
  <2>1. /\ pc = "executing" /\ pc' = "clear_stop"
        /\ times' = [times EXCEPT !.end = trial] \/ times' = times
        /\ UNCHANGED <<trial, read, scored, state, bag, received, callback>>
    BY <1>13 DEF TaskEnds, Goto
  <2>2. /\ DOMAIN times' = {"start", "end"} /\ times'.start = trial /\ times'.end \in {0, trial}
    BY <2>1 DEF RecordsInv, ScoreInv
  <2>3. QED
    BY <2>1, <2>2 DEF RecordsInv, TrialInv, StateInv, FlagInv, ScoreInv, OwnScore, RecordingAt
<1>14. CASE StopTimesOut
  <2>1. /\ pc = "wait_stop" /\ pc' = "trial_end"
        /\ UNCHANGED <<trial, times, read, scored, state, bag, received, callback>>
    BY <1>14 DEF StopTimesOut, Goto
  <2>2. QED
    BY <2>1 DEF RecordsInv, TrialInv, StateInv, FlagInv, ScoreInv, OwnScore, RecordingAt
<1>15. CASE StopRecording
  <2>1. /\ pc = "wait_stop" /\ pc' = "score" /\ callback.at \notin {"writing", "flag"}
        /\ state' = "Idle" /\ bag' = [bag EXCEPT !.open = FALSE]
        /\ UNCHANGED <<trial, times, read, scored, received, callback>>
    BY <1>15 DEF StopRecording, Goto, MutexFree, StateInv, RecordingAt
  <2>2. DOMAIN bag' = {"trial", "open", "messages"} /\ ~bag'.open /\ bag'.trial = bag.trial
    BY <2>1 DEF RecordsInv
  <2>3. QED
    BY <2>1, <2>2 DEF RecordsInv, TrialInv, StateInv, FlagInv, ScoreInv, OwnScore, RecordingAt
<1>16. CASE OpenForReading
  <2>1. /\ pc = "score"
        /\ \/ pc' = "reading" /\ state' = "Scoring" /\ scored' = scored
           \/ pc' = "trial_end" /\ state' = state /\ scored' = scored \cup {trial}
        /\ UNCHANGED <<trial, times, read, bag, received, callback>>
    BY <1>16 DEF OpenForReading, Goto
  <2>2. TrialInv'
    <3>1. trial \in 1..NTrials /\ trial \notin scored /\ scored \subseteq 1..trial
      BY <2>1 DEF TrialInv
    <3>2. scored \cup {trial} \subseteq 1..trial /\ trial \in 0..NTrials
      BY <1>0, <3>1
    <3>3. QED
      BY <2>1, <3>1, <3>2 DEF TrialInv
  <2>3. QED
    BY <2>1, <2>2 DEF RecordsInv, StateInv, FlagInv, ScoreInv, OwnScore, RecordingAt
<1>17. CASE ReadBag
  <2>1. /\ pc = "reading" /\ pc' = "trial_end" /\ read' = read \cup bag.messages
        /\ state' = "Idle" /\ scored' = scored \cup {trial}
        /\ UNCHANGED <<trial, times, bag, received, callback>>
    BY <1>17 DEF ReadBag, Goto
  <2>2. TrialInv'
    BY <1>0, <2>1 DEF TrialInv
  <2>3. QED
    BY <2>1, <2>2 DEF RecordsInv, StateInv, FlagInv, ScoreInv, OwnScore, RecordingAt
<1>18. QED
  BY <1>1, <1>2, <1>3, <1>4, <1>5, <1>6, <1>7, <1>8, <1>9, <1>10, <1>11, <1>12, <1>13, <1>14,
     <1>15, <1>16, <1>17 DEF Engine

\* The executor's thread and the other nodes.
LEMMA ExecutorSteps ==
  ASSUME RecorderInv, RecorderNext, ~Engine
  PROVE  RecorderInv'
<1> USE DEF RecorderInv
<1>1. ASSUME NEW i \in DOMAIN subscriptions, Take(i)
      PROVE  RecorderInv'
  <2>1. /\ callback.at = "idle" /\ UNCHANGED <<pc, trial, times, read, scored, state, bag, received>>
        /\ \/ callback' = callback
           \/ /\ state = "Recording"
              /\ callback' = [at |-> "writing", message |-> Head(subscriptions[i].queue)]
    BY <1>1 DEF Take, engineVars
  <2>2. CASE callback' = callback
    BY <2>1, <2>2, RecorderUnmoved DEF recordingVars
  <2>3. CASE /\ state = "Recording"
             /\ callback' = [at |-> "writing", message |-> Head(subscriptions[i].queue)]
    <3>1. DOMAIN callback' = {"at", "message"} /\ callback'.at = "writing"
      BY <2>3
    <3>2. QED
      BY <2>1, <2>3, <3>1 DEF RecordsInv, TrialInv, StateInv, FlagInv, ScoreInv, OwnScore
  <2>4. QED
    BY <2>1, <2>2, <2>3
<1>2. CASE Write
  <2>1. /\ callback.at = "writing" /\ bag.open
        /\ bag' = [bag EXCEPT !.messages = @ \cup {callback.message}]
        /\ callback' = [callback EXCEPT !.at = "flag"]
        /\ UNCHANGED <<pc, trial, times, read, scored, state, received>>
    BY <1>2 DEF Write, engineVars
  <2>2. /\ DOMAIN bag' = {"trial", "open", "messages"} /\ bag'.open = bag.open
        /\ bag'.trial = bag.trial /\ bag'.messages = bag.messages \cup {callback.message}
    BY <2>1 DEF RecordsInv
  <2>3. DOMAIN callback' = {"at", "message"} /\ callback'.at = "flag" /\ callback'.message = callback.message
    BY <2>1 DEF RecordsInv
  <2>4. \A x : x \in {m.topic : m \in bag.messages} => x \in {m.topic : m \in bag'.messages}
    BY <2>2
  <2>5. RecordsInv' /\ TrialInv'
    BY <2>1, <2>2, <2>3 DEF RecordsInv, TrialInv
  <2>6. StateInv'
    BY <2>1, <2>2, <2>3 DEF StateInv
  <2>7. FlagInv'
    BY <2>1, <2>2, <2>3, <2>4 DEF FlagInv
  <2>8. ScoreInv' /\ OwnScore'
    BY <2>1, <2>2 DEF ScoreInv, OwnScore
  <2>9. QED
    BY <2>5, <2>6, <2>7, <2>8
<1>3. CASE WriteFails
  <2>1. /\ callback.at = "writing" /\ ~bag.open
        /\ \/ callback' = [callback EXCEPT !.at = "flag"] /\ pc' = pc
           \/ callback' = [at |-> "dead"] /\ pc' = "died"
        /\ UNCHANGED <<trial, times, read, scored, state, bag, received>>
    BY <1>3 DEF WriteFails, Goto
  <2>2. /\ callback'.at \in {"flag", "dead"}
        /\ callback'.at = "flag" => DOMAIN callback' = {"at", "message"}
    BY <2>1 DEF RecordsInv
  <2>3. pc \notin RecordingAt
    BY <2>1 DEF StateInv
  <2>4. QED
    BY <2>1, <2>2, <2>3 DEF RecordsInv, TrialInv, StateInv, FlagInv, ScoreInv, OwnScore, RecordingAt
<1>4. CASE Flag
  <2>1. /\ callback.at = "flag" /\ callback' = [at |-> "idle"]
        /\ received' = received \cup ({callback.message.topic} \cap Tf)
        /\ UNCHANGED <<pc, trial, times, read, scored, state, bag>>
    BY <1>4 DEF Flag, engineVars
  <2>2. callback'.at = "idle"
    BY <2>1
  <2>3. pc = "wait_start" => callback.message.topic \in {m.topic : m \in bag.messages}
    BY <2>1 DEF FlagInv
  <2>4. QED
    BY <2>1, <2>2, <2>3 DEF RecordsInv, TrialInv, StateInv, FlagInv, ScoreInv, OwnScore
<1>5. ASSUME NEW topic \in Topic, Publish(topic) \/ Advertise(topic)
      PROVE  RecorderInv'
  BY <1>5, RecorderUnmoved DEF Publish, Advertise, engineVars, recordingVars
<1>6. QED
  BY <1>1, <1>2, <1>3, <1>4, <1>5 DEF RecorderNext, Executor

\* Every step of either thread, or of another node, keeps the invariant.
LEMMA RecorderSteps ==
  ASSUME RecorderInv, [RecorderNext]_recorderVars
  PROVE  RecorderInv'
<1>1. CASE UNCHANGED recorderVars
  BY <1>1, RecorderUnmoved DEF recorderVars, engineVars, recordingVars
<1>2. QED
  BY <1>1, EngineSteps, ExecutorSteps DEF RecorderNext

\* The invariant gives what the runs check.
LEMMA RecordingIsOwn == RecorderInv => OwnRecording
BY DEF RecorderInv, StateInv, FlagInv, OwnRecording, GoalIsRecorded, ReadBagAtRest, RecordingAt

\* Every step of the recorder is one of the promise, or none.
LEMMA RecorderKeepsPromise ==
  ASSUME RecorderInv, [RecorderNext]_recorderVars
  PROVE  [Promise!Next]_Promise!rvars
<1> USE DEF RecorderInv
<1> DEFINE recording == state = "Recording" \/ pc \in {"score", "reading"}
<1>1. ASSUME Engine
      PROVE  [Promise!Next]_Promise!rvars
  <2>1. CASE NextTrial
    BY <2>1 DEF NextTrial, Goto, Promise!Next, Promise!NextTrial
  <2>2. CASE \/ RunDone \/ CheckEndpoints \/ ResetBag \/ OpenFails \/ Subscribe
             \/ ClearFlags \/ Started \/ StartTimesOut \/ SendGoal \/ TaskEnds \/ StopTimesOut
    <3>1. UNCHANGED <<trial, scored, state>>
      BY <2>2 DEF RunDone, CheckEndpoints, ResetBag, OpenFails, Subscribe, ClearFlags, Started,
                  StartTimesOut, SendGoal, TaskEnds, StopTimesOut
    <3>2. pc \notin {"score", "reading"} /\ pc' \notin {"score", "reading"}
      BY <2>2 DEF RunDone, CheckEndpoints, ResetBag, OpenFails, Subscribe, ClearFlags, Started,
                  StartTimesOut, SendGoal, TaskEnds, StopTimesOut, Goto, Retry
    <3>3. QED
      BY <3>1, <3>2 DEF Promise!rvars
  <2>3. CASE Reset \/ OpenBag
    <3>1. /\ trial \in 1..NTrials \ scored /\ UNCHANGED <<trial, scored>>
      BY <2>3 DEF Reset, OpenBag, TrialInv
    <3>2. recording' \in BOOLEAN
      OBVIOUS
    <3>3. QED
      BY <3>1, <3>2 DEF Promise!Next, Promise!Attempt
  <2>4. CASE StopRecording
    <3>1. /\ state = "Recording" /\ pc' = "score" /\ UNCHANGED <<trial, scored>>
      BY <2>4 DEF StopRecording, Goto, StateInv, RecordingAt
    <3>2. QED
      BY <3>1 DEF Promise!rvars
  <2>5. CASE OpenForReading \/ ReadBag
    <3>1. /\ pc \in {"score", "reading"} /\ trial \in 1..NTrials \ scored /\ trial' = trial
      BY <2>5 DEF OpenForReading, ReadBag, TrialInv
    <3>2. \/ pc' = "reading" /\ scored' = scored
          \/ pc' = "trial_end" /\ state' = "Idle" /\ scored' = scored \cup {trial}
      BY <2>5 DEF OpenForReading, ReadBag, Goto, StateInv
    <3>3. QED
      BY <3>1, <3>2 DEF Promise!Next, Promise!Score, Promise!rvars
  <2>6. QED
    BY <1>1, <2>1, <2>2, <2>3, <2>4, <2>5 DEF Engine
<1>2. ASSUME RecorderNext, ~Engine
      PROVE  [Promise!Next]_Promise!rvars
  <2>1. UNCHANGED <<trial, scored, state>>
    BY <1>2 DEF RecorderNext, Executor, Take, Write, WriteFails, Flag, Publish, Advertise, engineVars
  <2>2. pc' = pc \/ WriteFails
    BY <1>2 DEF RecorderNext, Executor, Take, Write, Flag, Publish, Advertise, engineVars
  <2>3. CASE WriteFails
    <3>1. pc \notin {"score", "reading"} /\ pc' \notin {"score", "reading"}
      BY <2>3 DEF WriteFails, Goto, StateInv
    <3>2. QED
      BY <2>1, <3>1 DEF Promise!rvars
  <2>4. QED
    BY <2>1, <2>2, <2>3 DEF Promise!rvars
<1>3. QED
  BY <1>1, <1>2 DEF recorderVars, engineVars, Promise!rvars

\* Nothing recorded and nothing scored is how the promise starts too.
LEMMA RecorderStartsPromise == RecorderInit => Promise!Init
BY DEF RecorderInit, Promise!Init

-----------------------------------------------------------------------------
(***************************************************************************)
(* Scoring. What is computed from a conduct is arithmetic; the conduct is  *)
(* a fold over the bag, and grows with it message by message.              *)
(***************************************************************************)

\* Integer division, by what the provers know of it.
LEMMA DivProperties ==
  ASSUME NEW a \in Int, NEW d \in Nat \ {0}
  PROVE  /\ a \div d \in Int
         /\ d * (a \div d) <= a /\ a < d * (a \div d) + d
OBVIOUS

\* A larger dividend has no smaller quotient.
LEMMA DivMonotone ==
  ASSUME NEW a \in Int, NEW b \in Int, NEW d \in Nat \ {0}, a <= b
  PROVE  a \div d <= b \div d
<1> DEFINE p == a \div d
           q == b \div d
<1>1. /\ p \in Int /\ q \in Int /\ d * p <= b /\ b < d * q + d
  BY DivProperties
<1> HIDE DEF p, q
<1>2. SUFFICES ASSUME p >= q + 1
               PROVE  FALSE
  BY <1>1 DEF p, q
<1>3. d * p >= d * (q + 1)
  BY <1>1, <1>2, SMTT(30)
<1>4. d * (q + 1) = d * q + d
  BY <1>1
<1>5. QED
  BY <1>1, <1>3, <1>4

\* Division undoes multiplication.
LEMMA DivExact ==
  ASSUME NEW x \in Int, NEW d \in Nat \ {0}
  PROVE  (d * x) \div d = x
<1> DEFINE p == (d * x) \div d
<1>1. p \in Int /\ d * x \in Int /\ d * p <= d * x /\ d * x < d * p + d
  BY DivProperties
<1> HIDE DEF p
<1>2. p <= x
  <2>1. SUFFICES ASSUME p >= x + 1
                 PROVE  FALSE
    BY <1>1
  <2>2. d * p >= d * (x + 1) /\ d * (x + 1) = d * x + d
    BY <1>1, <2>1, SMTT(30)
  <2>3. QED
    BY <1>1, <2>2
<1>3. p >= x
  <2>1. SUFFICES ASSUME x >= p + 1
                 PROVE  FALSE
    BY <1>1
  <2>2. d * x >= d * (p + 1) /\ d * (p + 1) = d * p + d
    BY <1>1, <2>1, SMTT(30)
  <2>3. QED
    BY <1>1, <2>2
<1>4. QED
  BY <1>1, <1>2, <1>3 DEF p

\* Whatever is scored in proportion lies between the two scores, and grows as
\* what is measured shrinks.
LEMMA InverseProportionalBounds ==
  ASSUME NEW hi \in Int, NEW lo \in Int, lo <= hi, NEW far \in Int, NEW near \in Int, NEW m \in Int
  PROVE  /\ InverseProportional(hi, lo, far, near, m) \in Int
         /\ lo <= InverseProportional(hi, lo, far, near, m)
         /\ InverseProportional(hi, lo, far, near, m) <= hi
<1>1. CASE m >= far \/ m <= near
  BY <1>1 DEF InverseProportional
<1>2. CASE m < far /\ near < m
  <2> DEFINE d == far - near
             a == (far - m) * (hi - lo)
  <2>1. d \in Nat \ {0} /\ far - m \in Nat /\ hi - lo \in Nat /\ far - m <= d
    BY <1>2
  <2>2. a \in Int /\ 0 <= a
    BY <2>1, SMTT(30)
  <2>3. a <= d * (hi - lo) /\ d * (hi - lo) \in Int
    BY <2>1, SMTT(30)
  <2>4. InverseProportional(hi, lo, far, near, m) = lo + a \div d
    BY <1>2 DEF InverseProportional
  <2> HIDE DEF a
  <2>5. a \div d <= hi - lo
    <3>1. (d * (hi - lo)) \div d = hi - lo
      BY <2>1, DivExact
    <3>2. a \div d <= (d * (hi - lo)) \div d
      BY <2>1, <2>2, <2>3, DivMonotone
    <3>3. QED
      BY <3>1, <3>2
  <2>6. 0 <= a \div d /\ a \div d \in Int
    <3>1. (d * 0) \div d = 0 /\ d * 0 = 0
      BY <2>1, DivExact
    <3>2. 0 \div d <= a \div d
      BY <2>1, <2>2, DivMonotone
    <3>3. a \div d \in Int
      BY <2>1, <2>2, DivProperties
    <3>4. QED
      BY <3>1, <3>2, <3>3
  <2> HIDE DEF d
  <2>7. QED
    BY <2>4, <2>5, <2>6
<1>3. QED
  BY <1>1, <1>2

\* A larger measure scores no more, across both ends of the range.
LEMMA InverseProportionalMonotone ==
  ASSUME NEW hi \in Int, NEW lo \in Int, lo <= hi, NEW far \in Int, NEW near \in Int, near <= far,
         NEW m \in Int, NEW n \in Int, m <= n
  PROVE  InverseProportional(hi, lo, far, near, n) <= InverseProportional(hi, lo, far, near, m)
<1>1. /\ InverseProportional(hi, lo, far, near, n) \in Int
      /\ InverseProportional(hi, lo, far, near, m) \in Int
      /\ lo <= InverseProportional(hi, lo, far, near, m)
      /\ InverseProportional(hi, lo, far, near, n) <= hi
  BY InverseProportionalBounds
<1>2. CASE n >= far
  BY <1>1, <1>2 DEF InverseProportional
<1>3. CASE n < far /\ m <= near
  BY <1>1, <1>3 DEF InverseProportional
<1>4. CASE n < far /\ near < m
  <2> DEFINE d == far - near
             a == (far - m) * (hi - lo)
             b == (far - n) * (hi - lo)
  <2>1. d \in Nat \ {0} /\ far - m \in Nat /\ far - n \in Nat /\ hi - lo \in Nat /\ far - n <= far - m
    BY <1>4
  <2>2. a \in Int /\ b \in Int /\ b <= a
    BY <2>1, SMTT(30)
  <2>3. /\ InverseProportional(hi, lo, far, near, m) = lo + a \div d
        /\ InverseProportional(hi, lo, far, near, n) = lo + b \div d
    BY <1>4 DEF InverseProportional
  <2> HIDE DEF a, b
  <2>4. b \div d <= a \div d
    BY <2>1, <2>2, DivMonotone
  <2>5. a \div d \in Int /\ b \div d \in Int
    BY <2>1, <2>2, DivProperties
  <2> HIDE DEF d
  <2>6. QED
    BY <2>3, <2>4, <2>5
<1>5. QED
  BY <1>2, <1>3, <1>4

\* The bonuses of tier 2 take nothing away.
LEMMA BonusesAreNoPenalty ==
  ASSUME NEW duration \in Int, NEW jerk \in Int, NEW start \in Nat, NEW path \in Int
  PROVE  /\ DurationScore(duration) \in Nat /\ JerkScore(jerk) \in Nat
         /\ EfficiencyScore(start, path) \in Nat
         /\ DurationScore(duration) + JerkScore(jerk) + EfficiencyScore(start, path) \in Nat
<1>1. DurationScore(duration) \in Int /\ 0 <= DurationScore(duration)
  BY InverseProportionalBounds DEF DurationScore
<1>2. JerkScore(jerk) \in Int /\ 0 <= JerkScore(jerk)
  BY InverseProportionalBounds DEF JerkScore
<1>3. EfficiencyScore(start, path) \in Int /\ 0 <= EfficiencyScore(start, path)
  BY InverseProportionalBounds DEF EfficiencyScore
<1>4. QED
  BY <1>1, <1>2, <1>3

\* What ends a trial is numbers.
LEMMA ScoredTypes ==
  /\ Entrance \in Nat
  /\ \A p \in PlugPoses : p.lateral \in Nat /\ p.z \in Int /\ p.dist \in Nat
  /\ \A e \in Endings : e.start \in Nat /\ e.duration \in Nat /\ e.jerk \in Nat
<1>1. /\ PlugPoses \subseteq [lateral : Nat, z : Int, dist : Nat]
      /\ StartDistances \subseteq Nat /\ Durations \subseteq Nat /\ Jerks \subseteq Nat
      /\ Entrance \in Nat
  BY ScoringAssumption
<1>2. \A p \in PlugPoses : p.lateral \in Nat /\ p.z \in Int /\ p.dist \in Nat
  BY <1>1
<1>3. ASSUME NEW e \in Endings
      PROVE  e.start \in Nat /\ e.duration \in Nat /\ e.jerk \in Nat
  <2>1. e.start \in StartDistances /\ e.duration \in Durations /\ e.jerk \in Jerks
    BY DEF Endings
  <2>2. QED
    BY <1>1, <2>1
<1>4. QED
  BY <1>1, <1>2, <1>3

\* The efficiency of a longer path is no better.
LEMMA LongerPathNeverPays ==
  ASSUME NEW start \in Nat, NEW path \in Int, NEW longer \in Int, path <= longer
  PROVE  EfficiencyScore(start, longer) <= EfficiencyScore(start, path)
<1>1. 1000 + start \in Int /\ start \in Int /\ start <= 1000 + start
  OBVIOUS
<1>2. QED
  BY <1>1, InverseProportionalMonotone DEF EfficiencyScore

\* Inside the port scores more than anything outside it.
LEMMA DistanceScoreBounds ==
  ASSUME NEW start \in Nat, NEW p \in PlugPoses
  PROVE  /\ DistanceScore(start, p) \in Int
         /\ DistanceScore(start, p) <= 50000
         /\ PartiallyInserted(p) => 38000 <= DistanceScore(start, p)
         /\ ~PartiallyInserted(p) => DistanceScore(start, p) <= 25000 /\ 0 <= DistanceScore(start, p)
<1>1. p.z \in Int /\ p.dist \in Int /\ Entrance \in Nat
  BY ScoredTypes
<1>2. start \div 2 \in Int
  OBVIOUS
<1>3. CASE PartiallyInserted(p)
  <2>1. DistanceScore(start, p) = InverseProportional(50000, 38000, Entrance, 0, p.z)
    BY <1>3 DEF DistanceScore
  <2>2. Entrance \in Int
    BY <1>1
  <2>3. /\ InverseProportional(50000, 38000, Entrance, 0, p.z) \in Int
        /\ 38000 <= InverseProportional(50000, 38000, Entrance, 0, p.z)
        /\ InverseProportional(50000, 38000, Entrance, 0, p.z) <= 50000
    <3> DEFINE hi == 50000
               lo == 38000
               near == 0
    <3>1. hi \in Int /\ lo \in Int /\ near \in Int /\ lo <= hi
      OBVIOUS
    <3> HIDE DEF hi, lo, near
    <3>2. /\ InverseProportional(hi, lo, Entrance, near, p.z) \in Int
          /\ lo <= InverseProportional(hi, lo, Entrance, near, p.z)
          /\ InverseProportional(hi, lo, Entrance, near, p.z) <= hi
      BY <1>1, <2>2, <3>1, InverseProportionalBounds
    <3>3. QED
      BY <3>2 DEF hi, lo, near
  <2>4. QED
    BY <1>3, <2>1, <2>3
<1>4. CASE ~PartiallyInserted(p)
  <2> DEFINE far == Entrance + start \div 2
  <2>1. far \in Int
    BY <1>1, <1>2
  <2>2. DistanceScore(start, p) = InverseProportional(25000, 0, far, Entrance, p.dist)
    BY <1>4 DEF DistanceScore
  <2> HIDE DEF far
  <2>3. Entrance \in Int /\ p.dist \in Int
    BY <1>1
  <2>4. /\ InverseProportional(25000, 0, far, Entrance, p.dist) \in Int
        /\ 0 <= InverseProportional(25000, 0, far, Entrance, p.dist)
        /\ InverseProportional(25000, 0, far, Entrance, p.dist) <= 25000
    BY <2>1, <2>3, InverseProportionalBounds
  <2>5. QED
    BY <1>4, <2>2, <2>4
<1>5. QED
  BY <1>3, <1>4

\* Proximity and partial insertion grow as the plug comes nearer.
LEMMA NearerScoresMore ==
  ASSUME NEW start \in Nat, NEW p \in PlugPoses, NEW q \in PlugPoses, Nearer(p, q)
  PROVE  DistanceScore(start, q) <= DistanceScore(start, p)
<1>1. /\ p.z \in Int /\ p.dist \in Int /\ q.z \in Int /\ q.dist \in Int /\ Entrance \in Nat
  BY ScoredTypes
<1>2. CASE PartiallyInserted(p) /\ ~PartiallyInserted(q)
  <2>1. /\ DistanceScore(start, p) \in Int /\ 38000 <= DistanceScore(start, p)
        /\ DistanceScore(start, q) \in Int /\ DistanceScore(start, q) <= 25000
    BY <1>2, DistanceScoreBounds
  <2>2. QED
    BY <2>1
<1>3. CASE PartiallyInserted(p) /\ PartiallyInserted(q) /\ p.z < q.z
  <2>1. /\ DistanceScore(start, p) = InverseProportional(50000, 38000, Entrance, 0, p.z)
        /\ DistanceScore(start, q) = InverseProportional(50000, 38000, Entrance, 0, q.z)
    BY <1>3 DEF DistanceScore
  <2>2. Entrance \in Int /\ 0 <= Entrance /\ p.z <= q.z
    BY <1>1, <1>3
  <2>3. InverseProportional(50000, 38000, Entrance, 0, q.z)
          <= InverseProportional(50000, 38000, Entrance, 0, p.z)
    BY <1>1, <2>2, InverseProportionalMonotone
  <2>4. QED
    BY <2>1, <2>3
<1>4. CASE ~PartiallyInserted(p) /\ ~PartiallyInserted(q) /\ p.dist < q.dist
  <2> DEFINE far == Entrance + start \div 2
  <2>1. far \in Int /\ Entrance <= far
    <3>1. start \div 2 \in Int /\ 0 <= start \div 2
      OBVIOUS
    <3>2. QED
      BY <1>1, <3>1
  <2>2. /\ DistanceScore(start, p) = InverseProportional(25000, 0, far, Entrance, p.dist)
        /\ DistanceScore(start, q) = InverseProportional(25000, 0, far, Entrance, q.dist)
    BY <1>4 DEF DistanceScore
  <2> HIDE DEF far
  <2>3. Entrance \in Int /\ p.dist <= q.dist
    BY <1>1, <1>4
  <2>4. InverseProportional(25000, 0, far, Entrance, q.dist)
          <= InverseProportional(25000, 0, far, Entrance, p.dist)
    BY <1>1, <2>1, <2>3, InverseProportionalMonotone
  <2>5. QED
    BY <2>2, <2>4
<1>5. QED
  BY <1>2, <1>3, <1>4 DEF Nearer

\* A total is its three parts: what tier 3 gives, the penalties and, if tier 3
\* gives anything, the bonuses.
LEMMA TotalOf ==
  ASSUME NEW c, c.path \in Nat, NEW duration \in Nat, NEW jerk \in Nat, NEW start \in Nat, NEW p,
         Tier3(c.port, start, p) \in Int
  PROVE  \E penalties \in Int, bonuses \in Nat :
           /\ penalties = ForcePenalty(c.above) + ContactsPenalty(c.contacts)
           /\ bonuses = DurationScore(duration) + JerkScore(jerk) + EfficiencyScore(start, c.path)
           /\ Total(c, jerk, duration, start, p)
                = Tier3(c.port, start, p) + penalties
                    + IF Tier3(c.port, start, p) > 0 THEN bonuses ELSE 0
<1> DEFINE penalties == ForcePenalty(c.above) + ContactsPenalty(c.contacts)
           bonuses == DurationScore(duration) + JerkScore(jerk) + EfficiencyScore(start, c.path)
           s == Tier3(c.port, start, p)
<1>1. bonuses \in Nat
  BY BonusesAreNoPenalty
<1>2. /\ penalties \in Int /\ ForcePenalty(c.above) \in Int /\ ContactsPenalty(c.contacts) \in Int
  BY DEF ForcePenalty, ContactsPenalty
<1>3. Total(c, jerk, duration, start, p)
        = s + ForcePenalty(c.above) + ContactsPenalty(c.contacts) + IF s > 0 THEN bonuses ELSE 0
  BY DEF Total
<1>4. s \in Int
  OBVIOUS
<1> HIDE DEF s, bonuses
<1>5. Total(c, jerk, duration, start, p) = s + penalties + IF s > 0 THEN bonuses ELSE 0
  BY <1>1, <1>2, <1>3, <1>4
<1> HIDE DEF penalties
<1>6. QED
  BY <1>1, <1>2, <1>5 DEF s, bonuses, penalties

\* The total of a trial that ended without an insertion.
LEMMA DistanceScored ==
  ASSUME NEW c, c.path \in Nat, c.port \notin {"right", "wrong"}, NEW e \in Endings, NEW p \in PlugPoses
  PROVE  \E penalties \in Int, bonuses \in Nat :
           /\ penalties = ForcePenalty(c.above) + ContactsPenalty(c.contacts)
           /\ bonuses = DurationScore(e.duration) + JerkScore(e.jerk) + EfficiencyScore(e.start, c.path)
           /\ DistanceScore(e.start, p) \in Int
           /\ Points(c, e, p) = DistanceScore(e.start, p) + penalties
                                + IF DistanceScore(e.start, p) > 0 THEN bonuses ELSE 0
<1>1. e.start \in Nat /\ e.duration \in Nat /\ e.jerk \in Nat
  BY ScoredTypes
<1>2. Tier3(c.port, e.start, p) = DistanceScore(e.start, p)
  BY DEF Tier3
<1>3. DistanceScore(e.start, p) \in Int
  BY <1>1, DistanceScoreBounds
<1>4. Points(c, e, p) = Total(c, e.jerk, e.duration, e.start, p)
  BY DEF Points
<1>5. QED
  BY <1>1, <1>2, <1>3, <1>4, TotalOf

\* Whatever the arm did on the way, and for any port, lengths and times: a trial
\* that ends nearer to its port never scores less, across the seams between
\* proximity, partial and full insertion and whether the bonuses are given.
THEOREM NearerNeverCostsPoints ==
  ASSUME NEW V, NEW P, NEW c \in [path : Nat, velocities : V, above : Nat, contacts : BOOLEAN, port : P]
  PROVE  NearerNeverCosts(c)
<1>1. ASSUME NEW e \in Endings, NEW p \in PlugPoses, NEW q \in PlugPoses, c.port = "", Nearer(p, q)
      PROVE  Points(c, e, p) >= Points(c, e, q)
  <2>0. c.port \notin {"right", "wrong"}
    BY <1>1, Zenon
  <2>1. e.start \in Nat /\ c.path \in Nat
    BY ScoredTypes
  <2>2. Nearer(p, q)
    BY <1>1, Zenon
  <2>3. DistanceScore(e.start, q) <= DistanceScore(e.start, p)
    BY <2>1, <2>2, NearerScoresMore
  <2> DEFINE penalties == ForcePenalty(c.above) + ContactsPenalty(c.contacts)
             bonuses == DurationScore(e.duration) + JerkScore(e.jerk) + EfficiencyScore(e.start, c.path)
  <2>4. /\ penalties \in Int /\ bonuses \in Nat /\ DistanceScore(e.start, p) \in Int
        /\ Points(c, e, p) = DistanceScore(e.start, p) + penalties
                             + IF DistanceScore(e.start, p) > 0 THEN bonuses ELSE 0
    BY <2>0, <2>1, DistanceScored
  <2>5. /\ DistanceScore(e.start, q) \in Int
        /\ Points(c, e, q) = DistanceScore(e.start, q) + penalties
                             + IF DistanceScore(e.start, q) > 0 THEN bonuses ELSE 0
    BY <2>0, <2>1, DistanceScored
  <2> HIDE DEF penalties, bonuses
  <2>6. QED
    BY <2>3, <2>4, <2>5
<1>2. ASSUME NEW e \in Endings, NEW p \in PlugPoses, c.port = ""
      PROVE  Points([c EXCEPT !.port = "right"], e, p) > Points(c, e, p)
  <2> DEFINE d == [c EXCEPT !.port = "right"]
  <2>1. e.start \in Nat /\ e.duration \in Nat /\ e.jerk \in Nat /\ c.path \in Nat
    BY ScoredTypes
  <2>2. d.port = "right" /\ d.above = c.above /\ d.contacts = c.contacts /\ d.path = c.path
    OBVIOUS
  <2> HIDE DEF d
  <2>3. Tier3(d.port, e.start, p) = 75000
    BY <2>2 DEF Tier3
  <2>4. Points(d, e, p) = Total(d, e.jerk, e.duration, e.start, p)
    BY DEF Points
  <2> DEFINE penalties == ForcePenalty(c.above) + ContactsPenalty(c.contacts)
             bonuses == DurationScore(e.duration) + JerkScore(e.jerk) + EfficiencyScore(e.start, c.path)
  <2>5. Points(d, e, p) = 75000 + penalties + bonuses
    BY <2>1, <2>2, <2>3, <2>4, TotalOf
  <2>6. DistanceScore(e.start, p) <= 50000
    BY <2>1, DistanceScoreBounds
  <2>0. c.port \notin {"right", "wrong"}
    BY <1>2, Zenon
  <2>7. /\ penalties \in Int /\ bonuses \in Nat /\ DistanceScore(e.start, p) \in Int
        /\ Points(c, e, p) = DistanceScore(e.start, p) + penalties
                             + IF DistanceScore(e.start, p) > 0 THEN bonuses ELSE 0
    BY <2>0, <2>1, DistanceScored
  <2> HIDE DEF penalties, bonuses
  <2>8. Points(d, e, p) > Points(c, e, p)
    BY <2>5, <2>6, <2>7
  <2>9. QED
    BY <2>8 DEF d
<1>3. QED
  BY <1>1, <1>2 DEF NearerNeverCosts

\* With the same ending, a longer path, more time above the force threshold or
\* a contact never scores more.
THEOREM WorseConductNeverPays ==
  ASSUME NEW c, NEW d, c.port = d.port, c.path \in Nat, d.path \in Nat, c.path <= d.path,
         c.above \in Nat, d.above \in Nat, c.above <= d.above, c.contacts => d.contacts
  PROVE  RecordingNeverPays(c, d)
<1> SUFFICES ASSUME NEW e \in Endings, NEW p \in PlugPoses
             PROVE  Points(d, e, p) <= Points(c, e, p)
  BY DEF RecordingNeverPays
<1> DEFINE s == Tier3(c.port, e.start, p)
           P(x) == ForcePenalty(x.above) + ContactsPenalty(x.contacts)
           B(x) == DurationScore(e.duration) + JerkScore(e.jerk) + EfficiencyScore(e.start, x.path)
<1>1. e.start \in Nat /\ e.duration \in Nat /\ e.jerk \in Nat
  BY ScoredTypes
<1>2. s \in Int
  BY <1>1, DistanceScoreBounds DEF Tier3
<1>3. /\ P(c) \in Int /\ B(c) \in Nat
      /\ Points(c, e, p) = s + P(c) + IF s > 0 THEN B(c) ELSE 0
  <2>1. Points(c, e, p) = Total(c, e.jerk, e.duration, e.start, p)
    BY DEF Points
  <2>2. QED
    BY <1>1, <1>2, <2>1, TotalOf
<1>4. /\ P(d) \in Int /\ B(d) \in Nat
      /\ Points(d, e, p) = s + P(d) + IF s > 0 THEN B(d) ELSE 0
  <2>1. Points(d, e, p) = Total(d, e.jerk, e.duration, e.start, p)
    BY DEF Points
  <2>2. Tier3(d.port, e.start, p) = s
    OBVIOUS
  <2>3. QED
    BY <1>1, <1>2, <2>1, <2>2, TotalOf
<1>5. P(d) <= P(c)
  <2>1. ForcePenalty(d.above) <= ForcePenalty(c.above)
    BY DEF ForcePenalty
  <2>2. ContactsPenalty(d.contacts) <= ContactsPenalty(c.contacts)
    BY DEF ContactsPenalty
  <2>3. /\ ForcePenalty(d.above) \in Int /\ ForcePenalty(c.above) \in Int
        /\ ContactsPenalty(d.contacts) \in Int /\ ContactsPenalty(c.contacts) \in Int
    BY DEF ForcePenalty, ContactsPenalty
  <2>4. QED
    BY <2>1, <2>2, <2>3
<1>6. B(d) <= B(c)
  <2>1. EfficiencyScore(e.start, d.path) <= EfficiencyScore(e.start, c.path)
    BY <1>1, LongerPathNeverPays
  <2>2. c.path \in Int /\ d.path \in Int /\ e.duration \in Int /\ e.jerk \in Int
    BY <1>1
  <2>3. EfficiencyScore(e.start, c.path) \in Nat /\ DurationScore(e.duration) \in Nat
          /\ JerkScore(e.jerk) \in Nat
    BY <1>1, <2>2, BonusesAreNoPenalty
  <2>4. EfficiencyScore(e.start, d.path) \in Nat
    BY <1>1, <2>2, BonusesAreNoPenalty
  <2>5. QED
    BY <2>1, <2>3, <2>4
<1> HIDE DEF s, P, B
<1>7. QED
  BY <1>2, <1>3, <1>4, <1>5, <1>6

\* What the first pass keeps.
Data ==
  [poses : Seq([stamp : Nat, at : Int]),
   velocities : Seq([stamp : Nat, speed : {m.speed : m \in Messages}]),
   wrenches : Seq([stamp : Nat, force : Int]), contacts : BOOLEAN,
   port : {""} \cup {m.port : m \in Messages}, tare : Seq(Int)]

\* What a message of each topic carries.
LEMMA MessageTypes ==
  ASSUME NEW m \in Messages
  PROVE  /\ m.stamp \in Nat /\ m.topic \in {"tf", "state", "wrench", "contacts", "event"}
         /\ m.topic = "tf" => m.at \in Int
         /\ m.topic = "state" => m.tare \in Int
         /\ m.topic = "wrench" => m.force \in Int
         /\ m.topic = "contacts" => m.contacts \in BOOLEAN
BY ScoringAssumption

\* One callback, by its topic.
LEMMA Callbacks ==
  ASSUME NEW d, NEW m \in Messages
  PROVE  /\ m.topic = "tf" => Process(d, m) = TfCallback(d, m)
         /\ m.topic = "state" => Process(d, m) = ControllerStateCallback(d, m)
         /\ m.topic = "wrench" => Process(d, m) = WrenchCallback(d, m)
         /\ m.topic = "contacts" => Process(d, m) = ContactsCallback(d, m)
         /\ m.topic = "event" => Process(d, m) = InsertionEventCallback(d, m)
BY DEF Process

\* What is appended once per stamp.
LEMMA FreshEntry ==
  ASSUME NEW T, NEW q \in Seq(T), NEW e \in T
  PROVE  /\ Fresh(q, e) \in Seq(T) /\ Fresh(q, e) # << >>
         /\ Last(Fresh(q, e)).stamp = e.stamp
         /\ Fresh(Fresh(q, e), e) = Fresh(q, e)
<1>1. CASE q # << >> /\ Last(q).stamp = e.stamp
  BY <1>1 DEF Fresh
<1>2. CASE ~(q # << >> /\ Last(q).stamp = e.stamp)
  <2> DEFINE r == Append(q, e)
  <2>1. r \in Seq(T) /\ Len(r) = Len(q) + 1 /\ r[Len(q) + 1] = e /\ Len(q) \in Nat
    BY AppendProperties
  <2>2. r # << >> /\ Last(r) = e
    BY <2>1 DEF Last
  <2>3. Fresh(q, e) = r
    BY <1>2, Zenon DEF Fresh
  <2> HIDE DEF r
  <2>4. Fresh(r, e) = r
    BY <2>2 DEF Fresh
  <2>5. QED
    BY <2>1, <2>2, <2>3, <2>4
<1>3. QED
  BY <1>1, <1>2

\* A callback keeps the types of what is gathered.
LEMMA ProcessTypes ==
  ASSUME NEW d \in Data, NEW m \in Messages
  PROVE  Process(d, m) \in Data
<1>1. CASE m.topic = "tf"
  <2>1. [stamp |-> m.stamp, at |-> m.at] \in [stamp : Nat, at : Int]
    BY <1>1, MessageTypes
  <2>2. Fresh(d.poses, [stamp |-> m.stamp, at |-> m.at]) \in Seq([stamp : Nat, at : Int])
    BY <2>1, FreshEntry DEF Data
  <2>3. Process(d, m) = [d EXCEPT !.poses = Fresh(d.poses, [stamp |-> m.stamp, at |-> m.at])]
    BY <1>1, Callbacks DEF TfCallback
  <2>4. QED
    BY <2>2, <2>3 DEF Data
<1>2. CASE m.topic = "state"
  <2> DEFINE T == [stamp : Nat, speed : {n.speed : n \in Messages}]
             e == [stamp |-> m.stamp, speed |-> m.speed]
  <2>1. e \in T /\ m.tare \in Int
    BY <1>2, MessageTypes
  <2>2. d.velocities \in Seq(T)
    BY DEF Data
  <2> HIDE DEF T, e
  <2>3. Fresh(d.velocities, e) \in Seq(T)
    BY <2>1, <2>2, FreshEntry
  <2>4. <<m.tare>> \in Seq(Int)
    BY <2>1
  <2>5. Process(d, m) = [d EXCEPT !.tare = <<m.tare>>, !.velocities = Fresh(d.velocities, e)]
    BY <1>2, Callbacks DEF ControllerStateCallback, e
  <2>6. QED
    BY <2>3, <2>4, <2>5 DEF Data, T
<1>3. CASE m.topic = "wrench"
  <2>1. Process(d, m) = WrenchCallback(d, m)
    BY <1>3, Callbacks
  <2>2. CASE d.tare = << >>
    BY <2>1, <2>2 DEF WrenchCallback
  <2>3. CASE d.tare # << >>
    <3> DEFINE e == [stamp |-> m.stamp, force |-> m.force - d.tare[1]]
    <3>1. d.tare[1] \in Int
      <4>1. d.tare \in Seq(Int)
        BY DEF Data
      <4>2. Len(d.tare) \in Nat \ {0}
        BY <2>3, <4>1, EmptySeq
      <4>3. QED
        BY <4>1, <4>2
    <3>2. e \in [stamp : Nat, force : Int]
      BY <1>3, <3>1, MessageTypes
    <3>3. Append(d.wrenches, e) \in Seq([stamp : Nat, force : Int])
      BY <3>2, AppendProperties DEF Data
    <3>4. Process(d, m) = [d EXCEPT !.wrenches = Append(d.wrenches, e)]
      BY <2>1, <2>3 DEF WrenchCallback
    <3> HIDE DEF e
    <3>5. QED
      BY <3>3, <3>4 DEF Data
  <2>4. QED
    BY <2>2, <2>3
<1>4. CASE m.topic = "contacts"
  <2>1. Process(d, m) = [d EXCEPT !.contacts = d.contacts \/ m.contacts]
    BY <1>4, Callbacks DEF ContactsCallback
  <2>2. (d.contacts \/ m.contacts) \in BOOLEAN
    OBVIOUS
  <2>3. QED
    BY <2>1, <2>2 DEF Data
<1>5. CASE m.topic = "event"
  <2>1. Process(d, m) = [d EXCEPT !.port = m.port]
    BY <1>5, Callbacks DEF InsertionEventCallback
  <2>2. m.port \in {n.port : n \in Messages}
    OBVIOUS
  <2>3. QED
    BY <2>1, <2>2 DEF Data
<1>6. QED
  BY <1>1, <1>2, <1>3, <1>4, <1>5, MessageTypes

\* What a pass starts with.
LEMMA ClearedType == Cleared \in Data
BY DEF Cleared, Data

-----------------------------------------------------------------------------
(* The first pass, message by message. *)

Steps(b) == [k \in DOMAIN b |-> [d \in Data |-> Process(d, b[k])]]

\* The first pass is a fold over the callbacks of its messages.
LEMMA GatheredFolds ==
  ASSUME NEW b \in Seq(Messages)
  PROVE  \E g : /\ Folds(g, Cleared, Steps(b)) /\ Gathered(b) = g[DOMAIN b]
                /\ g[DOMAIN b] \in Data
<1> DEFINE n == Len(b)
           Solves(g) ==
             g = [s \in SUBSET DOMAIN b |-> IF s = {} THEN Cleared
                                            ELSE Process(g[s \ {Max(s)}], b[Max(s)])]
           G == CHOOSE g : Solves(g)
<1>1. n \in Nat /\ DOMAIN b = 1..n /\ DOMAIN Steps(b) = 1..n /\ \A k \in 1..n : b[k] \in Messages
  BY DEF Steps
<1>2. \A s \in SUBSET (1..n) : s # {} => Max(s) \in 1..n /\ s \ {Max(s)} \in SUBSET (1..n)
  BY <1>1, LastDropped
<1>3. \A k \in 1..n : \A d \in Data : Steps(b)[k][d] = Process(d, b[k])
  BY <1>1 DEF Steps
<1>4. PICK h : Folds(h, Cleared, Steps(b))
  BY <1>1, FoldExists
<1>5. \A s \in SUBSET (1..n) :
        h[s] = IF s = {} THEN Cleared ELSE Steps(b)[Max(s)][h[s \ {Max(s)}]]
  BY <1>1, <1>4, Zenon DEF Folds
<1>6. \A s \in SUBSET (1..n) : h[s] \in Data
  <2>1. h[{}] \in Data
    BY <1>5, ClearedType
  <2>2. ASSUME NEW s \in SUBSET (1..n), s # {} /\ h[s \ {Max(s)}] \in Data
        PROVE  h[s] \in Data
    <3>1. Max(s) \in 1..n /\ b[Max(s)] \in Messages
      BY <1>1, <1>2, <2>2
    <3>2. h[s] = Process(h[s \ {Max(s)}], b[Max(s)])
      BY <1>3, <1>5, <2>2, <3>1
    <3>3. QED
      BY <2>2, <3>1, <3>2, ProcessTypes
  <2>3. QED
    BY <1>1, <2>1, <2>2, FoldStaysIn
<1>7. \A s \in SUBSET (1..n) :
        h[s] = IF s = {} THEN Cleared ELSE Process(h[s \ {Max(s)}], b[Max(s)])
  BY <1>2, <1>3, <1>5, <1>6
<1>8. h = [s \in SUBSET (1..n) |-> h[s]]
  <2>1. h = [s \in SUBSET (1..n) |-> IF s = {} THEN Cleared ELSE Steps(b)[Max(s)][h[s \ {Max(s)}]]]
    BY <1>1, <1>4, Zenon DEF Folds
  <2>2. QED
    BY <2>1
<1>9. Solves(h)
  <2>1. [s \in SUBSET (1..n) |-> h[s]]
          = [s \in SUBSET (1..n) |-> IF s = {} THEN Cleared ELSE Process(h[s \ {Max(s)}], b[Max(s)])]
    BY <1>7
  <2>2. QED
    BY <1>1, <1>8, <2>1, Zenon
<1>10. Solves(G)
  <2> HIDE DEF Solves
  <2>1. QED
    BY <1>9
<1>11. Gathered(b) = G[DOMAIN b]
  BY DEF Gathered, FoldLeft, MapThenFoldSet
<1> HIDE DEF G
<1>12. \A s \in SUBSET (1..n) :
         G[s] = IF s = {} THEN Cleared ELSE Process(G[s \ {Max(s)}], b[Max(s)])
  BY <1>1, <1>10, Zenon
<1>13. \A s \in SUBSET (1..n) : G[s] \in Data
  <2>1. G[{}] \in Data
    BY <1>12, ClearedType
  <2>2. ASSUME NEW s \in SUBSET (1..n), s # {} /\ G[s \ {Max(s)}] \in Data
        PROVE  G[s] \in Data
    <3>1. Max(s) \in 1..n /\ b[Max(s)] \in Messages
      BY <1>1, <1>2, <2>2
    <3>2. G[s] = Process(G[s \ {Max(s)}], b[Max(s)])
      BY <1>12, <2>2
    <3>3. QED
      BY <2>2, <3>1, <3>2, ProcessTypes
  <2>3. QED
    BY <1>1, <2>1, <2>2, FoldStaysIn
<1>14. Folds(G, Cleared, Steps(b))
  <2>1. G = [s \in SUBSET (1..n) |-> IF s = {} THEN Cleared ELSE Process(G[s \ {Max(s)}], b[Max(s)])]
    BY <1>1, <1>10, Zenon
  <2>2. \A s \in SUBSET (1..n) : s # {} =>
          Process(G[s \ {Max(s)}], b[Max(s)]) = Steps(b)[Max(s)][G[s \ {Max(s)}]]
    BY <1>2, <1>3, <1>13
  <2>3. [s \in SUBSET (1..n) |-> IF s = {} THEN Cleared ELSE Process(G[s \ {Max(s)}], b[Max(s)])]
          = [s \in SUBSET (1..n) |-> IF s = {} THEN Cleared ELSE Steps(b)[Max(s)][G[s \ {Max(s)}]]]
    BY <2>2
  <2>4. QED
    BY <1>1, <2>1, <2>3, Zenon DEF Folds
<1>15. QED
  BY <1>1, <1>11, <1>13, <1>14

\* Nothing is gathered from an empty bag.
LEMMA GatheredNone == Gathered(<< >>) = Cleared
<1>1. << >> \in Seq(Messages) /\ DOMAIN << >> = {}
  OBVIOUS
<1>2. PICK g : Folds(g, Cleared, Steps(<< >>)) /\ Gathered(<< >>) = g[DOMAIN << >>]
  BY <1>1, GatheredFolds
<1>3. DOMAIN Steps(<< >>) = {}
  BY <1>1 DEF Steps
<1>4. {} \in SUBSET DOMAIN Steps(<< >>)
  OBVIOUS
<1>5. g[{}] = Cleared
  BY <1>2, <1>4, Zenon DEF Folds
<1>6. QED
  BY <1>1, <1>2, <1>5

\* One message more is one callback more.
LEMMA GatheredMore ==
  ASSUME NEW b \in Seq(Messages), NEW m \in Messages
  PROVE  Gathered(b) \in Data /\ Gathered(Append(b, m)) = Process(Gathered(b), m)
<1> DEFINE n == Len(b)
           c == Append(b, m)
<1>1. /\ n \in Nat /\ DOMAIN b = 1..n /\ c \in Seq(Messages) /\ DOMAIN c = 1..(n + 1)
      /\ c[n + 1] = m /\ \A k \in 1..n : c[k] = b[k]
  BY AppendProperties
<1>2. PICK g : /\ Folds(g, Cleared, Steps(b)) /\ Gathered(b) = g[DOMAIN b]
               /\ g[DOMAIN b] \in Data
  BY GatheredFolds
<1> HIDE DEF c
<1>3. PICK h : Folds(h, Cleared, Steps(c)) /\ Gathered(c) = h[DOMAIN c]
  BY <1>1, GatheredFolds
<1>4. /\ DOMAIN Steps(b) = 1..n /\ DOMAIN Steps(c) = 1..(n + 1)
      /\ \A k \in 1..n : Steps(c)[k] = Steps(b)[k]
  BY <1>1 DEF Steps
<1>5. h[1..(n + 1)] = Steps(c)[n + 1][g[1..n]]
  <2> DEFINE p == Steps(b)
             q == Steps(c)
  <2>1. n \in Nat /\ DOMAIN p = 1..n /\ DOMAIN q = 1..(n + 1) /\ \A k \in 1..n : q[k] = p[k]
    BY <1>1, <1>4
  <2>2. Folds(g, Cleared, p) /\ Folds(h, Cleared, q)
    BY <1>2, <1>3
  <2> HIDE DEF n, p, q
  <2>3. h[1..(n + 1)] = q[n + 1][g[1..n]]
    BY <2>1, <2>2, FoldMore
  <2>4. QED
    BY <2>3 DEF q
<1>6. Steps(c)[n + 1] = [d \in Data |-> Process(d, m)]
  BY <1>1 DEF Steps
<1>7. g[1..n] \in Data
  BY <1>1, <1>2
<1>8. QED
  BY <1>1, <1>2, <1>3, <1>5, <1>6, <1>7 DEF c

-----------------------------------------------------------------------------
(* The second pass, entry by entry. *)

\* The last of a sequence that is appended to.
LEMMA AppendedLast ==
  ASSUME NEW T, NEW q \in Seq(T), NEW e \in T
  PROVE  /\ Append(q, e) \in Seq(T) /\ Append(q, e) # << >> /\ Last(Append(q, e)) = e
         /\ Len(q) \in Nat /\ Len(Append(q, e)) = Len(q) + 1 /\ Append(q, e)[Len(q) + 1] = e
         /\ \A k \in 1..Len(q) : Append(q, e)[k] = q[k] /\ q[k] \in T
         /\ q # << >> => Len(q) \in Nat \ {0} /\ Last(q) = q[Len(q)] /\ Last(q) \in T
<1>1. /\ Append(q, e) \in Seq(T) /\ Len(Append(q, e)) = Len(q) + 1 /\ Append(q, e)[Len(q) + 1] = e
      /\ \A k \in 1..Len(q) : Append(q, e)[k] = q[k]
  BY AppendProperties
<1>2. Len(q) \in Nat /\ \A k \in 1..Len(q) : q[k] \in T
  OBVIOUS
<1>3. Append(q, e) # << >>
  BY <1>1, <1>2
<1>4. Last(Append(q, e)) = e
  BY <1>1 DEF Last
<1>5. q # << >> => Len(q) \in Nat \ {0} /\ Last(q) = q[Len(q)] /\ Last(q) \in T
  BY <1>2, EmptySeq DEF Last
<1>6. QED
  BY <1>1, <1>2, <1>3, <1>4, <1>5

\* What comes before the last of a sequence that is appended to.
LEMMA FrontOfAppended ==
  ASSUME NEW T, NEW q \in Seq(T), NEW e \in T
  PROVE  Front(Append(q, e)) = q
<1> DEFINE r == Append(q, e)
<1>1. /\ r \in Seq(T) /\ Len(r) = Len(q) + 1 /\ Len(q) \in Nat
      /\ \A k \in 1..Len(q) : r[k] = q[k] /\ q[k] \in T
  BY AppendedLast
<1>2. Len(r) - 1 = Len(q)
  BY <1>1
<1> HIDE DEF r
<1> DEFINE s == SubSeq(r, 1, Len(q))
<1>3. /\ s \in Seq(T)
      /\ Len(s) = IF 1 <= Len(q) THEN Len(q) - 1 + 1 ELSE 0
      /\ \A k \in 1..(Len(q) - 1 + 1) : s[k] = r[1 + k - 1]
  BY <1>1, SubSeqProperties
<1>4. Len(s) = Len(q) /\ \A k \in 1..Len(s) : s[k] = q[k]
  BY <1>1, <1>3
<1> HIDE DEF s
<1>5. s = q
  BY <1>3, <1>4, SeqEqual
<1>6. QED
  BY <1>2, <1>5 DEF Front, r, s

\* A distance is not negative.
LEMMA DistanceType ==
  ASSUME NEW x \in Int, NEW y \in Int
  PROVE  Distance(x, y) \in Nat
BY DEF Distance

Stays == Seq([stamp : Nat, at : Int])
Forces == Seq([stamp : Nat, force : Int])

\* The terms of the two sums.
StepsOf(q) == [i \in 1..(Len(q) - 1) |-> Distance(q[i].at, q[i + 1].at)]
OverOf(w) ==
  [i \in 1..(Len(w) - 1) |-> IF Distance(w[i + 1].force, 0) > ForceThreshold
                             THEN w[i + 1].stamp - w[i].stamp ELSE 0]

\* The path and the time above the threshold are sums of these terms.
LEMMA SumsOf ==
  ASSUME NEW q
  PROVE  PathLength(q) = Summed(StepsOf(q)) /\ TimeAboveThreshold(q) = Summed(OverOf(q))
BY DEF PathLength, TimeAboveThreshold, SumUpTo, Summed, StepsOf, OverOf

\* The path grows by the distance to the next pose.
LEMMA PathMore ==
  ASSUME NEW q \in Stays, NEW e \in [stamp : Nat, at : Int]
  PROVE  /\ q = << >> => PathLength(q) = 0 /\ PathLength(Append(q, e)) = 0
         /\ q # << >> => /\ PathLength(q) \in Int
                         /\ PathLength(Append(q, e)) = Distance(Last(q).at, e.at) + PathLength(q)
<1> DEFINE r == Append(q, e)
           n == Len(q)
<1>1. /\ r \in Stays /\ n \in Nat /\ Len(r) = n + 1 /\ r[n + 1] = e
      /\ \A k \in 1..n : r[k] = q[k]
      /\ q # << >> => n \in Nat \ {0} /\ Last(q) = q[n]
      /\ q = << >> => n = 0
  BY AppendedLast DEF Stays
<1> HIDE DEF r
<1>2. \A k \in 1..(n + 1) : r[k] \in [stamp : Nat, at : Int]
  BY <1>1, ElementOfSeq DEF Stays
<1>3. \A k \in 1..(n + 1) : r[k].at \in Int
  BY <1>2
<1>4. CASE q = << >>
  <2>1. DOMAIN StepsOf(q) = {} /\ DOMAIN StepsOf(r) = {}
    BY <1>1, <1>4 DEF StepsOf
  <2>2. QED
    BY <1>4, <2>1, SumOfNone, SumsOf DEF r
<1>5. CASE q # << >>
  <2>1. n - 1 \in Nat /\ (n - 1) + 1 = n
    BY <1>1, <1>5
  <2>2. DOMAIN StepsOf(q) = 1..(n - 1) /\ DOMAIN StepsOf(r) = 1..((n - 1) + 1)
    BY <1>1, <2>1 DEF StepsOf
  <2>3. \A x \in 1..((n - 1) + 1) : StepsOf(r)[x] = Distance(r[x].at, r[x + 1].at)
    BY <1>1, <2>1 DEF StepsOf
  <2>4. \A x \in 1..((n - 1) + 1) : StepsOf(r)[x] \in Int
    <3> TAKE x \in 1..((n - 1) + 1)
    <3>1. x \in 1..(n + 1) /\ x + 1 \in 1..(n + 1)
      BY <1>1
    <3>2. Distance(r[x].at, r[x + 1].at) \in Nat
      BY <1>3, <3>1, DistanceType
    <3>3. QED
      BY <2>3, <3>2
  <2>5. \A x \in 1..(n - 1) : StepsOf(q)[x] = StepsOf(r)[x]
    <3> TAKE x \in 1..(n - 1)
    <3>1. x \in 1..n /\ x + 1 \in 1..n /\ x \in 1..((n - 1) + 1)
      BY <1>1
    <3>2. StepsOf(q)[x] = Distance(q[x].at, q[x + 1].at)
      BY DEF StepsOf
    <3>3. QED
      BY <1>1, <2>3, <3>1, <3>2
  <2> DEFINE f == StepsOf(r)
             g == StepsOf(q)
             p == n - 1
  <2>6. StepsOf(r)[n] = Distance(Last(q).at, e.at)
    BY <1>1, <1>5, <2>1, <2>3
  <2>7. Summed(f) \in Int /\ Summed(g) \in Int /\ Summed(f) = f[p + 1] + Summed(g)
    <3>1. p \in Nat /\ DOMAIN f = 1..(p + 1) /\ DOMAIN g = 1..p
      BY <2>1, <2>2
    <3>2. (\A x \in 1..(p + 1) : f[x] \in Int) /\ \A x \in 1..p : g[x] = f[x]
      BY <2>4, <2>5
    <3> HIDE DEF f, g, p
    <3>3. QED
      BY <3>1, <3>2, SumMore
  <2>8. QED
    BY <1>5, <2>1, <2>6, <2>7, SumsOf DEF r
<1>6. QED
  BY <1>4, <1>5

\* The time above the threshold grows by the time since the last sample, or not.
Over(last, e) == IF Distance(e.force, 0) > ForceThreshold THEN e.stamp - last.stamp ELSE 0

LEMMA AboveMore ==
  ASSUME NEW q \in Forces, NEW e \in [stamp : Nat, force : Int]
  PROVE  /\ q = << >> => TimeAboveThreshold(q) = 0 /\ TimeAboveThreshold(Append(q, e)) = 0
         /\ q # << >> => /\ TimeAboveThreshold(q) \in Int
                         /\ TimeAboveThreshold(Append(q, e)) = Over(Last(q), e) + TimeAboveThreshold(q)
<1> DEFINE r == Append(q, e)
           n == Len(q)
<1>1. /\ r \in Forces /\ n \in Nat /\ Len(r) = n + 1 /\ r[n + 1] = e
      /\ \A k \in 1..n : r[k] = q[k]
      /\ q # << >> => n \in Nat \ {0} /\ Last(q) = q[n]
      /\ q = << >> => n = 0
  BY AppendedLast DEF Forces
<1> HIDE DEF r
<1>2. \A k \in 1..(n + 1) : r[k].force \in Int /\ r[k].stamp \in Nat
  <2>1. \A k \in 1..(n + 1) : r[k] \in [stamp : Nat, force : Int]
    BY <1>1, ElementOfSeq DEF Forces
  <2>2. QED
    BY <2>1
<1>3. CASE q = << >>
  <2>1. DOMAIN OverOf(q) = {} /\ DOMAIN OverOf(r) = {}
    BY <1>1, <1>3 DEF OverOf
  <2>2. QED
    BY <1>3, <2>1, SumOfNone, SumsOf DEF r
<1>4. CASE q # << >>
  <2>1. n - 1 \in Nat /\ (n - 1) + 1 = n
    BY <1>1, <1>4
  <2>2. DOMAIN OverOf(q) = 1..(n - 1) /\ DOMAIN OverOf(r) = 1..((n - 1) + 1)
    BY <1>1, <2>1 DEF OverOf
  <2>3. \A x \in 1..((n - 1) + 1) : OverOf(r)[x] = Over(r[x], r[x + 1])
    BY <1>1, <2>1 DEF OverOf, Over
  <2>4. \A x \in 1..((n - 1) + 1) : OverOf(r)[x] \in Int
    <3> TAKE x \in 1..((n - 1) + 1)
    <3>1. x \in 1..(n + 1) /\ x + 1 \in 1..(n + 1)
      BY <1>1
    <3>2. Over(r[x], r[x + 1]) \in Int
      BY <1>2, <3>1 DEF Over
    <3>3. QED
      BY <2>3, <3>2
  <2>5. \A x \in 1..(n - 1) : OverOf(q)[x] = OverOf(r)[x]
    <3> TAKE x \in 1..(n - 1)
    <3>1. x \in 1..n /\ x + 1 \in 1..n /\ x \in 1..((n - 1) + 1)
      BY <1>1
    <3>2. OverOf(q)[x] = Over(q[x], q[x + 1])
      BY DEF OverOf, Over
    <3>3. QED
      BY <1>1, <2>3, <3>1, <3>2
  <2> DEFINE f == OverOf(r)
             g == OverOf(q)
             p == n - 1
  <2>6. OverOf(r)[n] = Over(Last(q), e)
    BY <1>1, <1>4, <2>1, <2>3
  <2>7. Summed(f) \in Int /\ Summed(g) \in Int /\ Summed(f) = f[p + 1] + Summed(g)
    <3>1. p \in Nat /\ DOMAIN f = 1..(p + 1) /\ DOMAIN g = 1..p
      BY <2>1, <2>2
    <3>2. (\A x \in 1..(p + 1) : f[x] \in Int) /\ \A x \in 1..p : g[x] = f[x]
      BY <2>4, <2>5
    <3> HIDE DEF f, g, p
    <3>3. QED
      BY <3>1, <3>2, SumMore
  <2>8. QED
    BY <1>4, <2>1, <2>6, <2>7, SumsOf DEF r
<1>5. QED
  BY <1>3, <1>4

-----------------------------------------------------------------------------
(* What a callback changes. *)

PoseOf(m) == [stamp |-> m.stamp, at |-> m.at]
VelocityOf(m) == [stamp |-> m.stamp, speed |-> m.speed]
WrenchOf(d, m) == [stamp |-> m.stamp, force |-> m.force - d.tare[1]]

Swings == Seq([stamp : Nat, speed : {m.speed : m \in Messages}])

\* The types of what is gathered, field by field.
LEMMA DataFields ==
  ASSUME NEW d \in Data
  PROVE  /\ d.poses \in Stays /\ d.velocities \in Swings /\ d.wrenches \in Forces
         /\ d.contacts \in BOOLEAN /\ d.tare \in Seq(Int)
         /\ d = [poses |-> d.poses, velocities |-> d.velocities, wrenches |-> d.wrenches,
                 contacts |-> d.contacts, port |-> d.port, tare |-> d.tare]
BY DEF Data, Stays, Forces, Swings

\* What a callback appends has its type.
LEMMA EntriesTyped ==
  ASSUME NEW d \in Data, NEW m \in Messages
  PROVE  /\ m.topic = "tf" => PoseOf(m) \in [stamp : Nat, at : Int]
         /\ VelocityOf(m) \in [stamp : Nat, speed : {n.speed : n \in Messages}]
         /\ m.topic = "wrench" /\ d.tare # << >> => WrenchOf(d, m) \in [stamp : Nat, force : Int]
<1>1. d.tare # << >> => d.tare[1] \in Int
  <2>1. d.tare \in Seq(Int)
    BY DataFields
  <2>2. d.tare # << >> => Len(d.tare) \in Nat \ {0}
    BY <2>1, EmptySeq
  <2>3. QED
    BY <2>1, <2>2
<1>2. QED
  BY <1>1, MessageTypes DEF PoseOf, VelocityOf, WrenchOf

\* Each field after a callback.
LEMMA FieldsAfter ==
  ASSUME NEW d \in Data, NEW m \in Messages
  PROVE  /\ Process(d, m).poses = IF m.topic = "tf" THEN Fresh(d.poses, PoseOf(m)) ELSE d.poses
         /\ Process(d, m).velocities
              = IF m.topic = "state" THEN Fresh(d.velocities, VelocityOf(m)) ELSE d.velocities
         /\ Process(d, m).tare = IF m.topic = "state" THEN <<m.tare>> ELSE d.tare
         /\ Process(d, m).contacts
              = IF m.topic = "contacts" THEN d.contacts \/ m.contacts ELSE d.contacts
         /\ Process(d, m).port = IF m.topic = "event" THEN m.port ELSE d.port
         /\ Process(d, m).wrenches = IF m.topic = "wrench" /\ d.tare # << >>
                                     THEN Append(d.wrenches, WrenchOf(d, m)) ELSE d.wrenches
<1>0. d = [poses |-> d.poses, velocities |-> d.velocities, wrenches |-> d.wrenches,
           contacts |-> d.contacts, port |-> d.port, tare |-> d.tare]
  BY DataFields
<1>1. CASE m.topic = "tf"
  <2>1. Process(d, m) = [d EXCEPT !.poses = Fresh(d.poses, PoseOf(m))]
    BY <1>1, Callbacks DEF TfCallback, PoseOf
  <2>2. QED
    BY <1>0, <1>1, <2>1
<1>2. CASE m.topic = "state"
  <2>1. Process(d, m) = [d EXCEPT !.tare = <<m.tare>>, !.velocities = Fresh(d.velocities, VelocityOf(m))]
    BY <1>2, Callbacks DEF ControllerStateCallback, VelocityOf
  <2>2. QED
    BY <1>0, <1>2, <2>1
<1>3. CASE m.topic = "wrench"
  <2>1. Process(d, m) = IF d.tare = << >> THEN d
                        ELSE [d EXCEPT !.wrenches = Append(d.wrenches, WrenchOf(d, m))]
    BY <1>3, Callbacks DEF WrenchCallback, WrenchOf
  <2>2. QED
    BY <1>0, <1>3, <2>1
<1>4. CASE m.topic = "contacts"
  <2>1. Process(d, m) = [d EXCEPT !.contacts = d.contacts \/ m.contacts]
    BY <1>4, Callbacks DEF ContactsCallback
  <2>2. QED
    BY <1>0, <1>4, <2>1
<1>5. CASE m.topic = "event"
  <2>1. Process(d, m) = [d EXCEPT !.port = m.port]
    BY <1>5, Callbacks DEF InsertionEventCallback
  <2>2. QED
    BY <1>0, <1>5, <2>1
<1>6. QED
  BY <1>1, <1>2, <1>3, <1>4, <1>5, MessageTypes

-----------------------------------------------------------------------------
(* Several copies of each message. *)

\* Two passes cannot be told apart by any category, nor by a later message.
Same(d, e) ==
  /\ d.poses = e.poses /\ d.velocities = e.velocities /\ d.tare = e.tare
  /\ d.contacts = e.contacts /\ d.port = e.port
  /\ TimeAboveThreshold(d.wrenches) = TimeAboveThreshold(e.wrenches)
  /\ d.wrenches = << >> <=> e.wrenches = << >>
  /\ d.wrenches # << >> => Last(d.wrenches).stamp = Last(e.wrenches).stamp

\* The last wrench, and the time above the threshold, after one more.
LEMMA OneMoreWrench ==
  ASSUME NEW d \in Data, NEW m \in Messages, m.topic = "wrench", d.tare # << >>
  PROVE  LET p == Process(d, m) IN
         /\ p.wrenches # << >> /\ Last(p.wrenches).stamp = m.stamp
         /\ d.wrenches = << >> => TimeAboveThreshold(p.wrenches) = 0 /\ TimeAboveThreshold(d.wrenches) = 0
         /\ d.wrenches # << >> =>
              /\ TimeAboveThreshold(d.wrenches) \in Int
              /\ TimeAboveThreshold(p.wrenches)
                   = (IF Distance(m.force - d.tare[1], 0) > ForceThreshold
                      THEN m.stamp - Last(d.wrenches).stamp ELSE 0) + TimeAboveThreshold(d.wrenches)
<1> DEFINE p == Process(d, m)
           e == WrenchOf(d, m)
<1>1. p.wrenches = Append(d.wrenches, e)
  BY FieldsAfter
<1>2. e \in [stamp : Nat, force : Int] /\ d.wrenches \in Forces
  BY EntriesTyped, DataFields
<1>3. e.stamp = m.stamp /\ e.force = m.force - d.tare[1]
  BY DEF WrenchOf
<1> HIDE DEF p, e
<1>4. Append(d.wrenches, e) # << >> /\ Last(Append(d.wrenches, e)) = e
  <2> DEFINE T == [stamp : Nat, force : Int]
             w == d.wrenches
  <2>1. w \in Seq(T) /\ e \in T
    BY <1>2 DEF Forces
  <2> HIDE DEF T, w
  <2>2. Append(w, e) # << >> /\ Last(Append(w, e)) = e
    BY <2>1, AppendedLast
  <2>3. QED
    BY <2>2 DEF w
<1>5. Over(Last(d.wrenches), e) = IF Distance(m.force - d.tare[1], 0) > ForceThreshold
                                  THEN m.stamp - Last(d.wrenches).stamp ELSE 0
  BY <1>3 DEF Over
<1>6. /\ d.wrenches = << >> =>
           TimeAboveThreshold(d.wrenches) = 0 /\ TimeAboveThreshold(Append(d.wrenches, e)) = 0
      /\ d.wrenches # << >> =>
           /\ TimeAboveThreshold(d.wrenches) \in Int
           /\ TimeAboveThreshold(Append(d.wrenches, e))
                = Over(Last(d.wrenches), e) + TimeAboveThreshold(d.wrenches)
  BY <1>2, AboveMore
<1>7. /\ p.wrenches # << >> /\ Last(p.wrenches).stamp = m.stamp
      /\ d.wrenches = << >> => TimeAboveThreshold(p.wrenches) = 0 /\ TimeAboveThreshold(d.wrenches) = 0
      /\ d.wrenches # << >> =>
           /\ TimeAboveThreshold(d.wrenches) \in Int
           /\ TimeAboveThreshold(p.wrenches)
                = (IF Distance(m.force - d.tare[1], 0) > ForceThreshold
                   THEN m.stamp - Last(d.wrenches).stamp ELSE 0) + TimeAboveThreshold(d.wrenches)
  BY <1>1, <1>3, <1>4, <1>5, <1>6
<1>8. QED
  BY <1>7 DEF p

\* The same message leaves two passes the same.
LEMMA SameStep ==
  ASSUME NEW d \in Data, NEW e \in Data, NEW m \in Messages, Same(d, e)
  PROVE  Same(Process(d, m), Process(e, m))
<1> DEFINE p == Process(d, m)
           q == Process(e, m)
<1>1. /\ p.poses = q.poses /\ p.velocities = q.velocities /\ p.tare = q.tare
      /\ p.contacts = q.contacts /\ p.port = q.port
  <2>1. /\ d.poses = e.poses /\ d.velocities = e.velocities /\ d.tare = e.tare
        /\ d.contacts = e.contacts /\ d.port = e.port
    BY DEF Same
  <2>2. /\ p.poses = IF m.topic = "tf" THEN Fresh(d.poses, PoseOf(m)) ELSE d.poses
        /\ p.velocities = IF m.topic = "state" THEN Fresh(d.velocities, VelocityOf(m)) ELSE d.velocities
        /\ p.tare = IF m.topic = "state" THEN <<m.tare>> ELSE d.tare
        /\ p.contacts = IF m.topic = "contacts" THEN d.contacts \/ m.contacts ELSE d.contacts
        /\ p.port = IF m.topic = "event" THEN m.port ELSE d.port
    BY FieldsAfter
  <2>3. /\ q.poses = IF m.topic = "tf" THEN Fresh(e.poses, PoseOf(m)) ELSE e.poses
        /\ q.velocities = IF m.topic = "state" THEN Fresh(e.velocities, VelocityOf(m)) ELSE e.velocities
        /\ q.tare = IF m.topic = "state" THEN <<m.tare>> ELSE e.tare
        /\ q.contacts = IF m.topic = "contacts" THEN e.contacts \/ m.contacts ELSE e.contacts
        /\ q.port = IF m.topic = "event" THEN m.port ELSE e.port
    BY FieldsAfter
  <2> HIDE DEF p, q
  <2>4. QED
    BY <2>1, <2>2, <2>3
<1>2. CASE ~(m.topic = "wrench" /\ d.tare # << >>)
  <2>1. p.wrenches = d.wrenches /\ q.wrenches = e.wrenches
    BY <1>2, FieldsAfter DEF Same
  <2> HIDE DEF p, q
  <2>2. Same(p, q)
    BY <1>1, <2>1 DEF Same
  <2>3. QED
    BY <2>2 DEF p, q
<1>3. CASE m.topic = "wrench" /\ d.tare # << >>
  <2>1. /\ p.wrenches # << >> /\ q.wrenches # << >>
        /\ Last(p.wrenches).stamp = m.stamp /\ Last(q.wrenches).stamp = m.stamp
    BY <1>3, OneMoreWrench DEF Same
  <2>2. TimeAboveThreshold(p.wrenches) = TimeAboveThreshold(q.wrenches)
    BY <1>3, OneMoreWrench DEF Same
  <2> HIDE DEF p, q
  <2>3. Same(p, q)
    BY <1>1, <2>1, <2>2 DEF Same
  <2>4. QED
    BY <2>3 DEF p, q
<1>4. QED
  BY <1>2, <1>3

\* A message that was just processed changes nothing when it comes again.
LEMMA SameAgain ==
  ASSUME NEW d \in Data, NEW m \in Messages
  PROVE  Same(Process(d, m), Process(Process(d, m), m))
<1> DEFINE p == Process(d, m)
           q == Process(p, m)
<1>0. p \in Data /\ p.contacts \in BOOLEAN
  BY ProcessTypes, DataFields
<1>1. p.poses = q.poses
  <2>1. m.topic = "tf" => Fresh(Fresh(d.poses, PoseOf(m)), PoseOf(m)) = Fresh(d.poses, PoseOf(m))
    <3> SUFFICES ASSUME m.topic = "tf"
                 PROVE  Fresh(Fresh(d.poses, PoseOf(m)), PoseOf(m)) = Fresh(d.poses, PoseOf(m))
      OBVIOUS
    <3> DEFINE T == [stamp : Nat, at : Int]
               w == d.poses
               e == PoseOf(m)
    <3>1. w \in Seq(T) /\ e \in T
      BY EntriesTyped, DataFields DEF Stays
    <3> HIDE DEF T, w, e
    <3>2. Fresh(Fresh(w, e), e) = Fresh(w, e)
      BY <3>1, FreshEntry
    <3>3. QED
      BY <3>2 DEF w, e
  <2>2. p.poses = IF m.topic = "tf" THEN Fresh(d.poses, PoseOf(m)) ELSE d.poses
    BY FieldsAfter
  <2> HIDE DEF p
  <2>3. q.poses = IF m.topic = "tf" THEN Fresh(p.poses, PoseOf(m)) ELSE p.poses
    BY <1>0, FieldsAfter
  <2>4. QED
    BY <2>1, <2>2, <2>3
<1>2. p.velocities = q.velocities
  <2>1. Fresh(Fresh(d.velocities, VelocityOf(m)), VelocityOf(m)) = Fresh(d.velocities, VelocityOf(m))
    <3> DEFINE T == [stamp : Nat, speed : {n.speed : n \in Messages}]
               w == d.velocities
               e == VelocityOf(m)
    <3>1. w \in Seq(T) /\ e \in T
      BY EntriesTyped, DataFields DEF Swings
    <3> HIDE DEF T, w, e
    <3>2. Fresh(Fresh(w, e), e) = Fresh(w, e)
      BY <3>1, FreshEntry
    <3>3. QED
      BY <3>2 DEF w, e
  <2>2. p.velocities = IF m.topic = "state" THEN Fresh(d.velocities, VelocityOf(m)) ELSE d.velocities
    BY FieldsAfter
  <2> HIDE DEF p
  <2>3. q.velocities = IF m.topic = "state" THEN Fresh(p.velocities, VelocityOf(m)) ELSE p.velocities
    BY <1>0, FieldsAfter
  <2>4. QED
    BY <2>1, <2>2, <2>3
<1>3. p.tare = q.tare /\ p.contacts = q.contacts /\ p.port = q.port
  <2>1. /\ p.tare = IF m.topic = "state" THEN <<m.tare>> ELSE d.tare
        /\ p.contacts = IF m.topic = "contacts" THEN d.contacts \/ m.contacts ELSE d.contacts
        /\ p.port = IF m.topic = "event" THEN m.port ELSE d.port
    BY FieldsAfter
  <2>2. d.contacts \in BOOLEAN /\ (m.topic = "contacts" => m.contacts \in BOOLEAN)
    BY DataFields, MessageTypes
  <2> HIDE DEF p
  <2>3. /\ q.tare = IF m.topic = "state" THEN <<m.tare>> ELSE p.tare
        /\ q.contacts = IF m.topic = "contacts" THEN p.contacts \/ m.contacts ELSE p.contacts
        /\ q.port = IF m.topic = "event" THEN m.port ELSE p.port
    BY <1>0, FieldsAfter
  <2>4. QED
    BY <2>1, <2>2, <2>3
<1>4. CASE ~(m.topic = "wrench" /\ d.tare # << >>)
  <2>1. ~(m.topic = "wrench" /\ p.tare # << >>)
    BY <1>4, FieldsAfter
  <2> HIDE DEF p
  <2>2. q.wrenches = p.wrenches
    BY <1>0, <2>1, FieldsAfter
  <2> HIDE DEF q
  <2>3. Same(p, q)
    BY <1>1, <1>2, <1>3, <2>2 DEF Same
  <2>4. QED
    BY <2>3 DEF p, q
<1>5. CASE m.topic = "wrench" /\ d.tare # << >>
  <2>1. p.wrenches # << >> /\ Last(p.wrenches).stamp = m.stamp
    BY <1>5, OneMoreWrench
  <2>2. p.tare # << >> /\ m.stamp \in Nat
    BY <1>5, FieldsAfter, MessageTypes
  <2> HIDE DEF p
  <2>3. /\ q.wrenches # << >> /\ Last(q.wrenches).stamp = m.stamp
        /\ TimeAboveThreshold(p.wrenches) \in Int
        /\ TimeAboveThreshold(q.wrenches)
             = (IF Distance(m.force - p.tare[1], 0) > ForceThreshold
                THEN m.stamp - Last(p.wrenches).stamp ELSE 0) + TimeAboveThreshold(p.wrenches)
    BY <1>0, <1>5, <2>1, <2>2, OneMoreWrench
  <2>4. TimeAboveThreshold(q.wrenches) = TimeAboveThreshold(p.wrenches)
    BY <2>1, <2>2, <2>3
  <2> HIDE DEF q
  <2>5. Same(p, q)
    BY <1>1, <1>2, <1>3, <2>1, <2>3, <2>4 DEF Same
  <2>6. QED
    BY <2>5 DEF p, q
<1>6. QED
  BY <1>4, <1>5

\* Passes that cannot be told apart from a third one cannot be told apart.
LEMMA SameAsSame ==
  ASSUME NEW d, NEW e, NEW f, Same(d, e), Same(e, f)
  PROVE  Same(d, f)
BY DEF Same

\* What is gathered from any bag has its type.
LEMMA GatheredType ==
  ASSUME NEW b \in Seq(Messages)
  PROVE  Gathered(b) \in Data
<1>1. PICK g : Gathered(b) = g[DOMAIN b] /\ g[DOMAIN b] \in Data
  BY GatheredFolds
<1>2. QED
  BY <1>1

\* However often a message is repeated at the end of a bag.
LEMMA RepeatedSame ==
  ASSUME NEW c \in Seq(Messages), NEW m \in Messages, NEW n \in Nat \ {0}
  PROVE  /\ c \o [j \in 1..n |-> m] \in Seq(Messages)
         /\ Same(Process(Gathered(c), m), Gathered(c \o [j \in 1..n |-> m]))
<1> DEFINE p == Process(Gathered(c), m)
           R(k) == [j \in 1..k |-> m]
           Bad == {k \in Nat \ {0} : ~Same(p, Gathered(c \o R(k)))}
<1>0. p \in Data
  BY GatheredType, ProcessTypes
<1>1. \A k \in Nat : R(k) \in Seq(Messages) /\ Len(R(k)) = k
  OBVIOUS
<1>2. c \o R(1) = Append(c, m)
  <2>1. R(1) = <<m>>
    OBVIOUS
  <2>2. QED
    BY <2>1, AppendIsConcat
<1>3. ASSUME NEW k \in Nat
      PROVE  c \o R(k) \in Seq(Messages) /\ c \o R(k + 1) = Append(c \o R(k), m)
  <2>1. c \o R(k) \in Seq(Messages) /\ <<m>> \in Seq(Messages) /\ R(k) \in Seq(Messages)
    BY <1>1, ConcatProperties
  <2>2. R(k + 1) = R(k) \o <<m>>
    <3>1. R(k) \o <<m>> = Append(R(k), m)
      BY <1>1, AppendIsConcat
    <3>2. R(k + 1) = Append(R(k), m)
      OBVIOUS
    <3>3. QED
      BY <3>1, <3>2
  <2> HIDE DEF R
  <2>3. c \o (R(k) \o <<m>>) = (c \o R(k)) \o <<m>>
    BY <2>1, ConcatAssociative
  <2>4. (c \o R(k)) \o <<m>> = Append(c \o R(k), m)
    BY <2>1, AppendIsConcat
  <2>5. QED
    BY <2>1, <2>2, <2>3, <2>4
<1> HIDE DEF R
<1>4. Same(p, Gathered(c \o R(1)))
  <2>1. Gathered(Append(c, m)) = p
    BY GatheredMore
  <2>2. Same(p, p)
    BY DEF Same
  <2>3. QED
    BY <1>2, <2>1, <2>2
<1>5. ASSUME NEW k \in Nat, Same(p, Gathered(c \o R(k)))
      PROVE  Same(p, Gathered(c \o R(k + 1)))
  <2> DEFINE d == Gathered(c \o R(k))
  <2>1. d \in Data /\ Gathered(c \o R(k + 1)) = Process(d, m)
    BY <1>3, GatheredMore
  <2>2. Same(p, Process(p, m))
    BY GatheredType, SameAgain
  <2> HIDE DEF p
  <2>3. Same(p, d)
    BY <1>5
  <2> HIDE DEF d
  <2>4. Same(Process(p, m), Process(d, m))
    BY <1>0, <2>1, <2>3, SameStep
  <2>5. QED
    BY <2>1, <2>2, <2>4, SameAsSame
<1>6. Bad = {}
  <2> SUFFICES ASSUME Bad # {}
               PROVE  FALSE
    OBVIOUS
  <2> DEFINE k == Min(Bad)
  <2>1. k \in Bad /\ \A x \in Bad : k <= x
    <3>1. Bad \in SUBSET Nat
      OBVIOUS
    <3>2. QED
      BY <3>1, LeastNumber
  <2> HIDE DEF k
  <2>2. k \in Nat \ {0} /\ ~Same(p, Gathered(c \o R(k)))
    BY <2>1
  <2> HIDE DEF p
  <2>3. k # 1
    BY <1>4, <2>2
  <2>4. k - 1 \in Nat \ {0} /\ ~(k <= k - 1) /\ (k - 1) + 1 = k
    BY <2>2, <2>3
  <2>5. Same(p, Gathered(c \o R(k - 1)))
    BY <2>1, <2>4
  <2>6. Same(p, Gathered(c \o R((k - 1) + 1)))
    BY <1>5, <2>4, <2>5
  <2>7. QED
    BY <2>2, <2>4, <2>6
<1>7. Same(p, Gathered(c \o R(n))) /\ c \o R(n) \in Seq(Messages)
  BY <1>3, <1>6
<1>8. QED
  BY <1>7 DEF R

\* The copies of a bag with one message more.
LEMMA CopiesMore ==
  ASSUME NEW b \in Seq(Messages), NEW m \in Messages
  PROVE  CopiesOf(Append(b, m)) = CopiesOf(b) \o [j \in 1..Copies |-> m]
<1> DEFINE q == [x \in DOMAIN b |-> [j \in 1..Copies |-> b[x]]]
           c == Append(b, m)
           r == [x \in DOMAIN c |-> [j \in 1..Copies |-> c[x]]]
           n == Len(b)
<1>1. /\ n \in Nat /\ DOMAIN b = 1..n /\ DOMAIN c = 1..(n + 1)
      /\ c[n + 1] = m /\ (\A k \in 1..n : c[k] = b[k]) /\ \A k \in 1..n : b[k] \in Messages
  BY AppendProperties
<1>2. Copies \in Nat
  BY ScoringAssumption
<1>3. [j \in 1..Copies |-> m] \in Seq(Messages)
  BY <1>2
<1> HIDE DEF c
<1>4. Len(q) = n /\ Len(r) = n + 1
  BY <1>1
<1>5. (\A k \in 1..n : q[k] = r[k]) /\ r[n + 1] = [j \in 1..Copies |-> m]
  <2>1. \A k \in 1..n : q[k] = [j \in 1..Copies |-> b[k]]
    BY <1>1
  <2>2. \A k \in 1..(n + 1) : r[k] = [j \in 1..Copies |-> c[k]]
    BY <1>1
  <2>3. n + 1 \in 1..(n + 1) /\ \A k \in 1..n : k \in 1..(n + 1)
    BY <1>1
  <2> HIDE DEF q, r
  <2>4. r[n + 1] = [j \in 1..Copies |-> m]
    BY <1>1, <2>2, <2>3
  <2>5. \A k \in 1..n : q[k] = r[k]
    BY <1>1, <2>1, <2>2, <2>3
  <2>6. QED
    BY <2>4, <2>5
<1>6. n = 0 => q = << >>
  BY <1>1
<1> HIDE DEF q, r
<1>7. FlattenSeq(r) = FlattenSeq(q) \o r[n + 1]
  <2>1. /\ Len(q) \in Nat /\ Len(r) = Len(q) + 1 /\ (\A k \in 1..Len(q) : q[k] = r[k])
        /\ r[Len(r)] \in Seq(Messages) /\ (Len(q) = 0 => q = << >>) /\ Len(r) = n + 1
    BY <1>1, <1>3, <1>4, <1>5, <1>6
  <2> HIDE DEF n
  <2>2. FlattenSeq(r) = FlattenSeq(q) \o r[Len(r)]
    BY <2>1, FlattenMore
  <2>3. QED
    BY <2>1, <2>2
<1>8. CopiesOf(b) = FlattenSeq(q) /\ CopiesOf(c) = FlattenSeq(r)
  BY DEF CopiesOf, q, r
<1>9. QED
  BY <1>5, <1>7, <1>8 DEF c

\* An empty bag has no copies.
LEMMA CopiesNone == CopiesOf(<< >>) = << >>
<1> DEFINE q == [x \in DOMAIN << >> |-> [j \in 1..Copies |-> << >>[x]]]
<1>1. q = << >>
  OBVIOUS
<1>2. FlattenSeq(<< >>) = << >>
  BY DEF FlattenSeq
<1>3. QED
  BY <1>1, <1>2 DEF CopiesOf

-----------------------------------------------------------------------------
(* What the points are computed from. *)

\* A callback takes nothing away.
LEMMA ConductGrows ==
  ASSUME NEW d \in Data, NEW m \in Messages,
         PathLength(d.poses) \in Nat, TimeAboveThreshold(d.wrenches) \in Nat,
         m.topic = "wrench" /\ d.wrenches # << >> => Last(d.wrenches).stamp <= m.stamp
  PROVE  LET p == Process(d, m) IN
         /\ PathLength(p.poses) \in Nat /\ PathLength(d.poses) <= PathLength(p.poses)
         /\ TimeAboveThreshold(p.wrenches) \in Nat
         /\ TimeAboveThreshold(d.wrenches) <= TimeAboveThreshold(p.wrenches)
         /\ d.contacts => p.contacts
         /\ m.topic # "event" => p.port = d.port
<1> DEFINE p == Process(d, m)
<1>1. /\ p.poses = IF m.topic = "tf" THEN Fresh(d.poses, PoseOf(m)) ELSE d.poses
      /\ d.contacts => p.contacts
      /\ m.topic # "event" => p.port = d.port
      /\ ~(m.topic = "wrench" /\ d.tare # << >>) => p.wrenches = d.wrenches
  BY FieldsAfter
<1>2. PathLength(p.poses) \in Nat /\ PathLength(d.poses) <= PathLength(p.poses)
  <2>1. CASE p.poses = d.poses
    BY <2>1
  <2>2. CASE m.topic = "tf" /\ p.poses = Append(d.poses, PoseOf(m))
    <3> DEFINE q == d.poses
               e == PoseOf(m)
    <3>1. q \in Stays /\ e \in [stamp : Nat, at : Int]
      BY <2>2, DataFields, EntriesTyped
    <3>2. q # << >> => Distance(Last(q).at, e.at) \in Nat
      <4> SUFFICES ASSUME q # << >>
                   PROVE  Distance(Last(q).at, e.at) \in Nat
        OBVIOUS
      <4> DEFINE T == [stamp : Nat, at : Int]
      <4>1. q \in Seq(T) /\ e \in T
        BY <3>1 DEF Stays
      <4> HIDE DEF T, q, e
      <4>2. Last(q) \in T
        BY <4>1, AppendedLast
      <4>3. Last(q).at \in Int /\ e.at \in Int
        BY <4>1, <4>2 DEF T
      <4>4. QED
        BY <4>3, DistanceType
    <3>3. p.poses = Append(q, e) /\ PathLength(q) \in Nat
      BY <2>2
    <3> HIDE DEF p, q, e
    <3>4. /\ q = << >> => PathLength(q) = 0 /\ PathLength(Append(q, e)) = 0
          /\ q # << >> => /\ PathLength(q) \in Int
                          /\ PathLength(Append(q, e)) = Distance(Last(q).at, e.at) + PathLength(q)
      BY <3>1, PathMore
    <3>5. PathLength(Append(q, e)) \in Nat /\ PathLength(q) <= PathLength(Append(q, e))
      BY <3>2, <3>3, <3>4
    <3>6. QED
      BY <3>3, <3>5 DEF q
  <2>3. QED
    BY <1>1, <2>1, <2>2 DEF Fresh
<1>3. /\ TimeAboveThreshold(p.wrenches) \in Nat
      /\ TimeAboveThreshold(d.wrenches) <= TimeAboveThreshold(p.wrenches)
  <2>1. CASE ~(m.topic = "wrench" /\ d.tare # << >>)
    BY <1>1, <2>1
  <2>2. CASE m.topic = "wrench" /\ d.tare # << >> /\ d.wrenches = << >>
    <3>1. TimeAboveThreshold(p.wrenches) = 0 /\ TimeAboveThreshold(d.wrenches) = 0
      BY <2>2, OneMoreWrench
    <3>2. QED
      BY <3>1
  <2>3. CASE m.topic = "wrench" /\ d.tare # << >> /\ d.wrenches # << >>
    <3> DEFINE t == IF Distance(m.force - d.tare[1], 0) > ForceThreshold
                    THEN m.stamp - Last(d.wrenches).stamp ELSE 0
    <3>1. TimeAboveThreshold(p.wrenches) = t + TimeAboveThreshold(d.wrenches)
      BY <2>3, OneMoreWrench
    <3>2. t \in Nat
      <4> DEFINE T == [stamp : Nat, force : Int]
                 w == d.wrenches
      <4>1. w \in Seq(T) /\ w # << >>
        BY <2>3, DataFields DEF Forces
      <4> HIDE DEF T, w
      <4>2. Last(w) \in T
        BY <4>1, EmptySeq, ElementOfSeq DEF Last
      <4>3. Last(d.wrenches).stamp \in Nat
        BY <4>2 DEF T, w
      <4>4. m.stamp \in Nat /\ Last(d.wrenches).stamp <= m.stamp
        BY <2>3, MessageTypes
      <4>5. m.stamp - Last(d.wrenches).stamp \in Nat
        BY <4>3, <4>4
      <4>6. QED
        BY <4>5
    <3> HIDE DEF t
    <3>3. QED
      BY <3>1, <3>2
  <2>4. QED
    BY <2>1, <2>2, <2>3
<1> HIDE DEF p
<1>4. QED
  BY <1>1, <1>2, <1>3 DEF p

\* What is accumulated so far is numbers, of messages in the order of their
\* stamps; recorded several times each, they would give the same.
ScoringInv ==
  /\ content \in Seq(Messages) /\ CopiesOf(content) \in Seq(Messages)
  /\ LET d == Gathered(content) IN
     /\ PathLength(d.poses) \in Nat /\ TimeAboveThreshold(d.wrenches) \in Nat
     /\ d.wrenches # << >> =>
          \E k \in 1..Len(content) :
            content[k].topic = "wrench" /\ content[k].stamp = Last(d.wrenches).stamp
  /\ Same(Gathered(content), Gathered(CopiesOf(content)))
  /\ PointsAreMonotone

\* The bag is empty at first.
LEMMA ScoringStarts == ScoringInit => ScoringInv
<1> SUFFICES ASSUME content = << >>
             PROVE  ScoringInv
  BY DEF ScoringInit
<1>1. content \in Seq(Messages) /\ CopiesOf(content) = << >> /\ Gathered(content) = Cleared
  BY CopiesNone, GatheredNone
<1>2. Cleared.poses = << >> /\ Cleared.wrenches = << >>
  BY DEF Cleared
<1>3. PathLength(Cleared.poses) = 0 /\ TimeAboveThreshold(Cleared.wrenches) = 0
  <2>1. DOMAIN StepsOf(<< >>) = {} /\ DOMAIN OverOf(<< >>) = {}
    BY DEF StepsOf, OverOf
  <2>2. QED
    BY <1>2, <2>1, SumsOf, SumOfNone
<1>4. Same(Gathered(content), Gathered(CopiesOf(content)))
  BY <1>1 DEF Same
<1>5. PointsAreMonotone
  BY DEF PointsAreMonotone
<1>6. /\ content \in Seq(Messages) /\ CopiesOf(content) \in Seq(Messages)
      /\ PathLength(Gathered(content).poses) \in Nat
      /\ TimeAboveThreshold(Gathered(content).wrenches) \in Nat
      /\ Gathered(content).wrenches = << >>
  <2>1. Gathered(content).poses = << >> /\ Gathered(content).wrenches = << >>
    BY <1>1, <1>2
  <2>2. PathLength(<< >>) = 0 /\ TimeAboveThreshold(<< >>) = 0
    BY <1>2, <1>3
  <2>3. << >> \in Seq(Messages)
    OBVIOUS
  <2>4. CopiesOf(content) \in Seq(Messages)
    BY <1>1, <2>3
  <2>5. QED
    BY <1>1, <2>1, <2>2, <2>4
<1>7. QED
  BY <1>4, <1>5, <1>6 DEF ScoringInv

\* A message that is recorded keeps the invariant.
LEMMA ScoringSteps == ScoringInv /\ [ScoringNext]_content => ScoringInv'
<1> SUFFICES ASSUME ScoringInv, [ScoringNext]_content
             PROVE  ScoringInv'
  OBVIOUS
<1>1. CASE content' = content
  BY <1>1 DEF ScoringInv, PointsAreMonotone
<1>2. CASE ScoringNext
  <2>1. PICK m \in Messages : InOrder(m) /\ content' = Append(content, m)
    BY <1>2 DEF ScoringNext, Record
  <2> DEFINE d == Gathered(content)
             p == Process(d, m)
             n == Len(content)
  <2>2. /\ content \in Seq(Messages) /\ CopiesOf(content) \in Seq(Messages)
        /\ PathLength(d.poses) \in Nat /\ TimeAboveThreshold(d.wrenches) \in Nat
        /\ d.wrenches # << >> =>
             \E k \in 1..n : content[k].topic = "wrench" /\ content[k].stamp = Last(d.wrenches).stamp
        /\ Same(d, Gathered(CopiesOf(content)))
    BY DEF ScoringInv
  <2>3. d \in Data /\ Gathered(content') = p /\ p \in Data
    BY <2>1, <2>2, GatheredMore, ProcessTypes
  <2>4. /\ n \in Nat /\ content' \in Seq(Messages) /\ Len(content') = n + 1 /\ content'[n + 1] = m
        /\ content' # << >> /\ Last(content') = m
        /\ \A k \in 1..n : content'[k] = content[k]
    BY <2>1, <2>2, AppendedLast
  <2>5. m.topic = "wrench" /\ d.wrenches # << >> => Last(d.wrenches).stamp <= m.stamp
    <3> SUFFICES ASSUME m.topic = "wrench", d.wrenches # << >>
                 PROVE  Last(d.wrenches).stamp <= m.stamp
      OBVIOUS
    <3>1. PICK k \in 1..n : content[k].topic = "wrench" /\ content[k].stamp = Last(d.wrenches).stamp
      BY <2>2
    <3>2. k \in DOMAIN content
      BY <2>2
    <3>3. content[k].stamp <= m.stamp
      BY <2>1, <3>1, <3>2 DEF InOrder
    <3>4. QED
      BY <3>1, <3>3
  <2>6. /\ PathLength(p.poses) \in Nat /\ PathLength(d.poses) <= PathLength(p.poses)
        /\ TimeAboveThreshold(p.wrenches) \in Nat
        /\ TimeAboveThreshold(d.wrenches) <= TimeAboveThreshold(p.wrenches)
        /\ d.contacts => p.contacts
        /\ m.topic # "event" => p.port = d.port
    BY <2>2, <2>3, <2>5, ConductGrows
  <2>7. p.wrenches # << >> =>
          \E k \in 1..(n + 1) :
            content'[k].topic = "wrench" /\ content'[k].stamp = Last(p.wrenches).stamp
    <3>1. CASE m.topic = "wrench" /\ d.tare # << >>
      <4>1. Last(p.wrenches).stamp = m.stamp
        BY <2>3, <3>1, OneMoreWrench
      <4>2. n + 1 \in 1..(n + 1)
        BY <2>4
      <4>3. QED
        BY <2>4, <3>1, <4>1, <4>2
    <3>2. CASE ~(m.topic = "wrench" /\ d.tare # << >>)
      <4>1. p.wrenches = d.wrenches
        BY <2>3, <3>2, FieldsAfter
      <4>2. \A k \in 1..n : k \in 1..(n + 1)
        BY <2>4
      <4> HIDE DEF p, d, n
      <4>3. QED
        BY <2>2, <2>4, <4>1, <4>2
    <3>3. QED
      BY <3>1, <3>2
  <2>8. /\ CopiesOf(content') \in Seq(Messages)
        /\ Same(p, Gathered(CopiesOf(content')))
    <3> DEFINE c == CopiesOf(content)
               k == Copies
    <3>1. k \in Nat \ {0} /\ c \in Seq(Messages)
      BY <2>2, ScoringAssumption
    <3>2. CopiesOf(content') = c \o [j \in 1..k |-> m]
      BY <2>1, <2>2, CopiesMore
    <3> HIDE DEF c, k
    <3>3. /\ c \o [j \in 1..k |-> m] \in Seq(Messages)
          /\ Same(Process(Gathered(c), m), Gathered(c \o [j \in 1..k |-> m]))
      BY <3>1, RepeatedSame
    <3>4. Gathered(c) \in Data /\ Same(d, Gathered(c))
      BY <2>2, <3>1, GatheredType DEF c
    <3>5. Same(p, Process(Gathered(c), m))
      BY <2>3, <3>4, SameStep
    <3> HIDE DEF p
    <3>6. QED
      BY <3>2, <3>3, <3>5, SameAsSame
  <2>9. PointsAreMonotone'
    <3> DEFINE C == Conduct(content')
               B == Conduct(content)
               V == {p.velocities}
               P == {p.port}
    <3>1. C = [path |-> PathLength(p.poses), velocities |-> p.velocities,
               above |-> TimeAboveThreshold(p.wrenches), contacts |-> p.contacts, port |-> p.port]
      BY <2>3 DEF Conduct
    <3>2. B = [path |-> PathLength(d.poses), velocities |-> d.velocities,
               above |-> TimeAboveThreshold(d.wrenches), contacts |-> d.contacts, port |-> d.port]
      BY DEF Conduct
    <3>3. p.contacts \in BOOLEAN
      BY <2>3, DataFields
    <3> HIDE DEF p, d, C, B
    <3>4. C \in [path : Nat, velocities : V, above : Nat, contacts : BOOLEAN, port : P]
      BY <2>6, <3>1, <3>3
    <3> HIDE DEF V, P
    <3>5. NearerNeverCosts(C)
      BY <3>4, NearerNeverCostsPoints
    <3>6. ASSUME m.topic # "event"
          PROVE  RecordingNeverPays(B, C)
      <4>1. /\ B.port = C.port /\ B.path \in Nat /\ C.path \in Nat /\ B.path <= C.path
            /\ B.above \in Nat /\ C.above \in Nat /\ B.above <= C.above /\ (B.contacts => C.contacts)
        BY <2>2, <2>6, <3>1, <3>2, <3>6
      <4>2. QED
        BY <4>1, WorseConductNeverPays
    <3>7. Front(content') = content
      BY <2>1, <2>2, FrontOfAppended
    <3>8. Last(content') = m
      BY <2>4
    <3>9. QED
      BY <3>5, <3>6, <3>7, <3>8 DEF PointsAreMonotone, C, B
  <2> HIDE DEF p
  <2>10. QED
    BY <2>3, <2>4, <2>6, <2>7, <2>8, <2>9 DEF ScoringInv
<1>3. QED
  BY <1>1, <1>2

\* What cannot be told apart gives the same conduct.
LEMMA CopiesAreHarmless == ScoringInv => CopiesHarmless
BY DEF ScoringInv, Same, CopiesHarmless, Conduct

-----------------------------------------------------------------------------
(***************************************************************************)
(* The services together.                                                  *)
(***************************************************************************)

\* A step of one service is its own step, or none, of each.
LEMMA OneServiceSteps ==
  ASSUME [ServicesNext]_servicesVars
  PROVE  /\ [OffLimitNext]_offLimitVars /\ [CableNext]_cableVars
         /\ [ResetJointsNext]_resetJointsVars /\ [AdapterNext]_adapterVars
         /\ [RecorderNext]_recorderVars /\ [ScoringNext]_content
BY DEF ServicesNext, WatchingContacts, HoldingCable, ResettingJoints, Observing, Recording, Scores,
       Only, servicesVars

ServicesInv ==
  OffLimitInv /\ CableInv /\ ResetJointsInv /\ AdapterInv /\ RecorderInv /\ ScoringInv

\* Each service starts in its invariant.
LEMMA ServicesStart == ServicesInit => ServicesInv
BY OffLimitStarts, CableStarts, ResetJointsStarts, AdapterStarts, RecorderStarts,
   ScoringStarts
DEF ServicesInit, ServicesInv

\* Each service keeps its invariant while any of them is at work.
LEMMA ServicesStep == ServicesInv /\ [ServicesNext]_servicesVars => ServicesInv'
BY OneServiceSteps, WatchingSteps, CableSteps, ServingSteps, ObservingSteps, RecorderSteps,
   ScoringSteps
DEF ServicesInv

\* The invariants of all services hold together.
THEOREM ServicesInvariant == ServicesSpec => []ServicesInv
BY ServicesStart, ServicesStep, PTL DEF ServicesSpec

\* The penalty for contacts is given for the right ones, whatever stands in the
\* world, whatever is spawned and deleted and whatever the robot touches.
THEOREM PenaltiesDeserved == ServicesSpec => []PenaltyIsDeserved
<1>1. ServicesInv => PenaltyIsDeserved
  BY DEF ServicesInv, OffLimitInv
<1>2. QED
  BY <1>1, ServicesInvariant, PTL

\* What a policy observes is of one instant, however many cameras and sensors
\* there are and whatever the network delays or loses.
THEOREM ObservationsAreOfOneInstant == ServicesSpec => []ObservationIsOfOneInstant
<1>1. ServicesInv => ObservationIsOfOneInstant
  BY DEF ServicesInv, AdapterInv
<1>2. QED
  BY <1>1, ServicesInvariant, PTL

\* Every trial has its own recording and its own score, for any number of
\* trials, attempts, topics and messages and any timing of the two threads.
THEOREM RecordingsAreOwn == ServicesSpec => []OwnRecording
<1>1. ServicesInv => OwnRecording
  BY RecordingIsOwn DEF ServicesInv
<1>2. QED
  BY <1>1, ServicesInvariant, PTL

\* The recorder keeps its side of TrialRecording, which the engine relies on: a
\* trial is scored at most once, and from a recording that was running.
THEOREM RecorderKeepsItsPromise == ServicesSpec => RecorderImplementsTrialRecording
<1>1. ServicesInit => Promise!Init
  BY RecorderStartsPromise DEF ServicesInit
<1>2. ServicesInv /\ [ServicesNext]_servicesVars => [Promise!Next]_Promise!rvars
  BY OneServiceSteps, RecorderKeepsPromise DEF ServicesInv
<1>3. QED
  BY <1>1, <1>2, ServicesInvariant, PTL DEF ServicesSpec, RecorderImplementsTrialRecording, Promise!Spec

\* However many recordings were started before, and whatever is recorded, the
\* repeated messages of a bag change no category of the score.
THEOREM CopiesNeverCount == ServicesSpec => []CopiesHarmless
<1>1. ServicesInv => CopiesHarmless
  BY CopiesAreHarmless DEF ServicesInv
<1>2. QED
  BY <1>1, ServicesInvariant, PTL

\* For any poses, durations, jerks and forces, and any bag in the order of its
\* stamps: to end nearer never costs points, and no message short of an
\* insertion earns any.
THEOREM PointsStayMonotone == ServicesSpec => []PointsAreMonotone
<1>1. ServicesInv => PointsAreMonotone
  BY DEF ServicesInv, ScoringInv
<1>2. QED
  BY <1>1, ServicesInvariant, PTL

\* What is left of RequestsAreServed without fairness: no answer is for another
\* request's joints, and only a request without joints is turned away.
THEOREM AnswersAreRight == ServicesSpec => [](AnswerIsOwn /\ NoneTurnedAway)
<1>1. ServicesInv => AnswerIsOwn /\ NoneTurnedAway
  BY DEF ServicesInv, ResetJointsInv
<1>2. QED
  BY <1>1, ServicesInvariant, PTL

\* What is left of NothingLeftBehind and ReleasedIsInserted without fairness:
\* once the plugins have noticed that their cables are gone nothing of them is
\* left, and an insertion is announced once, after a touch, with its port.
THEOREM CablesAreReal == ServicesSpec => [](RemovedLeavesNothing /\ InsertionsAreReal)
<1>1. ServicesInv => RemovedLeavesNothing /\ InsertionsAreReal
  BY DEF ServicesInv, CableInv
<1>2. QED
  BY <1>1, ServicesInvariant, PTL

==============================================================================
