------------------------ MODULE BridgesStorage_proof ------------------------
(***************************************************************************)
(* What the operators of TopicBridge and BridgesStorage do, for any topics  *)
(* and any bridging modes: lemmas that WorkCycle_proof rests on.            *)
(***************************************************************************)
EXTENDS BridgesStorage, TLAPS

\* A bridge exists only if it is required, a declaration only if ROS1 has it.
Sound(r, b) == /\ b.bridge => IsRequired(r, b)
               /\ b.declaration => b.required_on_ros1_side

\* And the converse.
Complete(r, b) == /\ IsRequired(r, b) => b.bridge
                  /\ b.required_on_ros1_side => b.declaration

\* How a TopicBridge may get from b to c when its flags are set anew.
Follows(r, b, c) ==
  /\ c \in TopicBridges
  /\ Sound(r, b) => Sound(r, c)
  /\ b.declaration /\ c.required_on_ros1_side => c.declaration
  /\ b.bridge /\ IsRequired(r, c) => c.bridge

\* A new TopicBridge is well formed, bridges nothing and misses nothing.
LEMMA NewIsSound ==
  ASSUME NEW r \in Resources
  PROVE  /\ NewTopicBridge \in TopicBridges
         /\ Sound(r, NewTopicBridge)
         /\ Complete(r, NewTopicBridge)
  BY DEF NewTopicBridge, TopicBridges, Sound, Complete, IsRequired, Required

\* What recalc_state returns, field by field.
LEMMA Recalc ==
  ASSUME NEW r \in Resources, NEW b \in TopicBridges, NEW outcome \in Outcomes,
         NEW c, c = RecalcState(r, b, outcome)
  PROVE  /\ c \in TopicBridges
         /\ c.required_on_ros1_side = b.required_on_ros1_side
         /\ c.required_on_zenoh_side = b.required_on_zenoh_side
         /\ c.declaration
              <=> b.required_on_ros1_side /\ (b.declaration \/ outcome.declares)
         /\ c.bridge <=> IsRequired(r, c) /\ (b.bridge \/ outcome.creates)
<1> DEFINE d == RecalcDeclaration(b, outcome)
<1>1. /\ d \in TopicBridges
      /\ d.required_on_ros1_side = b.required_on_ros1_side
      /\ d.required_on_zenoh_side = b.required_on_zenoh_side
      /\ d.bridge = b.bridge
      /\ d.declaration
           <=> b.required_on_ros1_side /\ (b.declaration \/ outcome.declares)
  BY DEF RecalcDeclaration, TopicBridges, Outcomes
<1>2. c = RecalcBridging(r, d, outcome)
  BY DEF RecalcState
<1> HIDE DEF d
<1>3. IsRequired(r, d) \in BOOLEAN
  BY DEF IsRequired, Required
<1>4. /\ c \in TopicBridges
      /\ c.required_on_ros1_side = d.required_on_ros1_side
      /\ c.required_on_zenoh_side = d.required_on_zenoh_side
      /\ c.declaration = d.declaration
      /\ c.bridge <=> IsRequired(r, d) /\ (d.bridge \/ outcome.creates)
  BY <1>1, <1>2, <1>3 DEF RecalcBridging, TopicBridges, Outcomes
<1> QED
  BY <1>1, <1>4 DEF IsRequired

\* What set_present_in_ros1 returns.
LEMMA SetPresent ==
  ASSUME NEW r \in Resources, NEW b \in TopicBridges, NEW present \in BOOLEAN,
         NEW outcome \in Outcomes,
         NEW c, c = SetPresentInRos1(r, b, present, outcome)
  PROVE  /\ Follows(r, b, c)
         /\ c.required_on_ros1_side <=> present
         /\ c.required_on_zenoh_side <=> b.required_on_zenoh_side
         /\ (b.required_on_ros1_side <=> present) => c = b
         /\ outcome = AllWell /\ Complete(r, b) => Complete(r, c)
<1>1. CASE b.required_on_ros1_side <=> present
  BY <1>1 DEF SetPresentInRos1, Follows
<1>2. CASE ~(b.required_on_ros1_side <=> present)
  <2> DEFINE d == [b EXCEPT !.required_on_ros1_side = present]
  <2>1. /\ d \in TopicBridges
        /\ d.required_on_ros1_side = present
        /\ d.required_on_zenoh_side = b.required_on_zenoh_side
        /\ d.declaration = b.declaration
        /\ d.bridge = b.bridge
    BY DEF TopicBridges
  <2>2. c = RecalcState(r, d, outcome)
    BY <1>2 DEF SetPresentInRos1
  <2> HIDE DEF d
  <2>3. /\ c \in TopicBridges
        /\ c.required_on_ros1_side = d.required_on_ros1_side
        /\ c.required_on_zenoh_side = d.required_on_zenoh_side
        /\ c.declaration
             <=> d.required_on_ros1_side /\ (d.declaration \/ outcome.declares)
        /\ c.bridge <=> IsRequired(r, c) /\ (d.bridge \/ outcome.creates)
    BY <2>1, <2>2, Recalc
  <2>4. Follows(r, b, c)
    BY <2>1, <2>3 DEF Follows, Sound
  <2>5. outcome = AllWell => outcome.declares /\ outcome.creates
    BY DEF AllWell
  <2>6. outcome = AllWell => Complete(r, c)
    BY <2>3, <2>5 DEF Complete
  <2> QED
    BY <1>2, <2>1, <2>3, <2>4, <2>6
<1> QED
  BY <1>1, <1>2

\* What set_has_complementary_in_zenoh(true) leaves.
LEMMA SetComplementary ==
  ASSUME NEW r \in Resources, NEW b \in TopicBridges, NEW outcome \in Outcomes,
         NEW c, c = SetHasComplementaryInZenoh(r, b, TRUE, outcome)
  PROVE  /\ Follows(r, b, c)
         /\ c.required_on_zenoh_side
         /\ c.required_on_ros1_side <=> b.required_on_ros1_side
         /\ b.required_on_zenoh_side => c = b
         /\ outcome = AllWell /\ Complete(r, b) => Complete(r, c)
<1>1. CASE b.required_on_zenoh_side
  BY <1>1 DEF SetHasComplementaryInZenoh, Follows, TopicBridges
<1>2. CASE ~b.required_on_zenoh_side
  <2> DEFINE d == [b EXCEPT !.required_on_zenoh_side = TRUE]
  <2>1. /\ d \in TopicBridges
        /\ d.required_on_zenoh_side
        /\ d.required_on_ros1_side = b.required_on_ros1_side
        /\ d.declaration = b.declaration
        /\ d.bridge = b.bridge
    BY DEF TopicBridges
  <2>2. c = RecalcState(r, d, outcome)
    BY <1>2 DEF SetHasComplementaryInZenoh
  <2> HIDE DEF d
  <2>3. /\ c \in TopicBridges
        /\ c.required_on_ros1_side = d.required_on_ros1_side
        /\ c.required_on_zenoh_side = d.required_on_zenoh_side
        /\ c.declaration
             <=> d.required_on_ros1_side /\ (d.declaration \/ outcome.declares)
        /\ c.bridge <=> IsRequired(r, c) /\ (d.bridge \/ outcome.creates)
    BY <2>1, <2>2, Recalc
  <2>4. Follows(r, b, c)
    BY <2>1, <2>3 DEF Follows, Sound
  <2>5. outcome = AllWell => outcome.declares /\ outcome.creates
    BY DEF AllWell
  <2>6. outcome = AllWell => Complete(r, c)
    BY <2>3, <2>5 DEF Complete
  <2> QED
    BY <1>2, <2>1, <2>3, <2>4, <2>6
<1> QED
  BY <1>1, <1>2

\* What set_has_complementary_in_zenoh(false) leaves.
LEMMA UnsetComplementary ==
  ASSUME NEW r \in Resources, NEW b \in TopicBridges, NEW outcome \in Outcomes,
         NEW c, c = SetHasComplementaryInZenoh(r, b, FALSE, outcome)
  PROVE  /\ Follows(r, b, c)
         /\ ~c.required_on_zenoh_side
         /\ c.required_on_ros1_side <=> b.required_on_ros1_side
         /\ ~b.required_on_zenoh_side => c = b
         /\ outcome = AllWell /\ Complete(r, b) => Complete(r, c)
<1>1. CASE ~b.required_on_zenoh_side
  BY <1>1 DEF SetHasComplementaryInZenoh, Follows, TopicBridges
<1>2. CASE b.required_on_zenoh_side
  <2> DEFINE d == [b EXCEPT !.required_on_zenoh_side = FALSE]
  <2>1. /\ d \in TopicBridges
        /\ ~d.required_on_zenoh_side
        /\ d.required_on_ros1_side = b.required_on_ros1_side
        /\ d.declaration = b.declaration
        /\ d.bridge = b.bridge
    BY DEF TopicBridges
  <2>2. c = RecalcState(r, d, outcome)
    BY <1>2 DEF SetHasComplementaryInZenoh
  <2> HIDE DEF d
  <2>3. /\ c \in TopicBridges
        /\ c.required_on_ros1_side = d.required_on_ros1_side
        /\ c.required_on_zenoh_side = d.required_on_zenoh_side
        /\ c.declaration
             <=> d.required_on_ros1_side /\ (d.declaration \/ outcome.declares)
        /\ c.bridge <=> IsRequired(r, c) /\ (d.bridge \/ outcome.creates)
    BY <2>1, <2>2, Recalc
  <2>4. Follows(r, b, c)
    BY <2>1, <2>3 DEF Follows, Sound
  <2>5. outcome = AllWell => outcome.declares /\ outcome.creates
    BY DEF AllWell
  <2>6. outcome = AllWell => Complete(r, c)
    BY <2>3, <2>5 DEF Complete
  <2> QED
    BY <1>2, <2>1, <2>3, <2>4, <2>6
<1> QED
  BY <1>1, <1>2

-----------------------------------------------------------------------------
EnabledOf(S) == {r \in S : Mode[r] # "Disabled"}

\* The table t stands for the two views: S seen in ROS1, K known from Zenoh.
Represents(t, S, K) ==
  /\ IsBridges(t)
  /\ DOMAIN t = EnabledOf(S \cup K)
  /\ \A r \in DOMAIN t : /\ t[r].required_on_ros1_side <=> r \in S
                         /\ t[r].required_on_zenoh_side <=> r \in K

\* Each entry is sound, and complete where no call ever fails.
Good(t, always) ==
  \A r \in DOMAIN t : Sound(r, t[r]) /\ (always => Complete(r, t[r]))

LEMMA EmptyRepresents ==
  /\ Represents(NoBridges, {}, {})
  /\ \A always : Good(NoBridges, always)
  BY DEF Represents, Good, NoBridges, IsBridges, EnabledOf

LEMMA ComplementaryIsResource ==
  ASSUME NEW e \in Resources
  PROVE  ComplementaryFor(e) \in Resources
  BY DEF ComplementaryFor, ComplementaryType, Resources, BridgeTypes

\* complementary_entity_discovered adds r to the view of Zenoh.
LEMMA DiscoveredRepresents ==
  ASSUME NEW t, NEW S, NEW K, NEW always \in BOOLEAN, Represents(t, S, K), Good(t, always),
         NEW r \in Resources, NEW outcome \in Outcomes, always => outcome = AllWell,
         NEW u, u = ComplementaryEntityDiscovered(t, r, outcome)
  PROVE  Represents(u, S, K \cup {r}) /\ Good(u, always)
<1>1. CASE Mode[r] = "Disabled"
  BY <1>1 DEF ComplementaryEntityDiscovered, Represents, Good, EnabledOf
<1>2. CASE Mode[r] # "Disabled"
  <2> DEFINE entry == IF r \in DOMAIN t THEN t[r] ELSE NewTopicBridge
             c     == SetHasComplementaryInZenoh(r, entry, TRUE, outcome)
  <2>1. u = With(t, r, c)
    BY <1>2 DEF ComplementaryEntityDiscovered
  <2>2. /\ entry \in TopicBridges
        /\ Sound(r, entry)
        /\ always => Complete(r, entry)
        /\ entry.required_on_ros1_side <=> r \in S
    <3>1. CASE r \in DOMAIN t
      BY <3>1 DEF Represents, IsBridges, Good
    <3>2. CASE r \notin DOMAIN t
      <4>1. r \notin S
        BY <3>2, <1>2 DEF Represents, EnabledOf
      <4> QED
        BY <3>2, <4>1, NewIsSound DEF NewTopicBridge
    <3> QED
      BY <3>1, <3>2
  <2>3. /\ c \in TopicBridges
        /\ Sound(r, c)
        /\ always => Complete(r, c)
        /\ c.required_on_zenoh_side
        /\ c.required_on_ros1_side <=> r \in S
    <3> HIDE DEF entry, c
    <3>1. c = SetHasComplementaryInZenoh(r, entry, TRUE, outcome)
      BY DEF c
    <3> QED
      BY <3>1, <2>2, SetComplementary DEF Follows
  <2> HIDE DEF entry, c
  <2>4. DOMAIN u = EnabledOf(S \cup (K \cup {r}))
    BY <2>1, <1>2 DEF With, Represents, EnabledOf
  <2>5. u \in [DOMAIN u -> TopicBridges] /\ DOMAIN u \subseteq Resources
    BY <2>1, <2>3 DEF With, Represents, IsBridges
  <2> QED
    BY <2>1, <2>3, <2>4, <2>5 DEF With, Represents, IsBridges, Good
<1> QED
  BY <1>1, <1>2

\* complementary_entity_lost takes r from the view of Zenoh.
LEMMA LostRepresents ==
  ASSUME NEW t, NEW S, NEW K, NEW always \in BOOLEAN, Represents(t, S, K), Good(t, always),
         NEW r \in Resources, NEW outcome \in Outcomes, always => outcome = AllWell,
         NEW u, u = ComplementaryEntityLost(t, r, outcome)
  PROVE  Represents(u, S, K \ {r}) /\ Good(u, always)
<1>1. CASE r \notin DOMAIN t
  <2>1. u = t
    BY <1>1 DEF ComplementaryEntityLost
  <2>2. EnabledOf(S \cup K) = EnabledOf(S \cup (K \ {r}))
    BY <1>1 DEF Represents, EnabledOf
  <2> QED
    BY <1>1, <2>1, <2>2 DEF Represents
<1>2. CASE r \in DOMAIN t
  <2> DEFINE entry == t[r]
             c     == SetHasComplementaryInZenoh(r, entry, FALSE, outcome)
  <2>1. /\ entry \in TopicBridges
        /\ Sound(r, entry)
        /\ always => Complete(r, entry)
        /\ entry.required_on_ros1_side <=> r \in S
        /\ entry.required_on_zenoh_side <=> r \in K
    BY <1>2 DEF Represents, IsBridges, Good
  <2>2. u = IF entry.required_on_zenoh_side /\ ~IsActual(c)
            THEN Without(t, r) ELSE With(t, r, c)
    BY <1>2 DEF ComplementaryEntityLost
  <2> HIDE DEF entry, c
  <2>3. /\ c \in TopicBridges
        /\ Sound(r, c)
        /\ always => Complete(r, c)
        /\ ~c.required_on_zenoh_side
        /\ c.required_on_ros1_side <=> r \in S
    <3>1. c = SetHasComplementaryInZenoh(r, entry, FALSE, outcome)
      BY DEF c
    <3> QED
      BY <3>1, <2>1, UnsetComplementary DEF Follows
  <2>4. CASE r \in S
    <3>1. u = With(t, r, c)
      BY <2>2, <2>3, <2>4 DEF IsActual
    <3>2. DOMAIN u = EnabledOf(S \cup (K \ {r}))
      BY <3>1, <1>2, <2>4 DEF With, Represents, EnabledOf
    <3>3. u \in [DOMAIN u -> TopicBridges] /\ DOMAIN u \subseteq Resources
      BY <3>1, <2>3 DEF With, Represents, IsBridges
    <3> QED
      BY <3>1, <3>2, <3>3, <2>3, <2>4 DEF With, Represents, IsBridges, Good
  <2>5. CASE r \notin S
    <3>1. u = Without(t, r)
      <4>1. r \in K
        BY <1>2, <2>5 DEF Represents, EnabledOf
      <4> QED
        BY <2>1, <2>2, <2>3, <2>5, <4>1 DEF IsActual
    <3>2. DOMAIN u = EnabledOf(S \cup (K \ {r}))
      BY <3>1, <2>5 DEF Without, Represents, EnabledOf
    <3>3. u \in [DOMAIN u -> TopicBridges] /\ DOMAIN u \subseteq Resources
      BY <3>1 DEF Without, Represents, IsBridges
    <3> QED
      BY <3>1, <3>2, <3>3 DEF Without, Represents, IsBridges, Good
  <2> QED
    BY <2>4, <2>5
<1> QED
  BY <1>1, <1>2

Polled == {r \in Resources : IsPolled(r)}

\* What set_present_in_ros1 makes of an entry, the flag being asked of a snapshot.
LEMMA ActualizedEntry ==
  ASSUME NEW r \in Resources, NEW b \in TopicBridges, NEW N,
         NEW outcome \in Outcomes, NEW always \in BOOLEAN,
         Sound(r, b), always => Complete(r, b), always => outcome = AllWell,
         NEW c, c = SetPresentInRos1(r, b, r \in N, outcome)
  PROVE  /\ c \in TopicBridges
         /\ Follows(r, b, c)
         /\ Sound(r, c)
         /\ always => Complete(r, c)
         /\ c.required_on_ros1_side <=> r \in N
         /\ c.required_on_zenoh_side <=> b.required_on_zenoh_side
         /\ (b.required_on_ros1_side <=> r \in N) => c = b
<1> DEFINE present == r \in N
<1>1. present \in BOOLEAN /\ (present <=> r \in N)
  OBVIOUS
<1>2. c = SetPresentInRos1(r, b, present, outcome)
  OBVIOUS
<1> HIDE DEF present
<1>3. /\ Follows(r, b, c)
      /\ c.required_on_ros1_side <=> present
      /\ c.required_on_zenoh_side <=> b.required_on_zenoh_side
      /\ (b.required_on_ros1_side <=> present) => c = b
      /\ outcome = AllWell /\ Complete(r, b) => Complete(r, c)
  BY <1>1, <1>2, SetPresent
<1> QED
  BY <1>1, <1>3 DEF Follows

\* What becomes of an entry while a snapshot is applied.
LEMMA ActualizedRepresents ==
  ASSUME NEW t, NEW S, NEW K, NEW always \in BOOLEAN, Represents(t, S, K), Good(t, always),
         S \subseteq Polled, NEW N \in SUBSET Polled, NEW outcome,
         NEW r \in DOMAIN t, IsPolled(r) => outcome[r] \in Outcomes,
         IsPolled(r) /\ always => outcome[r] = AllWell,
         NEW c, c = Actualized(t, N, outcome)[r]
  PROVE  /\ r \in Resources
         /\ c \in TopicBridges
         /\ Follows(r, t[r], c)
         /\ Sound(r, c)
         /\ always => Complete(r, c)
         /\ c.required_on_ros1_side <=> r \in N
         /\ c.required_on_zenoh_side <=> r \in K
         /\ (t[r].required_on_ros1_side <=> r \in N) => c = t[r]
<1> DEFINE b == t[r]
           o == outcome[r]
<1>1. /\ r \in Resources
      /\ b \in TopicBridges
      /\ Sound(r, b)
      /\ always => Complete(r, b)
      /\ b.required_on_ros1_side <=> r \in S
      /\ b.required_on_zenoh_side <=> r \in K
  BY DEF Represents, IsBridges, Good
<1>2. CASE IsPolled(r)
  <2>1. c = SetPresentInRos1(r, b, r \in N, o) /\ o \in Outcomes
    BY <1>2 DEF Actualized
  <2>2. always => o = AllWell
    BY <1>2
  <2> HIDE DEF b, o
  <2>3. /\ c \in TopicBridges
        /\ Follows(r, b, c)
        /\ Sound(r, c)
        /\ always => Complete(r, c)
        /\ c.required_on_ros1_side <=> r \in N
        /\ c.required_on_zenoh_side <=> b.required_on_zenoh_side
        /\ (b.required_on_ros1_side <=> r \in N) => c = b
    BY <1>1, <2>1, <2>2, ActualizedEntry
  <2> QED
    BY <1>1, <2>3 DEF b
<1>3. CASE ~IsPolled(r)
  <2>1. c = b
    BY <1>3 DEF Actualized
  <2>2. r \notin S /\ r \notin N
    BY <1>3 DEF Polled
  <2>3. Follows(r, b, c)
    BY <1>1, <2>1 DEF Follows
  <2> QED
    BY <1>1, <2>1, <2>2, <2>3
<1> QED
  BY <1>2, <1>3

\* receive_ros1_state replaces the view of ROS1 by the snapshot N.
LEMMA ReceivedRepresents ==
  ASSUME NEW t, NEW S, NEW K, NEW always \in BOOLEAN, Represents(t, S, K), Good(t, always),
         S \subseteq Polled, NEW N \in SUBSET Polled, NEW outcome,
         \A r \in Polled \cap (DOMAIN t \cup N) :
           outcome[r] \in Outcomes /\ (always => outcome[r] = AllWell),
         NEW u, u = ReceiveRos1State(t, N, outcome)
  PROVE  Represents(u, N, K) /\ Good(u, always)
<1> DEFINE actualized == Actualized(t, N, outcome)
           kept       == Retained(actualized)
           new        == NewInRos1(t, N)
<1>1. ASSUME NEW r \in DOMAIN t
      PROVE  /\ r \in Resources
             /\ actualized[r] \in TopicBridges
             /\ Sound(r, actualized[r])
             /\ always => Complete(r, actualized[r])
             /\ actualized[r].required_on_ros1_side <=> r \in N
             /\ actualized[r].required_on_zenoh_side <=> r \in K
  <2> DEFINE c == actualized[r]
  <2>1. r \in Resources
    BY DEF Represents, IsBridges
  <2>2. /\ IsPolled(r) => outcome[r] \in Outcomes
        /\ IsPolled(r) /\ always => outcome[r] = AllWell
    BY <2>1 DEF Polled
  <2>3. c = Actualized(t, N, outcome)[r]
    OBVIOUS
  <2> HIDE DEF c, actualized
  <2>4. /\ c \in TopicBridges
        /\ Sound(r, c)
        /\ always => Complete(r, c)
        /\ c.required_on_ros1_side <=> r \in N
        /\ c.required_on_zenoh_side <=> r \in K
    BY <2>2, <2>3, ActualizedRepresents
  <2> QED
    BY <2>1, <2>4 DEF c
<1>2. ASSUME NEW r \in new
      PROVE  LET c == SetPresentInRos1(r, NewTopicBridge, TRUE, outcome[r])
             IN /\ r \in Resources
                /\ c \in TopicBridges
                /\ Sound(r, c)
                /\ always => Complete(r, c)
                /\ c.required_on_ros1_side
                /\ ~c.required_on_zenoh_side
  <2> DEFINE b == NewTopicBridge
             c == SetPresentInRos1(r, b, TRUE, outcome[r])
             o == outcome[r]
  <2>1. r \in N /\ r \in Polled /\ r \in Resources
    BY DEF NewInRos1, Polled
  <2>2. o \in Outcomes /\ (always => o = AllWell)
    BY <2>1
  <2>3. c = SetPresentInRos1(r, b, r \in N, o)
    BY <2>1 DEF SetPresentInRos1
  <2>4. b \in TopicBridges /\ Sound(r, b) /\ (always => Complete(r, b))
    BY <2>1, NewIsSound
  <2>5. ~b.required_on_zenoh_side
    BY DEF NewTopicBridge
  <2> HIDE DEF b, c, o
  <2>6. /\ c \in TopicBridges
        /\ Sound(r, c)
        /\ always => Complete(r, c)
        /\ c.required_on_ros1_side <=> r \in N
        /\ c.required_on_zenoh_side <=> b.required_on_zenoh_side
    BY <2>1, <2>2, <2>3, <2>4, ActualizedEntry
  <2> QED
    BY <2>1, <2>5, <2>6 DEF b, c
<1>3. u = [r \in kept \cup new |->
             IF r \in kept
             THEN actualized[r]
             ELSE SetPresentInRos1(r, NewTopicBridge, TRUE, outcome[r])]
  BY DEF ReceiveRos1State
<1>4. DOMAIN actualized = DOMAIN t
  BY DEF Actualized
<1>5. kept = {r \in DOMAIN t : r \in N \cup K}
  <2>1. ASSUME NEW r \in DOMAIN t, ~IsPolled(r)
        PROVE  r \in K
    BY <2>1 DEF Represents, EnabledOf, Polled
  <2> HIDE DEF actualized
  <2> QED
    BY <1>1, <1>4, <2>1 DEF Retained, IsActual
<1>6. new \cap DOMAIN t = {}
  BY DEF NewInRos1
<1>7. ASSUME NEW r \in new
      PROVE  r \in N /\ r \notin K
  BY <1>7 DEF NewInRos1, Represents, EnabledOf, Polled
<1>8. kept \cup new = EnabledOf(N \cup K)
  <2>1. DOMAIN t = EnabledOf(S \cup K)
    BY DEF Represents
  <2>2. new = {r \in N : r \notin DOMAIN t /\ Mode[r] # "Disabled"}
    BY DEF NewInRos1, Polled
  <2> HIDE DEF kept, new
  <2> QED
    BY <1>5, <2>1, <2>2 DEF EnabledOf
<1> HIDE DEF actualized, kept, new
<1>9. DOMAIN u = EnabledOf(N \cup K)
  BY <1>3, <1>8
<1>10. IsBridges(u)
  <2>1. ASSUME NEW r \in kept \cup new
        PROVE  r \in Resources /\ u[r] \in TopicBridges
    BY <1>1, <1>2, <1>3, <1>5
  <2>2. DOMAIN u = kept \cup new /\ u = [r \in DOMAIN u |-> u[r]]
    BY <1>3
  <2> QED
    BY <2>1, <2>2 DEF IsBridges
<1>11. ASSUME NEW r \in DOMAIN u
       PROVE  /\ u[r].required_on_ros1_side <=> r \in N
              /\ u[r].required_on_zenoh_side <=> r \in K
              /\ Sound(r, u[r])
              /\ always => Complete(r, u[r])
  <2>1. CASE r \in kept
    BY <1>1, <1>3, <1>5, <2>1
  <2>2. CASE r \notin kept
    BY <1>2, <1>3, <1>7, <2>2
  <2> QED
    BY <2>1, <2>2
<1> QED
  BY <1>9, <1>10, <1>11 DEF Represents, Good

\* receive_ros1_state reports a change exactly if it makes one.
LEMMA ReportsChange ==
  ASSUME NEW t, NEW S, NEW K, NEW always \in BOOLEAN, Represents(t, S, K), Good(t, always),
         S \subseteq Polled, NEW N \in SUBSET Polled, NEW outcome,
         \A r \in Polled \cap (DOMAIN t \cup N) :
           outcome[r] \in Outcomes /\ (always => outcome[r] = AllWell),
         NEW u, u = ReceiveRos1State(t, N, outcome)
  PROVE  SmthChanged(t, N) <=> u # t
<1>1. Represents(u, N, K)
  BY ReceivedRepresents
<1>2. ASSUME SmthChanged(t, N)
      PROVE  u # t
  <2>1. CASE NewInRos1(t, N) # {}
    <3>1. PICK r : r \in NewInRos1(t, N)
      BY <2>1
    <3> QED
      BY <1>1, <3>1 DEF NewInRos1, Represents, EnabledOf
  <2>2. CASE NewInRos1(t, N) = {}
    <3>1. PICK r \in DOMAIN t :
            \/ ~(t[r].required_on_ros1_side <=> r \in N)
            \/ ~(r \in N \/ t[r].required_on_zenoh_side)
      BY <1>2, <2>2 DEF SmthChanged
    <3> QED
      BY <1>1, <3>1 DEF Represents, EnabledOf
  <2> QED
    BY <2>1, <2>2
<1>3. ASSUME ~SmthChanged(t, N)
      PROVE  u = t
  <2> DEFINE actualized == Actualized(t, N, outcome)
  <2>1. \A r \in DOMAIN t : IsPolled(r) => (t[r].required_on_ros1_side <=> r \in N)
    BY <1>3 DEF SmthChanged
  <2>2. \A r \in DOMAIN t : IsPolled(r) => (r \in N \/ t[r].required_on_zenoh_side)
    BY <1>3 DEF SmthChanged
  <2>3. NewInRos1(t, N) = {}
    BY <1>3 DEF SmthChanged
  <2>4. t = [r \in DOMAIN t |-> t[r]]
    BY DEF Represents, IsBridges
  <2>5. actualized = t
    <3>1. ASSUME NEW r \in DOMAIN t
          PROVE  actualized[r] = t[r]
      BY <2>1 DEF Actualized, SetPresentInRos1
    <3> QED
      BY <2>4, <3>1 DEF Actualized
  <2>6. Retained(t) = DOMAIN t
    <3>1. ASSUME NEW r \in DOMAIN t, IsPolled(r)
          PROVE  IsActual(t[r])
      BY <2>1, <2>2, <3>1 DEF IsActual
    <3> QED
      BY <3>1 DEF Retained
  <2> QED
    BY <2>3, <2>4, <2>5, <2>6 DEF ReceiveRos1State
<1> QED
  BY <1>2, <1>3

-----------------------------------------------------------------------------
\* From t to u an entry that stays follows from what it was, and is the same if
\* its flags are.
Continues(t, u) ==
  \A r \in DOMAIN t \cap DOMAIN u :
    /\ Follows(r, t[r], u[r])
    /\ /\ u[r].required_on_ros1_side <=> t[r].required_on_ros1_side
       /\ u[r].required_on_zenoh_side <=> t[r].required_on_zenoh_side
       => u[r] = t[r]

\* A discovery leaves every other entry alone.
LEMMA DiscoveredContinues ==
  ASSUME NEW t, IsBridges(t), NEW r \in Resources, NEW outcome \in Outcomes
  PROVE  Continues(t, ComplementaryEntityDiscovered(t, r, outcome))
<1> DEFINE u == ComplementaryEntityDiscovered(t, r, outcome)
<1> SUFFICES ASSUME NEW q \in DOMAIN t \cap DOMAIN u
             PROVE  /\ Follows(q, t[q], u[q])
                    /\ /\ u[q].required_on_ros1_side <=> t[q].required_on_ros1_side
                       /\ u[q].required_on_zenoh_side <=> t[q].required_on_zenoh_side
                       => u[q] = t[q]
  BY DEF Continues
<1>1. t[q] \in TopicBridges
  BY DEF IsBridges
<1>2. CASE u[q] = t[q]
  BY <1>1, <1>2 DEF Follows
<1>3. CASE u[q] # t[q]
  <2> DEFINE b == t[q]
             c == u[q]
  <2>1. c = SetHasComplementaryInZenoh(q, b, TRUE, outcome) /\ q = r
    BY <1>3 DEF ComplementaryEntityDiscovered, With
  <2>2. b \in TopicBridges
    BY <1>1
  <2> HIDE DEF b, c, u
  <2>3. /\ Follows(q, b, c)
        /\ c.required_on_zenoh_side
        /\ b.required_on_zenoh_side => c = b
    BY <2>1, <2>2, SetComplementary
  <2>4. Follows(q, b, c) /\ ((c.required_on_zenoh_side <=> b.required_on_zenoh_side) => c = b)
    BY <2>3
  <2> QED
    BY <2>4 DEF b, c
<1> QED
  BY <1>2, <1>3

\* So does a loss.
LEMMA LostContinues ==
  ASSUME NEW t, IsBridges(t), NEW r \in Resources, NEW outcome \in Outcomes
  PROVE  Continues(t, ComplementaryEntityLost(t, r, outcome))
<1> DEFINE u == ComplementaryEntityLost(t, r, outcome)
<1> SUFFICES ASSUME NEW q \in DOMAIN t \cap DOMAIN u
             PROVE  /\ Follows(q, t[q], u[q])
                    /\ /\ u[q].required_on_ros1_side <=> t[q].required_on_ros1_side
                       /\ u[q].required_on_zenoh_side <=> t[q].required_on_zenoh_side
                       => u[q] = t[q]
  BY DEF Continues
<1>1. t[q] \in TopicBridges
  BY DEF IsBridges
<1>2. CASE u[q] = t[q]
  BY <1>1, <1>2 DEF Follows
<1>3. CASE u[q] # t[q]
  <2> DEFINE b == t[q]
             c == u[q]
  <2>1. c = SetHasComplementaryInZenoh(q, b, FALSE, outcome) /\ q = r
    BY <1>3 DEF ComplementaryEntityLost, With, Without
  <2>2. b \in TopicBridges
    BY <1>1
  <2> HIDE DEF b, c, u
  <2>3. /\ Follows(q, b, c)
        /\ ~c.required_on_zenoh_side
        /\ ~b.required_on_zenoh_side => c = b
    BY <2>1, <2>2, UnsetComplementary
  <2>4. Follows(q, b, c) /\ ((c.required_on_zenoh_side <=> b.required_on_zenoh_side) => c = b)
    BY <2>3
  <2> QED
    BY <2>4 DEF b, c
<1> QED
  BY <1>2, <1>3

\* And so does a snapshot with the entries that it finds as they were.
LEMMA ReceivedContinues ==
  ASSUME NEW t, NEW S, NEW K, NEW always \in BOOLEAN, Represents(t, S, K), Good(t, always),
         S \subseteq Polled, NEW N \in SUBSET Polled, NEW outcome,
         \A r \in Polled \cap (DOMAIN t \cup N) :
           outcome[r] \in Outcomes /\ (always => outcome[r] = AllWell),
         NEW u, u = ReceiveRos1State(t, N, outcome)
  PROVE  Continues(t, u)
<1> SUFFICES ASSUME NEW r \in DOMAIN t \cap DOMAIN u
             PROVE  /\ Follows(r, t[r], u[r])
                    /\ (u[r].required_on_ros1_side <=> t[r].required_on_ros1_side)
                         => u[r] = t[r]
  BY DEF Continues
<1> DEFINE c == u[r]
<1>1. c = Actualized(t, N, outcome)[r]
  BY DEF ReceiveRos1State, NewInRos1
<1>2. /\ IsPolled(r) => outcome[r] \in Outcomes
      /\ IsPolled(r) /\ always => outcome[r] = AllWell
  BY DEF Polled, Represents, IsBridges
<1> HIDE DEF c
<1>3. /\ Follows(r, t[r], c)
      /\ c.required_on_ros1_side <=> r \in N
      /\ (t[r].required_on_ros1_side <=> r \in N) => c = t[r]
  BY <1>1, <1>2, ActualizedRepresents
<1> QED
  BY <1>3 DEF c

=============================================================================
