------------------------- MODULE BridgeNetwork_proof -------------------------
(***************************************************************************)
(* Safety of a network of bridges, for any bridges, namespaces, users,      *)
(* topics and bridging modes.                                               *)
(*                                                                          *)
(* The inductive invariant says of the storage of each bridge, in the words *)
(* of BridgesStorage_proof, that its entries are those that one of their    *)
(* flags asks for, and that they are good.  What the flags for Zenoh have   *)
(* to do with the keys of the subscription is a second invariant on top of  *)
(* it.  Where all keys that a bridge hears of have one namespace, as in a   *)
(* network of namespace * only, a third says what can be forgotten there.   *)
(***************************************************************************)
EXTENDS BridgeNetwork, BridgesStorage_proof

\* The entries of a table that have a flag set.
Flagged(t, flag) == {r \in DOMAIN t : t[r][flag]}

\* Every entry is there for one of its flags.
Stored(t) ==
  /\ Represents(t, Flagged(t, "required_on_ros1_side"), Flagged(t, "required_on_zenoh_side"))
  /\ Good(t, TRUE)
  /\ Flagged(t, "required_on_ros1_side") \subseteq Polled

\* The inductive invariant: every storage is a table of that kind.
IInv ==
  /\ TypeOK
  /\ DOMAIN storage = Bridges /\ storage = [b \in Bridges |-> storage[b]]
  /\ DOMAIN beaconing = Bridges /\ beaconing = [b \in Bridges |-> beaconing[b]]
  /\ \A b \in Bridges : Stored(storage[b])

-----------------------------------------------------------------------------
\* Keys.

\* A key can be read back.
LEMMA KeyIsParsed ==
  ASSUME NEW b \in Bridges, NEW r \in Resources
  PROVE  /\ ParseFormat(DiscoveryKey(b, r)) = r
         /\ DiscoveryKey(b, r)[1] = Namespace[b]
<1> DEFINE key == DiscoveryKey(b, r)
<1>1. r = <<r[1], r[2]>> /\ r[1] \in BridgeTypes
  BY DEF Resources
<1>2. key[2] = ResourceClass[r[1]] /\ key[3] = r[2] /\ key[1] = Namespace[b]
  BY DEF DiscoveryKey
<1>3. \A type \in BridgeTypes : ResourceClass[type] = ResourceClass[r[1]] => type = r[1]
  BY <1>1 DEF ResourceClass, BridgeTypes
<1>4. (CHOOSE type \in BridgeTypes : ResourceClass[type] = key[2]) = r[1]
  BY <1>1, <1>2, <1>3
<1> QED
  BY <1>1, <1>2, <1>4 DEF ParseFormat

\* The keys there may be are those of polled resources.
LEMMA KeyIsKnown ==
  ASSUME NEW key \in Keys
  PROVE  \E b \in Bridges : \E r \in Polled :
           /\ key = DiscoveryKey(b, r)
           /\ ParseFormat(key) = r
           /\ key[1] = Namespace[b]
  BY KeyIsParsed DEF Keys, Polled

\* It tells of a resource.
LEMMA CounterpartIsResource ==
  ASSUME NEW key \in Keys
  PROVE  Counterpart(key) \in Resources
  BY KeyIsKnown, ComplementaryIsResource DEF Counterpart, Polled

\* Within one namespace no two keys tell of the same resource.
LEMMA CounterpartIsUnique ==
  ASSUME NEW key1 \in Keys, NEW key2 \in Keys, key1[1] = key2[1],
         Counterpart(key1) = Counterpart(key2)
  PROVE  key1 = key2
<1>1. PICK b1 \in Bridges, r1 \in Polled :
        key1 = DiscoveryKey(b1, r1) /\ ParseFormat(key1) = r1 /\ key1[1] = Namespace[b1]
  BY KeyIsKnown
<1>2. PICK b2 \in Bridges, r2 \in Polled :
        key2 = DiscoveryKey(b2, r2) /\ ParseFormat(key2) = r2 /\ key2[1] = Namespace[b2]
  BY KeyIsKnown
<1>3. r1 \in BridgeTypes \X Topics /\ r2 \in BridgeTypes \X Topics
  BY DEF Polled, Resources
<1>4. ComplementaryType[r1[1]] = ComplementaryType[r2[1]] /\ r1[2] = r2[2]
  BY <1>1, <1>2 DEF Counterpart, ComplementaryFor
<1>5. r1[1] = r2[1]
  BY <1>3, <1>4 DEF ComplementaryType, BridgeTypes
<1> QED
  BY <1>1, <1>2, <1>4, <1>5 DEF DiscoveryKey

-----------------------------------------------------------------------------
\* The storage of one bridge.

\* A table that stands for two views is flagged with what they enable.
LEMMA ViewsAreFlags ==
  ASSUME NEW t, NEW S, NEW K, Represents(t, S, K), Good(t, TRUE), S \subseteq Polled
  PROVE  /\ Stored(t)
         /\ Flagged(t, "required_on_ros1_side") = EnabledOf(S)
         /\ Flagged(t, "required_on_zenoh_side") = EnabledOf(K)
<1>1. /\ Flagged(t, "required_on_ros1_side") = EnabledOf(S)
      /\ Flagged(t, "required_on_zenoh_side") = EnabledOf(K)
  BY DEF Represents, Flagged, EnabledOf
<1>2. Represents(t, EnabledOf(S), EnabledOf(K))
  BY DEF Represents, EnabledOf
<1> QED
  BY <1>1, <1>2 DEF Stored, EnabledOf

\* The table without bridges is one of them, and has no flags.
LEMMA EmptyIsStored == Stored(NoBridges) /\ \A flag : Flagged(NoBridges, flag) = {}
<1>1. \A flag : Flagged(NoBridges, flag) = {}
  BY DEF Flagged, NoBridges
<1> QED
  BY <1>1, EmptyRepresents DEF Stored

\* Only keys of polled resources are declared.
LEMMA DeclaredAreKeys ==
  ASSUME NEW b \in Bridges, NEW t, Stored(t)
  PROVE  KeysOf(b, t) \subseteq Keys
<1>1. \A r \in DOMAIN t : t[r].declaration => r \in Polled
  BY DEF Stored, Good, Sound, Flagged
<1> QED
  BY <1>1 DEF KeysOf, Keys, Polled

\* The beacons a bridge hears are keys.
LEMMA BeaconsAreKeys ==
  ASSUME IInv, NEW b \in Bridges
  PROVE  RemoteBeacons(b) \subseteq Keys
<1>1. \A other \in Bridges : beaconing[other] \subseteq Keys
  BY DeclaredAreKeys DEF IInv, TypeOK, DeclaredKeys
<1> QED
  BY <1>1 DEF RemoteBeacons

\* What the user nodes have is what a poll returns.
LEMMA PolledAreUsers ==
  ASSUME IInv, NEW b \in Bridges
  PROVE  Ros1State(b) = users[b] /\ users[b] \in SUBSET Polled
  BY NetworkAssumption DEF IInv, TypeOK, Ros1State, Listed, Polled

-----------------------------------------------------------------------------
\* Steps.

\* The storage of one bridge is changed, and its declarations with it.
LEMMA StoresStep ==
  ASSUME IInv, NEW b \in Bridges, NEW u, Stored(u), Stores(b, u)
  PROVE  /\ storage' = [storage EXCEPT ![b] = u]
         /\ DOMAIN storage' = Bridges /\ storage' = [o \in Bridges |-> storage'[o]]
         /\ DOMAIN beaconing' = Bridges /\ beaconing' = [o \in Bridges |-> beaconing'[o]]
         /\ \A o \in Bridges : Stored(storage'[o])
         /\ \A o \in Bridges : IsBridges(storage'[o]) /\ beaconing'[o] \subseteq DeclaredKeys(o)'
<1>1. /\ storage' = [storage EXCEPT ![b] = u]
      /\ beaconing' = [beaconing EXCEPT ![b] = Beacons(b, u)]
  BY DEF Stores
<1>2. Beacons(b, u) \subseteq KeysOf(b, u)
  BY DEF Beacons
<1>3. \A o \in Bridges : DeclaredKeys(o)' = KeysOf(o, storage'[o])
  BY DEF DeclaredKeys, KeysOf, DiscoveryKey
<1>4. \A o \in Bridges : Stored(storage'[o])
  BY <1>1 DEF IInv
<1>5. ASSUME NEW o \in Bridges
      PROVE  beaconing'[o] \subseteq DeclaredKeys(o)'
  <2>1. CASE o = b
    BY <1>1, <1>2, <1>3, <2>1 DEF IInv
  <2>2. CASE o # b
    BY <1>1, <1>3, <2>2 DEF IInv, TypeOK, DeclaredKeys
  <2> QED
    BY <2>1, <2>2
<1> QED
  BY <1>1, <1>4, <1>5 DEF IInv, Stored, Represents

\* A poll of the graph changes the flags for ROS1 of one bridge only.
LEMMA PollStep ==
  ASSUME IInv, NEW b \in Bridges, Poll(b)
  PROVE  /\ IInv'
         /\ \A o \in Bridges : Flagged(storage'[o], "required_on_zenoh_side")
                                 = Flagged(storage[o], "required_on_zenoh_side")
<1> DEFINE wells == [r \in Resources |-> AllWell]
           t     == storage[b]
           S     == Flagged(t, "required_on_ros1_side")
           K     == Flagged(t, "required_on_zenoh_side")
           u     == ReceiveRos1State(t, users[b], wells)
<1>1. users[b] \in SUBSET Polled /\ Ros1State(b) = users[b]
  BY PolledAreUsers
<1>2. Represents(t, S, K) /\ Good(t, TRUE) /\ S \subseteq Polled
  BY DEF IInv, Stored
<1>3. \A r \in Polled \cap (DOMAIN t \cup users[b]) :
        wells[r] \in Outcomes /\ (TRUE => wells[r] = AllWell)
  BY DEF Polled, AllWell, Outcomes
<1>4. Stores(b, u)
  BY <1>1 DEF Poll
<1> HIDE DEF wells
<1>5. TRUE \in BOOLEAN /\ u = ReceiveRos1State(t, users[b], wells)
  OBVIOUS
<1> HIDE DEF t, S, K, u
<1>6. Represents(u, users[b], K) /\ Good(u, TRUE)
  BY <1>1, <1>2, <1>3, <1>5, ReceivedRepresents
<1>7. Stored(u) /\ Flagged(u, "required_on_zenoh_side") = EnabledOf(K)
  BY <1>1, <1>6, ViewsAreFlags
<1>8. EnabledOf(K) = K
  BY <1>2 DEF Represents, EnabledOf, K, Flagged, t
<1>9. /\ storage' = [storage EXCEPT ![b] = u]
      /\ DOMAIN storage' = Bridges /\ storage' = [o \in Bridges |-> storage'[o]]
      /\ DOMAIN beaconing' = Bridges /\ beaconing' = [o \in Bridges |-> beaconing'[o]]
      /\ \A o \in Bridges : Stored(storage'[o])
      /\ \A o \in Bridges : IsBridges(storage'[o]) /\ beaconing'[o] \subseteq DeclaredKeys(o)'
  BY <1>4, <1>7, StoresStep
<1>10. \A o \in Bridges : Flagged(storage'[o], "required_on_zenoh_side")
                            = Flagged(storage[o], "required_on_zenoh_side")
  BY <1>7, <1>8, <1>9 DEF IInv, K, t
<1>11. TypeOK'
  BY <1>9 DEF IInv, TypeOK, Poll, subscription
<1> QED
  BY <1>9, <1>10, <1>11 DEF IInv

\* A poll that fails leaves a bridge with an empty table.
LEMMA PollFailsStep ==
  ASSUME IInv, NEW b \in Bridges, PollFails(b)
  PROVE  IInv' /\ storage' = [storage EXCEPT ![b] = NoBridges]
<1>1. /\ storage' = [storage EXCEPT ![b] = NoBridges]
      /\ DOMAIN storage' = Bridges /\ storage' = [o \in Bridges |-> storage'[o]]
      /\ DOMAIN beaconing' = Bridges /\ beaconing' = [o \in Bridges |-> beaconing'[o]]
      /\ \A o \in Bridges : Stored(storage'[o])
      /\ \A o \in Bridges : IsBridges(storage'[o]) /\ beaconing'[o] \subseteq DeclaredKeys(o)'
  BY EmptyIsStored, StoresStep DEF PollFails
<1>2. TypeOK'
  BY <1>1 DEF IInv, TypeOK, PollFails
<1> QED
  BY <1>1, <1>2 DEF IInv

\* The flags for Zenoh are those of the enabled counterparts that K stands for.
LEMMA DiscoveredStep ==
  ASSUME IInv, NEW b \in Bridges, NEW key \in RemoteBeacons(b), OnDiscovered(b, key)
  PROVE  /\ IInv'
         /\ \A o \in Bridges \ {b} : storage'[o] = storage[o]
         /\ Flagged(storage'[b], "required_on_zenoh_side")
              = EnabledOf(Flagged(storage[b], "required_on_zenoh_side") \cup {Counterpart(key)})
<1> DEFINE r == Counterpart(key)
           t == storage[b]
           S == Flagged(t, "required_on_ros1_side")
           K == Flagged(t, "required_on_zenoh_side")
           u == ComplementaryEntityDiscovered(t, r, AllWell)
<1>1. key \in Keys /\ r \in Resources
  BY BeaconsAreKeys, CounterpartIsResource
<1>2. Represents(t, S, K) /\ Good(t, TRUE) /\ S \subseteq Polled
  BY DEF IInv, Stored
<1>3. AllWell \in Outcomes /\ TRUE \in BOOLEAN
  BY DEF AllWell, Outcomes
<1>4. Stores(b, u)
  BY DEF OnDiscovered
<1>5. u = ComplementaryEntityDiscovered(t, r, AllWell)
  OBVIOUS
<1> HIDE DEF r, t, S, K, u
<1>6. Represents(u, S, K \cup {r}) /\ Good(u, TRUE)
  BY <1>1, <1>2, <1>3, <1>5, DiscoveredRepresents
<1>7. Stored(u) /\ Flagged(u, "required_on_zenoh_side") = EnabledOf(K \cup {r})
  BY <1>2, <1>6, ViewsAreFlags
<1>8. /\ storage' = [storage EXCEPT ![b] = u]
      /\ DOMAIN storage' = Bridges /\ storage' = [o \in Bridges |-> storage'[o]]
      /\ DOMAIN beaconing' = Bridges /\ beaconing' = [o \in Bridges |-> beaconing'[o]]
      /\ \A o \in Bridges : Stored(storage'[o])
      /\ \A o \in Bridges : IsBridges(storage'[o]) /\ beaconing'[o] \subseteq DeclaredKeys(o)'
  BY <1>4, <1>7, StoresStep
<1>9. TypeOK'
  BY <1>1, <1>8 DEF IInv, TypeOK, OnDiscovered
<1> QED
  BY <1>7, <1>8, <1>9 DEF IInv, K, t, r

\* A loss clears one flag for Zenoh at one bridge.
LEMMA LostStep ==
  ASSUME IInv, NEW b \in Bridges, NEW key \in tracked[b], OnLost(b, key)
  PROVE  /\ IInv'
         /\ \A o \in Bridges \ {b} : storage'[o] = storage[o]
         /\ Flagged(storage'[b], "required_on_zenoh_side")
              = EnabledOf(Flagged(storage[b], "required_on_zenoh_side") \ {Counterpart(key)})
<1> DEFINE r == Counterpart(key)
           t == storage[b]
           S == Flagged(t, "required_on_ros1_side")
           K == Flagged(t, "required_on_zenoh_side")
           u == ComplementaryEntityLost(t, r, AllWell)
<1>1. key \in Keys /\ r \in Resources
  BY CounterpartIsResource DEF IInv, TypeOK
<1>2. Represents(t, S, K) /\ Good(t, TRUE) /\ S \subseteq Polled
  BY DEF IInv, Stored
<1>3. AllWell \in Outcomes /\ TRUE \in BOOLEAN
  BY DEF AllWell, Outcomes
<1>4. Stores(b, u)
  BY DEF OnLost
<1>5. u = ComplementaryEntityLost(t, r, AllWell)
  OBVIOUS
<1> HIDE DEF r, t, S, K, u
<1>6. Represents(u, S, K \ {r}) /\ Good(u, TRUE)
  BY <1>1, <1>2, <1>3, <1>5, LostRepresents
<1>7. Stored(u) /\ Flagged(u, "required_on_zenoh_side") = EnabledOf(K \ {r})
  BY <1>2, <1>6, ViewsAreFlags
<1>8. /\ storage' = [storage EXCEPT ![b] = u]
      /\ DOMAIN storage' = Bridges /\ storage' = [o \in Bridges |-> storage'[o]]
      /\ DOMAIN beaconing' = Bridges /\ beaconing' = [o \in Bridges |-> beaconing'[o]]
      /\ \A o \in Bridges : Stored(storage'[o])
      /\ \A o \in Bridges : IsBridges(storage'[o]) /\ beaconing'[o] \subseteq DeclaredKeys(o)'
  BY <1>4, <1>7, StoresStep
<1>9. TypeOK'
  BY <1>1, <1>8 DEF IInv, TypeOK, OnLost, Reports
<1> QED
  BY <1>7, <1>8, <1>9 DEF IInv, K, t, r

\* The maps of the subscriptions are as TypeOK says.
Subscribed ==
  /\ tracked \in [Bridges -> SUBSET Keys]
  /\ leaving \in [Bridges -> SUBSET Keys]
  /\ forgotten \in [Bridges -> SUBSET Keys]
  /\ \A b \in Bridges : leaving[b] \subseteq forgotten[b] /\ forgotten[b] \subseteq tracked[b]

\* Steps that leave the storages alone.
LEMMA KeptStep ==
  ASSUME IInv, UNCHANGED storage,
         DOMAIN beaconing' = Bridges, beaconing' = [o \in Bridges |-> beaconing'[o]],
         \A o \in Bridges : beaconing'[o] \subseteq DeclaredKeys(o),
         users' \in [Bridges -> SUBSET Resources],
         \A o \in Bridges : users'[o] \subseteq UserResources[o],
         up' \in [Bridges -> BOOLEAN], \A o \in Bridges : ~up'[o] => ~up[o],
         Subscribed', \A o \in Bridges : tracked'[o] \subseteq tracked[o]
  PROVE  IInv'
<1>1. \A o \in Bridges : DeclaredKeys(o)' = DeclaredKeys(o)
  BY DEF DeclaredKeys, KeysOf, DiscoveryKey
<1>2. \A o \in Bridges : ~up'[o] => storage'[o] = NoBridges /\ tracked'[o] = {}
  BY DEF IInv, TypeOK
<1> QED
  BY <1>1, <1>2 DEF IInv, TypeOK, Subscribed

\* In particular those that leave the subscriptions alone as well.
LEMMA KeptSubscription ==
  ASSUME IInv, UNCHANGED subscription
  PROVE  Subscribed' /\ \A o \in Bridges : tracked'[o] \subseteq tracked[o]
  BY DEF IInv, TypeOK, subscription, Subscribed

\* The retain pass only takes keys out of the map that are forgotten.
LEMMA RetainStep ==
  ASSUME IInv, NEW b \in Bridges, NEW key \in leaving[b], Retain(b, key)
  PROVE  /\ IInv'
         /\ \A o \in Bridges : tracked'[o] \ forgotten'[o] = tracked[o] \ forgotten[o]
         /\ \A o \in Bridges : tracked'[o] \subseteq tracked[o] /\ forgotten'[o] \subseteq forgotten[o]
<1>1. Subscribed
  BY DEF IInv, TypeOK, Subscribed
<1>2. key \in forgotten[b]
  BY <1>1 DEF Subscribed
<1>3. ASSUME NEW o \in Bridges
      PROVE  /\ leaving'[o] = IF o = b THEN leaving[o] \ {key} ELSE leaving[o]
             /\ \/ tracked'[o] = tracked[o] /\ forgotten'[o] = forgotten[o]
                \/ /\ o = b
                   /\ tracked'[o] = tracked[o] \ {key} /\ forgotten'[o] = forgotten[o] \ {key}
  BY <1>1 DEF Retain, Subscribed
<1>4. Subscribed'
  BY <1>1, <1>3 DEF Retain, Subscribed
<1>5. IInv'
  BY <1>3, <1>4, KeptStep DEF Retain, IInv, TypeOK
<1> QED
  BY <1>2, <1>3, <1>5

\* A crash leaves a bridge with an empty table.
LEMMA CrashStep ==
  ASSUME IInv, NEW b \in Bridges, Crash(b)
  PROVE  IInv'
<1>1. \A o \in Bridges : DeclaredKeys(o)' = KeysOf(o, storage'[o])
  BY DEF DeclaredKeys, KeysOf, DiscoveryKey
<1>2. ASSUME NEW o \in Bridges
      PROVE  /\ Stored(storage'[o]) /\ IsBridges(storage'[o])
             /\ beaconing'[o] \subseteq DeclaredKeys(o)'
  <2>1. CASE o = b
    BY <1>1, <2>1, EmptyIsStored DEF IInv, Crash, Stored, Represents
  <2>2. CASE o # b
    BY <1>1, <2>2 DEF IInv, TypeOK, Crash, Stored, Represents, DeclaredKeys
  <2> QED
    BY <2>1, <2>2
<1> QED
  BY <1>2 DEF IInv, TypeOK, Crash

\* Every step keeps the invariant.
LEMMA StepIInv ==
  ASSUME IInv, [Next]_vars
  PROVE  IInv'
<1>0. TypeOK /\ DOMAIN beaconing = Bridges /\ beaconing = [o \in Bridges |-> beaconing[o]]
  BY DEF IInv
<1>1. CASE UNCHANGED vars
  BY <1>0, <1>1, KeptStep, KeptSubscription DEF vars, TypeOK
<1>2. ASSUME NEW b \in Bridges, Poll(b) \/ PollFails(b)
      PROVE  IInv'
  BY <1>2, PollStep, PollFailsStep
<1>3. ASSUME NEW b \in Bridges, Discovery(b)
      PROVE  IInv'
  BY <1>3, DiscoveredStep, LostStep, RetainStep DEF Discovery
<1>4. ASSUME NEW b \in Bridges, NEW key \in beaconing[b], FallSilent(b, key)
      PROVE  IInv'
  <2>1. DOMAIN beaconing' = Bridges /\ beaconing' = [o \in Bridges |-> beaconing'[o]]
    BY <1>0, <1>4 DEF FallSilent
  <2>2. \A o \in Bridges : beaconing'[o] \subseteq DeclaredKeys(o)
    BY <1>0, <1>4 DEF FallSilent, TypeOK
  <2>3. UNCHANGED <<users, up, storage, subscription>>
    BY <1>4 DEF FallSilent
  <2>4. Subscribed' /\ \A o \in Bridges : tracked'[o] \subseteq tracked[o]
    BY <2>3, KeptSubscription
  <2> QED
    BY <1>0, <2>1, <2>2, <2>3, <2>4, KeptStep DEF TypeOK
<1>5. ASSUME NEW b \in Bridges, Starts(b)
      PROVE  IInv'
  <2>1. PICK key \in Silent(b) : StartAgain(b, key)
    BY <1>5 DEF Starts
  <2>2. DOMAIN beaconing' = Bridges /\ beaconing' = [o \in Bridges |-> beaconing'[o]]
    BY <1>0, <2>1 DEF StartAgain
  <2>3. \A o \in Bridges : beaconing'[o] \subseteq DeclaredKeys(o)
    BY <1>0, <2>1 DEF StartAgain, Silent, TypeOK
  <2>4. UNCHANGED <<users, up, storage, subscription>>
    BY <2>1 DEF StartAgain
  <2>5. Subscribed' /\ \A o \in Bridges : tracked'[o] \subseteq tracked[o]
    BY <2>4, KeptSubscription
  <2> QED
    BY <1>0, <2>2, <2>3, <2>4, <2>5, KeptStep DEF TypeOK
<1>6. ASSUME NEW b \in Bridges, Crash(b)
      PROVE  IInv'
  BY <1>6, CrashStep
<1>7. ASSUME NEW b \in Bridges, Restart(b)
      PROVE  IInv'
  BY <1>0, <1>7, KeptStep, KeptSubscription DEF Restart, TypeOK
<1>8. ASSUME NEW b \in Bridges, UserChanges(b)
      PROVE  IInv'
  <2>1. PICK r \in UserResources[b] :
          users' = [users EXCEPT ![b] = IF r \in @ THEN @ \ {r} ELSE @ \cup {r}]
    BY <1>8 DEF UserChanges
  <2>2. r \in Resources
    BY NetworkAssumption
  <2> QED
    BY <1>0, <1>8, <2>1, <2>2, KeptStep, KeptSubscription DEF UserChanges, TypeOK
<1> QED
  BY <1>1, <1>2, <1>3, <1>4, <1>5, <1>6, <1>7, <1>8 DEF Next

\* At first all tables are empty.
LEMMA InitIInv == Init => IInv
  BY EmptyIsStored DEF Init, IInv, TypeOK, Stored, Represents

\* The invariant holds.
LEMMA Inductive == Spec => []IInv
<1>1. IInv /\ [Next]_vars => IInv'
  BY StepIInv
<1> QED
  BY <1>1, InitIInv, PTL DEF Spec

-----------------------------------------------------------------------------
\* The flags for Zenoh and the keys of the subscription.

\* The resources that a set of keys tells of, as far as they are enabled.
ToldOf(keys) == EnabledOf({Counterpart(key) : key \in keys})

\* The entries a bridge holds for Zenoh.
Flags(b) == Flagged(storage[b], "required_on_zenoh_side")

\* The keys it was told of and has not forgotten.
Known(b) == tracked[b] \ forgotten[b]

\* Whatever is taken for present at another bridge has a key in the map.
NoGhosts == \A b \in Bridges : Has(b, "required_on_zenoh_side") \subseteq Told(tracked[b])

\* What a bridge takes for present it gives up when a poll fails, when it crashes, and
\* when the loss of a silent key of this very resource is reported.
GivenUpFor ==
  \A b \in Bridges : \A r \in Has(b, "required_on_zenoh_side") :
    \/ r \in Has(b, "required_on_zenoh_side")'
    \/ PollFails(b)
    \/ Crash(b)
    \/ \E key \in tracked[b] : OnLost(b, key) /\ Counterpart(key) = r

\* The keys that a bridge hears of all have one namespace: all bridges have the
\* default *, or none has.
OneNamespace ==
  \A b \in Bridges : \A other1, other2 \in Bridges :
    Shared(Namespace[other1], Namespace[b]) /\ Shared(Namespace[other2], Namespace[b])
      => Namespace[other1] = Namespace[other2]

\* A key is forgotten when a poll fails, and when its own loss is reported.
ForgottenFor ==
  \A b \in Bridges : \A key \in tracked[b] \ forgotten[b] :
    \/ key \in tracked'[b] \ forgotten'[b]
    \/ PollFails(b)
    \/ Crash(b)
    \/ OnLost(b, key)

\* Every key in the map matches the key expression of the subscription.
Heard == \A b \in Bridges : \A key \in tracked[b] : Hears(b, key)

\* The two sides of StorageFollowsDiscovery in these words.
LEMMA ToldIsToldOf ==
  ASSUME NEW keys \in SUBSET Keys
  PROVE  Told(keys) = ToldOf(keys)
<1>1. \A key \in keys : Counterpart(key) \in Resources
  BY CounterpartIsResource
<1> QED
  BY <1>1 DEF Told, ToldOf, EnabledOf

\* The same of what is known.
LEMMA FollowsInWords ==
  ASSUME IInv
  PROVE  StorageFollowsDiscovery <=> \A b \in Bridges : Flags(b) = ToldOf(Known(b))
<1>1. \A b \in Bridges : Known(b) \in SUBSET Keys
  BY DEF IInv, TypeOK, Known
<1> QED
  BY <1>1, ToldIsToldOf DEF StorageFollowsDiscovery, Has, Flags, Flagged, Known

\* The flags are those of enabled resources.
LEMMA FlagsAreEnabled ==
  ASSUME IInv, NEW b \in Bridges
  PROVE  EnabledOf(Flags(b)) = Flags(b)
  BY DEF IInv, Stored, Represents, EnabledOf, Flags, Flagged

\* How the flags of a bridge and the keys it knows of may change in a step.
LEMMA FlagsStep ==
  ASSUME IInv, [Next]_vars, NEW b \in Bridges
  PROVE  \/ Flags(b)' = Flags(b) /\ Known(b)' = Known(b)
         \/ (PollFails(b) \/ Crash(b)) /\ Flags(b)' = {} /\ Known(b)' = {}
         \/ \E key \in Keys :
              /\ Known(b)' = Known(b) \cup {key}
              /\ Flags(b)' = EnabledOf(Flags(b) \cup {Counterpart(key)})
         \/ \E key \in tracked[b] :
              /\ OnLost(b, key)
              /\ Known(b)' = {k \in Known(b) : Counterpart(k) # Counterpart(key)}
              /\ Flags(b)' = EnabledOf(Flags(b) \ {Counterpart(key)})
<1>0. Subscribed
  BY DEF IInv, TypeOK, Subscribed
<1>1. ASSUME storage'[b] = storage[b], tracked'[b] = tracked[b], forgotten'[b] = forgotten[b]
      PROVE  Flags(b)' = Flags(b) /\ Known(b)' = Known(b)
  BY <1>1 DEF Flags, Flagged, Known
<1>2. CASE UNCHANGED vars
  BY <1>1, <1>2 DEF vars, subscription
<1>3. ASSUME NEW o \in Bridges, Poll(o)
      PROVE  Flags(b)' = Flags(b) /\ Known(b)' = Known(b)
  <2>1. Flagged(storage'[b], "required_on_zenoh_side") = Flagged(storage[b], "required_on_zenoh_side")
    BY <1>3, PollStep
  <2> QED
    BY <1>3, <2>1 DEF Flags, Flagged, Known, Poll, subscription
<1>4. ASSUME NEW o \in Bridges, PollFails(o) \/ Crash(o)
      PROVE  \/ Flags(b)' = Flags(b) /\ Known(b)' = Known(b)
             \/ (PollFails(b) \/ Crash(b)) /\ Flags(b)' = {} /\ Known(b)' = {}
  <2>1. storage' = [storage EXCEPT ![o] = NoBridges]
    BY <1>4, PollFailsStep DEF Crash
  <2>2. \/ UNCHANGED tracked /\ forgotten' = [forgotten EXCEPT ![o] = tracked[o]]
        \/ tracked' = [tracked EXCEPT ![o] = {}] /\ forgotten' = [forgotten EXCEPT ![o] = {}]
    BY <1>4 DEF PollFails, Crash
  <2>3. CASE o = b
    <3>1. storage'[b] = NoBridges
      BY <2>1, <2>3 DEF IInv
    <3>2. Flags(b)' = Flagged(NoBridges, "required_on_zenoh_side")
      BY <3>1 DEF Flags, Flagged
    <3>3. Known(b)' = {}
      BY <1>0, <2>2, <2>3 DEF Known, Subscribed
    <3> QED
      BY <1>4, <2>3, <3>2, <3>3, EmptyIsStored
  <2>4. CASE o # b
    BY <1>0, <1>1, <2>1, <2>2, <2>4 DEF IInv, Subscribed
  <2> QED
    BY <2>3, <2>4
<1>5. ASSUME NEW o \in Bridges, NEW key \in RemoteBeacons(o), OnDiscovered(o, key)
      PROVE  \/ Flags(b)' = Flags(b) /\ Known(b)' = Known(b)
             \/ /\ key \in Keys
                /\ Known(b)' = Known(b) \cup {key}
                /\ Flags(b)' = EnabledOf(Flags(b) \cup {Counterpart(key)})
  <2>1. /\ key \notin tracked[o]
        /\ tracked' = [tracked EXCEPT ![o] = @ \cup {key}]
        /\ UNCHANGED forgotten
    BY <1>5 DEF OnDiscovered
  <2>2. CASE o = b
    <3>1. Flagged(storage'[b], "required_on_zenoh_side")
            = EnabledOf(Flagged(storage[b], "required_on_zenoh_side") \cup {Counterpart(key)})
      BY <1>5, <2>2, DiscoveredStep
    <3>2. key \in Keys
      BY <1>5, BeaconsAreKeys
    <3>3. Known(b)' = Known(b) \cup {key}
      BY <1>0, <2>1, <2>2 DEF Known, Subscribed
    <3> QED
      BY <3>1, <3>2, <3>3 DEF Flags, Flagged
  <2>3. CASE o # b
    <3>1. storage'[b] = storage[b]
      BY <1>5, <2>3, DiscoveredStep
    <3> QED
      BY <1>0, <1>1, <2>1, <2>3, <3>1 DEF Subscribed
  <2> QED
    BY <2>2, <2>3
<1>6. ASSUME NEW o \in Bridges, NEW key \in tracked[o], OnLost(o, key)
      PROVE  \/ Flags(b)' = Flags(b) /\ Known(b)' = Known(b)
             \/ /\ key \in tracked[b]
                /\ OnLost(b, key)
                /\ Known(b)' = {k \in Known(b) : Counterpart(k) # Counterpart(key)}
                /\ Flags(b)' = EnabledOf(Flags(b) \ {Counterpart(key)})
  <2>1. /\ UNCHANGED tracked
        /\ forgotten' = [forgotten EXCEPT ![o] =
             @ \cup {k \in tracked[o] : Counterpart(k) = Counterpart(key)}]
    BY <1>6 DEF OnLost, Reports
  <2>2. CASE o = b
    <3>1. Flagged(storage'[b], "required_on_zenoh_side")
            = EnabledOf(Flagged(storage[b], "required_on_zenoh_side") \ {Counterpart(key)})
      BY <1>6, <2>2, LostStep
    <3>2. Known(b)' = {k \in Known(b) : Counterpart(k) # Counterpart(key)}
      BY <1>0, <2>1, <2>2 DEF Known, Subscribed
    <3> QED
      BY <1>6, <2>2, <3>1, <3>2 DEF Flags, Flagged
  <2>3. CASE o # b
    <3>1. storage'[b] = storage[b]
      BY <1>6, <2>3, LostStep
    <3> QED
      BY <1>0, <1>1, <2>1, <2>3, <3>1 DEF Subscribed
  <2> QED
    BY <2>2, <2>3
<1>7. ASSUME NEW o \in Bridges, NEW key \in leaving[o], Retain(o, key)
      PROVE  Flags(b)' = Flags(b) /\ Known(b)' = Known(b)
  <2>1. storage' = storage /\ tracked'[b] \ forgotten'[b] = tracked[b] \ forgotten[b]
    BY <1>7, RetainStep DEF Retain
  <2> QED
    BY <2>1 DEF Flags, Flagged, Known
<1>8. ASSUME NEW o \in Bridges,
             \/ \E key \in beaconing[o] : FallSilent(o, key)
             \/ Starts(o) \/ Restart(o) \/ UserChanges(o)
      PROVE  Flags(b)' = Flags(b) /\ Known(b)' = Known(b)
  <2>1. storage' = storage /\ tracked' = tracked /\ forgotten' = forgotten
    BY <1>8 DEF FallSilent, Starts, StartAgain, Restart, UserChanges, subscription
  <2> QED
    BY <1>1, <2>1
<1> QED
  BY <1>2, <1>3, <1>4, <1>5, <1>6, <1>7, <1>8 DEF Next, Discovery

\* Every step leaves exactly the flags that known keys tell of.
LEMMA StepFollows ==
  IInv /\ IInv' /\ StorageFollowsDiscovery /\ [Next]_vars => StorageFollowsDiscovery'
<1> SUFFICES ASSUME IInv, IInv', StorageFollowsDiscovery, [Next]_vars
             PROVE  StorageFollowsDiscovery'
  OBVIOUS
<1> SUFFICES ASSUME NEW b \in Bridges
             PROVE  Flags(b)' = ToldOf(Known(b)')
  <2>1. \A b \in Bridges : Known(b)' \in SUBSET Keys
    BY DEF IInv, TypeOK, Known
  <2> QED
    BY <2>1, ToldIsToldOf DEF StorageFollowsDiscovery, Has, Flags, Flagged, Known, Told
<1>1. Flags(b) = ToldOf(Known(b))
  BY FollowsInWords
<1> QED
  BY <1>1, FlagsStep DEF ToldOf, EnabledOf

\* Every step gives up only what GivenUpFor says.
LEMMA StepGivesUp ==
  ASSUME IInv, [Next]_vars
  PROVE  GivenUpFor
<1> SUFFICES ASSUME NEW b \in Bridges, NEW r \in Flags(b)
             PROVE  \/ r \in Flags(b)'
                    \/ PollFails(b)
                    \/ Crash(b)
                    \/ \E key \in tracked[b] : OnLost(b, key) /\ Counterpart(key) = r
  BY DEF GivenUpFor, Has, Flags, Flagged
<1>1. Flags(b) = EnabledOf(Flags(b))
  BY FlagsAreEnabled
<1> QED
  BY <1>1, FlagsStep DEF EnabledOf

\* Subscriptions hear only of keys that match.
LEMMA StepHeard == IInv /\ Heard /\ [Next]_vars => Heard'
<1> SUFFICES ASSUME IInv, Heard, [Next]_vars, NEW b \in Bridges, NEW key \in tracked'[b]
             PROVE  Hears(b, key)
  BY DEF Heard, Hears
<1>0. tracked \in [Bridges -> SUBSET Keys] /\ \A k \in tracked[b] : Hears(b, k)
  BY DEF IInv, TypeOK, Heard
<1>1. ASSUME NEW o \in Bridges, NEW k, OnDiscovered(o, k)
      PROVE  Hears(b, key)
  BY <1>0, <1>1 DEF OnDiscovered
<1>2. ASSUME tracked'[b] \subseteq tracked[b]
      PROVE  Hears(b, key)
  BY <1>0, <1>2
<1>3. ASSUME NEW o \in Bridges, NEW k \in leaving[o], Retain(o, k)
      PROVE  Hears(b, key)
  BY <1>2, <1>3, RetainStep
<1>4. ASSUME NEW o \in Bridges, Crash(o)
      PROVE  Hears(b, key)
  BY <1>0, <1>4 DEF Crash
<1>5. CASE UNCHANGED tracked
  BY <1>0, <1>5
<1> QED
  BY <1>1, <1>3, <1>4, <1>5
  DEF Next, Discovery, vars, subscription, Poll, PollFails, OnLost, Reports, FallSilent,
      Starts, StartAgain, Restart, UserChanges

\* Where keys of one namespace are heard, no key is forgotten for another.
LEMMA StepForgets ==
  ASSUME OneNamespace, IInv, Heard, [Next]_vars
  PROVE  ForgottenFor
<1> SUFFICES ASSUME NEW b \in Bridges, NEW key \in Known(b), key \notin Known(b)'
             PROVE  PollFails(b) \/ Crash(b) \/ OnLost(b, key)
  BY DEF ForgottenFor, Known
<1>1. CASE PollFails(b) \/ Crash(b)
  BY <1>1
<1>2. ASSUME NEW lost \in tracked[b], OnLost(b, lost),
             Known(b)' = {k \in Known(b) : Counterpart(k) # Counterpart(lost)}
      PROVE  OnLost(b, key)
  <2>1. key \in Keys /\ lost \in Keys /\ Hears(b, key) /\ Hears(b, lost)
    BY DEF IInv, TypeOK, Heard, Known
  <2>2. key[1] = lost[1]
    BY <2>1, KeyIsKnown DEF OneNamespace, Hears
  <2>3. Counterpart(key) = Counterpart(lost)
    BY <1>2
  <2> QED
    BY <1>2, <2>1, <2>2, <2>3, CounterpartIsUnique
<1> QED
  BY <1>1, <1>2, FlagsStep

-----------------------------------------------------------------------------

(***************************************************************************)
(* The tables and keys of all bridges keep their types, a bridge beacons    *)
(* only what it declares, and one that has crashed has nothing left.        *)
(***************************************************************************)
THEOREM TypeCorrect == Spec => []TypeOK
<1>1. IInv => TypeOK
  BY DEF IInv
<1> QED
  BY <1>1, Inductive, PTL

(***************************************************************************)
(* Through every order of polls that succeed or fail, losses, crashes and   *)
(* restarts of any number of bridges of any namespaces the storage knows of *)
(* exactly what was announced and is not forgotten.                         *)
(***************************************************************************)
THEOREM StorageFollows == Spec => []StorageFollowsDiscovery
<1>1. Init => StorageFollowsDiscovery
  BY DEF Init, StorageFollowsDiscovery, Has, Told, NoBridges
<1> QED
  BY <1>1, Inductive, StepFollows, PTL DEF Spec

(***************************************************************************)
(* So a bridge takes nothing for present at another without a key in the    *)
(* map of its subscription, whose silence will be noticed.                  *)
(***************************************************************************)
THEOREM NoGhostIsLeft == Spec => []NoGhosts
<1>1. StorageFollowsDiscovery => NoGhosts
  BY DEF StorageFollowsDiscovery, NoGhosts, Told
<1> QED
  BY <1>1, StorageFollows, PTL

(***************************************************************************)
(* What is forgotten is said here without the history: a bridge gives up    *)
(* what it takes for present at another only when a poll fails, when it     *)
(* crashes, or when a key of this very resource, which nobody else beacons, *)
(* is reported lost.  No poll that succeeds does it.                        *)
(***************************************************************************)
THEOREM OnlyLossesAndFailures == Spec => [][GivenUpFor]_vars
<1>1. IInv /\ [Next]_vars => [GivenUpFor]_vars
  BY StepGivesUp
<1> QED
  BY <1>1, Inductive, PTL DEF Spec

(***************************************************************************)
(* If all bridges have the default namespace *, or none has, a key that a   *)
(* bridge knows of is forgotten only when a poll fails or it is reported    *)
(* lost itself, never for another key.  Where * meets names it may be.      *)
(***************************************************************************)
THEOREM ForgottenByItself ==
  ASSUME OneNamespace
  PROVE  Spec => [][ForgottenFor]_vars
<1>1. Init => Heard
  BY DEF Init, Heard
<1>2. IInv /\ Heard /\ [Next]_vars => [ForgottenFor]_vars
  BY StepForgets
<1>3. IInv /\ Heard /\ [Next]_vars => Heard'
  BY StepHeard
<1> QED
  BY <1>1, <1>2, <1>3, Inductive, PTL DEF Spec

=============================================================================
