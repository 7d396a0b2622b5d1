---------------------------- MODULE BridgeNetwork ----------------------------
(***************************************************************************)
(* Several bridges, each with a ROS1 system of its own, in one Zenoh        *)
(* network.  A bridge declares what its ROS1 system has as keys             *)
(* (discovery.rs), others learn of the keys that match their namespace, and *)
(* every bridge is a ROS1 node itself: what it bridges appears in its ROS1  *)
(* system as well.  Bridges may crash and be started again at any time.     *)
(*                                                                          *)
(* Of bridges that declare one key some may fall silent, as long as one of  *)
(* them beacons.  A poll is one step here and succeeds or fails as a whole, *)
(* a callback of discovery is one step, and calls succeed: WorkCycle,       *)
(* AlohaDeclaration, AlohaDiscovery and TopicMapping look into them.        *)
(***************************************************************************)
EXTENDS BridgesStorage

CONSTANTS
  Bridges,
  Namespace,    \* the bridge_namespace of each bridge
  Wild,         \* the namespace "*"
  UserResources \* what the users of each ROS1 system may have

ASSUME NetworkAssumption ==
  \A b \in Bridges : UserResources[b] \subseteq {r \in Resources : IsPolled(r)}

VARIABLES
  users,      \* what user nodes have in each ROS1 system now
  up,         \* is the bridge running
  storage,    \* the storage of each bridge
  beaconing,  \* the keys that each bridge beacons, of those it declares
  tracked,    \* the keys in the map of each bridge's subscription
  leaving,    \* those whose loss was reported, until the retain pass
  forgotten   \* history: tracked keys that the storage was told to forget,
              \* in one way or another, since they were announced

subscription == <<tracked, leaving, forgotten>>
vars == <<users, up, storage, beaconing, subscription>>

-----------------------------------------------------------------------------
\* Discovery keys: <<bridge_namespace, resource_class, topic>>, where the topic
\* stands for name, data type and md5.  The discovery_namespace is always "*".

ResourceClass == [Publisher |-> "pub", Subscriber |-> "sub",
                  Service |-> "srv", Client |-> "cl"]

DiscoveryKey(b, r) == <<Namespace[b], ResourceClass[r[1]], r[2]>>

\* The resource that a key tells of, whatever its namespace.
ParseFormat(key) ==
  <<CHOOSE type \in BridgeTypes : ResourceClass[type] = key[2], key[3]>>

Shared(namespace1, namespace2) ==
  namespace1 = namespace2 \/ Wild \in {namespace1, namespace2}

\* Does the key match the key expression that the bridge subscribes to.
Hears(b, key) == Shared(key[1], Namespace[b])

\* Do two keys intersect, so that a declaration of one hears the other.
Intersect(key1, key2) == Shared(key1[1], key2[1]) /\ key1[2] = key2[2] /\ key1[3] = key2[3]

Has(b, flag) == {r \in DOMAIN storage[b] : storage[b][r][flag]}

KeysOf(b, bridges) ==
  {DiscoveryKey(b, r) : r \in {q \in DOMAIN bridges : bridges[q].declaration}}

DeclaredKeys(b) == KeysOf(b, storage[b])

\* A bridge does not receive its own beacons.
RemoteBeacons(b) == UNION {beaconing[other] : other \in Bridges \ {b}}

Keys == {DiscoveryKey(b, r) : b \in Bridges, r \in {q \in Resources : IsPolled(q)}}

Init ==
  /\ users = [b \in Bridges |-> {}]
  /\ up = [b \in Bridges |-> TRUE]
  /\ storage = [b \in Bridges |-> NoBridges]
  /\ beaconing = [b \in Bridges |-> {}]
  /\ tracked = [b \in Bridges |-> {}]
  /\ leaving = [b \in Bridges |-> {}]
  /\ forgotten = [b \in Bridges |-> {}]

-----------------------------------------------------------------------------
\* One bridge.

\* What the node of the bridge itself has in ROS1: a bridged publisher is
\* subscribed to, a bridged subscriber published for, a bridged client served.
InRos1 == [Publisher |-> {"Subscriber"}, Subscriber |-> {"Publisher"},
           Service |-> {}, Client |-> {"Service"}]

OwnResources(b) ==
  UNION {InRos1[r[1]] \X {r[2]} : r \in Has(b, "bridge")}

Listed(b) == users[b] \cup OwnResources(b)

\* As a mutant: the bridge takes its own node for any other.
Ros1State_WithOwn(b) == Listed(b)

\* A resource stays if another node has it as well.
Ros1State(b) == {r \in Listed(b) : r \in users[b]}

\* As a mutant: a dropped declaration goes on.
Beacons_GoOn(b, bridges) == beaconing[b] \cup KeysOf(b, bridges)

\* A new declaration starts with beacons, a dropped one stops.
Beacons(b, bridges) ==
  (beaconing[b] \cap KeysOf(b, bridges)) \cup (KeysOf(b, bridges) \ DeclaredKeys(b))

Stores(b, next) ==
  \E bridges \in {next} :
    /\ storage' = [storage EXCEPT ![b] = bridges]
    /\ beaconing' = [beaconing EXCEPT ![b] = Beacons(b, bridges)]

Poll(b) ==
  /\ up[b]
  /\ \E ros1_state \in {Ros1State(b)} :
       Stores(b, ReceiveRos1State(storage[b], ros1_state, [r \in Resources |-> AllWell]))
  /\ UNCHANGED <<users, up, subscription>>

\* The master cannot be read: the storage is cleared, with what discovery has put
\* there, but the subscription is not told.
PollFails(b) ==
  /\ up[b]
  /\ Stores(b, NoBridges)
  /\ forgotten' = [forgotten EXCEPT ![b] = tracked[b]]
  /\ UNCHANGED <<users, up, tracked, leaving>>

Counterpart(key) == ComplementaryFor(ParseFormat(key))

\* The beacon of a key that has no entry in the map.
OnDiscovered(b, key) ==
  /\ up[b]
  /\ key \notin tracked[b]
  /\ Hears(b, key)
  /\ tracked' = [tracked EXCEPT ![b] = @ \cup {key}]
  /\ Stores(b, ComplementaryEntityDiscovered(storage[b], Counterpart(key), AllWell))
  /\ UNCHANGED <<users, up, leaving, forgotten>>

\* The loss of a silent key is reported.  The storage forgets the resource, of which
\* another key in the map may tell as well.
Reports(b, key) ==
  /\ up[b]
  /\ key \notin leaving[b]
  /\ key \notin RemoteBeacons(b)
  /\ leaving' = [leaving EXCEPT ![b] = @ \cup {key}]
  /\ forgotten' = [forgotten EXCEPT ![b] =
                     @ \cup {k \in tracked[b] : Counterpart(k) = Counterpart(key)}]
  /\ UNCHANGED <<users, up, tracked>>

\* As a mutant: the loss is looked up as the resource itself.
OnLost_Same(b, key) ==
  /\ Reports(b, key)
  /\ Stores(b, ComplementaryEntityLost(storage[b], ParseFormat(key), AllWell))

\* The key was silent for too long.
OnLost(b, key) ==
  /\ Reports(b, key)
  /\ Stores(b, ComplementaryEntityLost(storage[b], Counterpart(key), AllWell))

\* The map was unlocked after the report: a key that was beaconed in between is
\* active again and stays, though nothing will announce it; any other is removed.
Retain(b, key) ==
  /\ leaving' = [leaving EXCEPT ![b] = @ \ {key}]
  /\ \/ /\ key \in RemoteBeacons(b)
        /\ UNCHANGED <<tracked, forgotten>>
     \/ /\ tracked' = [tracked EXCEPT ![b] = @ \ {key}]
        /\ forgotten' = [forgotten EXCEPT ![b] = @ \ {key}]
  /\ UNCHANGED <<users, up, storage, beaconing>>

Overheard(b, key) == \E other \in RemoteBeacons(b) : Intersect(key, other)

\* A declaration leaves its key to others.
FallSilent(b, key) ==
  /\ Overheard(b, key)
  /\ beaconing' = [beaconing EXCEPT ![b] = @ \ {key}]
  /\ UNCHANGED <<users, up, storage, subscription>>

\* A silent declaration that hears nobody starts again.
StartAgain(b, key) ==
  /\ ~Overheard(b, key)
  /\ beaconing' = [beaconing EXCEPT ![b] = @ \cup {key}]
  /\ UNCHANGED <<users, up, storage, subscription>>

\* The process ends, or is killed; whatever it had is gone with it.
Crash(b) ==
  /\ up[b]
  /\ up' = [up EXCEPT ![b] = FALSE]
  /\ storage' = [storage EXCEPT ![b] = NoBridges]
  /\ beaconing' = [beaconing EXCEPT ![b] = {}]
  /\ tracked' = [tracked EXCEPT ![b] = {}]
  /\ leaving' = [leaving EXCEPT ![b] = {}]
  /\ forgotten' = [forgotten EXCEPT ![b] = {}]
  /\ UNCHANGED users

Restart(b) ==
  /\ ~up[b]
  /\ up' = [up EXCEPT ![b] = TRUE]
  /\ UNCHANGED <<users, storage, beaconing, subscription>>

UserChanges(b) ==
  /\ \E r \in UserResources[b] :
       users' = [users EXCEPT ![b] = IF r \in @ THEN @ \ {r} ELSE @ \cup {r}]
  /\ UNCHANGED <<up, storage, beaconing, subscription>>

Discovery(b) ==
  \/ \E key \in RemoteBeacons(b) : OnDiscovered(b, key)
  \/ \E key \in tracked[b] : OnLost(b, key)
  \/ \E key \in leaving[b] : Retain(b, key)

Silent(b) == DeclaredKeys(b) \ beaconing[b]

Starts(b) == \E key \in Silent(b) : StartAgain(b, key)

Next ==
  \E b \in Bridges :
    \/ Poll(b)
    \/ PollFails(b)
    \/ Discovery(b)
    \/ \E key \in beaconing[b] : FallSilent(b, key)
    \/ Starts(b)
    \/ Crash(b)
    \/ Restart(b)
    \/ UserChanges(b)

Spec == Init /\ [][Next]_vars

\* Polls go on, and succeed once they do not fail any more; both loops of each
\* subscription run; a key does not stay silent.
Fairness ==
  \A b \in Bridges : WF_vars(Poll(b)) /\ WF_vars(Discovery(b)) /\ WF_vars(Starts(b))

FairSpec == Spec /\ Fairness

-----------------------------------------------------------------------------
\* Properties.

\* Every variable keeps its type; a bridge beacons only what it declares, whoever
\* is leaving the map has been forgotten, and a bridge that is down has nothing.
TypeOK ==
  /\ users \in [Bridges -> SUBSET Resources]
  /\ \A b \in Bridges : users[b] \subseteq UserResources[b]
  /\ up \in [Bridges -> BOOLEAN]
  /\ \A b \in Bridges : IsBridges(storage[b]) /\ beaconing[b] \subseteq DeclaredKeys(b)
  /\ tracked \in [Bridges -> SUBSET Keys]
  /\ leaving \in [Bridges -> SUBSET Keys]
  /\ forgotten \in [Bridges -> SUBSET Keys]
  /\ \A b \in Bridges : leaving[b] \subseteq forgotten[b] /\ forgotten[b] \subseteq tracked[b]
  /\ \A b \in Bridges : ~up[b] => storage[b] = NoBridges /\ tracked[b] = {}

\* The enabled resources that keys tell of.
Told(keys) == {r \in Resources : Mode[r] # "Disabled" /\ \E key \in keys : Counterpart(key) = r}

(***************************************************************************)
(* What a bridge takes for present at another bridge is what its            *)
(* subscription has announced and keeps in its map, but for what it was     *)
(* made to forget.  So no ghost is left, and an announcement is forgotten   *)
(* in three ways only: its loss is reported (for good, if it is beaconed    *)
(* before the retain pass), the loss of another key of the same resource    *)
(* is, or a poll fails.  Through every order of polls, losses, crashes and  *)
(* restarts of either side nothing else forgets one.                        *)
(***************************************************************************)
StorageFollowsDiscovery ==
  \A b \in Bridges : Has(b, "required_on_zenoh_side") = Told(tracked[b] \ forgotten[b])

Peers(b) == {other \in Bridges \ {b} : up[other] /\ Shared(Namespace[other], Namespace[b])}

Enabled(b) == {r \in users[b] : Mode[r] # "Disabled"}

Complements(resources) == {ComplementaryFor(e) : e \in resources}

Remote(b) == Complements(UNION {Enabled(other) : other \in Peers(b)})

\* Who shares a key with a bridge may be the reason why it falls silent.
MayHush(b, r) == {other \in Peers(b) : r \in Enabled(other)}

\* What a bridge has to hear of: whoever beacons it in the end is one of its peers.
Audible(b) ==
  Complements({r \in Resources : \E other \in Peers(b) :
                 r \in Enabled(other) /\ MayHush(other, r) \subseteq Peers(b)})

\* What a bridge should bridge if it knows of these counterparts.
Wanted(b, remote) ==
  {r \in Resources :
     up[b] /\ Mode[r] # "Disabled" /\ Required(r, r \in users[b], r \in remote)}

\* From some time on users and bridges stay as they are, and no poll fails.
Calm == <>[][UNCHANGED <<users, up>> /\ \A b \in Bridges : ~PollFails(b)]_vars

(***************************************************************************)
(* Once users, bridges and masters are calm, no bridge bridges what users   *)
(* of its own system and of its peers do not ask for: bridges of other      *)
(* namespaces have no influence, and no two bridges keep a topic alive      *)
(* whose last user is gone.  And what they do ask for is bridged, also      *)
(* after crashes, with two exceptions that the code makes: what a bridge    *)
(* has forgotten while its key stayed in the map, and what it may not hear, *)
(* since its peer leaves the key to a bridge that is not its peer, or to    *)
(* itself.                                                                  *)
(***************************************************************************)
NetworkConverges ==
  Calm => <>[](\A b \in Bridges :
                 /\ Wanted(b, Audible(b) \ Told(forgotten[b])) \subseteq Has(b, "bridge")
                 /\ Has(b, "bridge") \subseteq Wanted(b, Remote(b)))

(***************************************************************************)
(* DEFAULT_CONFIG.json5 promises it without the second exception: topics    *)
(* are bridged once they are both declared locally and discovered remotely. *)
(* But a bridge that beacons a key is the reason why others that have the   *)
(* same resource fall silent, and does not hear itself.                     *)
(***************************************************************************)
PeersAreHeard ==
  Calm => <>[](\A b \in Bridges :
                 Wanted(b, Remote(b) \ Told(forgotten[b])) \subseteq Has(b, "bridge"))

=============================================================================
