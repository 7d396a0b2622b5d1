--------------------------- MODULE BridgesStorage ---------------------------
(***************************************************************************)
(* BridgesStorage (bridges_storage.rs): the four maps from topics to        *)
(* TopicBridges, one per bridge type, and the operations the work cycle and *)
(* the discovery callbacks run on them.                                     *)
(*                                                                          *)
(* The four maps are one function whose domain is the set of resources that *)
(* have an entry.  Every operation runs to its end under the one mutex that *)
(* guards the storage, so each is an operator from tables to tables.        *)
(* outcome[r] says how the calls made for resource r end.                   *)
(***************************************************************************)
EXTENDS TopicBridge

NoBridges == [r \in {} |-> NewTopicBridge]

IsBridges(bridges) ==
  /\ DOMAIN bridges \subseteq Resources
  /\ bridges \in [DOMAIN bridges -> TopicBridges]

\* The side of a ROS pair that this bridge plays for a remote resource.
ComplementaryType == [Publisher  |-> "Subscriber",
                      Subscriber |-> "Publisher",
                      Service    |-> "Client",
                      Client     |-> "Service"]

ComplementaryFor(e) == <<ComplementaryType[e[1]], e[2]>>

Without(bridges, r) == [q \in DOMAIN bridges \ {r} |-> bridges[q]]

With(bridges, r, b) ==
  [q \in DOMAIN bridges \cup {r} |-> IF q = r THEN b ELSE bridges[q]]

\* Zenoh told that a remote counterpart of r appeared.
ComplementaryEntityDiscovered(bridges, r, outcome) ==
  IF Mode[r] = "Disabled"
  THEN bridges
  ELSE LET entry == IF r \in DOMAIN bridges THEN bridges[r] ELSE NewTopicBridge
       IN With(bridges, r, SetHasComplementaryInZenoh(r, entry, TRUE, outcome))

\* Zenoh told that the remote counterpart of r is gone.  An entry nobody needs
\* any more is removed, but only by the call that cleared its last flag.
ComplementaryEntityLost(bridges, r, outcome) ==
  IF r \notin DOMAIN bridges
  THEN bridges
  ELSE LET entry == SetHasComplementaryInZenoh(r, bridges[r], FALSE, outcome)
       IN IF bridges[r].required_on_zenoh_side /\ ~IsActual(entry)
          THEN Without(bridges, r)
          ELSE With(bridges, r, entry)

\* Clients are never polled: ROS1 has no way to list them.
IsPolled(r) == r[1] # "Client"

\* The entries after their ROS1 flag was set from the snapshot.
Actualized(bridges, ros1_state, outcome) ==
  [r \in DOMAIN bridges |->
     IF IsPolled(r)
     THEN SetPresentInRos1(r, bridges[r], r \in ros1_state, outcome[r])
     ELSE bridges[r]]

\* What is left of the snapshot once the existing entries took theirs.
NewInRos1(bridges, ros1_state) ==
  {r \in ros1_state : r \notin DOMAIN bridges /\ IsPolled(r) /\ Mode[r] # "Disabled"}

\* As a mutant: there is no retain pass.
Retained_All(actualized) == DOMAIN actualized

\* The entries that the retain pass keeps.
Retained(actualized) ==
  {r \in DOMAIN actualized : IsPolled(r) => IsActual(actualized[r])}

ReceiveRos1State(bridges, ros1_state, outcome) ==
  LET actualized == Actualized(bridges, ros1_state, outcome)
      kept       == Retained(actualized)
  IN [r \in kept \cup NewInRos1(bridges, ros1_state) |->
        IF r \in kept
        THEN actualized[r]
        ELSE SetPresentInRos1(r, NewTopicBridge, TRUE, outcome[r])]

\* As a mutant: only the number of entries is watched.
SmthChanged_BySize(bridges, ros1_state) ==
  \/ \E r \in DOMAIN bridges :
       IsPolled(r) /\ ~(r \in ros1_state \/ bridges[r].required_on_zenoh_side)
  \/ NewInRos1(bridges, ros1_state) # {}

\* The value receive_ros1_state returns: it paces the next poll.
SmthChanged(bridges, ros1_state) ==
  \/ \E r \in DOMAIN bridges :
       /\ IsPolled(r)
       /\ \/ ~(bridges[r].required_on_ros1_side <=> r \in ros1_state)
          \/ ~(r \in ros1_state \/ bridges[r].required_on_zenoh_side)
  \/ NewInRos1(bridges, ros1_state) # {}

=============================================================================
