----------------------------- MODULE WorkCycle -----------------------------
(***************************************************************************)
(* The work cycle of the bridge (ros1_to_zenoh_bridge_impl.rs): the task    *)
(* that polls the ROS master and applies what it learnt to the storage of   *)
(* bridges, and the two discovery callbacks that other tasks run on the     *)
(* same storage at any moment in between.                                   *)
(*                                                                          *)
(* One poll is two steps.  The blocking thread reads the ROS1 state without *)
(* holding the mutex of the storage; the task applies it later, under the   *)
(* mutex.  Whatever runs under the mutex is one step.                       *)
(***************************************************************************)
EXTENDS BridgesStorage

CONSTANTS
  LocalResources,    \* the resources that may come and go in ROS1
  RemoteResources,   \* the resources that other bridges may announce
  MayFail            \* may declarations and bridge creations fail at all

ASSUME ResourcesAssumption ==
  /\ LocalResources \subseteq {r \in Resources : r[1] # "Client"}
  /\ RemoteResources \subseteq Resources
  /\ MayFail \in BOOLEAN

VARIABLES
  \* the environment
  master_up,     \* does the ROS master answer
  ros1,          \* what reading the ROS1 state would return now
  reliable,      \* do declarations and bridge creations succeed now
  \* discovery, as seen through the callbacks
  discovered,    \* remote resources announced and not reported lost since
  discovery,     \* "running", or "ended" once the subscription task is over
  \* the bridge
  flag,          \* cleared by stop()
  pc,            \* where the run loop is
  ros1_state,    \* the snapshot in the hands of the run loop
  ros_status,    \* the status last passed to the status callback
  pause,         \* how long the loop sleeps before the next poll
  bridges,       \* the storage
  \* history, read by properties only
  seen,          \* the snapshot last applied, since the last cleanup
  known          \* the announcements that reached the storage since then

env == <<master_up, ros1, reliable>>
loop == <<flag, pc, ros1_state, ros_status, pause>>
vars == <<env, discovered, discovery, loop, bridges, seen, known>>

Touched == LocalResources \cup {ComplementaryFor(e) : e \in RemoteResources}

\* How the calls made for one resource may end.
OutcomesNow == IF reliable THEN {AllWell} ELSE Outcomes

Init ==
  /\ master_up \in BOOLEAN
  /\ ros1 \in SUBSET LocalResources
  /\ reliable \in (IF MayFail THEN BOOLEAN ELSE {TRUE})
  /\ discovered = {}
  /\ discovery = "running"
  /\ flag = TRUE
  /\ pc = "poll"
  /\ ros1_state = {}
  /\ ros_status = "Unknown"
  /\ pause = "full"
  /\ bridges = NoBridges
  /\ seen = {}
  /\ known = {}

-----------------------------------------------------------------------------
\* The run loop.

\* As a mutant: an error of the master ends the loop.
Poll_GivesUp ==
  /\ pc = "poll"
  /\ flag
  /\ pc' = IF master_up THEN "receive" ELSE "stopped"
  /\ ros1_state' = IF master_up THEN ros1 ELSE {}
  /\ ros_status' = IF master_up THEN "Ok" ELSE "Error"
  /\ UNCHANGED <<env, discovered, discovery, flag, pause, bridges, seen, known>>

\* The flag is tested, the ROS1 state read and the status reported.
Poll ==
  /\ pc = "poll"
  /\ flag
  /\ IF master_up
     THEN /\ pc' = "receive"
          /\ ros1_state' = ros1
          /\ ros_status' = "Ok"
     ELSE /\ pc' = "cleanup"
          /\ ros1_state' = {}
          /\ ros_status' = "Error"
  /\ UNCHANGED <<env, discovered, discovery, flag, pause, bridges, seen, known>>

\* receive_ros1_state, under the mutex; then the sleep is chosen.
Receive ==
  /\ pc = "receive"
  /\ \E outcome \in [{r \in Touched : IsPolled(r)} -> OutcomesNow] :
       bridges' = ReceiveRos1State(bridges, ros1_state, outcome)
  /\ pause' = IF SmthChanged(bridges, ros1_state) THEN "half" ELSE "full"
  /\ seen' = ros1_state
  /\ ros1_state' = {}
  /\ pc' = "poll"
  /\ UNCHANGED <<env, discovered, discovery, flag, ros_status, known>>

\* The master did not answer: every entry is dropped, under the mutex.
Cleanup ==
  /\ pc = "cleanup"
  /\ bridges' = NoBridges
  /\ pause' = "full"
  /\ seen' = {}
  /\ known' = {}
  /\ pc' = "poll"
  /\ UNCHANGED <<env, discovered, discovery, flag, ros1_state, ros_status>>

\* As a mutant: the loop ends without looking at the flag.
Exit_Unasked ==
  /\ pc = "poll"
  /\ pc' = "stopped"
  /\ UNCHANGED <<env, discovered, discovery, flag, ros1_state, ros_status,
                 pause, bridges, seen, known>>

\* The loop ends; work_cycle returns and drops its RemoteResources.
Exit ==
  /\ pc = "poll"
  /\ ~flag
  /\ pc' = "stopped"
  /\ UNCHANGED <<env, discovered, discovery, flag, ros1_state, ros_status,
                 pause, bridges, seen, known>>

\* RosToZenohBridge::stop, or its Drop.
Stop ==
  /\ flag
  /\ flag' = FALSE
  /\ UNCHANGED <<env, discovered, discovery, pc, ros1_state, ros_status, pause,
                 bridges, seen, known>>

-----------------------------------------------------------------------------
\* The discovery callbacks.  Dropping RemoteResources only asks the subscription
\* task to end: callbacks still come until it does, and they keep the storage.

\* A resource is announced once, until it is reported lost.
OnDiscovered(e) ==
  LET r == ComplementaryFor(e)
  IN /\ discovery = "running"
     /\ e \notin discovered
     /\ discovered' = discovered \cup {e}
     /\ \E outcome \in OutcomesNow :
          bridges' = ComplementaryEntityDiscovered(bridges, r, outcome)
     /\ known' = known \cup {r}
     /\ UNCHANGED <<env, discovery, loop, seen>>

\* A loss may be reported again, for a resource that is not announced.
OnLost(e) ==
  LET r == ComplementaryFor(e)
  IN /\ discovery = "running"
     /\ discovered' = discovered \ {e}
     /\ \E outcome \in OutcomesNow :
          bridges' = ComplementaryEntityLost(bridges, r, outcome)
     /\ known' = known \ {r}
     /\ UNCHANGED <<env, discovery, loop, seen>>

\* The subscription task ends and drops the last reference to the storage.
DiscoveryEnds ==
  /\ discovery = "running"
  /\ pc = "stopped"
  /\ discovery' = "ended"
  /\ discovered' = {}
  /\ bridges' = NoBridges
  /\ seen' = {}
  /\ known' = {}
  /\ UNCHANGED <<env, loop>>

-----------------------------------------------------------------------------
\* The environment.

RosChanges ==
  /\ \E r \in LocalResources :
       ros1' = IF r \in ros1 THEN ros1 \ {r} ELSE ros1 \cup {r}
  /\ UNCHANGED <<master_up, reliable, discovered, discovery, loop, bridges,
                 seen, known>>

MasterChanges ==
  /\ master_up' = ~master_up
  /\ UNCHANGED <<ros1, reliable, discovered, discovery, loop, bridges, seen,
                 known>>

ReliabilityChanges ==
  /\ MayFail
  /\ reliable' = ~reliable
  /\ UNCHANGED <<master_up, ros1, discovered, discovery, loop, bridges, seen,
                 known>>

Next ==
  \/ Poll
  \/ Receive
  \/ Cleanup
  \/ Exit
  \/ Stop
  \/ \E e \in RemoteResources : OnDiscovered(e) \/ OnLost(e)
  \/ DiscoveryEnds
  \/ RosChanges
  \/ MasterChanges
  \/ ReliabilityChanges

Spec == Init /\ [][Next]_vars

\* The run loop is a task that is polled whenever it can go on, and whoever
\* holds the mutex gives it back.  Nothing else is promised.
Fairness ==
  /\ WF_vars(Poll)
  /\ WF_vars(Receive)
  /\ WF_vars(Cleanup)
  /\ WF_vars(Exit)

FairSpec == Spec /\ Fairness

-----------------------------------------------------------------------------
\* Properties.

Enabled == {r \in Resources : Mode[r] # "Disabled"}

\* Every variable keeps its type; a snapshot is in hand only until it is applied;
\* the loop stops only when told to; once discovery has ended nothing is stored.
TypeOK ==
  /\ master_up \in BOOLEAN
  /\ ros1 \in SUBSET LocalResources
  /\ reliable \in BOOLEAN
  /\ ~MayFail => reliable
  /\ discovered \in SUBSET RemoteResources
  /\ discovery \in {"running", "ended"}
  /\ flag \in BOOLEAN
  /\ pc \in {"poll", "receive", "cleanup", "stopped"}
  /\ ros1_state \in SUBSET LocalResources
  /\ ros_status \in {"Unknown", "Ok", "Error"}
  /\ pause \in {"half", "full"}
  /\ IsBridges(bridges)
  /\ seen \in SUBSET LocalResources
  /\ known \in SUBSET Touched
  /\ ros1_state # {} => pc = "receive"
  /\ pc = "stopped" => ~flag
  /\ discovery = "ended" => pc = "stopped" /\ bridges = NoBridges

(***************************************************************************)
(* However polls and callbacks interleave, and however stale the snapshot   *)
(* is when it is applied, the storage has an entry exactly for the enabled  *)
(* resources that the last snapshot or a live announcement names, and the   *)
(* entry's two flags say which of the two did: no callback is undone by a   *)
(* snapshot read before it, and no entry outlives its last reason.          *)
(***************************************************************************)
EntriesFollowViews ==
  /\ DOMAIN bridges = (seen \cup known) \cap Enabled
  /\ \A r \in DOMAIN bridges :
       /\ bridges[r].required_on_ros1_side <=> r \in seen
       /\ bridges[r].required_on_zenoh_side <=> r \in known

(***************************************************************************)
(* No order of flag changes leaves a resource bridged that its mode does    *)
(* not want bridged, or declared to the other bridges without being in      *)
(* ROS1; and if the calls never fail none is left out either.               *)
(***************************************************************************)
BridgesFollowFlags ==
  \A r \in DOMAIN bridges :
    /\ bridges[r].bridge => IsRequired(r, bridges[r])
    /\ bridges[r].declaration => bridges[r].required_on_ros1_side
    /\ ~MayFail /\ IsRequired(r, bridges[r]) => bridges[r].bridge
    /\ ~MayFail /\ bridges[r].required_on_ros1_side => bridges[r].declaration

(***************************************************************************)
(* The loop hurries to its next poll exactly when the last one changed the  *)
(* storage: receive_ros1_state reports a change if and only if it made one. *)
(***************************************************************************)
PaceFollowsChange ==
  [][pc = "receive" /\ pc' = "poll"
       => (pause' = "half" <=> bridges' # bridges)]_vars

(***************************************************************************)
(* The storage implements BridgeTable: every step of the loop or of a       *)
(* callback is one reconciliation of the two views, that keeps established  *)
(* bridges and declarations which are needed still and touches no resource  *)
(* whose views did not change.                                              *)
(***************************************************************************)
Table == INSTANCE BridgeTable WITH
  Reliable <- ~MayFail,
  local    <- {r \in DOMAIN bridges : bridges[r].required_on_ros1_side},
  remote   <- {r \in DOMAIN bridges : bridges[r].required_on_zenoh_side},
  declared <- {r \in DOMAIN bridges : bridges[r].declaration},
  bridged  <- {r \in DOMAIN bridges : bridges[r].bridge}

RefinesBridgeTable == Table!Spec

SeenInRos1(r) == r \in DOMAIN bridges /\ bridges[r].required_on_ros1_side

(***************************************************************************)
(* While the loop is not stopped and the master answers from some time on,  *)
(* a resource that stays in ROS1 ends up, for good, with an entry that      *)
(* knows it, and one that stays away ends up without: the loop recovers     *)
(* from every earlier failure of the master.                                *)
(***************************************************************************)
LocalTopicsConverge ==
  \A r \in LocalResources \cap Enabled :
    /\ <>[](flag /\ master_up /\ r \in ros1) => <>[]SeenInRos1(r)
    /\ <>[](flag /\ master_up /\ r \notin ros1) => <>[]~SeenInRos1(r)

Bridging(r) == r \in DOMAIN bridges /\ bridges[r].bridge

Calm == flag /\ master_up

(***************************************************************************)
(* DEFAULT_CONFIG.json5 says of the "auto" mode that topics are bridged     *)
(* once they are declared locally or discovered remotely.  So, if no call   *)
(* ever fails and the master answers from some time on, a local resource    *)
(* that stays in ROS1 is bridged in the end, however often the master has   *)
(* failed before, whatever callbacks came in between and however stale the  *)
(* snapshots were.  Of calls that fail it says nothing: a bridge that could *)
(* not be created stays missing as long as the flags stay.                  *)
(***************************************************************************)
AutoBridgesLocalTopics ==
  \A r \in LocalResources :
    Mode[r] = "Auto" => ([]reliable /\ <>[](Calm /\ r \in ros1) => []<>Bridging(r))

(***************************************************************************)
(* The same of a remote resource that stays discovered, which one failed    *)
(* poll refutes: nobody announces anew what the storage was made to forget. *)
(***************************************************************************)
AutoBridgesDiscoveredTopics ==
  \A e \in RemoteResources :
    Mode[ComplementaryFor(e)] = "Auto" =>
      ([]reliable /\ <>[](Calm /\ e \in discovered) => []<>Bridging(ComplementaryFor(e)))

=============================================================================
