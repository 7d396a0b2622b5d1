------------------------------ MODULE Lifecycle ------------------------------
(***************************************************************************)
(* The life of the plugin in its process: lib.rs, ros1_master_ctrl.rs,      *)
(* ros_to_zenoh_bridge.rs and, around them, environment.rs and the main     *)
(* function of the standalone bridge.                                       *)
(*                                                                          *)
(* zenohd starts and stops the plugin as its configuration changes, one     *)
(* call at a time.  A start copies the configuration into the environment   *)
(* of the process, may run a rosmaster of its own, and spawns a work cycle. *)
(* A stop kills the rosmaster and then tells the work cycle to stop, but    *)
(* does not wait for it.  The environment and the handle of the rosmaster   *)
(* are global: they outlive the plugin, though not the process.             *)
(***************************************************************************)
EXTENDS Naturals

CONSTANTS
  Ports,      \* where a ROS master may listen; ros_master_uri stands for its port
  MaxBridges  \* bound: bridges that are made in one process

ASSUME LifecycleAssumption ==
  /\ MaxBridges \in Nat
  /\ "none" \notin Ports

VARIABLES
  env,        \* what Environment reads: with_rosmaster and ros_master_uri
  plugin,     \* where the call of zenohd is, or the state that it left
  ROSMASTER,  \* the handle of the own rosmaster: its port, if there is one
  master,     \* who listens on each port
  cycle,      \* where the work cycle of each bridge is
  flag,       \* of each bridge: go on
  uri,        \* the port that each work cycle has read
  leaked      \* history: did a start fail when it had run its rosmaster

bridges == <<cycle, flag, uri>>
vars == <<env, plugin, ROSMASTER, master, bridges, leaked>>

Bridges == 1..MaxBridges

Environments == [with_rosmaster : BOOLEAN, ros_master_uri : Ports]

Entries == {"with_rosmaster", "ros_master_uri"}

Made == {b \in Bridges : cycle[b] # "none"}

\* The bridge that is made next, and the one that was made last.
IsNext(b) == b \notin Made /\ \A c \in Bridges : c < b => c \in Made

IsLast(b) == b \in Made /\ \A c \in Made : c <= b

Init ==
  /\ env \in Environments
  /\ plugin = "off"
  /\ ROSMASTER = "none"
  /\ master \in [Ports -> {"nobody", "other"}]
  /\ cycle = [b \in Bridges |-> "none"]
  /\ flag = [b \in Bridges |-> FALSE]
  /\ uri = [b \in Bridges |-> "none"]
  /\ leaked = FALSE

-----------------------------------------------------------------------------
\* Ros1Plugin::start and Ros1PluginInstance::new.

\* The entries that are given in the configuration are copied into the
\* environment; of the others the values of an earlier start are still there.
Start(given, values) ==
  /\ plugin = "off"
  /\ Made # Bridges
  /\ plugin' = "starting"
  /\ env' = [entry \in Entries |->
               IF entry \in given THEN values[entry] ELSE env[entry]]
  /\ UNCHANGED <<ROSMASTER, master, bridges, leaked>>

WithoutMaster ==
  /\ plugin = "starting"
  /\ ~env.with_rosmaster
  /\ plugin' = "session"
  /\ UNCHANGED <<env, ROSMASTER, master, bridges, leaked>>

\* with_ros1_master asserts that there is no handle.
StartPanics ==
  /\ plugin = "starting"
  /\ env.with_rosmaster
  /\ ROSMASTER # "none"
  /\ plugin' = "panicked"
  /\ UNCHANGED <<env, ROSMASTER, master, bridges, leaked>>

\* The uri has no port, or the process cannot be spawned.
MasterFails ==
  /\ plugin = "starting"
  /\ env.with_rosmaster
  /\ plugin' = "off"
  /\ UNCHANGED <<env, ROSMASTER, master, bridges, leaked>>

\* As a mutant: the handle is not kept.
StartMaster_Unkept ==
  /\ plugin = "starting"
  /\ env.with_rosmaster
  /\ ROSMASTER = "none"
  /\ LET port == env.ros_master_uri IN
       master' = [master EXCEPT ![port] = IF @ = "nobody" THEN "own" ELSE @]
  /\ plugin' = "session"
  /\ UNCHANGED <<env, ROSMASTER, bridges, leaked>>

\* rosmaster is spawned, and given a second.  It dies if its port is taken.
StartMaster ==
  /\ plugin = "starting"
  /\ env.with_rosmaster
  /\ ROSMASTER = "none"
  /\ LET port == env.ros_master_uri IN
       /\ ROSMASTER' = port
       /\ master' = [master EXCEPT ![port] = IF @ = "nobody" THEN "own" ELSE @]
  /\ plugin' = "session"
  /\ UNCHANGED <<env, bridges, leaked>>

\* The start fails, and leaves the rosmaster as it is.
SessionFails ==
  /\ plugin = "session"
  /\ plugin' = "off"
  /\ leaked' = (leaked \/ env.with_rosmaster)
  /\ UNCHANGED <<env, ROSMASTER, master, bridges>>

\* new_with_external_session spawns the work cycle.
NewBridge(b) ==
  /\ plugin = "session"
  /\ IsNext(b)
  /\ plugin' = "on"
  /\ cycle' = [cycle EXCEPT ![b] = "new"]
  /\ flag' = [flag EXCEPT ![b] = TRUE]
  /\ UNCHANGED <<env, ROSMASTER, master, uri, leaked>>

-----------------------------------------------------------------------------
\* Ros1ToZenohBridge::run and work_cycle.

\* The uri is read when the task first runs, and the ROS nodes are made without
\* a look at the flag.
SetUp(b) ==
  /\ cycle[b] = "new"
  /\ cycle' = [cycle EXCEPT ![b] = "loop"]
  /\ uri' = [uri EXCEPT ![b] = env.ros_master_uri]
  /\ UNCHANGED <<env, plugin, ROSMASTER, master, flag, leaked>>

\* A node cannot be made.  The error is logged, and the plugin stays on.
SetUpFails(b) ==
  /\ cycle[b] = "new"
  /\ cycle' = [cycle EXCEPT ![b] = "ended"]
  /\ UNCHANGED <<env, plugin, ROSMASTER, master, flag, uri, leaked>>

\* As a mutant: the flag is not looked at.
Round_Always(b) ==
  /\ cycle[b] = "loop"
  /\ cycle' = [cycle EXCEPT ![b] = "round"]
  /\ UNCHANGED <<env, plugin, ROSMASTER, master, flag, uri, leaked>>

\* A round of the loop starts, to poll and then to sleep.
Round(b) ==
  /\ cycle[b] = "loop"
  /\ flag[b]
  /\ cycle' = [cycle EXCEPT ![b] = "round"]
  /\ UNCHANGED <<env, plugin, ROSMASTER, master, flag, uri, leaked>>

RoundEnds(b) ==
  /\ cycle[b] = "round"
  /\ cycle' = [cycle EXCEPT ![b] = "loop"]
  /\ UNCHANGED <<env, plugin, ROSMASTER, master, flag, uri, leaked>>

LoopEnds(b) ==
  /\ cycle[b] = "loop"
  /\ ~flag[b]
  /\ cycle' = [cycle EXCEPT ![b] = "ended"]
  /\ UNCHANGED <<env, plugin, ROSMASTER, master, flag, uri, leaked>>

WorkCycle(b) ==
  SetUp(b) \/ SetUpFails(b) \/ Round(b) \/ RoundEnds(b) \/ LoopEnds(b)

-----------------------------------------------------------------------------
\* Dropping a Ros1PluginInstance: first its own drop, then that of its bridge.

DropWithoutMaster ==
  /\ plugin = "on"
  /\ ~env.with_rosmaster
  /\ plugin' = "dropping"
  /\ UNCHANGED <<env, ROSMASTER, master, bridges, leaked>>

\* As a mutant: the handle is used but not taken.
StopMaster_Untaken ==
  /\ plugin = "on"
  /\ env.with_rosmaster
  /\ IF ROSMASTER = "none"
     THEN plugin' = "panicked" /\ master' = master
     ELSE /\ plugin' = "dropping"
          /\ \E left \in {"nobody", "other"} :
               master' = [master EXCEPT ![ROSMASTER] = IF @ = "own" THEN left ELSE @]
  /\ UNCHANGED <<env, ROSMASTER, bridges, leaked>>

\* without_ros1_master asserts that there is a handle, takes it, and kills its
\* process if it is still there.  If that fails it runs on, owned by nobody.
StopMaster ==
  /\ plugin = "on"
  /\ env.with_rosmaster
  /\ ROSMASTER' = "none"
  /\ IF ROSMASTER = "none"
     THEN plugin' = "panicked" /\ master' = master
     ELSE /\ plugin' = "dropping"
          /\ \E left \in {"nobody", "other"} :
               master' = [master EXCEPT ![ROSMASTER] = IF @ = "own" THEN left ELSE @]
  /\ UNCHANGED <<env, bridges, leaked>>

\* As a mutant: the work cycle is not told.
DropBridge_Untold(b) ==
  /\ plugin = "dropping"
  /\ IsLast(b)
  /\ plugin' = "off"
  /\ UNCHANGED <<env, ROSMASTER, master, bridges, leaked>>

\* The work cycle is told to stop, and not waited for.
DropBridge(b) ==
  /\ plugin = "dropping"
  /\ IsLast(b)
  /\ flag' = [flag EXCEPT ![b] = FALSE]
  /\ plugin' = "off"
  /\ UNCHANGED <<env, ROSMASTER, master, cycle, uri, leaked>>

-----------------------------------------------------------------------------
\* The process and the ROS masters.

\* The process ends, whatever it is doing, and another one is started.  Nothing
\* is dropped, and the rosmaster runs on unless a signal reached it as well.
Restart ==
  /\ env' \in Environments
  /\ plugin' = "off"
  /\ ROSMASTER' = "none"
  /\ \E left \in {"nobody", "other"} :
       master' = [p \in Ports |-> IF master[p] = "own" THEN left ELSE master[p]]
  /\ cycle' = [b \in Bridges |-> "none"]
  /\ flag' = [b \in Bridges |-> FALSE]
  /\ uri' = [b \in Bridges |-> "none"]
  /\ leaked' = FALSE

\* A rosmaster of somebody else is started.
OtherMaster(p) ==
  /\ master[p] = "nobody"
  /\ master' = [master EXCEPT ![p] = "other"]
  /\ UNCHANGED <<env, plugin, ROSMASTER, bridges, leaked>>

\* Any rosmaster may end.
MasterEnds(p) ==
  /\ master[p] # "nobody"
  /\ master' = [master EXCEPT ![p] = "nobody"]
  /\ UNCHANGED <<env, plugin, ROSMASTER, bridges, leaked>>

-----------------------------------------------------------------------------

Starting ==
  \/ \E given \in SUBSET Entries, values \in Environments : Start(given, values)
  \/ WithoutMaster
  \/ StartPanics
  \/ MasterFails
  \/ StartMaster
  \/ SessionFails
  \/ \E b \in Bridges : NewBridge(b)

Dropping ==
  \/ DropWithoutMaster
  \/ StopMaster
  \/ \E b \in Bridges : DropBridge(b)

Next ==
  \/ Starting
  \/ Dropping
  \/ \E b \in Bridges : WorkCycle(b)
  \/ Restart
  \/ \E p \in Ports : OtherMaster(p) \/ MasterEnds(p)

Spec == Init /\ [][Next]_vars

\* Work cycles are tasks of the runtime that make progress, and a drop that has
\* begun completes.  Nobody has to start or stop anything.
Fairness ==
  /\ \A b \in Bridges : WF_vars(WorkCycle(b))
  /\ WF_vars(\E b \in Bridges : DropBridge(b))

FairSpec == Spec /\ Fairness

-----------------------------------------------------------------------------
\* Properties.

\* Every variable keeps its type, bridges are made one after the other, only the
\* last of them may be told to go on, and those in their loop have a port.
TypeOK ==
  /\ env \in Environments
  /\ plugin \in {"off", "starting", "session", "on", "dropping", "panicked"}
  /\ ROSMASTER \in Ports \cup {"none"}
  /\ master \in [Ports -> {"nobody", "own", "other"}]
  /\ cycle \in [Bridges -> {"none", "new", "loop", "round", "ended"}]
  /\ flag \in [Bridges -> BOOLEAN]
  /\ uri \in [Bridges -> Ports \cup {"none"}]
  /\ leaked \in BOOLEAN
  /\ \A b, c \in Bridges : c < b /\ b \in Made => c \in Made
  /\ \A b \in Bridges : flag[b] => IsLast(b) /\ plugin \in {"on", "dropping"}
  /\ \A b \in Bridges : cycle[b] \in {"loop", "round"} => uri[b] # "none"

(***************************************************************************)
(* The assertions of ros1_master_ctrl.rs hold however starts, stops and     *)
(* failures follow each other, except after a start that failed when its    *)
(* rosmaster was running: that one is never stopped, and the next start     *)
(* panics.                                                                  *)
(***************************************************************************)
AssertionsHold == plugin = "panicked" => leaked

(***************************************************************************)
(* A rosmaster of the plugin can always be stopped, and there is one only   *)
(* for a plugin that asked for it and is on, or starts.                     *)
(***************************************************************************)
MasterHasOwner ==
  /\ \A p \in Ports : master[p] = "own" => ROSMASTER = p
  /\ ROSMASTER # "none" =>
       \/ leaked
       \/ plugin \in {"session", "on"} /\ env.with_rosmaster

(***************************************************************************)
(* While the plugin is on all bridges that go on follow one ROS master, the *)
(* one that its own start named, and run if it was asked to.  The           *)
(* environment is shared with work cycles of earlier starts and read when   *)
(* they get to it, so one that was told to stop may follow another.         *)
(***************************************************************************)
OneMaster ==
  plugin = "on" =>
    \A b \in Bridges :
      flag[b] /\ uri[b] # "none" =>
        /\ uri[b] = env.ros_master_uri
        /\ env.with_rosmaster => uri[b] = ROSMASTER

(***************************************************************************)
(* The work cycle of a bridge that was dropped ends, between polls or after *)
(* the one that goes on, and whatever is started after it.  That a poll     *)
(* returns is assumed: there must be a blocking thread for it.              *)
(***************************************************************************)
DroppedBridgesEnd ==
  \A b \in Bridges :
    b \in Made /\ ~flag[b] ~> cycle[b] \in {"ended", "none"}

=============================================================================
