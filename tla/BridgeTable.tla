---------------------------- MODULE BridgeTable ----------------------------
(***************************************************************************)
(* What the storage of bridges promises, whatever maps, flags and tasks     *)
(* implement it.  It holds two views, the resources that ROS1 has and those *)
(* that Zenoh has a counterpart for, and keeps two sets reconciled with     *)
(* them: the resources declared to the other bridges and those bridged.     *)
(***************************************************************************)
EXTENDS TopicBridge

CONSTANT Reliable   \* TRUE when declarations and bridge creations never fail

VARIABLES
  local,      \* enabled resources last seen in ROS1
  remote,     \* enabled resources whose counterpart was announced over Zenoh
  declared,   \* resources declared to the other bridges
  bridged     \* resources over which messages pass

vars == <<local, remote, declared, bridged>>

Enabled == {r \in Resources : Mode[r] # "Disabled"}

Needed(r) == Required(r, r \in local, r \in remote)

SameView(r) == /\ (r \in local') = (r \in local)
               /\ (r \in remote') = (r \in remote)

\* A set may only hold what is needed, gives up nothing that is needed still,
\* and gains everything that is needed unless the calls it takes may fail.
Reconciled(r, before, after, needed) ==
  /\ r \in after => needed
  /\ r \in before /\ needed => r \in after
  /\ Reliable /\ needed => r \in after

\* A resource whose view is unchanged is left alone: nothing is retried.
Reconcile ==
  /\ declared' \subseteq Enabled
  /\ bridged' \subseteq Enabled
  /\ \A r \in Enabled :
       IF SameView(r)
       THEN /\ (r \in declared') = (r \in declared)
            /\ (r \in bridged') = (r \in bridged)
       ELSE /\ Reconciled(r, declared, declared', r \in local')
            /\ Reconciled(r, bridged, bridged',
                          Required(r, r \in local', r \in remote'))

\* ROS1 was polled: the local view is replaced as a whole.
SeeRos1 ==
  /\ local' \subseteq Enabled
  /\ remote' = remote
  /\ Reconcile

\* One remote resource came or went.
SeeZenoh ==
  /\ local' = local
  /\ \E r \in Enabled : remote' = remote \cup {r} \/ remote' = remote \ {r}
  /\ Reconcile

\* The ROS master was lost, or the bridge is gone.
Forget ==
  /\ local' = {}
  /\ remote' = {}
  /\ declared' = {}
  /\ bridged' = {}

Init ==
  /\ local = {}
  /\ remote = {}
  /\ declared = {}
  /\ bridged = {}

Next == SeeRos1 \/ SeeZenoh \/ Forget

Spec == Init /\ [][Next]_vars

=============================================================================
