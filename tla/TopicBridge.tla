---------------------------- MODULE TopicBridge ----------------------------
(***************************************************************************)
(* One TopicBridge (topic_bridge.rs): what the bridge keeps for a single    *)
(* topic of a single bridge type, and how the two flags "present in ROS1"   *)
(* and "has a counterpart in Zenoh" decide whether the topic is declared to *)
(* the other bridges and whether messages are bridged.                      *)
(*                                                                          *)
(* A resource is a pair <<b_type, topic>>.  A topic stands for a whole      *)
(* TopicDescriptor (name, data type and MD5).  The two Option fields of the *)
(* struct are BOOLEANs: only is_some() is ever asked of them.               *)
(***************************************************************************)
CONSTANTS
  Topics,   \* topic descriptors
  Mode      \* the bridging mode that applies to each resource

BridgeTypes == {"Publisher", "Subscriber", "Service", "Client"}

BridgingModes == {"Auto", "LazyAuto", "Disabled"}

Resources == BridgeTypes \X Topics

\* The configuration is read once and never changes (environment.rs).
ASSUME ModeAssumption == Mode \in [Resources -> BridgingModes]

TopicBridges == [required_on_ros1_side  : BOOLEAN,
                 required_on_zenoh_side : BOOLEAN,
                 declaration            : BOOLEAN,
                 bridge                 : BOOLEAN]

(***************************************************************************)
(* The two calls a recalculation makes may fail: declare_with_type and      *)
(* AbstractBridge::new.  Both failures are only logged.                     *)
(***************************************************************************)
Outcomes == [declares : BOOLEAN, creates : BOOLEAN]

AllWell == [declares |-> TRUE, creates |-> TRUE]

NewTopicBridge == [required_on_ros1_side  |-> FALSE,
                   required_on_zenoh_side |-> FALSE,
                   declaration            |-> FALSE,
                   bridge                 |-> FALSE]

IsActual(b) == b.required_on_ros1_side \/ b.required_on_zenoh_side

\* As a mutant: "auto" waits for both sides, like "lazy_auto".
Required_Lazy(r, ros1, zenoh) == zenoh /\ (ros1 \/ r[1] = "Client")

\* The decision of recalc_bridging, on the two sides a resource is seen on.
Required(r, ros1, zenoh) ==
  \/ r[1] = "Client" /\ zenoh
  \/ ros1 /\ zenoh
  \/ (ros1 \/ zenoh) /\ Mode[r] = "Auto"

IsRequired(r, b) == Required(r, b.required_on_ros1_side, b.required_on_zenoh_side)

\* A declaration that exists is kept; a missing one is made, if that succeeds.
RecalcDeclaration(b, outcome) ==
  [b EXCEPT !.declaration = b.required_on_ros1_side /\ (@ \/ outcome.declares)]

\* As mutants: a bridge nobody needs is kept; a bridge that is needed still is
\* replaced by a new one, which may fail.
RecalcBridging_Sticky(r, b, outcome) ==
  [b EXCEPT !.bridge = @ \/ (IsRequired(r, b) /\ outcome.creates)]

RecalcBridging_Replaces(r, b, outcome) ==
  [b EXCEPT !.bridge = IsRequired(r, b) /\ outcome.creates]

\* A bridge that exists is kept while required, never recreated.
RecalcBridging(r, b, outcome) ==
  [b EXCEPT !.bridge = IsRequired(r, b) /\ (@ \/ outcome.creates)]

RecalcState(r, b, outcome) ==
  RecalcBridging(r, RecalcDeclaration(b, outcome), outcome)

SetPresentInRos1(r, b, present, outcome) ==
  IF b.required_on_ros1_side <=> present
  THEN b
  ELSE RecalcState(r, [b EXCEPT !.required_on_ros1_side = present], outcome)

\* As a mutant: the flag is set and nothing recalculated.
SetHasComplementaryInZenoh_NoRecalc(r, b, present, outcome) ==
  [b EXCEPT !.required_on_zenoh_side = present]

SetHasComplementaryInZenoh(r, b, present, outcome) ==
  IF b.required_on_zenoh_side <=> present
  THEN b
  ELSE RecalcState(r, [b EXCEPT !.required_on_zenoh_side = present], outcome)

=============================================================================
