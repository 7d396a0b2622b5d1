--------------------------- MODULE MCTopicMapping ---------------------------
(* Small instances of TopicMapping. *)
EXTENDS TopicMapping, TLC

CONSTANTS topic, service, a, b, String, Int32, Bool

\* Subscriber and publisher may come back with another type.  The bridge has a
\* publisher of its own, of a third.
MCTypes ==
  (<<"subscriber", topic, a>> :> {String, Int32}) @@
  (<<"publisher", topic, a>> :> {String, Int32}) @@
  (<<"publisher", topic, Bridge>> :> {Bool}) @@
  (<<"service", service, a>> :> {String})

=============================================================================
