---------------------------- MODULE MCLifecycle ----------------------------
(* Small instances of Lifecycle. *)
EXTENDS Lifecycle

CONSTANTS p1, p2

MCPorts == {p1, p2}

=============================================================================
