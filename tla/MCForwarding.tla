---------------------------- MODULE MCForwarding ----------------------------
(* Small instances of Forwarding. *)
EXTENDS Forwarding

CONSTANTS c1, c2

=============================================================================
