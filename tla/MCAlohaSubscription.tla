------------------------ MODULE MCAlohaSubscription ------------------------
(* Small instances of AlohaSubscription. *)
EXTENDS AlohaSubscription

CONSTANTS k1, k2

MCKeys == {k1, k2}

=============================================================================
