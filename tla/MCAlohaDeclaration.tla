------------------------- MODULE MCAlohaDeclaration -------------------------
(* Small instances of AlohaDeclaration. *)
EXTENDS AlohaDeclaration, TLC

CONSTANTS a, b, c

\* Each declaration in a session of its own.
MCApart == [d \in Declarers |-> d]

\* All of them are alike, and no property of a run names one.
MCSymmetry == Permutations(Declarers)

=============================================================================
