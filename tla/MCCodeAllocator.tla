--------------------------- MODULE MCCodeAllocator --------------------------
(***************************************************************************)
(* Instances of CodeAllocator for TLC.                                     *)
(***************************************************************************)
EXTENDS CodeAllocator, TLC

CONSTANTS c1, c2, p1, p2

\* Two functions that are out of each other's reach.
FarApart == (c1 :> p1) @@ (c2 :> p2)

\* The controllers are alike.
Symmetry == Permutations(Controller)

=============================================================================
