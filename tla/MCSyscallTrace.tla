--------------------------- MODULE MCSyscallTrace ---------------------------
(***************************************************************************)
(* Instances of SyscallTrace for TLC.                                      *)
(***************************************************************************)
EXTENDS SyscallTrace, TLC

\* Nothing tells the values apart.
Symmetry == Permutations(Value)

=============================================================================
