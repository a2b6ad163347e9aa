---------------------------- MODULE MCFridaAttach ---------------------------
(***************************************************************************)
(* Instances of FridaAttach for TLC.  The threads are interchangeable, and *)
(* so are the functions that can be hooked and the values of an override.  *)
(***************************************************************************)
EXTENDS FridaAttach

Symmetry == Permutations(Thread) \cup Permutations(Hookable) \cup Permutations(Value)

=============================================================================
