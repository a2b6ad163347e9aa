---------------------------- MODULE MCInterceptor ---------------------------
(***************************************************************************)
(* Instances of Interceptor for TLC.                                       *)
(***************************************************************************)
EXTENDS Interceptor, TLC

\* Threads are alike, and so are controllers.
Symmetry == Permutations(Thread) \cup Permutations(Controller)

=============================================================================
