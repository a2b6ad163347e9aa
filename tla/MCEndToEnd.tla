----------------------------- MODULE MCEndToEnd -----------------------------
(***************************************************************************)
(* Instances of EndToEnd for TLC.                                          *)
(***************************************************************************)
EXTENDS EndToEnd, TLC

CONSTANTS t1, t2, t3

\* Two threads whose ids are NumBuckets apart share a bucket; a third does not.
CollidingTids == (t1 :> 1000) @@ (t2 :> 1000 + NumBuckets) @@ (t3 :> 1001)

=============================================================================
