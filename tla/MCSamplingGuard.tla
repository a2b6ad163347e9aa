--------------------------- MODULE MCSamplingGuard --------------------------
(***************************************************************************)
(* Instances of SamplingGuard for TLC.                                     *)
(***************************************************************************)
EXTENDS SamplingGuard, TLC

CONSTANTS t1, t2

\* Two threads whose ids are NumBuckets apart share a bucket.
CollidingPair == (t1 :> 1000) @@ (t2 :> 1000 + NumBuckets)

=============================================================================
