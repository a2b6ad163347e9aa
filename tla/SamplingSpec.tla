---------------------------- MODULE SamplingSpec ----------------------------
(***************************************************************************)
(* What the sampling guard of the FreeProbe trampoline promises, with no   *)
(* machine code in sight: in every bucket the calls are numbered, and of   *)
(* each Rate consecutive ones the last, and only the last, takes the slow  *)
(* path through enter_thunk.                                               *)
(***************************************************************************)
EXTENDS Integers

CONSTANTS
  Bucket,     \* the counters of one function context
  Rate        \* GUM_SAMPLE_RATE

VARIABLES
  turn,       \* turn[b]: calls of b since its last sampled call
  hits        \* hits[b]: sampled calls of b

vars == <<turn, hits>>

Init ==
  /\ turn = [b \in Bucket |-> 0]
  /\ hits = [b \in Bucket |-> 0]

\* A call that is not the Rate-th takes the fast path.
Pass(b) ==
  /\ turn[b] + 1 < Rate
  /\ turn' = [turn EXCEPT ![b] = @ + 1]
  /\ UNCHANGED hits

\* The Rate-th call is sampled and the count starts over.
Sample(b) ==
  /\ turn[b] + 1 = Rate
  /\ turn' = [turn EXCEPT ![b] = 0]
  /\ hits' = [hits EXCEPT ![b] = @ + 1]

Next == \E b \in Bucket : Pass(b) \/ Sample(b)

Spec == Init /\ [][Next]_vars

=============================================================================
