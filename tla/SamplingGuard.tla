---------------------------- MODULE SamplingGuard ---------------------------
(***************************************************************************)
(* The sampling guard that FreeProbe writes at the head of every           *)
(* on_enter_trampoline (gum/backend-x86/guminterceptor-x86.c), executed by *)
(* the threads of the instrumented process.                                *)
(*                                                                         *)
(* One function context is modelled: its 64 byte counters, and the threads *)
(* that run the guard against them.  The guard is not atomic.  It accesses *)
(* the counter in three separate instructions (movzx, mov, mov 0), so each *)
(* of them is an action; the register instructions in between are folded   *)
(* into the access they follow.  All accesses of a bucket go to one byte,  *)
(* for which x86 is coherent, so interleaving them is exact.               *)
(***************************************************************************)
EXTENDS Integers

CONSTANTS
  Thread,      \* threads that call the instrumented function
  Tid,         \* Tid[t]: the kernel thread id the guard reads at fs:[0x2d0]
  NumBuckets,  \* 64: the guard's mask 0x3f, plus one
  CounterMod,  \* 256: a counter is a guint8
  Rate,        \* GUM_SAMPLE_RATE
  MaxCalls     \* bound: no call is begun in a bucket that has counted so many

ASSUME TidAssumption == Tid \in [Thread -> Nat]
ASSUME NumBucketsAssumption == NumBuckets \in Nat \ {0}
ASSUME CounterModAssumption == CounterMod \in Nat \ {0}
\* ecx is loaded from a byte and incremented once: it never exceeds
\* CounterMod, so a larger rate would never be reached.
ASSUME RateAssumption == Rate \in 1..CounterMod
ASSUME MaxCallsAssumption == MaxCalls \in Nat

Bucket == 0..(NumBuckets - 1)

\* and edx, 0x3f
BucketOf(t) == Tid[t] % NumBuckets

VARIABLES
  pc,        \* where thread t is in the trampoline
  ecx,       \* thread t's counter register
  sampling_counters,   \* GumFunctionContext.sampling_counters
  calls,     \* history: calls counted, per bucket
  hits,      \* history: calls that took the slow path, per bucket
  overlap    \* history: two threads were in the guard of this bucket at once

vars == <<pc, ecx, sampling_counters, calls, hits, overlap>>

\* Between its load of the counter and its last store to it.
InGuard(t) == pc[t] \in {"count", "reset"}

Init ==
  /\ pc = [t \in Thread |-> "out"]
  /\ ecx = [t \in Thread |-> 0]
  /\ sampling_counters = [b \in Bucket |-> 0]
  /\ calls = [b \in Bucket |-> 0]
  /\ hits = [b \in Bucket |-> 0]
  /\ overlap = [b \in Bucket |-> FALSE]

-----------------------------------------------------------------------------
(* Mutants: what Count and Reset would be with a plausible slip in the      *)
(* hand-assembled bytes.  No behaviour of Spec uses them.                   *)

\* The incremented register is stored without being cut to a byte.
CountWide(t) ==
  /\ pc[t] = "count"
  /\ ecx' = [ecx EXCEPT ![t] = @ + 1]
  /\ sampling_counters' = [sampling_counters EXCEPT ![BucketOf(t)] = ecx[t] + 1]
  /\ calls' = [calls EXCEPT ![BucketOf(t)] = @ + 1]
  /\ pc' = [pc EXCEPT ![t] = IF ecx[t] + 1 < Rate THEN "fast" ELSE "reset"]
  /\ UNCHANGED <<hits, overlap>>

\* jle instead of jl.
CountOffByOne(t) ==
  /\ pc[t] = "count"
  /\ ecx' = [ecx EXCEPT ![t] = @ + 1]
  /\ sampling_counters' =
       [sampling_counters EXCEPT ![BucketOf(t)] = (ecx[t] + 1) % CounterMod]
  /\ calls' = [calls EXCEPT ![BucketOf(t)] = @ + 1]
  /\ pc' = [pc EXCEPT ![t] = IF ecx[t] + 1 <= Rate THEN "fast" ELSE "reset"]
  /\ hits' = [hits EXCEPT ![BucketOf(t)] = IF ecx[t] + 1 <= Rate THEN @ ELSE @ + 1]
  /\ UNCHANGED overlap

\* The index and value registers swapped in the reset's SIB byte.
ResetSwapped(t) ==
  /\ pc[t] = "reset"
  /\ sampling_counters' = [sampling_counters EXCEPT ![ecx[t] % NumBuckets] = 0]
  /\ pc' = [pc EXCEPT ![t] = "slow"]
  /\ UNCHANGED <<ecx, calls, hits, overlap>>

-----------------------------------------------------------------------------
\* The patched prologue jumps to on_enter_trampoline; the guard saves its
\* registers, computes the bucket and runs movzx ecx, byte [rax + rdx].
Load(t) ==
  LET b == BucketOf(t) IN
  /\ pc[t] = "out"
  /\ calls[b] < MaxCalls
  /\ ecx' = [ecx EXCEPT ![t] = sampling_counters[b]]
  /\ pc' = [pc EXCEPT ![t] = "count"]
  /\ overlap' = [overlap EXCEPT
       ![b] = @ \/ \E u \in Thread \ {t} : BucketOf(u) = b /\ InGuard(u)]
  /\ UNCHANGED <<sampling_counters, calls, hits>>

\* inc ecx; mov [rax + rdx], cl (the low byte only); cmp ecx, GUM_SAMPLE_RATE;
\* jl sampling_skip.  The compare is on the full register.
Count(t) ==
  LET b == BucketOf(t)
      n == ecx[t] + 1
  IN
  /\ pc[t] = "count"
  /\ ecx' = [ecx EXCEPT ![t] = n]
  /\ sampling_counters' = [sampling_counters EXCEPT ![b] = n % CounterMod]
  /\ calls' = [calls EXCEPT ![b] = @ + 1]
  /\ IF n < Rate
     THEN /\ pc' = [pc EXCEPT ![t] = "fast"]
          /\ UNCHANGED hits
     ELSE /\ pc' = [pc EXCEPT ![t] = "reset"]
          /\ hits' = [hits EXCEPT ![b] = @ + 1]
  /\ UNCHANGED overlap

\* mov byte [rax + rdx], 0; pop the registers; jmp enter_thunk.
Reset(t) ==
  /\ pc[t] = "reset"
  /\ sampling_counters' = [sampling_counters EXCEPT ![BucketOf(t)] = 0]
  /\ pc' = [pc EXCEPT ![t] = "slow"]
  /\ UNCHANGED <<ecx, calls, hits, overlap>>

\* sampling_skip: pop the registers, drop the pushed context pointer and
\* jmp invoke_trampoline, which runs the relocated prologue and the function.
FastPath(t) ==
  /\ pc[t] = "fast"
  /\ pc' = [pc EXCEPT ![t] = "out"]
  /\ UNCHANGED <<ecx, sampling_counters, calls, hits, overlap>>

\* enter_thunk and what follows it (module Interceptor); the call returns.
SlowPath(t) ==
  /\ pc[t] = "slow"
  /\ pc' = [pc EXCEPT ![t] = "out"]
  /\ UNCHANGED <<ecx, sampling_counters, calls, hits, overlap>>

\* The caller's loop is over: its bucket has counted MaxCalls calls.
Finished ==
  /\ \A t \in Thread : pc[t] = "out" /\ calls[BucketOf(t)] >= MaxCalls
  /\ UNCHANGED vars

Step(t) == Load(t) \/ Count(t) \/ Reset(t) \/ FastPath(t) \/ SlowPath(t)

Next == (\E t \in Thread : Step(t)) \/ Finished

Spec == Init /\ [][Next]_vars

-----------------------------------------------------------------------------
\* Every thread is in the guard and every counter is a byte.
TypeOK ==
  /\ pc \in [Thread -> {"out", "count", "fast", "reset", "slow"}]
  /\ ecx \in [Thread -> 0..CounterMod]
  /\ sampling_counters \in [Bucket -> 0..(CounterMod - 1)]
  /\ calls \in [Bucket -> Nat]
  /\ hits \in [Bucket -> Nat]
  /\ overlap \in [Bucket -> BOOLEAN]

\* The calls of bucket b since its last sampled one, as the guard will see
\* them: a thread that is about to reset the counter has already decided.
Turn(b) ==
  IF \E t \in Thread : BucketOf(t) = b /\ pc[t] = "reset"
  THEN 0
  ELSE sampling_counters[b]

\* A bucket in which no two threads were ever in the guard together samples
\* exactly one call in Rate, whatever the threads of the other buckets do and
\* however many threads take turns in this one.
SerialBucketsAreExact ==
  \A b \in Bucket :
    ~overlap[b] => /\ calls[b] = Rate * hits[b] + Turn(b)
                   /\ Turn(b) < Rate

\* However the threads of a bucket race, a counter at or above the rate is
\* about to be reset by one of them: once they have left the guard the bucket
\* is below the rate again, so the races cannot leave it sampling every call.
HighCounterIsBeingReset ==
  \A b \in Bucket :
    sampling_counters[b] >= Rate =>
      \E t \in Thread : BucketOf(t) = b /\ pc[t] = "reset"

\* Two threads in the guard of one bucket at once have been noticed.
AloneUnlessOverlap ==
  \A t, u \in Thread :
    t # u /\ InGuard(t) /\ InGuard(u) /\ BucketOf(t) = BucketOf(u)
      => overlap[BucketOf(t)]

\* Without an overlap, the register still agrees with the counter it came from.
RegisterIsFresh ==
  \A t \in Thread :
    pc[t] = "count" => /\ ecx[t] < CounterMod
                       /\ ~overlap[BucketOf(t)] => ecx[t] = sampling_counters[BucketOf(t)]

\* The inductive invariant.
IInv ==
  /\ TypeOK
  /\ AloneUnlessOverlap
  /\ RegisterIsFresh
  /\ SerialBucketsAreExact
  /\ HighCounterIsBeingReset

\* The buckets that no two threads share.
SoleBucket == {b \in Bucket : \A t, u \in Thread : BucketOf(t) = b /\ BucketOf(u) = b => t = u}

\* In these buckets the guard implements the abstract sampler, whatever races go
\* on in the others.
Abstract == INSTANCE SamplingSpec WITH
  Bucket <- SoleBucket,
  turn <- [b \in SoleBucket |-> Turn(b)],
  hits <- [b \in SoleBucket |-> hits[b]]

\* Every step of the guard is, for the buckets of one thread each, a call that
\* passes, the Rate-th call that is sampled, or invisible.
ImplementsSamplingSpec == Abstract!Spec

\* e2e/README.md: of GUM_SAMPLE_RATE calls only one goes through the whole
\* instrumentation.  Stated for a bucket, whichever threads share it.
OnlyOneInRate == \A b \in Bucket : hits[b] * Rate <= calls[b]

=============================================================================
