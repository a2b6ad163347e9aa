--------------------------- MODULE EndToEnd_proofs --------------------------
(***************************************************************************)
(* Proofs about SamplingGuard and EndToEnd, for every set of threads,      *)
(* every assignment of thread ids, every number of buckets, every counter  *)
(* width, every rate the counter can reach and every number of calls.  The *)
(* first part is about the guard in whatever program it is put into.  What *)
(* it shows holds in the test, of which the guard is a part; the rest is   *)
(* counting, from the guard's buckets to the number that the script reads. *)
(***************************************************************************)
EXTENDS EndToEnd, TLAPS, FiniteSetTheorems

-----------------------------------------------------------------------------
(* The guard alone.                                                        *)

\* The bucket that "and edx, 0x3f" selects is always one of the counters.
LEMMA BucketOfType == \A t \in Thread : BucketOf(t) \in Bucket
  BY TidAssumption, NumBucketsAssumption, SMT DEF BucketOf, Bucket

\* A stored counter is a byte, and a value that fits in it is stored as it is.
LEMMA ByteStore ==
  ASSUME NEW n \in Nat
  PROVE  /\ n % CounterMod \in 0..(CounterMod - 1)
         /\ n < CounterMod => n % CounterMod = n
  BY CounterModAssumption, SMT

\* One more sample accounts for Rate more calls.
LEMMA RateTimesSuccessor ==
  ASSUME NEW h \in Nat
  PROVE  Rate * (h + 1) = Rate * h + Rate /\ Rate * h \in Nat
  BY RateAssumption, CounterModAssumption, SMT

\* In the initial state nothing was called and every counter is zero.
LEMMA InitIInv == Init => IInv
<1> SUFFICES ASSUME Init PROVE IInv
  OBVIOUS
<1> USE BucketOfType DEF Init
<1>1. TypeOK
  BY CounterModAssumption DEF TypeOK
<1>2. AloneUnlessOverlap /\ RegisterIsFresh
  BY DEF AloneUnlessOverlap, RegisterIsFresh, InGuard
<1>3. SerialBucketsAreExact
  <2> SUFFICES ASSUME NEW b \in Bucket
               PROVE  calls[b] = Rate * hits[b] + Turn(b) /\ Turn(b) < Rate
    BY DEF SerialBucketsAreExact
  <2>1. Turn(b) = 0
    BY DEF Turn
  <2> QED
    BY <2>1, RateAssumption, CounterModAssumption
<1>4. HighCounterIsBeingReset
  BY RateAssumption, CounterModAssumption DEF HighCounterIsBeingReset
<1> QED
  BY <1>1, <1>2, <1>3, <1>4 DEF IInv

\* Every step of the guard preserves the inductive invariant.
LEMMA NextIInv == IInv /\ [Next]_vars => IInv'
<1> SUFFICES ASSUME IInv, [Next]_vars
             PROVE  IInv'
  OBVIOUS
<1> USE BucketOfType, RateAssumption, CounterModAssumption
<1>1. ASSUME NEW t \in Thread, Load(t)
      PROVE  IInv'
  <2> DEFINE b == BucketOf(t)
  <2> b \in Bucket
    OBVIOUS
  <2> HIDE DEF b
  <2> USE <1>1 DEF Load
  <2>1. TypeOK'
    BY DEF IInv, TypeOK, b
  <2>2. AloneUnlessOverlap'
    BY DEF IInv, TypeOK, AloneUnlessOverlap, InGuard, b
  <2>3. RegisterIsFresh'
    BY DEF IInv, TypeOK, RegisterIsFresh, b
  <2>4. ASSUME NEW c \in Bucket
        PROVE  Turn(c)' = Turn(c)
    BY DEF IInv, TypeOK, Turn
  <2>5. SerialBucketsAreExact'
    BY <2>4 DEF IInv, TypeOK, SerialBucketsAreExact, b
  <2>6. HighCounterIsBeingReset'
    BY DEF IInv, TypeOK, HighCounterIsBeingReset
  <2> QED
    BY <2>1, <2>2, <2>3, <2>5, <2>6 DEF IInv
<1>2. ASSUME NEW t \in Thread, Count(t)
      PROVE  IInv'
  <2> DEFINE b == BucketOf(t)
             n == ecx[t] + 1
  <2> b \in Bucket
    OBVIOUS
  <2>0. n \in Nat /\ n <= CounterMod
    BY <1>2 DEF Count, IInv, TypeOK, RegisterIsFresh
  <2>a. n % CounterMod \in 0..(CounterMod - 1) /\ (n < CounterMod => n % CounterMod = n)
    BY <2>0, ByteStore
  <2>b. /\ pc[t] = "count"
        /\ ecx' = [ecx EXCEPT ![t] = n]
        /\ sampling_counters' = [sampling_counters EXCEPT ![b] = n % CounterMod]
        /\ calls' = [calls EXCEPT ![b] = @ + 1]
        /\ \/ /\ n < Rate
              /\ pc' = [pc EXCEPT ![t] = "fast"]
              /\ UNCHANGED hits
           \/ /\ ~(n < Rate)
              /\ pc' = [pc EXCEPT ![t] = "reset"]
              /\ hits' = [hits EXCEPT ![b] = @ + 1]
        /\ UNCHANGED overlap
    BY <1>2 DEF Count
  <2> HIDE DEF b, n
  <2>1. TypeOK'
    BY <2>0, <2>a, <2>b DEF IInv, TypeOK
  <2>2. AloneUnlessOverlap'
    BY <2>b DEF IInv, TypeOK, AloneUnlessOverlap, InGuard
  <2>3. RegisterIsFresh'
    <3> SUFFICES ASSUME NEW u \in Thread, pc'[u] = "count"
                 PROVE  /\ ecx'[u] < CounterMod
                        /\ ~overlap'[BucketOf(u)] =>
                             ecx'[u] = sampling_counters'[BucketOf(u)]
      BY DEF RegisterIsFresh, BucketOf
    <3>1. u # t /\ pc[u] = "count" /\ ecx'[u] = ecx[u]
      BY <2>b DEF IInv, TypeOK
    <3>2. BucketOf(u) = b => overlap[b]
      BY <3>1, <2>b DEF IInv, AloneUnlessOverlap, InGuard, b
    <3> QED
      BY <3>1, <3>2, <2>b DEF IInv, TypeOK, RegisterIsFresh
  <2>4. SerialBucketsAreExact'
    <3> SUFFICES ASSUME NEW c \in Bucket, ~overlap'[c]
                 PROVE  calls'[c] = Rate * hits'[c] + Turn(c)' /\ Turn(c)' < Rate
      BY DEF SerialBucketsAreExact
    <3>1. CASE c # b
      <4>1. Turn(c)' = Turn(c)
        BY <3>1, <2>b DEF IInv, TypeOK, Turn, BucketOf, b
      <4> QED
        BY <3>1, <4>1, <2>b DEF IInv, TypeOK, SerialBucketsAreExact
    <3>2. CASE c = b
      <4>1. \A u \in Thread \ {t} : BucketOf(u) = b => ~InGuard(u)
        BY <3>2, <2>b DEF IInv, AloneUnlessOverlap, InGuard, b
      <4>2. Turn(b) = sampling_counters[b]
        BY <4>1, <2>b DEF Turn, InGuard
      <4>3. n = sampling_counters[b] + 1
        BY <3>2, <2>b DEF IInv, RegisterIsFresh, b, n
      <4>4. calls[b] = Rate * hits[b] + sampling_counters[b] /\ sampling_counters[b] < Rate
        BY <3>2, <4>2, <2>b DEF IInv, SerialBucketsAreExact
      <4>5. /\ calls[b] \in Nat /\ hits[b] \in Nat /\ sampling_counters[b] \in Nat
            /\ calls'[b] = calls[b] + 1
            /\ sampling_counters'[b] = n % CounterMod
        BY <2>b DEF IInv, TypeOK
      <4>6. CASE n < Rate
        <5>1. Turn(b)' = sampling_counters'[b]
          BY <4>1, <4>6, <2>b DEF IInv, TypeOK, Turn, InGuard, BucketOf
        <5>2. Turn(b)' = n /\ hits'[b] = hits[b]
          BY <5>1, <4>5, <4>6, <2>0, <2>a, <2>b
        <5> QED
          BY <5>2, <4>3, <4>4, <4>5, <4>6, <3>2, RateTimesSuccessor
      <4>7. CASE ~(n < Rate)
        <5>1. pc'[t] = "reset"
          BY <4>7, <2>b DEF IInv, TypeOK
        <5>2. Turn(b)' = 0
          BY <5>1 DEF Turn, BucketOf, b
        <5>3. n = Rate /\ hits'[b] = hits[b] + 1
          BY <4>3, <4>4, <4>5, <4>7, <2>b DEF IInv, TypeOK
        <5>4. /\ Rate * (hits[b] + 1) = Rate * hits[b] + Rate
              /\ Rate * hits[b] \in Nat
          BY <4>5, RateTimesSuccessor
        <5>5. calls'[b] = Rate * hits[b] + Rate
          <6> DEFINE p == Rate * hits[b]
          <6>1. p \in Nat /\ calls[b] = p + sampling_counters[b]
            BY <5>4, <4>4
          <6>2. Rate = sampling_counters[b] + 1
            BY <5>3, <4>3
          <6> HIDE DEF p
          <6>3. calls'[b] = p + Rate
            BY <6>1, <6>2, <4>5
          <6> QED
            BY <6>3 DEF p
        <5>6. Rate * hits'[b] = Rate * hits[b] + Rate
          BY <5>3, <5>4
        <5> QED
          BY <5>2, <5>5, <5>6, <5>4, <3>2
      <4> QED
        BY <4>6, <4>7
    <3> QED
      BY <3>1, <3>2
  <2>5. HighCounterIsBeingReset'
    <3> SUFFICES ASSUME NEW c \in Bucket, sampling_counters'[c] >= Rate
                 PROVE  \E u \in Thread : BucketOf(u) = c /\ pc'[u] = "reset"
      BY DEF HighCounterIsBeingReset, BucketOf
    <3>1. CASE c # b
      <4>1. PICK u \in Thread : BucketOf(u) = c /\ pc[u] = "reset"
        BY <3>1, <2>b DEF IInv, TypeOK, HighCounterIsBeingReset
      <4>2. u # t
        BY <4>1, <2>b
      <4> QED
        BY <4>1, <4>2, <2>b DEF IInv, TypeOK
    <3>2. CASE c = b
      <4>1. ~(n < Rate)
        BY <3>2, <2>0, <2>a, <2>b DEF IInv, TypeOK
      <4>2. pc'[t] = "reset"
        BY <4>1, <2>b DEF IInv, TypeOK
      <4> QED
        BY <4>2, <3>2 DEF b
    <3> QED
      BY <3>1, <3>2
  <2> QED
    BY <2>1, <2>2, <2>3, <2>4, <2>5 DEF IInv
<1>3. ASSUME NEW t \in Thread, Reset(t)
      PROVE  IInv'
  <2> DEFINE b == BucketOf(t)
  <2> b \in Bucket
    OBVIOUS
  <2>b. /\ pc[t] = "reset"
        /\ sampling_counters' = [sampling_counters EXCEPT ![b] = 0]
        /\ pc' = [pc EXCEPT ![t] = "slow"]
        /\ UNCHANGED <<ecx, calls, hits, overlap>>
    BY <1>3 DEF Reset
  <2> HIDE DEF b
  <2>1. TypeOK'
    BY <2>b DEF IInv, TypeOK
  <2>2. AloneUnlessOverlap'
    BY <2>b DEF IInv, TypeOK, AloneUnlessOverlap, InGuard
  <2>3. RegisterIsFresh'
    <3> SUFFICES ASSUME NEW u \in Thread, pc'[u] = "count"
                 PROVE  /\ ecx'[u] < CounterMod
                        /\ ~overlap'[BucketOf(u)] =>
                             ecx'[u] = sampling_counters'[BucketOf(u)]
      BY DEF RegisterIsFresh, BucketOf
    <3>1. u # t /\ pc[u] = "count"
      BY <2>b DEF IInv, TypeOK
    <3>2. BucketOf(u) = b => overlap[b]
      BY <3>1, <2>b DEF IInv, AloneUnlessOverlap, InGuard, b
    <3> QED
      BY <3>1, <3>2, <2>b DEF IInv, TypeOK, RegisterIsFresh
  <2>4. SerialBucketsAreExact'
    <3> SUFFICES ASSUME NEW c \in Bucket, ~overlap[c]
                 PROVE  Turn(c)' = Turn(c)
      BY <2>b DEF IInv, SerialBucketsAreExact
    <3>1. CASE c # b
      BY <3>1, <2>b DEF IInv, TypeOK, Turn, BucketOf, b
    <3>2. CASE c = b
      <4>1. Turn(b) = 0
        BY <2>b DEF Turn, b
      <4>2. sampling_counters'[b] = 0
        BY <2>b DEF IInv, TypeOK
      <4> QED
        BY <3>2, <4>1, <4>2 DEF Turn
    <3> QED
      BY <3>1, <3>2
  <2>5. HighCounterIsBeingReset'
    <3> SUFFICES ASSUME NEW c \in Bucket, sampling_counters'[c] >= Rate
                 PROVE  \E u \in Thread : BucketOf(u) = c /\ pc'[u] = "reset"
      BY DEF HighCounterIsBeingReset, BucketOf
    <3>1. c # b
      BY <2>b DEF IInv, TypeOK
    <3>2. PICK u \in Thread : BucketOf(u) = c /\ pc[u] = "reset"
      BY <3>1, <2>b DEF IInv, TypeOK, HighCounterIsBeingReset
    <3> QED
      BY <3>1, <3>2, <2>b DEF IInv, TypeOK, b
  <2> QED
    BY <2>1, <2>2, <2>3, <2>4, <2>5 DEF IInv
<1>4. ASSUME NEW t \in Thread, FastPath(t) \/ SlowPath(t)
      PROVE  IInv'
  <2>b. /\ pc[t] \in {"fast", "slow"}
        /\ pc' = [pc EXCEPT ![t] = "out"]
        /\ UNCHANGED <<ecx, sampling_counters, calls, hits, overlap>>
    BY <1>4 DEF FastPath, SlowPath
  <2>1. TypeOK'
    BY <2>b DEF IInv, TypeOK
  <2>2. AloneUnlessOverlap' /\ RegisterIsFresh'
    BY <2>b DEF IInv, TypeOK, AloneUnlessOverlap, RegisterIsFresh, InGuard
  <2>3. ASSUME NEW c \in Bucket
        PROVE  Turn(c)' = Turn(c)
    BY <2>b DEF IInv, TypeOK, Turn
  <2>4. SerialBucketsAreExact'
    BY <2>b, <2>3 DEF IInv, SerialBucketsAreExact
  <2>5. HighCounterIsBeingReset'
    BY <2>b DEF IInv, TypeOK, HighCounterIsBeingReset
  <2> QED
    BY <2>1, <2>2, <2>4, <2>5 DEF IInv
<1>5. CASE Finished \/ UNCHANGED vars
  BY <1>5 DEF Finished, vars, IInv, TypeOK, AloneUnlessOverlap, RegisterIsFresh,
              SerialBucketsAreExact, HighCounterIsBeingReset, InGuard, Turn, BucketOf
<1> QED
  BY <1>1, <1>2, <1>3, <1>4, <1>5 DEF Next, Step

\* The inductive invariant of the guard holds in every reachable state.
THEOREM GuardInvariant == Spec => []IInv
  BY InitIInv, NextIInv, PTL DEF Spec

\* A bucket that is never entered by two threads at once samples exactly one
\* call in Rate, for every rate the counter can reach.
THEOREM SerialExactness == Spec => []SerialBucketsAreExact
<1>1. IInv => SerialBucketsAreExact
  BY DEF IInv
<1> QED
  BY <1>1, GuardInvariant, PTL

\* Whatever the races, a counter at or above the rate is about to be reset.
THEOREM RacesHeal == Spec => []HighCounterIsBeingReset
<1>1. IInv => HighCounterIsBeingReset
  BY DEF IInv
<1> QED
  BY <1>1, GuardInvariant, PTL

\* In the buckets that no two threads share, the machine code of the guard
\* implements the abstract sampler: every step is a Pass, a Sample or invisible,
\* whatever the threads that share the other buckets do.
THEOREM GuardImplementsSampler == Spec => ImplementsSamplingSpec
<1> USE BucketOfType, RateAssumption, CounterModAssumption
<1> DEFINE NoOverlap == \A b \in SoleBucket : ~overlap[b]
           AbsTurn == [b \in SoleBucket |-> Turn(b)]
           AbsHits == [b \in SoleBucket |-> hits[b]]
<1>0. /\ SoleBucket \subseteq Bucket
      /\ \A t, u \in Thread : BucketOf(t) \in SoleBucket /\ BucketOf(u) = BucketOf(t) => u = t
  BY DEF SoleBucket
<1>1. Init => Abstract!Init
  BY <1>0 DEF Init, Abstract!Init, Turn
<1>2. IInv /\ NoOverlap /\ [Next]_vars => [Abstract!Next]_(Abstract!vars) /\ NoOverlap'
  <2> SUFFICES ASSUME IInv, \A b \in SoleBucket : ~overlap[b], [Next]_vars
               PROVE  /\ [Abstract!Next]_(Abstract!vars)
                      /\ \A b \in SoleBucket : ~overlap'[b]
    BY DEF SoleBucket, BucketOf, Bucket
  <2>1. ASSUME NEW t \in Thread, Load(t)
        PROVE  AbsTurn' = AbsTurn /\ AbsHits' = AbsHits /\ \A b \in SoleBucket : ~overlap'[b]
    <3>1. \A b \in Bucket : Turn(b)' = Turn(b)
      BY <2>1 DEF Load, IInv, TypeOK, Turn, BucketOf
    <3>2. \A b \in SoleBucket : ~overlap'[b]
      BY <1>0, <2>1 DEF Load, IInv, TypeOK
    <3> QED
      BY <1>0, <2>1, <3>1, <3>2 DEF Load, SoleBucket, BucketOf, Bucket
  <2>2. ASSUME NEW t \in Thread, Count(t)
        PROVE  /\ \/ BucketOf(t) \in SoleBucket
                     /\ (Abstract!Pass(BucketOf(t)) \/ Abstract!Sample(BucketOf(t)))
                  \/ AbsTurn' = AbsTurn /\ AbsHits' = AbsHits
               /\ \A b \in SoleBucket : ~overlap'[b]
    <3> DEFINE b == BucketOf(t)
               n == ecx[t] + 1
    <3> b \in Bucket
      OBVIOUS
    <3>b. /\ pc[t] = "count"
          /\ sampling_counters' = [sampling_counters EXCEPT ![b] = n % CounterMod]
          /\ \/ /\ n < Rate
                /\ pc' = [pc EXCEPT ![t] = "fast"]
                /\ UNCHANGED hits
             \/ /\ ~(n < Rate)
                /\ pc' = [pc EXCEPT ![t] = "reset"]
                /\ hits' = [hits EXCEPT ![b] = @ + 1]
          /\ UNCHANGED overlap
      BY <2>2 DEF Count
    <3>o. \A c \in SoleBucket : ~overlap'[c]
      BY <3>b
    <3>5. \A c \in Bucket \ {b} : Turn(c)' = Turn(c) /\ hits'[c] = hits[c]
      BY <3>b DEF IInv, TypeOK, Turn, BucketOf
    <3>s. SoleBucket' = SoleBucket
      BY DEF SoleBucket, BucketOf, Bucket
    <3>8. CASE b \notin SoleBucket
      <4>1. AbsTurn' = AbsTurn /\ AbsHits' = AbsHits
        BY <1>0, <3>5, <3>8, <3>s
      <4> QED
        BY <4>1, <3>o
    <3>9. CASE b \in SoleBucket
      <4>1. \A u \in Thread : BucketOf(u) = b => u = t
        BY <1>0, <3>9
      <4>2. Turn(b) = sampling_counters[b] /\ n = Turn(b) + 1
        BY <3>9, <4>1, <3>b DEF IInv, Turn, RegisterIsFresh
      <4>3. n \in Nat /\ n <= Rate
        BY <3>9, <4>2 DEF IInv, TypeOK, SerialBucketsAreExact
      <4>4. n < Rate => n % CounterMod = n
        BY <4>3, ByteStore
      <4> HIDE DEF n, b
      <4>6. CASE n < Rate
        <5>1. \A u \in Thread : BucketOf(u) = b => pc'[u] # "reset"
          BY <4>1, <4>6, <3>b DEF IInv, TypeOK
        <5>2. Turn(b)' = n
          BY <5>1, <4>4, <4>6, <3>b DEF IInv, TypeOK, Turn, BucketOf
        <5>3. AbsTurn' = [AbsTurn EXCEPT ![b] = @ + 1]
          BY <1>0, <5>2, <4>2, <3>5, <3>9, <3>s
        <5>4. AbsTurn[b] + 1 < Rate /\ AbsHits' = AbsHits
          BY <4>2, <4>6, <3>b, <3>9, <3>s
        <5>5. Abstract!Pass(b)
          BY <5>3, <5>4 DEF Abstract!Pass
        <5> QED
          BY <5>5, <3>9, <3>o DEF b
      <4>7. CASE ~(n < Rate)
        <5>1. pc'[t] = "reset"
          BY <4>7, <3>b DEF IInv, TypeOK
        <5>2. Turn(b)' = 0
          BY <5>1 DEF Turn, BucketOf, b
        <5>3. AbsTurn' = [AbsTurn EXCEPT ![b] = 0]
          BY <1>0, <5>2, <3>5, <3>9, <3>s
        <5>4. AbsTurn[b] + 1 = Rate
          BY <4>2, <4>3, <4>7, <3>9
        <5>5. hits'[b] = hits[b] + 1
          BY <4>7, <3>b DEF IInv, TypeOK
        <5>6. AbsHits' = [AbsHits EXCEPT ![b] = @ + 1]
          BY <1>0, <5>5, <3>5, <3>9, <3>s
        <5>7. Abstract!Sample(b)
          BY <5>3, <5>4, <5>6 DEF Abstract!Sample
        <5> QED
          BY <5>7, <3>9, <3>o DEF b
      <4> QED
        BY <4>6, <4>7
    <3> QED
      BY <3>8, <3>9
  <2>3. ASSUME NEW t \in Thread, Reset(t)
        PROVE  AbsTurn' = AbsTurn /\ AbsHits' = AbsHits /\ \A b \in SoleBucket : ~overlap'[b]
    <3>1. ASSUME NEW c \in Bucket
          PROVE  Turn(c)' = Turn(c) \/ c \notin SoleBucket
      <4>1. CASE c # BucketOf(t)
        BY <4>1, <2>3 DEF Reset, IInv, TypeOK, Turn, BucketOf
      <4>2. CASE c = BucketOf(t) /\ c \in SoleBucket
        <5>1. \A u \in Thread : BucketOf(u) = c => u = t
          BY <1>0, <4>2
        <5>2. Turn(c) = 0
          BY <4>2, <2>3 DEF Reset, Turn
        <5>3. sampling_counters'[c] = 0
          BY <4>2, <2>3 DEF Reset, IInv, TypeOK
        <5> QED
          BY <5>2, <5>3 DEF Turn
      <4> QED
        BY <4>1, <4>2
    <3> QED
      BY <1>0, <2>3, <3>1 DEF Reset, SoleBucket, BucketOf, Bucket
  <2>4. ASSUME NEW t \in Thread, FastPath(t) \/ SlowPath(t)
        PROVE  AbsTurn' = AbsTurn /\ AbsHits' = AbsHits /\ \A b \in SoleBucket : ~overlap'[b]
    <3>1. \A b \in Bucket : Turn(b)' = Turn(b)
      BY <2>4 DEF FastPath, SlowPath, IInv, TypeOK, Turn, BucketOf
    <3> QED
      BY <1>0, <2>4, <3>1 DEF FastPath, SlowPath, SoleBucket, BucketOf, Bucket
  <2>5. CASE Finished \/ UNCHANGED vars
    BY <2>5 DEF Finished, vars, Turn, BucketOf, Bucket, SoleBucket, Abstract!vars
  <2> QED
    BY <2>1, <2>2, <2>3, <2>4, <2>5 DEF Next, Step, Abstract!Next, Abstract!vars
<1>3. Init => NoOverlap
  BY <1>0 DEF Init
<1> HIDE DEF NoOverlap
<1> QED
  BY <1>1, <1>2, <1>3, GuardInvariant, PTL DEF Spec, ImplementsSamplingSpec, Abstract!Spec

-----------------------------------------------------------------------------
(* The guard in the test.                                                  *)

\* A step of the test is a step of the guard or leaves the guard alone.
LEMMA TestStepIsGuardStep == [TestNext]_allVars => [Next]_vars
<1> SUFFICES ASSUME [TestNext]_allVars
             PROVE  [Next]_vars
  OBVIOUS
<1>1. ASSUME NEW t \in Thread, GuardedCall(t) \/ Guard(t) \/ FastReturn(t) \/ Update(t)
      PROVE  Next
  BY <1>1 DEF GuardedCall, Guard, FastReturn, Update, Next, Step
<1>2. ASSUME NEW t \in Thread, PlainCall(t) \/ Lookup(t)
      PROVE  UNCHANGED vars
  BY <1>2 DEF PlainCall, Lookup, guardVars
<1>3. ASSUME Script \/ Observe \/ Exit \/ Over
      PROVE  UNCHANGED vars
  <2>1. CASE StartObserver \/ StartVictim \/ StopObserver \/ Judge
    BY <2>1 DEF StartObserver, StartVictim, StopObserver, Judge, guardVars
  <2>2. CASE Attach \/ Report
    BY <2>2 DEF Attach, Report, guardVars
  <2>3. CASE Exit \/ Over
    BY <2>3 DEF Exit, Over, allVars, guardVars
  <2> QED
    BY <1>3, <2>1, <2>2, <2>3 DEF Script, Observe
<1>4. CASE UNCHANGED allVars
  BY <1>4 DEF allVars, guardVars
<1> QED
  BY <1>1, <1>2, <1>3, <1>4 DEF TestNext, Work

\* The test is one of the programs the guard can be put into.
LEMMA TestIsGuarded == TestSpec => Spec
<1>1. TestInit => Init
  BY DEF TestInit
<1> QED
  BY <1>1, TestStepIsGuardStep, PTL DEF TestSpec, Spec

-----------------------------------------------------------------------------
(* Totals.                                                                 *)

\* A number and a name for every unit of a total.
LEMMA PairsMembers ==
  ASSUME NEW S, NEW f, \A x \in S : f[x] \in Nat
  PROVE  /\ Pairs(f, S) \subseteq S \X Nat
         /\ \A x \in S, n \in Nat : <<x, n>> \in Pairs(f, S) <=> n \in 1..f[x]
  BY DEF Pairs

\* Finitely many numbers have a total.
LEMMA TotalType ==
  ASSUME NEW S, IsFiniteSet(S), NEW f, \A x \in S : f[x] \in Nat
  PROVE  IsFiniteSet(Pairs(f, S)) /\ Total(f, S) \in Nat
<1> DEFINE slice == [x \in S |-> {x} \X (1..f[x])]
           slices == {{x} \X (1..f[x]) : x \in S}
<1>1. slice \in Surjection(S, slices)
  BY DEF Surjection
<1>2. IsFiniteSet(slices)
  BY <1>1, FS_Surjection
<1>3. ASSUME NEW T \in slices
      PROVE  IsFiniteSet(T)
  <2>1. PICK x \in S : T = {x} \X (1..f[x])
    OBVIOUS
  <2>2. IsFiniteSet({x})
    BY FS_Singleton
  <2>3. f[x] \in Int
    OBVIOUS
  <2>4. IsFiniteSet(1..f[x])
    BY <2>3, FS_Interval
  <2> QED
    BY <2>1, <2>2, <2>4, FS_Product
<1>4. IsFiniteSet(UNION slices)
  BY <1>2, <1>3, FS_UNION
<1>5. IsFiniteSet(Pairs(f, S))
  BY <1>4 DEF Pairs
<1> QED
  BY <1>5, FS_CardinalityType DEF Total

\* A total depends on the numbers that are added up only.
LEMMA TotalSame ==
  ASSUME NEW S, NEW f, NEW g, \A x \in S : f[x] = g[x]
  PROVE  Total(f, S) = Total(g, S)
<1>1. Pairs(f, S) = Pairs(g, S)
  BY DEF Pairs
<1> QED
  BY <1>1 DEF Total

\* One more in one place is one more in all.
LEMMA TotalStep ==
  ASSUME NEW S, IsFiniteSet(S), NEW f, NEW g, NEW x \in S,
         \A y \in S : f[y] \in Nat,
         \A y \in S : g[y] = IF y = x THEN f[y] + 1 ELSE f[y]
  PROVE  Total(g, S) = Total(f, S) + 1
<1> DEFINE p == <<x, f[x] + 1>>
<1>1. \A y \in S : g[y] \in Nat
  OBVIOUS
<1>2. p \notin Pairs(f, S)
  BY PairsMembers
<1>3. Pairs(g, S) = Pairs(f, S) \cup {p}
  <2>1. Pairs(g, S) \subseteq S \X Nat /\ Pairs(f, S) \subseteq S \X Nat /\ p \in S \X Nat
    BY <1>1, PairsMembers
  <2>2. ASSUME NEW y \in S, NEW n \in Nat
        PROVE  <<y, n>> \in Pairs(g, S) <=> <<y, n>> \in Pairs(f, S) \/ <<y, n>> = p
    <3>1. /\ <<y, n>> \in Pairs(g, S) <=> n \in 1..g[y]
          /\ <<y, n>> \in Pairs(f, S) <=> n \in 1..f[y]
      BY <1>1, PairsMembers
    <3>2. CASE y = x
      BY <3>1, <3>2
    <3>3. CASE y # x
      BY <3>1, <3>3
    <3> QED
      BY <3>2, <3>3
  <2> HIDE DEF p
  <2>3. ASSUME NEW q \in S \X Nat
        PROVE  q \in Pairs(g, S) <=> q \in Pairs(f, S) \cup {p}
    BY <2>2
  <2> QED
    BY <2>1, <2>3
<1> HIDE DEF p
<1> QED
  BY <1>2, <1>3, TotalType, FS_AddElement DEF Total

\* The same number everywhere is a product.
LEMMA TotalProduct ==
  ASSUME NEW S, IsFiniteSet(S), NEW f, NEW n \in Nat, \A x \in S : f[x] = n
  PROVE  Total(f, S) = n * Cardinality(S)
<1>1. Pairs(f, S) = S \X (1..n)
  BY DEF Pairs
<1>2. IsFiniteSet(1..n) /\ Cardinality(1..n) = n
  <2>1. Cardinality(1..n) = IF 1 > n THEN 0 ELSE n - 1 + 1
    BY FS_Interval
  <2> QED
    BY <2>1, FS_Interval
<1>3. Cardinality(S) \in Nat
  BY FS_CardinalityType
<1>4. Cardinality(S \X (1..n)) = Cardinality(S) * n
  BY <1>2, FS_Product
<1> QED
  BY <1>1, <1>3, <1>4 DEF Total

-----------------------------------------------------------------------------
(* The inductive invariant.                                                *)

\* The calls of a thread that the guard has counted.
Counted ==
  [t \in Thread |-> IF pc[t] \in {"fast", "reset", "slow"} THEN made[t] + 1 ELSE made[t]]

\* The threads whose call is sampled and whose program has not ended.
Ahead == {t \in Thread : pc[t] \in {"reset", "slow"}}

\* What the test's own variables may be.
TestType ==
  /\ made \in [Thread -> Nat] /\ \A t \in Thread : made[t] <= PerThread
  /\ v \in [Thread -> Nat \cup {None}]
  /\ sample_counter \in Nat
  /\ OBSERVED \in {None, TotalCalls}
  /\ HITS \in Nat \cup {None}
  /\ lost \in BOOLEAN

\* What each process can have done, given where the others are.
StagesAgree ==
  /\ \A t \in Thread : pc[t] # "out" => victim = "running" /\ instrumented /\ made[t] < PerThread
  /\ \A t \in Thread : v[t] # None => pc[t] = "slow"
  /\ victim = "off" => ~instrumented
  /\ script \in {"observer", "sleep"} => victim = "off"
  /\ victim = "exited" => \A t \in Thread : made[t] = PerThread
  /\ OBSERVED # None => victim = "exited"
  /\ exiting => victim = "exited"
  /\ HITS # None => victim = "exited" /\ HITS = sample_counter
  /\ script = "PASS" => HITS # None /\ OBSERVED = TotalCalls /\ Within(HITS, OBSERVED)
  /\ ~instrumented => sample_counter = 0

\* The guard counts every call of an instrumented victim in its thread's bucket.
CallsAreCounted ==
  instrumented \/ victim = "off" => \A b \in Bucket : calls[b] = Total(Counted, ThreadsOf(b))

\* A map that says n, with a sampled calls under way of h in all, the programs'
\* registers w, and l if two programs were ever under way at once.
CounterOK(n, a, h, w, l) ==
  /\ n + a <= h
  /\ \A t \in Thread : w[t] # None => w[t] + a <= h
  /\ ~l => /\ n + a = h
           /\ \A t \in Thread : w[t] # None => w[t] = n
           /\ \A t, u \in Thread : w[t] # None /\ w[u] # None => t = u

TestInv ==
  /\ IInv /\ TestType /\ StagesAgree /\ CallsAreCounted
  /\ CounterOK(sample_counter, Cardinality(Ahead), HitsOf(Bucket), v, lost)

\* There are finitely many buckets and threads.
LEMMA FiniteSetsOfTest ==
  /\ IsFiniteSet(Bucket)
  /\ \A b : IsFiniteSet(ThreadsOf(b))
  /\ \A T \in SUBSET Thread : IsFiniteSet(T) /\ Cardinality(T) \in Nat
<1>1. NumBuckets - 1 \in Int
  BY NumBucketsAssumption
<1>2. IsFiniteSet(Bucket)
  BY <1>1, FS_Interval DEF Bucket
<1>3. \A T \in SUBSET Thread : IsFiniteSet(T)
  BY ThreadAssumption, FS_Subset
<1>4. \A T \in SUBSET Thread : Cardinality(T) \in Nat
  BY <1>3, FS_CardinalityType
<1>5. \A b : ThreadsOf(b) \in SUBSET Thread
  BY DEF ThreadsOf
<1> QED
  BY <1>2, <1>3, <1>4, <1>5

\* Every thread has a number of calls to make.
LEMMA PerThreadType == PerThread \in Nat
<1>1. Cardinality(Thread) \in Nat /\ Cardinality(Thread) # 0
  BY FiniteSetsOfTest, ThreadAssumption, FS_EmptySet
<1>2. \A n \in Nat, k \in Nat : k # 0 => n \div k \in Nat
  OBVIOUS
<1> QED
  BY <1>1, <1>2, TotalCallsAssumption DEF PerThread

\* Nothing has been called when the test begins.
LEMMA TestInitInv == TestInit => TestInv
<1> SUFFICES ASSUME TestInit PROVE TestInv
  OBVIOUS
<1>1. IInv
  BY InitIInv DEF TestInit
<1>2. TestType
  <2>1. 0 <= PerThread
    BY PerThreadType
  <2> QED
    BY <2>1 DEF TestInit, TestType
<1>3. StagesAgree
  BY DEF TestInit, Init, StagesAgree, None
<1>4. CallsAreCounted
  <2> SUFFICES ASSUME NEW b \in Bucket
               PROVE  calls[b] = Total(Counted, ThreadsOf(b))
    BY DEF CallsAreCounted
  <2>1. \A t \in ThreadsOf(b) : Counted[t] = 0
    BY DEF TestInit, Init, Counted, ThreadsOf
  <2>2. Total(Counted, ThreadsOf(b)) = 0 * Cardinality(ThreadsOf(b))
    BY <2>1, FiniteSetsOfTest, TotalProduct
  <2>3. Cardinality(ThreadsOf(b)) \in Nat
    BY FiniteSetsOfTest, FS_CardinalityType
  <2> QED
    BY <2>2, <2>3 DEF TestInit, Init
<1>5. CounterOK(sample_counter, Cardinality(Ahead), HitsOf(Bucket), v, lost)
  <2>1. HitsOf(Bucket) = 0 * Cardinality(Bucket)
    BY FiniteSetsOfTest, TotalProduct DEF HitsOf, TestInit, Init
  <2>2. Cardinality(Bucket) \in Nat
    BY FiniteSetsOfTest, FS_CardinalityType
  <2>3. Ahead = {}
    BY DEF Ahead, TestInit, Init
  <2>4. Cardinality(Ahead) = 0
    BY <2>3, FS_EmptySet
  <2>5. HitsOf(Bucket) = 0
    BY <2>1, <2>2
  <2>6. sample_counter = 0 /\ \A t \in Thread : v[t] = None
    BY DEF TestInit
  <2> QED
    BY <2>4, <2>5, <2>6 DEF CounterOK
<1> QED
  BY <1>1, <1>2, <1>3, <1>4, <1>5 DEF TestInv

-----------------------------------------------------------------------------
(* The processes' steps.                                                   *)

\* The script, the observer and main do not touch what the threads count.
LEMMA ProcessStepInv ==
  ASSUME TestInv, Script \/ Observe \/ Exit \/ UNCHANGED allVars
  PROVE  TestType' /\ StagesAgree' /\ CallsAreCounted'
         /\ CounterOK(sample_counter, Cardinality(Ahead), HitsOf(Bucket), v, lost)'
<1> USE DEF TestInv
<1>1. UNCHANGED <<pc, calls, hits, made, v, sample_counter, lost>>
  <2>1. CASE StartObserver \/ StartVictim \/ StopObserver \/ Judge
    BY <2>1 DEF StartObserver, StartVictim, StopObserver, Judge, guardVars, vars
  <2>2. CASE Attach \/ Report \/ Exit
    BY <2>2 DEF Attach, Report, Exit, guardVars, vars
  <2>3. CASE UNCHANGED allVars
    BY <2>3 DEF allVars, guardVars, vars, testVars
  <2> QED
    BY <2>1, <2>2, <2>3 DEF Script, Observe
<1>2. Counted' = Counted /\ Ahead' = Ahead /\ HitsOf(Bucket)' = HitsOf(Bucket)
  BY <1>1 DEF Counted, Ahead, HitsOf, BucketOf
<1>3. CounterOK(sample_counter, Cardinality(Ahead), HitsOf(Bucket), v, lost)'
  BY <1>1, <1>2
<1>4. TestType' /\ StagesAgree' /\ (instrumented' \/ victim' = "off" => instrumented \/ victim = "off")
  <2> USE <1>1 DEF TestType
  <2>1. CASE StartObserver
    BY <2>1 DEF StartObserver, StagesAgree
  <2>2. CASE StartVictim
    <3>1. victim = "off" /\ ~instrumented /\ victim' = "running" /\ script' = "victim"
      BY <2>2 DEF StartVictim, StagesAgree
    <3>2. UNCHANGED <<exiting, OBSERVED, HITS>>
      BY <2>2 DEF StartVictim
    <3>3. ~exiting /\ OBSERVED = None /\ HITS = None /\ sample_counter = 0 /\ \A t \in Thread : pc[t] = "out"
      BY <3>1 DEF StagesAgree
    <3>4. StagesAgree'
      BY <3>1, <3>2, <3>3 DEF StagesAgree
    <3> QED
      BY <3>1, <3>2, <3>4
  <2>3. CASE StopObserver
    BY <2>3 DEF StopObserver, StagesAgree
  <2>4. CASE Judge
    BY <2>4 DEF Judge, StagesAgree
  <2>5. CASE Attach
    BY <2>5 DEF Attach, StagesAgree
  <2>6. CASE Report
    BY <2>6 DEF Report, StagesAgree
  <2>7. CASE Exit
    BY <2>7 DEF Exit, StagesAgree
  <2>8. CASE UNCHANGED allVars
    BY <2>8 DEF allVars, testVars, StagesAgree
  <2> QED
    BY <2>1, <2>2, <2>3, <2>4, <2>5, <2>6, <2>7, <2>8 DEF Script, Observe
<1>5. CallsAreCounted'
  BY <1>1, <1>2, <1>4 DEF CallsAreCounted, ThreadsOf
<1> QED
  BY <1>3, <1>4, <1>5

-----------------------------------------------------------------------------
(* The threads' steps.                                                     *)

\* What a thread does leaves the processes where they are.
LEMMA ThreadStages ==
  ASSUME TestInv, NEW t \in Thread, UNCHANGED callOnly, victim = "running",
         \A u \in Thread : u # t => UNCHANGED <<pc[u], made[u], v[u]>>,
         pc'[t] # "out" => instrumented' /\ made'[t] < PerThread,
         v'[t] # None => pc'[t] = "slow",
         ~instrumented => sample_counter' = 0
  PROVE  StagesAgree'
<1>1. OBSERVED = None /\ ~exiting /\ HITS = None /\ script # "PASS"
  BY DEF TestInv, StagesAgree
<1>2. UNCHANGED <<script, exiting, victim, instrumented, OBSERVED, HITS>>
  BY DEF callOnly
<1>3. \A u \in Thread : pc'[u] # "out" => instrumented' /\ made'[u] < PerThread
  BY <1>2 DEF TestInv, StagesAgree
<1>4. \A u \in Thread : v'[u] # None => pc'[u] = "slow"
  BY DEF TestInv, StagesAgree
<1>5. script \in {"observer", "sleep"} => victim = "off"
  BY DEF TestInv, StagesAgree
<1> QED
  BY <1>1, <1>2, <1>3, <1>4, <1>5 DEF StagesAgree

\* A thread that has not decided, or whose decision stays, changes no total.
LEMMA TotalsStay ==
  ASSUME TestInv, UNCHANGED <<calls, hits, victim, instrumented>>,
         \A u \in Thread : Counted'[u] = Counted[u]
  PROVE  CallsAreCounted' /\ HitsOf(Bucket)' = HitsOf(Bucket)
<1>1. Counted' = Counted
  BY DEF Counted
<1> QED
  BY <1>1 DEF TestInv, CallsAreCounted, HitsOf, ThreadsOf, BucketOf

\* A call of a victim that is not instrumented.
LEMMA PlainCallInv ==
  ASSUME TestInv, NEW t \in Thread, PlainCall(t)
  PROVE  TestType' /\ StagesAgree' /\ CallsAreCounted'
         /\ CounterOK(sample_counter, Cardinality(Ahead), HitsOf(Bucket), v, lost)'
<1>1. /\ victim = "running" /\ made[t] < PerThread /\ ~instrumented
      /\ made' = [made EXCEPT ![t] = @ + 1]
      /\ UNCHANGED <<pc, calls, hits, v, sample_counter, lost, callOnly>>
  BY DEF PlainCall, Calling, Returns, guardVars, vars
<1>2. TestType /\ UNCHANGED <<victim, instrumented, OBSERVED, HITS>>
  BY <1>1 DEF TestInv, callOnly
<1>3. TestType'
  BY <1>1, <1>2, PerThreadType DEF TestType
<1>4. \A u \in Thread : u # t => UNCHANGED <<pc[u], made[u], v[u]>>
  BY <1>1, <1>2 DEF TestType
<1>5. pc[t] = "out" /\ v[t] = None /\ sample_counter = 0
  BY <1>1 DEF TestInv, StagesAgree
<1>6. StagesAgree'
  BY <1>1, <1>4, <1>5, ThreadStages
<1>7. CallsAreCounted'
  BY <1>1, <1>2 DEF CallsAreCounted
<1>8. Ahead' = Ahead /\ HitsOf(Bucket)' = HitsOf(Bucket)
  BY <1>1 DEF Ahead, HitsOf
<1>9. CounterOK(sample_counter, Cardinality(Ahead), HitsOf(Bucket), v, lost)'
  BY <1>1, <1>8 DEF TestInv
<1> QED
  BY <1>3, <1>6, <1>7, <1>9

\* The load of the counter, the reset and the end of the fast path.
LEMMA QuietGuardInv ==
  ASSUME TestInv, NEW t \in Thread,
         GuardedCall(t) \/ (Guard(t) /\ Reset(t)) \/ FastReturn(t)
  PROVE  TestType' /\ StagesAgree' /\ CallsAreCounted'
         /\ CounterOK(sample_counter, Cardinality(Ahead), HitsOf(Bucket), v, lost)'
<1>0. TestType /\ pc \in [Thread -> {"out", "count", "fast", "reset", "slow"}]
  BY DEF TestInv, IInv, TypeOK
<1>1. UNCHANGED <<calls, hits, v, sample_counter, lost, callOnly>>
  BY DEF GuardedCall, Guard, FastReturn, Load, Reset, FastPath
<1>2. \/ /\ pc[t] = "out" /\ pc' = [pc EXCEPT ![t] = "count"]
         /\ victim = "running" /\ instrumented /\ made[t] < PerThread /\ made' = made
      \/ pc[t] = "reset" /\ pc' = [pc EXCEPT ![t] = "slow"] /\ made' = made
      \/ pc[t] = "fast" /\ pc' = [pc EXCEPT ![t] = "out"] /\ made' = [made EXCEPT ![t] = @ + 1]
  BY DEF GuardedCall, Guard, FastReturn, Load, Reset, FastPath, Calling, Returns
<1>3. victim = "running" /\ instrumented /\ made[t] < PerThread
  BY <1>2 DEF TestInv, StagesAgree
<1>4. UNCHANGED <<victim, instrumented, OBSERVED, HITS>>
  BY <1>1 DEF callOnly
<1>5. v[t] # None => pc[t] = "slow"
  BY DEF TestInv, StagesAgree
<1>6. TestType'
  BY <1>0, <1>1, <1>2, <1>3, <1>4, PerThreadType DEF TestType
<1>7. \A u \in Thread : u # t => UNCHANGED <<pc[u], made[u], v[u]>>
  BY <1>0, <1>1, <1>2 DEF TestType
<1>8. StagesAgree'
  <2>1. pc'[t] # "out" => made'[t] < PerThread
    BY <1>0, <1>2, <1>3
  <2>2. v'[t] = None
    BY <1>1, <1>2, <1>5
  <2> QED
    BY <1>1, <1>3, <1>4, <1>7, <2>1, <2>2, ThreadStages
<1>9. \A u \in Thread : Counted'[u] = Counted[u]
  <2> TAKE u \in Thread
  <2>1. CASE u # t
    BY <1>7, <2>1 DEF Counted
  <2>2. CASE u = t
    BY <1>0, <1>2, <2>2 DEF Counted, TestType
  <2> QED
    BY <2>1, <2>2
<1>10. CallsAreCounted' /\ HitsOf(Bucket)' = HitsOf(Bucket)
  BY <1>1, <1>4, <1>9, TotalsStay
<1>11. Ahead' = Ahead
  BY <1>0, <1>2, <1>7 DEF Ahead
<1>12. CounterOK(sample_counter, Cardinality(Ahead), HitsOf(Bucket), v, lost)'
  BY <1>1, <1>10, <1>11 DEF TestInv
<1> QED
  BY <1>6, <1>8, <1>10, <1>12

\* The program reads the counter.
LEMMA LookupInv ==
  ASSUME TestInv, NEW t \in Thread, Lookup(t)
  PROVE  TestType' /\ StagesAgree' /\ CallsAreCounted'
         /\ CounterOK(sample_counter, Cardinality(Ahead), HitsOf(Bucket), v, lost)'
<1>1. /\ pc[t] = "slow" /\ v[t] = None /\ v' = [v EXCEPT ![t] = sample_counter]
      /\ lost' = (lost \/ \E u \in Thread : v[u] # None)
      /\ UNCHANGED <<pc, calls, hits, made, sample_counter, callOnly>>
  BY DEF Lookup, guardVars, vars
<1>2. UNCHANGED <<victim, instrumented, OBSERVED, HITS>>
  BY <1>1 DEF callOnly
<1>3. TestType
  BY DEF TestInv
<1>4. TestType'
  BY <1>1, <1>2, <1>3 DEF TestType
<1>5. victim = "running" /\ instrumented /\ made[t] < PerThread
  BY <1>1 DEF TestInv, StagesAgree
<1>6. \A u \in Thread : u # t => UNCHANGED <<pc[u], made[u], v[u]>>
  BY <1>1, <1>3 DEF TestType
<1>7. StagesAgree'
  BY <1>1, <1>2, <1>5, <1>6, ThreadStages
<1>8. \A u \in Thread : Counted'[u] = Counted[u]
  BY <1>1 DEF Counted
<1>9. CallsAreCounted' /\ HitsOf(Bucket)' = HitsOf(Bucket)
  BY <1>1, <1>2, <1>8, TotalsStay
<1>10. Ahead' = Ahead
  BY <1>1 DEF Ahead
<1> DEFINE n == sample_counter
           a == Cardinality(Ahead)
           h == HitsOf(Bucket)
<1>11. CounterOK(n, a, h, v, lost)
  BY DEF TestInv
<1>12. v'[t] = n /\ \A u \in Thread : u # t => v'[u] = v[u]
  BY <1>1, <1>3 DEF TestType
<1> HIDE DEF n, a, h
<1>13. CounterOK(n, a, h, v', lost')
  <2>1. \A u \in Thread : v'[u] # None => v'[u] + a <= h
    BY <1>11, <1>12 DEF CounterOK
  <2>2. ~lost' => ~lost /\ \A u \in Thread : v[u] = None
    BY <1>1
  <2>3. ~lost' => n + a = h /\ \A u \in Thread : v'[u] # None => u = t
    BY <2>2, <1>11, <1>12 DEF CounterOK
  <2>4. n + a <= h
    BY <1>11 DEF CounterOK
  <2> QED
    BY <2>1, <2>3, <2>4, <1>12 DEF CounterOK
<1>14. CounterOK(sample_counter, Cardinality(Ahead), HitsOf(Bucket), v, lost)'
  BY <1>1, <1>9, <1>10, <1>13 DEF n, a, h
<1> QED
  BY <1>4, <1>7, <1>9, <1>14

\* The program writes the counter, and the call returns.
LEMMA UpdateInv ==
  ASSUME TestInv, NEW t \in Thread, Update(t)
  PROVE  TestType' /\ StagesAgree' /\ CallsAreCounted'
         /\ CounterOK(sample_counter, Cardinality(Ahead), HitsOf(Bucket), v, lost)'
<1>0. TestType /\ pc \in [Thread -> {"out", "count", "fast", "reset", "slow"}]
  BY DEF TestInv, IInv, TypeOK
<1>1. /\ v[t] # None /\ sample_counter' = v[t] + 1 /\ v' = [v EXCEPT ![t] = None]
      /\ pc[t] = "slow" /\ pc' = [pc EXCEPT ![t] = "out"]
      /\ made' = [made EXCEPT ![t] = @ + 1]
      /\ UNCHANGED <<calls, hits, lost, callOnly>>
  BY DEF Update, SlowPath, Returns
<1>2. UNCHANGED <<victim, instrumented, OBSERVED, HITS>>
  BY <1>1 DEF callOnly
<1>3. victim = "running" /\ instrumented /\ made[t] < PerThread
  BY <1>1 DEF TestInv, StagesAgree
<1>4. v[t] \in Nat
  BY <1>0, <1>1 DEF TestType
<1>5. TestType'
  BY <1>0, <1>1, <1>2, <1>3, <1>4, PerThreadType DEF TestType
<1>6. \A u \in Thread : u # t => UNCHANGED <<pc[u], made[u], v[u]>>
  BY <1>0, <1>1 DEF TestType
<1>7. pc'[t] = "out" /\ v'[t] = None
  BY <1>0, <1>1 DEF TestType
<1>8. StagesAgree'
  BY <1>1, <1>3, <1>6, <1>7, ThreadStages
<1>9. \A u \in Thread : Counted'[u] = Counted[u]
  <2> TAKE u \in Thread
  <2>1. CASE u # t
    BY <1>6, <2>1 DEF Counted
  <2>2. CASE u = t
    BY <1>0, <1>1, <2>2 DEF Counted, TestType
  <2> QED
    BY <2>1, <2>2
<1>10. CallsAreCounted' /\ HitsOf(Bucket)' = HitsOf(Bucket)
  BY <1>1, <1>2, <1>9, TotalsStay
<1>11. Ahead' = Ahead \ {t} /\ t \in Ahead /\ Ahead \in SUBSET Thread
  BY <1>1, <1>6, <1>7 DEF Ahead
<1>12. Cardinality(Ahead') = Cardinality(Ahead) - 1
  BY <1>11, FiniteSetsOfTest, FS_RemoveElement
<1> DEFINE n == sample_counter
           a == Cardinality(Ahead)
           h == HitsOf(Bucket)
<1>13. CounterOK(n, a, h, v, lost) /\ a \in Nat /\ n \in Nat
  BY <1>0, <1>11, FiniteSetsOfTest DEF TestInv, TestType
<1>14. h \in Nat
  <2>1. hits \in [Bucket -> Nat]
    BY DEF TestInv, IInv, TypeOK
  <2> QED
    BY <2>1, FiniteSetsOfTest, TotalType DEF HitsOf
<1> HIDE DEF n, a, h
<1>15. CounterOK(v[t] + 1, a - 1, h, v', lost)
  <2>1. \A u \in Thread : v'[u] # None => u # t /\ v'[u] = v[u] /\ v[u] \in Nat
    BY <1>0, <1>6, <1>7 DEF TestType
  <2>2. \A u \in Thread : v'[u] # None => v'[u] + (a - 1) <= h
    <3>1. \A u \in Thread : v'[u] # None => v[u] + a <= h
      BY <2>1, <1>13 DEF CounterOK
    <3>2. \A k \in Nat : k + a <= h => k + (a - 1) <= h
      BY <1>13, <1>14
    <3> QED
      BY <2>1, <3>1, <3>2
  <2>3. v[t] + 1 + (a - 1) <= h
    <3>1. v[t] + a <= h
      BY <1>1, <1>13 DEF CounterOK
    <3> QED
      BY <1>4, <1>13, <3>1
  <2>4. ~lost => v[t] + 1 + (a - 1) = h /\ \A u \in Thread : v'[u] = None
    <3>1. ~lost => n + a = h /\ v[t] = n /\ \A u \in Thread : v[u] # None => u = t
      BY <1>1, <1>13 DEF CounterOK
    <3> QED
      BY <1>4, <1>13, <2>1, <3>1
  <2> QED
    BY <2>2, <2>3, <2>4 DEF CounterOK
<1>16. CounterOK(sample_counter, Cardinality(Ahead), HitsOf(Bucket), v, lost)'
  BY <1>1, <1>10, <1>12, <1>15 DEF n, a, h
<1> QED
  BY <1>5, <1>8, <1>10, <1>16

\* The guard counts a call, and decides whether to sample it.
LEMMA CountInv ==
  ASSUME TestInv, NEW t \in Thread, Guard(t), Count(t)
  PROVE  TestType' /\ StagesAgree' /\ CallsAreCounted'
         /\ CounterOK(sample_counter, Cardinality(Ahead), HitsOf(Bucket), v, lost)'
<1> DEFINE b == BucketOf(t)
<1>0. /\ TestType /\ pc \in [Thread -> {"out", "count", "fast", "reset", "slow"}]
      /\ calls \in [Bucket -> Nat] /\ hits \in [Bucket -> Nat] /\ b \in Bucket
  BY BucketOfType DEF TestInv, IInv, TypeOK
<1>1. /\ UNCHANGED <<made, v, sample_counter, lost, callOnly>>
      /\ pc[t] = "count" /\ calls' = [calls EXCEPT ![b] = @ + 1]
      /\ \/ pc' = [pc EXCEPT ![t] = "fast"] /\ hits' = hits
         \/ pc' = [pc EXCEPT ![t] = "reset"] /\ hits' = [hits EXCEPT ![b] = @ + 1]
  BY DEF Guard, Count
<1> HIDE DEF b
<1>2. UNCHANGED <<victim, instrumented, OBSERVED, HITS>>
  BY <1>1 DEF callOnly
<1>3. victim = "running" /\ instrumented /\ made[t] < PerThread /\ v[t] = None
  BY <1>1 DEF TestInv, StagesAgree
<1>4. TestType'
  BY <1>0, <1>1, <1>2 DEF TestType
<1>5. \A u \in Thread : u # t => UNCHANGED <<pc[u], made[u], v[u]>>
  BY <1>0, <1>1
<1>6. pc'[t] \in {"fast", "reset"}
  BY <1>0, <1>1
<1>7. StagesAgree'
  BY <1>1, <1>2, <1>3, <1>5, <1>6, ThreadStages
<1>8. \A u \in Thread : Counted'[u] = IF u = t THEN Counted[u] + 1 ELSE Counted[u]
  BY <1>0, <1>1, <1>5, <1>6 DEF Counted
<1>9. \A u \in Thread : Counted[u] \in Nat
  BY <1>0 DEF Counted, TestType
<1>10. CallsAreCounted'
  <2>1. \A c \in Bucket : calls[c] = Total(Counted, ThreadsOf(c))
    BY <1>3 DEF TestInv, CallsAreCounted
  <2>2. \A c : ThreadsOf(c)' = ThreadsOf(c)
    BY DEF ThreadsOf, BucketOf
  <2> SUFFICES ASSUME NEW c \in Bucket
               PROVE  calls'[c] = Total(Counted', ThreadsOf(c))
    BY <2>2 DEF CallsAreCounted
  <2>3. ThreadsOf(c) \subseteq Thread /\ IsFiniteSet(ThreadsOf(c)) /\ (t \in ThreadsOf(c) <=> c = b)
    BY FiniteSetsOfTest DEF ThreadsOf, b
  <2>4. CASE c = b
    <3>1. Total(Counted', ThreadsOf(c)) = Total(Counted, ThreadsOf(c)) + 1
      BY <1>8, <1>9, <2>3, <2>4, TotalStep
    <3> QED
      BY <1>0, <1>1, <2>1, <2>4, <3>1
  <2>5. CASE c # b
    <3>1. Total(Counted', ThreadsOf(c)) = Total(Counted, ThreadsOf(c))
      BY <1>8, <2>3, <2>5, TotalSame
    <3> QED
      BY <1>0, <1>1, <2>1, <2>5, <3>1
  <2> QED
    BY <2>4, <2>5
<1> DEFINE n == sample_counter
           a == Cardinality(Ahead)
           h == HitsOf(Bucket)
<1>11. CounterOK(n, a, h, v, lost) /\ n \in Nat
  BY <1>0 DEF TestInv, TestType
<1>12. a \in Nat
  <2>1. Ahead \in SUBSET Thread
    BY DEF Ahead
  <2> QED
    BY <2>1, FiniteSetsOfTest
<1>13. h \in Nat
  BY <1>0, FiniteSetsOfTest, TotalType DEF HitsOf
<1>14. \/ Cardinality(Ahead') = a /\ HitsOf(Bucket)' = h
       \/ Cardinality(Ahead') = a + 1 /\ HitsOf(Bucket)' = h + 1
  <2>1. CASE pc' = [pc EXCEPT ![t] = "fast"] /\ hits' = hits
    <3>1. Ahead' = Ahead
      BY <1>0, <1>1, <2>1 DEF Ahead
    <3> QED
      BY <2>1, <3>1 DEF HitsOf
  <2>2. CASE pc' = [pc EXCEPT ![t] = "reset"] /\ hits' = [hits EXCEPT ![b] = @ + 1]
    <3>1. Ahead' = Ahead \cup {t} /\ t \notin Ahead /\ Ahead \in SUBSET Thread
      BY <1>0, <1>1, <2>2 DEF Ahead
    <3>2. Cardinality(Ahead') = a + 1
      BY <3>1, FiniteSetsOfTest, FS_AddElement
    <3>3. \A c \in Bucket : hits[c] \in Nat /\ hits'[c] = IF c = b THEN hits[c] + 1 ELSE hits[c]
      BY <1>0, <2>2
    <3>4. Total(hits', Bucket) = Total(hits, Bucket) + 1
      BY <1>0, <3>3, FiniteSetsOfTest, TotalStep, ZenonT(40)
    <3> QED
      BY <3>2, <3>4 DEF HitsOf
  <2> QED
    BY <1>1, <2>1, <2>2
<1> HIDE DEF n, a, h
<1>15. CounterOK(n, a + 1, h + 1, v, lost)
  <2>1. \A k \in Nat : (k + a <= h => k + (a + 1) <= h + 1) /\ (k + a = h => k + (a + 1) = h + 1)
    BY <1>12, <1>13
  <2>2. \A u \in Thread : v[u] # None => v[u] \in Nat
    BY <1>0 DEF TestType
  <2> QED
    BY <1>11, <2>1, <2>2 DEF CounterOK
<1>16. CounterOK(sample_counter, Cardinality(Ahead), HitsOf(Bucket), v, lost)'
  BY <1>1, <1>11, <1>14, <1>15 DEF n
<1> QED
  BY <1>4, <1>7, <1>10, <1>16

-----------------------------------------------------------------------------
(* The theorems.                                                           *)

\* Every step keeps the invariant.
LEMMA TestNextInv == TestInv /\ [TestNext]_allVars => TestInv'
<1> SUFFICES ASSUME TestInv, [TestNext]_allVars
             PROVE  TestInv'
  OBVIOUS
<1>1. IInv'
  BY TestStepIsGuardStep, NextIInv DEF TestInv
<1>2. ASSUME NEW t \in Thread, Work(t)
      PROVE  TestType' /\ StagesAgree' /\ CallsAreCounted'
             /\ CounterOK(sample_counter, Cardinality(Ahead), HitsOf(Bucket), v, lost)'
  <2>1. Guard(t) => Count(t) \/ Reset(t)
    BY DEF Guard
  <2> QED
    BY <1>2, <2>1, PlainCallInv, QuietGuardInv, CountInv, LookupInv, UpdateInv DEF Work
<1>3. Over => UNCHANGED allVars
  BY DEF Over
<1> QED
  BY <1>1, <1>2, <1>3, ProcessStepInv DEF TestNext, TestInv

\* The counts of guard, threads, program and processes agree in every state of
\* the test.
THEOREM TestInvariant == TestSpec => []TestInv
  BY TestInitInv, TestNextInv, PTL DEF TestSpec

\* The guard's machine state stays within its bytes and registers.
THEOREM TestTypes == TestSpec => []TypeOK
<1>1. TestInv => TypeOK
  BY DEF TestInv, IInv
<1> QED
  BY <1>1, TestInvariant, PTL

\* The guard implements the abstract sampler in the test, whatever the program,
\* the script and the other threads do.
THEOREM TestImplementsSampler == TestSpec => ImplementsSamplingSpec
  BY TestIsGuarded, GuardImplementsSampler, PTL

\* The unatomic increments of the eBPF program lose calls and never invent one.
THEOREM MapNeverOvercounts == TestSpec => []CounterNeverOvercounts
<1>1. TestInv => CounterNeverOvercounts
  BY DEF TestInv, CounterOK, CounterNeverOvercounts, Ahead
<1> QED
  BY <1>1, TestInvariant, PTL

\* Quotient and remainder are unique.
LEMMA DivisionIsUnique ==
  ASSUME NEW r \in Nat \ {0}, NEW h \in Nat, NEW k \in Nat, k < r, NEW n \in Nat, n = r * h + k
  PROVE  n \div r = h
  BY SMTT(30)

\* A test in which the uprobe was attached in time and no two threads met is
\* exact, for every number of threads and calls.
THEOREM SerialTestsAreExact == TestSpec => []SerialTestIsExact
<1>1. TestInv => SerialTestIsExact
  <2> SUFFICES ASSUME TestInv, HITS # None, OBSERVED # None, instrumented, ~lost,
                      \A b \in Bucket : ~overlap[b]
               PROVE  HITS = Total([b \in Bucket |-> (PerThread * Cardinality(ThreadsOf(b))) \div Rate],
                                   Bucket)
    BY DEF SerialTestIsExact
  <2>1. HITS = sample_counter /\ \A t \in Thread : pc[t] = "out" /\ made[t] = PerThread
    BY DEF TestInv, StagesAgree
  <2>2. Ahead = {}
    BY <2>1 DEF Ahead
  <2>3. Cardinality(Ahead) = 0
    BY <2>2, FS_EmptySet
  <2>4. sample_counter = HitsOf(Bucket)
    <3>1. sample_counter + Cardinality(Ahead) = HitsOf(Bucket) /\ sample_counter \in Nat
      BY DEF TestInv, CounterOK, TestType
    <3> QED
      BY <2>3, <3>1
  <2>5. ASSUME NEW b \in Bucket
        PROVE  hits[b] = (PerThread * Cardinality(ThreadsOf(b))) \div Rate
    <3>1. \A t \in ThreadsOf(b) : Counted[t] = PerThread
      BY <2>1 DEF Counted, ThreadsOf
    <3>2. Total(Counted, ThreadsOf(b)) = PerThread * Cardinality(ThreadsOf(b))
      BY <3>1, FiniteSetsOfTest, PerThreadType, TotalProduct
    <3>3. calls[b] = PerThread * Cardinality(ThreadsOf(b))
      BY <3>2 DEF TestInv, CallsAreCounted
    <3>4. calls[b] = Rate * hits[b] + Turn(b) /\ Turn(b) < Rate
      BY DEF TestInv, IInv, SerialBucketsAreExact
    <3>5. /\ sampling_counters \in [Bucket -> 0..(CounterMod - 1)]
          /\ calls[b] \in Nat /\ hits[b] \in Nat
      BY DEF TestInv, IInv, TypeOK
    <3>6. Turn(b) \in Nat
      BY <3>5, CounterModAssumption DEF Turn
    <3>7. Rate \in Nat \ {0}
      BY RateAssumption, CounterModAssumption
    <3>8. calls[b] \div Rate = hits[b]
      BY <3>4, <3>5, <3>6, <3>7, DivisionIsUnique
    <3> QED
      BY <3>3, <3>8
  <2>6. Total(hits, Bucket)
          = Total([b \in Bucket |-> (PerThread * Cardinality(ThreadsOf(b))) \div Rate], Bucket)
    BY <2>5, TotalSame
  <2> QED
    BY <2>1, <2>4, <2>6 DEF HitsOf
<1> QED
  BY <1>1, TestInvariant, PTL

\* A PASS shows that the guard is at work, in every test that is asked for at
\* least two sampled calls.  With fewer the script demands none, and an observer
\* that was late passes too.
THEOREM PassIsEarned ==
  ASSUME TotalCalls >= 2 * Rate
  PROVE  TestSpec => []PassMeansSampled
<1>1. LOWER(TotalCalls) \in Nat \ {0}
  <2>1. Rate \in Nat \ {0} /\ TotalCalls \in Nat
    BY RateAssumption, CounterModAssumption, TotalCallsAssumption
  <2>2. \A r \in Nat \ {0}, n \in Nat : n >= 2 * r => n \div r \in Nat /\ n \div r >= 2
    BY SMTT(30)
  <2>3. EXPECTED(TotalCalls) \in Nat /\ EXPECTED(TotalCalls) >= 2
    BY <2>1, <2>2 DEF EXPECTED
  <2>4. \A e \in Nat : e >= 2 => (e * 3) \div 4 \in Nat \ {0}
    BY SMTT(30)
  <2> QED
    BY <2>3, <2>4 DEF LOWER
<1>2. TestInv => PassMeansSampled
  <2> SUFFICES ASSUME TestInv, script = "PASS"
               PROVE  instrumented /\ LOWER(TotalCalls) <= HitsOf(Bucket)
    BY DEF PassMeansSampled
  <2>1. HITS = sample_counter /\ LOWER(TotalCalls) <= HITS /\ sample_counter \in Nat
    BY DEF TestInv, StagesAgree, Within, TestType
  <2>2. instrumented
    <3>1. sample_counter # 0
      BY <1>1, <2>1
    <3> QED
      BY <3>1 DEF TestInv, StagesAgree
  <2>3. sample_counter + Cardinality(Ahead) <= HitsOf(Bucket)
    BY DEF TestInv, CounterOK
  <2>4. Cardinality(Ahead) \in Nat
    <3>1. Ahead \in SUBSET Thread
      BY DEF Ahead
    <3> QED
      BY <3>1, FiniteSetsOfTest
  <2>5. HitsOf(Bucket) \in Nat
    <3>1. hits \in [Bucket -> Nat]
      BY DEF TestInv, IInv, TypeOK
    <3> QED
      BY <3>1, FiniteSetsOfTest, TotalType DEF HitsOf
  <2> QED
    BY <1>1, <2>1, <2>2, <2>3, <2>4, <2>5
<1> QED
  BY <1>2, TestInvariant, PTL

=============================================================================
