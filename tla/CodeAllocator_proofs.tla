------------------------ MODULE CodeAllocator_proofs ------------------------
(***************************************************************************)
(* Proofs about CodeAllocator for every number of controllers, contexts    *)
(* and places, batches of any size and any number of them.                 *)
(***************************************************************************)
EXTENDS CodeAllocator, FiniteSetTheorems, WellFoundedInduction, TLAPS

-----------------------------------------------------------------------------
(* The inductive invariant.                                                *)

\* A job that has a slice to itself, one that has begun to change the list, and
\* one that has announced itself to the head of the list.
Owning == {"check", "push_prev", "push_next", "push_head"}
Halfway == {"take", "push_next", "push_head"}
Linking == {"push_next", "push_head"}

Job == [at : {"idle", "take", "done"} \cup Owning, slice : Slice \cup {0}, ctx : Context \cup {0}]

PlacesOK == \E n \in 1..MaxBatches : place \in [1..n -> Place]

AllocType ==
  /\ free_slices \in Slice \cup {0}
  /\ next \in [Slice -> Slice \cup {0}] /\ prev \in [Slice -> Slice \cup {0}]
  /\ ref_count \in [Slice -> Int] /\ \A s \in Slice : ref_count[s] <= 1
  /\ slice \in [Context -> Slice \cup {0}]
  /\ job \in [Controller -> Job]

\* A slice that is taken is taken under the lock, for a context that has none.
JobsOK ==
  \A k \in Controller :
    /\ job[k].at = "idle" => job[k] = Idle
    /\ job[k].at # "idle" => job[k].slice \in Slice
    /\ job[k].at \in {"take", "check"} =>
         lock = {k} /\ job[k].ctx \in Context /\ slice[job[k].ctx] = 0

\* A slice that is in use or on its way from or to the list.
InUse(s) == s \in Mapped /\ s \notin Thunks /\ ref_count[s] >= 0

IsFree(s) ==
  /\ InUse(s)
  /\ \A c \in Context : slice[c] # s
  /\ \A k \in Controller : job[k].at \in Owning => job[k].slice # s

\* Every slice has one owner, and one controller at a time is at the list.
OwnersOK ==
  /\ \A c, d \in Context : c # d /\ slice[c] # 0 => slice[c] # slice[d]
  /\ \A c \in Context : slice[c] # 0 => InUse(slice[c])
  /\ \A k \in Controller : job[k].at \in Owning =>
       InUse(job[k].slice) /\ \A c \in Context : slice[c] # job[k].slice
  /\ \A j, k \in Controller :
       j # k /\ job[j].at \in Owning /\ job[k].at \in Owning => job[j].slice # job[k].slice
  /\ \A k \in Controller : job[k].at = "take" => IsFree(job[k].slice)
  /\ \A j, k \in Controller : j # k /\ job[j].at \in Halfway => job[k].at \notin Halfway

\* The list from head h along the links nx and pv is L, of length n; what the
\* first element has before it is b.
Chain(L, n, h, nx, pv, b) ==
  /\ n \in Nat /\ L \in [1..n -> Slice]
  /\ \A i, j \in 1..n : L[i] = L[j] => i = j
  /\ h = IF n = 0 THEN 0 ELSE L[1]
  /\ \A i \in 1..n : nx[L[i]] = IF i = n THEN 0 ELSE L[i + 1]
  /\ \A i \in 1..n : pv[L[i]] = IF i = 1 THEN b ELSE L[i - 1]

\* x is one of the first n elements of L.
Has(L, n, x) == \E i \in 1..n : L[i] = x

\* The slice about to become the head is what the head has before it.
BeforeHead(b) ==
  /\ \A k \in Controller : job[k].at \in Linking => b = job[k].slice
  /\ (\A k \in Controller : job[k].at \notin Linking) => b = 0

ListIs(L, n, b) ==
  /\ Chain(L, n, free_slices, next, prev, b) /\ BeforeHead(b)
  /\ \A s \in Slice : IsFree(s) <=> Has(L, n, s)
  /\ \A s \in Slice : ~IsFree(s) => prev[s] = 0
  /\ \A k \in Controller : job[k].at = "push_head" => next[job[k].slice] = free_slices

ListInv ==
  /\ AllocType /\ JobsOK /\ OwnersOK
  /\ \E L, n, b : ListIs(L, n, b)

\* With a race the list may be anything.
IInv == PlacesOK /\ CommitCoversNewCode /\ (~raced => ListInv)

-----------------------------------------------------------------------------
(* Numbers of slices and batches.                                          *)

\* More batches have more slices.
LEMMA TimesMonotone ==
  ASSUME NEW a \in Nat, NEW b \in Nat, NEW s \in Nat, a <= b
  PROVE  a * s <= b * s /\ a * s \in Nat /\ b * s \in Nat
  OBVIOUS

\* The slices of a batch, and that a slice number determines its batch.
LEMMA BatchFacts ==
  ASSUME NEW b \in 1..MaxBatches
  PROVE  /\ FirstOf(b) \in Nat \ {0} /\ b * SlicesPerBatch = FirstOf(b) + SlicesPerBatch - 1
         /\ SlicesOf(b) = FirstOf(b)..(FirstOf(b) + SlicesPerBatch - 1)
         /\ \A s \in SlicesOf(b) : s \in Slice /\ BatchOf(s) = b
         /\ Max(SlicesOf(b)) = FirstOf(b) + SlicesPerBatch - 1
<1> DEFINE S == SlicesPerBatch
<1>1. S \in Nat /\ S >= 2 /\ MaxBatches \in Nat
  BY SlicesAssumption, AllocBoundsAssumption
<1>2. b \in Nat /\ b >= 1 /\ b <= MaxBatches /\ b - 1 \in Nat
  BY <1>1
<1>3. (b - 1) * S \in Nat /\ b * S = (b - 1) * S + S /\ b * S <= MaxBatches * S
      /\ MaxBatches * S \in Nat
  BY <1>1, <1>2, TimesMonotone
<1>4. FirstOf(b) \in Nat \ {0} /\ b * S = FirstOf(b) + S - 1
  BY <1>1, <1>3 DEF FirstOf
<1>5. SlicesOf(b) = FirstOf(b)..(FirstOf(b) + S - 1)
  BY <1>4 DEF SlicesOf
<1>6. ASSUME NEW s \in SlicesOf(b)
      PROVE  s \in Slice /\ BatchOf(s) = b
  <2>1. s \in Int /\ s >= (b - 1) * S + 1 /\ s <= (b - 1) * S + S
    BY <1>3 DEF SlicesOf, FirstOf
  <2>2. s \in Slice
    BY <1>1, <1>3, <2>1 DEF Slice
  <2>3. (s - 1) \div S = b - 1
    BY <1>1, <1>2, <1>3, <2>1
  <2> QED
    BY <1>2, <2>2, <2>3 DEF BatchOf
<1>7. Max(SlicesOf(b)) = FirstOf(b) + S - 1
  <2> DEFINE f == FirstOf(b)
             m == f + S - 1
  <2>1. m \in f..m /\ \A y \in f..m : m >= y
    BY <1>1, <1>4
  <2>2. \A x \in f..m : (\A y \in f..m : x >= y) => x = m
    BY <1>1, <1>4, <2>1
  <2>3. SlicesOf(b) = f..m
    BY <1>5
  <2> HIDE DEF f, m
  <2>4. Max(f..m) = m
    BY <2>1, <2>2 DEF Max
  <2> QED
    BY <2>3, <2>4 DEF f, m
<1> QED
  BY <1>4, <1>5, <1>6, <1>7

\* A set of numbers has a least one.
LEMMA LeastNumber ==
  ASSUME NEW S \in SUBSET Nat, S # {}
  PROVE  Min(S) \in S /\ \A y \in S : Min(S) <= y
<1>1. PICK x \in S : \A y \in S : ~(<<y, x>> \in OpToRel(<, Nat))
  BY NatLessThanWellFounded, WFMin
<1>2. \A y \in S : x =< y
  <2> TAKE y \in S
  <2>1. x \in Nat /\ y \in Nat
    BY <1>1
  <2>2. ~(y < x)
    BY <1>1, <2>1 DEF OpToRel
  <2> QED
    BY <2>1, <2>2
<1> QED
  BY <1>1, <1>2 DEF Min

-----------------------------------------------------------------------------
(* Lists.                                                                  *)

\* What a walk along the links nx from h finds.
StepsAlong(h, nx, N) ==
  CHOOSE at : at = [i \in 1..N |-> IF i = 1 THEN h ELSE IF at[i - 1] = 0 THEN 0 ELSE nx[at[i - 1]]]

\* A list is no longer than there are slices.
LEMMA ChainFits ==
  ASSUME NEW L, NEW n, NEW h, NEW nx, NEW pv, NEW b, Chain(L, n, h, nx, pv, b)
  PROVE  n \in Nat /\ Cardinality(Slice) \in Nat /\ n <= Cardinality(Slice)
<1>1. n \in Nat /\ L \in [1..n -> Slice] /\ \A i, j \in 1..n : L[i] = L[j] => i = j
  BY DEF Chain
<1>2. L \in Injection(1..n, Slice)
  BY <1>1 DEF Injection, IsInjective
<1>3. MaxBatches * SlicesPerBatch \in Nat
  BY SlicesAssumption, AllocBoundsAssumption, TimesMonotone
<1>4. IsFiniteSet(Slice)
  BY <1>3, FS_Interval DEF Slice
<1>5. Cardinality(1..n) = n
  BY <1>1, FS_Interval
<1>6. Cardinality(1..n) <= Cardinality(Slice)
  BY <1>2, <1>4, FS_Injection
<1>7. Cardinality(Slice) \in Nat
  BY <1>4, FS_CardinalityType
<1> QED
  BY <1>1, <1>5, <1>6, <1>7

\* A walk finds the list, and nothing after it.
LEMMA StepsFollowChain ==
  ASSUME NEW L, NEW n, NEW h, NEW nx, NEW pv, NEW b, Chain(L, n, h, nx, pv, b),
         NEW N \in Nat, n <= N
  PROVE  StepsAlong(h, nx, N) = [i \in 1..N |-> IF i <= n THEN L[i] ELSE 0]
<1> DEFINE G == [i \in 1..N |-> IF i <= n THEN L[i] ELSE 0]
           A == StepsAlong(h, nx, N)
           W(at) == [i \in 1..N |-> IF i = 1 THEN h ELSE IF at[i - 1] = 0 THEN 0 ELSE nx[at[i - 1]]]
<1>1. /\ n \in Nat /\ L \in [1..n -> Slice] /\ h = IF n = 0 THEN 0 ELSE L[1]
      /\ \A i \in 1..n : nx[L[i]] = IF i = n THEN 0 ELSE L[i + 1]
  BY DEF Chain
<1>2. 0 \notin Slice
  BY DEF Slice
<1>3. G = W(G)
  <2>1. ASSUME NEW i \in 1..N
        PROVE  G[i] = IF i = 1 THEN h ELSE IF G[i - 1] = 0 THEN 0 ELSE nx[G[i - 1]]
    <3>1. CASE i = 1
      BY <1>1, <3>1
    <3>2. CASE i # 1 /\ i <= n
      <4>1. i - 1 \in 1..n /\ i - 1 \in 1..N /\ i - 1 # n /\ i - 1 + 1 = i
        BY <1>1, <3>2
      <4>2. G[i - 1] = L[i - 1] /\ L[i - 1] \in Slice /\ G[i] = L[i]
        BY <1>1, <3>2, <4>1
      <4>3. nx[L[i - 1]] = L[i]
        BY <1>1, <4>1
      <4> QED
        BY <1>2, <3>2, <4>2, <4>3
    <3>3. CASE i # 1 /\ i = n + 1
      <4>1. n \in 1..n /\ n \in 1..N /\ i - 1 = n
        BY <1>1, <3>3
      <4>2. G[i - 1] = L[n] /\ L[n] \in Slice /\ G[i] = 0
        BY <1>1, <3>3, <4>1
      <4>3. nx[L[n]] = 0
        BY <1>1, <4>1
      <4> QED
        BY <1>2, <3>3, <4>1, <4>2, <4>3
    <3>4. CASE i # 1 /\ i > n + 1
      <4>1. i - 1 \in 1..N /\ ~(i - 1 <= n) /\ ~(i <= n)
        BY <1>1, <3>4
      <4> QED
        BY <3>4, <4>1
    <3> QED
      BY <1>1, <3>1, <3>2, <3>3, <3>4
  <2> QED
    BY <2>1, Zenon
<1>4. A = W(A)
  BY <1>3 DEF StepsAlong
<1>5. \A i \in 1..N : A[i] = G[i]
  <2> DEFINE Bad == {i \in 1..N : A[i] # G[i]}
  <2> SUFFICES ASSUME Bad # {} PROVE FALSE
    OBVIOUS
  <2>1. Bad \in SUBSET Nat
    OBVIOUS
  <2>2. PICK i \in Bad : \A j \in Bad : i <= j
    BY <2>1, LeastNumber
  <2>3. i \in 1..N /\ A[i] # G[i]
    BY <2>2
  <2>4. /\ A[i] = IF i = 1 THEN h ELSE IF A[i - 1] = 0 THEN 0 ELSE nx[A[i - 1]]
        /\ G[i] = IF i = 1 THEN h ELSE IF G[i - 1] = 0 THEN 0 ELSE nx[G[i - 1]]
    <3> HIDE DEF A, G
    <3> QED
      BY <1>3, <1>4, <2>3
  <2> HIDE DEF A, G
  <2>5. CASE i = 1
    BY <2>3, <2>4, <2>5
  <2>6. CASE i # 1
    <3>1. i - 1 \in 1..N /\ ~(i <= i - 1)
      BY <2>3, <2>6
    <3>2. A[i - 1] = G[i - 1]
      BY <2>2, <3>1
    <3> QED
      BY <2>3, <2>4, <2>6, <3>2
  <2> QED
    BY <2>5, <2>6
<1>6. A = [i \in 1..N |-> A[i]]
  BY <1>4
<1> HIDE DEF A
<1> QED
  BY <1>5, <1>6 DEF A

\* g_list_remove_link takes one element out of the list and clears its links.
LEMMA ChainRemoves ==
  ASSUME NEW L, NEW n, NEW h, NEW nx, NEW pv, Chain(L, n, h, nx, pv, 0), NEW s, Has(L, n, s),
         NEW h2, h2 = IF h = s THEN nx[s] ELSE h,
         NEW nx2, nx2 = [x \in Slice |-> IF x = s THEN 0 ELSE IF x = pv[s] THEN nx[s] ELSE nx[x]],
         NEW pv2, pv2 = [x \in Slice |-> IF x = s THEN 0 ELSE IF x = nx[s] THEN pv[s] ELSE pv[x]]
  PROVE  \E L2 : /\ Chain(L2, n - 1, h2, nx2, pv2, 0)
                 /\ \A x \in Slice : Has(L2, n - 1, x) <=> x # s /\ Has(L, n, x)
                 /\ \A x \in Slice : x = s \/ (~Has(L, n, x) /\ pv[x] = 0) => pv2[x] = 0
<1> PICK m \in 1..n : L[m] = s
  BY DEF Has
<1> PICK L2 : L2 = [i \in 1..(n - 1) |-> IF i < m THEN L[i] ELSE L[i + 1]]
  OBVIOUS
<1>1. /\ n \in Nat /\ L \in [1..n -> Slice] /\ h = IF n = 0 THEN 0 ELSE L[1]
      /\ \A i, j \in 1..n : L[i] = L[j] => i = j
  BY DEF Chain
<1>2. /\ \A i \in 1..n : nx[L[i]] = IF i = n THEN 0 ELSE L[i + 1]
      /\ \A i \in 1..n : pv[L[i]] = IF i = 1 THEN 0 ELSE L[i - 1]
  BY DEF Chain
<1>3. 0 \notin Slice /\ s \in Slice
  BY <1>1 DEF Slice
<1>4. n - 1 \in Nat /\ \A i \in 1..(n - 1) : i \in 1..n /\ i + 1 \in 1..n
  BY <1>1
<1>5. nx[s] = IF m = n THEN 0 ELSE L[m + 1]
  BY <1>2
<1>6. pv[s] = IF m = 1 THEN 0 ELSE L[m - 1]
  BY <1>2
<1>7. ASSUME NEW i \in 1..n, i # m
      PROVE  /\ nx2[L[i]] = IF i + 1 = m THEN nx[s] ELSE nx[L[i]]
             /\ pv2[L[i]] = IF i - 1 = m THEN pv[s] ELSE pv[L[i]]
  <2>1. L[i] \in Slice /\ L[i] # s
    BY <1>1, <1>7
  <2>2. L[i] = pv[s] <=> i + 1 = m
    <3>1. CASE m = 1
      BY <1>1, <1>3, <1>6, <2>1, <3>1
    <3>2. CASE m # 1
      <4>1. m - 1 \in 1..n
        BY <1>1, <3>2
      <4>2. L[i] = L[m - 1] <=> i = m - 1
        BY <1>1, <4>1
      <4> QED
        BY <1>1, <1>6, <3>2, <4>2
    <3> QED
      BY <3>1, <3>2
  <2>3. L[i] = nx[s] <=> i - 1 = m
    <3>1. CASE m = n
      BY <1>1, <1>3, <1>5, <2>1, <3>1
    <3>2. CASE m # n
      <4>1. m + 1 \in 1..n
        BY <1>1, <3>2
      <4>2. L[i] = L[m + 1] <=> i = m + 1
        BY <1>1, <4>1
      <4> QED
        BY <1>1, <1>5, <3>2, <4>2
    <3> QED
      BY <3>1, <3>2
  <2> QED
    BY <2>1, <2>2, <2>3
<1>8. L2 \in [1..(n - 1) -> Slice]
  BY <1>1, <1>4
<1>9. \A i, j \in 1..(n - 1) : L2[i] = L2[j] => i = j
  <2> TAKE i, j \in 1..(n - 1)
  <2> HAVE L2[i] = L2[j]
  <2>1. i \in 1..n /\ j \in 1..n /\ i + 1 \in 1..n /\ j + 1 \in 1..n /\ i \in Int /\ j \in Int
    BY <1>4
  <2>2. L2[i] = L[IF i < m THEN i ELSE i + 1] /\ L2[j] = L[IF j < m THEN j ELSE j + 1]
    OBVIOUS
  <2>3. (IF i < m THEN i ELSE i + 1) = (IF j < m THEN j ELSE j + 1)
    BY <1>1, <2>1, <2>2
  <2> QED
    BY <2>1, <2>3
<1>10. h2 = IF n - 1 = 0 THEN 0 ELSE L2[1]
  <2>1. h = L[1] /\ 1 \in 1..n /\ (h = s <=> m = 1)
    BY <1>1
  <2>2. CASE n - 1 = 0
    <3>1. m = 1 /\ n = 1
      BY <1>1, <2>2
    <3> QED
      BY <1>5, <2>1, <2>2, <3>1
  <2>3. CASE n - 1 # 0
    <3>1. 1 \in 1..(n - 1) /\ 1 # n
      BY <1>1, <2>3
    <3>2. L2[1] = IF 1 < m THEN L[1] ELSE L[1 + 1]
      BY <3>1
    <3> QED
      BY <1>1, <1>5, <2>1, <2>3, <3>1, <3>2
  <2> QED
    BY <2>2, <2>3
<1>11. ASSUME NEW i \in 1..(n - 1)
       PROVE  nx2[L2[i]] = IF i = n - 1 THEN 0 ELSE L2[i + 1]
  <2>0. i \in Int /\ m \in Int /\ n \in Int /\ i \in 1..n /\ i + 1 \in 1..n
    BY <1>1, <1>4
  <2>1. CASE i < m
    <3>1. L2[i] = L[i] /\ i # m
      BY <2>0, <2>1
    <3>2. nx2[L[i]] = IF i + 1 = m THEN nx[s] ELSE nx[L[i]]
      BY <1>7, <2>0, <3>1
    <3>3. CASE i + 1 = m
      <4>1. i = n - 1 <=> m = n
        BY <2>0, <3>3
      <4>2. i # n - 1 => i + 1 \in 1..(n - 1) /\ L2[i + 1] = L[m + 1]
        BY <2>0, <3>3
      <4> QED
        BY <1>5, <3>1, <3>2, <3>3, <4>1, <4>2
    <3>4. CASE i + 1 # m
      <4>1. i + 1 < m /\ i # n /\ i # n - 1 /\ i + 1 \in 1..(n - 1)
        BY <2>0, <2>1, <3>4
      <4>2. L2[i + 1] = L[i + 1] /\ nx[L[i]] = L[i + 1]
        BY <1>2, <2>0, <4>1
      <4> QED
        BY <3>1, <3>2, <3>4, <4>1, <4>2
    <3> QED
      BY <3>3, <3>4
  <2>2. CASE ~(i < m)
    <3>1. L2[i] = L[i + 1] /\ i + 1 # m /\ i + 1 + 1 # m
      BY <2>0, <2>2
    <3>2. nx2[L[i + 1]] = nx[L[i + 1]]
      BY <1>7, <2>0, <3>1
    <3>3. nx[L[i + 1]] = IF i + 1 = n THEN 0 ELSE L[i + 1 + 1]
      BY <1>2, <2>0
    <3>4. i = n - 1 <=> i + 1 = n
      BY <2>0
    <3>5. i # n - 1 => L2[i + 1] = L[i + 1 + 1]
      <4>1. i # n - 1 => i + 1 \in 1..(n - 1) /\ ~(i + 1 < m)
        BY <2>0, <2>2
      <4> QED
        BY <4>1
    <3> QED
      BY <3>1, <3>2, <3>3, <3>4, <3>5
  <2> QED
    BY <2>1, <2>2
<1>12. ASSUME NEW i \in 1..(n - 1)
       PROVE  pv2[L2[i]] = IF i = 1 THEN 0 ELSE L2[i - 1]
  <2>0. i \in Int /\ m \in Int /\ n \in Int /\ i \in 1..n /\ i + 1 \in 1..n
    BY <1>1, <1>4
  <2>1. CASE i < m
    <3>1. L2[i] = L[i] /\ i # m /\ i - 1 # m
      BY <2>0, <2>1
    <3>2. pv2[L[i]] = pv[L[i]]
      BY <1>7, <2>0, <3>1
    <3>3. pv[L[i]] = IF i = 1 THEN 0 ELSE L[i - 1]
      BY <1>2, <2>0
    <3>4. i # 1 => i - 1 \in 1..(n - 1) /\ i - 1 < m
      BY <2>0, <2>1
    <3> QED
      BY <3>1, <3>2, <3>3, <3>4
  <2>2. CASE ~(i < m)
    <3>1. L2[i] = L[i + 1] /\ i + 1 # m
      BY <2>0, <2>2
    <3>2. pv2[L[i + 1]] = IF i = m THEN pv[s] ELSE pv[L[i + 1]]
      <4>1. i + 1 - 1 = i
        BY <2>0
      <4> QED
        BY <1>7, <2>0, <3>1, <4>1
    <3>3. pv[L[i + 1]] = L[i]
      <4>1. i + 1 # 1 /\ i + 1 - 1 = i
        BY <2>0
      <4> QED
        BY <1>2, <2>0, <4>1
    <3>4. CASE i = m
      <4>1. i # 1 => i - 1 \in 1..(n - 1) /\ i - 1 < m /\ L2[i - 1] = L[m - 1]
        BY <2>0, <3>4
      <4> QED
        BY <1>6, <3>1, <3>2, <3>4, <4>1
    <3>5. CASE i # m
      <4>1. i # 1 /\ i - 1 \in 1..(n - 1) /\ ~(i - 1 < m) /\ i - 1 + 1 = i
        BY <2>0, <2>2, <3>5
      <4>2. L2[i - 1] = L[i]
        BY <4>1
      <4> QED
        BY <3>1, <3>2, <3>3, <3>5, <4>1, <4>2
    <3> QED
      BY <3>4, <3>5
  <2> QED
    BY <2>1, <2>2
<1>13. Chain(L2, n - 1, h2, nx2, pv2, 0)
  BY <1>4, <1>8, <1>9, <1>10, <1>11, <1>12 DEF Chain
<1>14. ASSUME NEW x \in Slice
       PROVE  (\E i \in 1..(n - 1) : L2[i] = x) <=> x # s /\ \E i \in 1..n : L[i] = x
  <2>1. ASSUME NEW i \in 1..(n - 1)
        PROVE  L2[i] # s /\ \E j \in 1..n : L[j] = L2[i]
    <3>1. i \in 1..n /\ i + 1 \in 1..n /\ i \in Int /\ m \in Int
      BY <1>4
    <3>2. L2[i] = L[IF i < m THEN i ELSE i + 1] /\ (IF i < m THEN i ELSE i + 1) \in 1..n
          /\ (IF i < m THEN i ELSE i + 1) # m
      BY <3>1
    <3> QED
      BY <1>1, <3>2
  <2>2. ASSUME NEW j \in 1..n, L[j] # s
        PROVE  \E i \in 1..(n - 1) : L2[i] = L[j]
    <3>1. j # m /\ j \in Int /\ m \in Int /\ n \in Int
      BY <1>1, <2>2
    <3>2. CASE j < m
      <4>1. j \in 1..(n - 1)
        BY <3>1, <3>2
      <4> QED
        BY <3>2, <4>1
    <3>3. CASE ~(j < m)
      <4>1. j - 1 \in 1..(n - 1) /\ ~(j - 1 < m) /\ j - 1 + 1 = j
        BY <3>1, <3>3
      <4>2. L2[j - 1] = L[j]
        BY <4>1
      <4> QED
        BY <4>1, <4>2
    <3> QED
      BY <3>2, <3>3
  <2> QED
    BY <2>1, <2>2
<1>15. pv2[s] = 0
  BY <1>3
<1>16. ASSUME NEW x \in Slice, \A i \in 1..n : L[i] # x
       PROVE  pv2[x] = pv[x]
  <2>1. x # s
    BY <1>16
  <2>2. x # nx[s]
    <3>1. CASE m = n
      BY <1>3, <1>5, <3>1
    <3>2. CASE m # n
      <4>1. m + 1 \in 1..n
        BY <1>1, <3>2
      <4> QED
        BY <1>5, <1>16, <3>2, <4>1
    <3> QED
      BY <3>1, <3>2
  <2> QED
    BY <2>1, <2>2
<1>17. \A x \in Slice : Has(L2, n - 1, x) <=> x # s /\ Has(L, n, x)
  BY <1>14 DEF Has
<1>18. \A x \in Slice : x = s \/ (~Has(L, n, x) /\ pv[x] = 0) => pv2[x] = 0
  BY <1>15, <1>16 DEF Has
<1> WITNESS L2
<1> QED
  BY <1>13, <1>17, <1>18

\* gum_code_slice_unref's last store makes a slice the first element.
LEMMA ChainPush ==
  ASSUME NEW L, NEW n, NEW h, NEW nx, NEW pv, NEW s \in Slice, Chain(L, n, h, nx, pv, s),
         ~Has(L, n, s), nx[s] = h, pv[s] = 0
  PROVE  \E L2 : /\ Chain(L2, n + 1, s, nx, pv, 0)
                 /\ \A x \in Slice : Has(L2, n + 1, x) <=> x = s \/ Has(L, n, x)
<1> PICK L2 : L2 = [i \in 1..(n + 1) |-> IF i = 1 THEN s ELSE L[i - 1]]
  OBVIOUS
<1>0. \A i \in 1..n : L[i] # s
  BY DEF Has
<1>1. /\ n \in Nat /\ L \in [1..n -> Slice] /\ h = IF n = 0 THEN 0 ELSE L[1]
      /\ \A i, j \in 1..n : L[i] = L[j] => i = j
  BY DEF Chain
<1>2. /\ \A i \in 1..n : nx[L[i]] = IF i = n THEN 0 ELSE L[i + 1]
      /\ \A i \in 1..n : pv[L[i]] = IF i = 1 THEN s ELSE L[i - 1]
  BY DEF Chain
<1>3. n + 1 \in Nat /\ n + 1 # 0 /\ 1 \in 1..(n + 1) /\ L2[1] = s
  BY <1>1
<1>4. \A i \in 1..n : i + 1 \in 1..(n + 1) /\ i + 1 # 1 /\ i + 1 - 1 = i
  BY <1>1
<1>5. \A i \in 1..n : L2[i + 1] = L[i]
  BY <1>4
<1>6. \A i \in 1..(n + 1) : i = 1 \/ (i - 1 \in 1..n /\ i = i - 1 + 1)
  BY <1>1
<1>7. \A i \in 1..(n + 1) : i # 1 => L2[i] = L[i - 1]
  OBVIOUS
<1>8. L2 \in [1..(n + 1) -> Slice]
  BY <1>1, <1>6
<1>9. \A i, j \in 1..(n + 1) : L2[i] = L2[j] => i = j
  <2> TAKE i, j \in 1..(n + 1)
  <2> HAVE L2[i] = L2[j]
  <2>1. CASE i = 1 \/ j = 1
    BY <1>0, <1>3, <1>6, <1>7, <2>1
  <2>2. CASE i # 1 /\ j # 1
    <3>1. i - 1 = j - 1
      BY <1>1, <1>6, <1>7, <2>2
    <3> QED
      BY <3>1
  <2> QED
    BY <2>1, <2>2
<1>10. ASSUME NEW i \in 1..(n + 1)
       PROVE  nx[L2[i]] = IF i = n + 1 THEN 0 ELSE L2[i + 1]
  <2>1. CASE i = 1
    <3>1. n # 0 => 1 \in 1..n /\ L2[i + 1] = L[1]
      BY <1>1, <1>5, <2>1
    <3>2. n = 0 <=> i = n + 1
      BY <1>1, <2>1
    <3> QED
      BY <1>1, <1>3, <2>1, <3>1, <3>2
  <2>2. CASE i # 1
    <3>1. i - 1 \in 1..n /\ L2[i] = L[i - 1] /\ i - 1 + 1 = i
      BY <1>6, <2>2
    <3>2. nx[L2[i]] = IF i - 1 = n THEN 0 ELSE L[i]
      BY <1>2, <3>1
    <3>3. i - 1 = n <=> i = n + 1
      BY <1>1
    <3>4. i # n + 1 => i \in 1..n
      BY <1>1
    <3> QED
      BY <1>5, <3>2, <3>3, <3>4
  <2> QED
    BY <2>1, <2>2
<1>11. ASSUME NEW i \in 1..(n + 1)
       PROVE  pv[L2[i]] = IF i = 1 THEN 0 ELSE L2[i - 1]
  <2>1. CASE i = 1
    BY <1>3, <2>1
  <2>2. CASE i # 1
    <3>1. i - 1 \in 1..n /\ L2[i] = L[i - 1]
      BY <1>6, <2>2
    <3>2. pv[L2[i]] = IF i - 1 = 1 THEN s ELSE L[i - 1 - 1]
      BY <1>2, <3>1
    <3>3. CASE i - 1 = 1
      BY <1>3, <2>2, <3>2, <3>3
    <3>4. CASE i - 1 # 1
      <4>1. i - 1 \in 1..(n + 1)
        BY <1>1, <2>2
      <4> QED
        BY <1>7, <2>2, <3>2, <3>4, <4>1
    <3> QED
      BY <3>3, <3>4
  <2> QED
    BY <2>1, <2>2
<1>12. Chain(L2, n + 1, s, nx, pv, 0)
  BY <1>3, <1>8, <1>9, <1>10, <1>11 DEF Chain
<1>13. ASSUME NEW x \in Slice
       PROVE  (\E i \in 1..(n + 1) : L2[i] = x) <=> x = s \/ \E i \in 1..n : L[i] = x
  BY <1>3, <1>4, <1>5, <1>6, <1>7
<1>14. \A x \in Slice : Has(L2, n + 1, x) <=> x = s \/ Has(L, n, x)
  BY <1>13 DEF Has
<1> WITNESS L2
<1> QED
  BY <1>12, <1>14

\* The slice on its way announces itself to the head.
LEMMA ChainPrev ==
  ASSUME NEW L, NEW n, NEW h, NEW nx, NEW pv, NEW b, Chain(L, n, h, nx, pv, b),
         NEW s, NEW pv2, pv2 = [x \in Slice |-> IF x = h THEN s ELSE pv[x]]
  PROVE  /\ Chain(L, n, h, nx, pv2, s)
         /\ \A x \in Slice : ~Has(L, n, x) => pv2[x] = pv[x]
<1>1. /\ n \in Nat /\ L \in [1..n -> Slice] /\ h = IF n = 0 THEN 0 ELSE L[1]
      /\ \A i, j \in 1..n : L[i] = L[j] => i = j
  BY DEF Chain
<1>2. \A i \in 1..n : pv[L[i]] = IF i = 1 THEN b ELSE L[i - 1]
  BY DEF Chain
<1>3. ASSUME NEW i \in 1..n
      PROVE  pv2[L[i]] = IF i = 1 THEN s ELSE L[i - 1]
  <2>1. n # 0 /\ 1 \in 1..n /\ L[i] \in Slice /\ h = L[1]
    BY <1>1
  <2>2. L[i] = h <=> i = 1
    BY <1>1, <2>1
  <2> QED
    BY <1>2, <2>1, <2>2
<1>4. Chain(L, n, h, nx, pv2, s)
  BY <1>3 DEF Chain
<1>5. ASSUME NEW x \in Slice, \A i \in 1..n : L[i] # x
      PROVE  pv2[x] = pv[x]
  <2>1. 0 \notin Slice
    BY DEF Slice
  <2>2. n # 0 => 1 \in 1..n
    BY <1>1
  <2>3. x # h
    BY <1>1, <1>5, <2>1, <2>2
  <2> QED
    BY <2>3
<1> QED
  BY <1>4, <1>5 DEF Has

\* A link outside the list may be set to anything.
LEMMA ChainNext ==
  ASSUME NEW L, NEW n, NEW h, NEW nx, NEW pv, NEW b, Chain(L, n, h, nx, pv, b),
         NEW s, ~Has(L, n, s), nx \in [Slice -> Slice \cup {0}],
         NEW v, NEW nx2, nx2 = [nx EXCEPT ![s] = v]
  PROVE  Chain(L, n, h, nx2, pv, b)
<1>1. L \in [1..n -> Slice] /\ \A i \in 1..n : nx[L[i]] = IF i = n THEN 0 ELSE L[i + 1]
  BY DEF Chain
<1>2. ASSUME NEW i \in 1..n
      PROVE  nx2[L[i]] = IF i = n THEN 0 ELSE L[i + 1]
  <2>1. L[i] \in Slice /\ L[i] # s
    BY <1>1 DEF Has
  <2> QED
    BY <1>1, <2>1
<1> QED
  BY <1>2 DEF Chain


\* The links after the S slices from f have been put before the list from h.
BatchNext(nx, h, f, S) ==
  [x \in Slice |-> IF x = f THEN 0
                   ELSE IF x = f + S - 1 THEN h
                   ELSE IF x \in (f..(f + S - 1)) \ {f} THEN x + 1 ELSE nx[x]]
BatchPrev(pv, h, f, S) ==
  [x \in Slice |-> IF x \in {f, f + 1} THEN 0
                   ELSE IF x \in (f..(f + S - 1)) \ {f} THEN x - 1
                   ELSE IF x = h THEN f + S - 1 ELSE pv[x]]

\* None of the S slices from f is on the list.
Apart(L, n, f, S) == \A x \in f..(f + S - 1) : x \in Slice /\ ~Has(L, n, x)

\* gum_code_allocator_try_alloc_batch_near puts all slices of a new batch but
\* the first before the list.
LEMMA ChainBatch ==
  ASSUME NEW L, NEW n, NEW h, NEW nx, NEW pv, Chain(L, n, h, nx, pv, 0),
         NEW S \in Nat, S >= 2, NEW f \in Nat, f >= 1, Apart(L, n, f, S),
         NEW nx2, nx2 = BatchNext(nx, h, f, S), NEW pv2, pv2 = BatchPrev(pv, h, f, S)
  PROVE  \E L2 :
           /\ Chain(L2, n + S - 1, f + 1, nx2, pv2, 0)
           /\ \A x \in Slice : Has(L2, n + S - 1, x) <=> x \in (f + 1)..(f + S - 1) \/ Has(L, n, x)
           /\ \A x \in Slice : x \notin (f + 1)..(f + S - 1) /\ ~Has(L, n, x) /\ pv[x] = 0
                => pv2[x] = 0
<1> USE DEF BatchNext, BatchPrev, Apart
<1> PICK L2 : L2 = [i \in 1..(n + S - 1) |-> IF i < S THEN f + i ELSE L[i - S + 1]]
  OBVIOUS
<1>0. \A x \in f..(f + S - 1) : x \in Slice /\ \A i \in 1..n : L[i] # x
  BY DEF Has
<1> DEFINE m == n + S - 1
<1>1. /\ n \in Nat /\ L \in [1..n -> Slice] /\ h = IF n = 0 THEN 0 ELSE L[1]
      /\ \A i, j \in 1..n : L[i] = L[j] => i = j
  BY DEF Chain
<1>2. /\ \A i \in 1..n : nx[L[i]] = IF i = n THEN 0 ELSE L[i + 1]
      /\ \A i \in 1..n : pv[L[i]] = IF i = 1 THEN 0 ELSE L[i - 1]
  BY DEF Chain
<1>3. m \in Nat /\ m # 0 /\ 0 \notin Slice
  BY <1>1 DEF Slice
<1>4. \A i \in 1..m : IF i < S THEN f + i \in (f + 1)..(f + S - 1) /\ f + i \in f..(f + S - 1)
                      ELSE i - S + 1 \in 1..n
  BY <1>1
<1>5. \A i \in 1..m : L2[i] = IF i < S THEN f + i ELSE L[i - S + 1]
  OBVIOUS
<1>6. L2 \in [1..m -> Slice]
  BY <1>0, <1>1, <1>4
<1>7. \A i, j \in 1..m : L2[i] = L2[j] => i = j
  <2> TAKE i, j \in 1..m
  <2> HAVE L2[i] = L2[j]
  <2>0. i \in Int /\ j \in Int
    OBVIOUS
  <2>1. CASE i < S /\ j < S
    BY <1>5, <2>0, <2>1
  <2>2. CASE ~(i < S) /\ ~(j < S)
    <3>1. L[i - S + 1] = L[j - S + 1] /\ i - S + 1 \in 1..n /\ j - S + 1 \in 1..n
      BY <1>4, <1>5, <2>2
    <3>2. i - S + 1 = j - S + 1
      BY <1>1, <3>1
    <3> QED
      BY <2>0, <3>2
  <2>3. CASE (i < S) # (j < S)
    BY <1>0, <1>4, <1>5, <2>3
  <2> QED
    BY <2>1, <2>2, <2>3
<1>8. 1 \in 1..m /\ L2[1] = f + 1
  BY <1>1, <1>5
<1>9. \A i \in 1..n : L[i] \in Slice /\ L[i] \notin f..(f + S - 1) /\ L[i] # f /\ L[i] # f + 1
                      /\ L[i] # f + S - 1
  <2>1. f \in f..(f + S - 1) /\ f + 1 \in f..(f + S - 1) /\ f + S - 1 \in f..(f + S - 1)
    OBVIOUS
  <2> QED
    BY <1>0, <1>1, <2>1
<1>10. ASSUME NEW i \in 1..m
       PROVE  nx2[L2[i]] = IF i = m THEN 0 ELSE L2[i + 1]
  <2>0. i \in Int /\ n \in Int /\ i >= 1
    BY <1>1
  <2>1. CASE i < S - 1
    <3>1. f + i \in (f..(f + S - 1)) \ {f} /\ f + i # f + S - 1 /\ f + i # f
      BY <2>0, <2>1
    <3>2. i < S /\ i + 1 < S /\ i + 1 \in 1..m /\ i # m
      BY <1>1, <2>0, <2>1
    <3>3. L2[i] = f + i /\ L2[i + 1] = f + (i + 1) /\ f + (i + 1) = f + i + 1
      BY <1>5, <2>0, <3>2
    <3>4. nx2[f + i] = f + i + 1
      BY <3>1
    <3> QED
      BY <3>2, <3>3, <3>4
  <2>2. CASE i = S - 1
    <3>1. L2[i] = f + S - 1 /\ f + S - 1 # f /\ f + S - 1 \in f..(f + S - 1)
      BY <1>5, <2>0, <2>2
    <3>2. nx2[L2[i]] = h
      BY <3>1
    <3>3. i = m <=> n = 0
      BY <2>0, <2>2
    <3>4. n # 0 => i + 1 \in 1..m /\ ~(i + 1 < S) /\ i + 1 - S + 1 = 1
      BY <1>1, <2>0, <2>2
    <3>5. n # 0 => L2[i + 1] = L[1]
      <4>1. n # 0 => L2[i + 1] = L[i + 1 - S + 1]
        BY <1>5, <3>4
      <4> QED
        BY <3>4, <4>1
    <3> QED
      BY <1>1, <3>2, <3>3, <3>5
  <2>3. CASE i > S - 1
    <3>1. ~(i < S) /\ i - S + 1 \in 1..n /\ L2[i] = L[i - S + 1]
      BY <1>4, <1>5, <2>0, <2>3
    <3>2. nx2[L2[i]] = nx[L[i - S + 1]]
      BY <1>9, <3>1
    <3>3. nx2[L2[i]] = IF i - S + 1 = n THEN 0 ELSE L[i - S + 1 + 1]
      BY <1>2, <3>1, <3>2
    <3>4. i - S + 1 = n <=> i = m
      BY <2>0
    <3>5. i # m => i + 1 \in 1..m /\ ~(i + 1 < S) /\ i + 1 - S + 1 = i - S + 1 + 1
      BY <1>1, <2>0, <3>1
    <3>6. i # m => L2[i + 1] = L[i - S + 1 + 1]
      BY <1>5, <3>5
    <3> QED
      BY <3>3, <3>4, <3>6
  <2> QED
    BY <2>0, <2>1, <2>2, <2>3
<1>11. ASSUME NEW i \in 1..m
       PROVE  pv2[L2[i]] = IF i = 1 THEN 0 ELSE L2[i - 1]
  <2>0. i \in Int /\ n \in Int /\ i >= 1
    BY <1>1
  <2>1. CASE i = 1
    BY <1>6, <1>8, <2>1
  <2>2. CASE i # 1 /\ i < S
    <3>1. f + i \in (f..(f + S - 1)) \ {f} /\ f + i \notin {f, f + 1}
      BY <2>0, <2>2
    <3>2. i - 1 < S /\ i - 1 \in 1..m
      BY <1>1, <2>0, <2>2
    <3>3. L2[i] = f + i /\ L2[i - 1] = f + (i - 1) /\ f + (i - 1) = f + i - 1
      BY <1>5, <2>0, <2>2, <3>2
    <3>4. pv2[f + i] = f + i - 1
      BY <3>1
    <3> QED
      BY <2>2, <3>3, <3>4
  <2>3. CASE i = S
    <3>1. i # 1 /\ ~(i < S) /\ 1 \in 1..n /\ i - S + 1 = 1 /\ n # 0
      BY <1>1, <1>4, <2>0, <2>3
    <3>2. L2[i] = L[1] /\ h = L[1]
      BY <1>1, <1>5, <3>1
    <3>3. pv2[L[1]] = f + S - 1
      BY <1>9, <3>1, <3>2
    <3>4. i - 1 \in 1..m /\ i - 1 < S /\ f + (i - 1) = f + S - 1
      BY <2>0, <2>3
    <3> QED
      BY <1>5, <3>1, <3>2, <3>3, <3>4
  <2>4. CASE i > S
    <3>1. ~(i < S) /\ i - S + 1 \in 1..n /\ L2[i] = L[i - S + 1] /\ i - S + 1 # 1 /\ i # 1
      BY <1>4, <1>5, <2>0, <2>4
    <3>2. h = L[1] /\ 1 \in 1..n
      BY <1>1, <3>1
    <3>3. L[i - S + 1] # h
      BY <1>1, <3>1, <3>2
    <3>4. pv2[L2[i]] = pv[L[i - S + 1]]
      BY <1>9, <3>1, <3>3
    <3>5. pv2[L2[i]] = L[i - S + 1 - 1]
      BY <1>2, <3>1, <3>4
    <3>6. i - 1 \in 1..m /\ ~(i - 1 < S) /\ i - 1 - S + 1 = i - S + 1 - 1
      BY <2>0, <2>4
    <3> QED
      BY <1>5, <3>1, <3>5, <3>6
  <2> QED
    BY <2>0, <2>1, <2>2, <2>3, <2>4
<1>12. Chain(L2, m, f + 1, nx2, pv2, 0)
  <2> HIDE DEF m
  <2> QED
    BY <1>3, <1>6, <1>7, <1>8, <1>10, <1>11 DEF Chain
<1>13. ASSUME NEW x \in Slice
       PROVE  (\E i \in 1..m : L2[i] = x) <=>
                x \in (f + 1)..(f + S - 1) \/ \E i \in 1..n : L[i] = x
  <2>1. ASSUME NEW i \in 1..m
        PROVE  L2[i] \in (f + 1)..(f + S - 1) \/ \E j \in 1..n : L[j] = L2[i]
    BY <1>4, <1>5
  <2>2. ASSUME x \in (f + 1)..(f + S - 1)
        PROVE  \E i \in 1..m : L2[i] = x
    <3>1. x - f \in 1..m /\ x - f < S /\ f + (x - f) = x
      BY <1>1, <2>2
    <3> QED
      BY <1>5, <3>1
  <2>3. ASSUME NEW j \in 1..n
        PROVE  \E i \in 1..m : L2[i] = L[j]
    <3>1. j + S - 1 \in 1..m /\ ~(j + S - 1 < S) /\ j + S - 1 - S + 1 = j
      BY <1>1
    <3> QED
      BY <1>5, <3>1
  <2> HIDE DEF m
  <2>4. ASSUME NEW i \in 1..m, L2[i] = x
        PROVE  x \in (f + 1)..(f + S - 1) \/ \E j \in 1..n : L[j] = x
    BY <2>1, <2>4
  <2>5. ASSUME NEW j \in 1..n, L[j] = x
        PROVE  \E i \in 1..m : L2[i] = x
    BY <2>3, <2>5
  <2> QED
    BY <2>2, <2>4, <2>5
<1>14. ASSUME NEW x \in Slice, x \notin (f + 1)..(f + S - 1), \A i \in 1..n : L[i] # x, pv[x] = 0
       PROVE  pv2[x] = 0
  <2>1. n # 0 => 1 \in 1..n
    BY <1>1
  <2>2. x # h
    BY <1>1, <1>3, <1>14, <2>1
  <2>3. x \notin (f..(f + S - 1)) \ {f}
    BY <1>14
  <2> QED
    BY <1>14, <2>2, <2>3
<1>15. \A x \in Slice : Has(L2, m, x) <=> x \in (f + 1)..(f + S - 1) \/ Has(L, n, x)
  <2> HIDE DEF m
  <2> QED
    BY <1>13 DEF Has
<1>16. \A x \in Slice : x \notin (f + 1)..(f + S - 1) /\ ~Has(L, n, x) /\ pv[x] = 0 => pv2[x] = 0
  BY <1>14 DEF Has
<1> WITNESS L2
<1> QED
  BY <1>12, <1>15, <1>16


-----------------------------------------------------------------------------
(* What gum_code_allocator_alloc_slice finds on the list.                  *)

\* The walk finds the list and nothing else.
LEMMA WalkIsList ==
  ASSUME NEW L, NEW n, NEW b, ListIs(L, n, b)
  PROVE  /\ n \in Nat /\ \A i \in 1..n : i \in DOMAIN Walk /\ Walk[i] = L[i] /\ L[i] \in Slice
         /\ DOMAIN Walk \subseteq Nat
         /\ \A i \in DOMAIN Walk : Walk[i] # 0 => i \in 1..n
<1> DEFINE N == Cardinality(Slice)
           A == StepsAlong(free_slices, next, N)
<1>1. Chain(L, n, free_slices, next, prev, b)
  BY DEF ListIs
<1>2. n \in Nat /\ N \in Nat /\ n <= N
  BY <1>1, ChainFits
<1>3. A = [i \in 1..N |-> IF i <= n THEN L[i] ELSE 0]
  BY <1>1, <1>2, StepsFollowChain
<1>4. Walk = [i \in DOMAIN A |-> A[i]]
  BY DEF Walk, StepsAlong
<1>5. DOMAIN Walk = 1..N /\ \A i \in 1..N : Walk[i] = IF i <= n THEN L[i] ELSE 0
  <2> HIDE DEF A, N
  <2> QED
    BY <1>3, <1>4
<1>6. \A i \in 1..n : i \in 1..N /\ i <= n
  BY <1>2
<1>7. \A i \in 1..N : i <= n => i \in 1..n
  BY <1>2
<1>8. \A i \in 1..n : L[i] \in Slice
  BY <1>1 DEF Chain
<1> HIDE DEF N
<1> QED
  BY <1>2, <1>5, <1>6, <1>7, <1>8

\* The list is the free slices.
LEMMA ListIsFreeSlices ==
  ASSUME NEW L, NEW n, NEW b, ListIs(L, n, b)
  PROVE  OnList = {s \in Slice : IsFree(s)}
<1>1. /\ \A i \in 1..n : i \in DOMAIN Walk /\ Walk[i] = L[i] /\ L[i] \in Slice
      /\ \A i \in DOMAIN Walk : Walk[i] # 0 => i \in 1..n
  BY WalkIsList
<1>2. \A s \in Slice : IsFree(s) <=> \E i \in 1..n : L[i] = s
  BY DEF ListIs, Has
<1>3. 0 \notin Slice
  BY DEF Slice
<1>4. ASSUME NEW s \in OnList PROVE s \in Slice /\ IsFree(s)
  <2>1. PICK i \in DOMAIN Walk : Walk[i] = s /\ s # 0
    BY DEF OnList
  <2> QED
    BY <1>1, <1>2, <2>1
<1>5. ASSUME NEW s \in Slice, IsFree(s) PROVE s \in OnList
  <2>1. PICK i \in 1..n : L[i] = s
    BY <1>2, <1>5
  <2> QED
    BY <1>1, <1>3, <2>1 DEF OnList
<1> QED
  BY <1>4, <1>5

\* A slice found on the list is a free one, and none is found only when no free
\* slice would do.
LEMMA FirstFreeIsFree ==
  ASSUME NEW L, NEW n, NEW b, ListIs(L, n, b), NEW p
  PROVE  /\ FirstFree(p) = 0 \/ (FirstFree(p) \in Slice /\ IsFree(FirstFree(p)))
         /\ FirstFree(p) = 0 => \A s \in Slice : IsFree(s) => p \in Place /\ ~Near(s, p)
<1> DEFINE hits == {i \in DOMAIN Walk : Walk[i] # 0 /\ (p \in Place => Near(Walk[i], p))}
<1>1. /\ \A i \in 1..n : i \in DOMAIN Walk /\ Walk[i] = L[i] /\ L[i] \in Slice
      /\ \A i \in DOMAIN Walk : Walk[i] # 0 => i \in 1..n
      /\ DOMAIN Walk \subseteq Nat
  BY WalkIsList
<1>2. \A s \in Slice : IsFree(s) <=> \E i \in 1..n : L[i] = s
  BY DEF ListIs, Has
<1>3. 0 \notin Slice
  BY DEF Slice
<1>4. FirstFree(p) = IF hits = {} THEN 0 ELSE Walk[Min(hits)]
  BY DEF FirstFree
<1>5. ASSUME hits # {}
      PROVE  FirstFree(p) \in Slice /\ IsFree(FirstFree(p))
  <2>1. hits \in SUBSET Nat
    BY <1>1
  <2>2. Min(hits) \in hits
    BY <1>5, <2>1, LeastNumber
  <2>3. PICK i : i = Min(hits)
    OBVIOUS
  <2>4. i \in DOMAIN Walk /\ Walk[i] # 0
    BY <2>2, <2>3
  <2>5. FirstFree(p) = Walk[i]
    BY <1>4, <1>5, <2>3
  <2> QED
    BY <1>1, <1>2, <2>4, <2>5
<1>6. ASSUME hits = {}, NEW s \in Slice, IsFree(s)
      PROVE  p \in Place /\ ~Near(s, p)
  <2>1. PICK i \in 1..n : L[i] = s
    BY <1>2, <1>6
  <2>2. i \in DOMAIN Walk /\ Walk[i] = s /\ s # 0
    BY <1>1, <1>3, <2>1
  <2>3. i \notin hits
    BY <1>6
  <2> QED
    BY <2>2, <2>3
<1> HIDE DEF hits
<1>7. CASE hits = {}
  BY <1>4, <1>6, <1>7
<1>8. CASE hits # {}
  BY <1>3, <1>5, <1>8
<1> QED
  BY <1>7, <1>8


-----------------------------------------------------------------------------
(* Steps of the jobs.                                                      *)

Stages == {"idle", "take", "done"} \cup Owning

\* One job moves on to another stage.
LEMMA JobMoves ==
  ASSUME NEW J \in [Controller -> Job], NEW k \in Controller, NEW w \in Stages,
         NEW J2, J2 = [J EXCEPT ![k].at = w]
  PROVE  /\ J2 \in [Controller -> Job]
         /\ J2[k].at = w /\ J2[k].slice = J[k].slice /\ J2[k].ctx = J[k].ctx
         /\ \A j \in Controller : j # k => J2[j] = J[j]
<1>1. J[k] \in Job
  OBVIOUS
<1>2. [J[k] EXCEPT !.at = w] = [at |-> w, slice |-> J[k].slice, ctx |-> J[k].ctx]
  BY <1>1 DEF Job
<1>3. J2[k] = [at |-> w, slice |-> J[k].slice, ctx |-> J[k].ctx]
  BY <1>2
<1>4. J[k].slice \in Slice \cup {0} /\ J[k].ctx \in Context \cup {0}
  BY <1>1 DEF Job
<1>5. J2[k] \in Job
  BY <1>3, <1>4 DEF Job, Stages
<1>6. DOMAIN J2 = Controller /\ J2 = [j \in Controller |-> J2[j]]
  OBVIOUS
<1>7. \A j \in Controller : j # k => J2[j] = J[j]
  OBVIOUS
<1> QED
  BY <1>3, <1>5, <1>6, <1>7

\* One job becomes another.
LEMMA JobIs ==
  ASSUME NEW J \in [Controller -> Job], NEW k \in Controller, NEW w \in Stages,
         NEW s \in Slice \cup {0}, NEW c \in Context \cup {0},
         NEW J2, J2 = [J EXCEPT ![k] = [at |-> w, slice |-> s, ctx |-> c]]
  PROVE  /\ J2 \in [Controller -> Job]
         /\ J2[k] = [at |-> w, slice |-> s, ctx |-> c]
         /\ J2[k].at = w /\ J2[k].slice = s /\ J2[k].ctx = c
         /\ \A j \in Controller : j # k => J2[j] = J[j]
<1>1. [at |-> w, slice |-> s, ctx |-> c] \in Job
  BY DEF Job, Stages
<1>2. J2[k] = [at |-> w, slice |-> s, ctx |-> c]
  OBVIOUS
<1> QED
  BY <1>1, <1>2

\* One job ends.
LEMMA JobIdles ==
  ASSUME NEW J \in [Controller -> Job], NEW k \in Controller, NEW J2, J2 = [J EXCEPT ![k] = Idle]
  PROVE  /\ J2 \in [Controller -> Job] /\ J2[k] = Idle /\ J2[k].at = "idle"
         /\ \A j \in Controller : j # k => J2[j] = J[j]
<1>1. Idle \in Job /\ Idle.at = "idle"
  BY DEF Idle, Job
<1> QED
  BY <1>1

\* A step at the list that is no race has it to itself.
LEMMA AloneAtList ==
  ASSUME NEW k \in Controller, Racing(k), ~raced'
  PROVE  ~raced /\ \A j \in Controller : j # k =>
           job[j].at \notin {"take", "push_prev", "push_next", "push_head"}
  BY DEF Racing

\* A controller is done with a slice.
LEMMA DoneKeepsList ==
  ASSUME ListInv, NEW k \in Controller, Done(k)
  PROVE  ListInv'
<1>1. /\ job[k].at = "done" /\ job' = [job EXCEPT ![k] = Idle] /\ lock' = lock \ {k}
      /\ UNCHANGED <<place, free_slices, prev, next, ref_count, slice>>
  BY DEF Done
<1>2. AllocType /\ JobsOK /\ OwnersOK
  BY DEF ListInv
<1>3. /\ job' \in [Controller -> Job] /\ job'[k] = Idle /\ job'[k].at = "idle"
      /\ \A j \in Controller : j # k => job'[j] = job[j]
  <2>1. job \in [Controller -> Job]
    BY <1>2 DEF AllocType
  <2> QED
    BY <1>1, <2>1, JobIdles
<1>4. AllocType'
  BY <1>1, <1>2, <1>3 DEF AllocType
<1>5. JobsOK'
  BY <1>1, <1>2, <1>3 DEF JobsOK
<1>6. \A s : InUse(s)' <=> InUse(s)
  BY <1>1 DEF InUse, Mapped, Batches
<1>7. \A s : IsFree(s)' <=> IsFree(s)
  BY <1>1, <1>3, <1>6 DEF IsFree, Owning
<1>8. OwnersOK'
  BY <1>1, <1>2, <1>3, <1>6, <1>7 DEF OwnersOK, Owning, Halfway
<1>9. ASSUME NEW L, NEW n, NEW b, ListIs(L, n, b)
      PROVE  ListIs(L, n, b)'
  <2>1. BeforeHead(b)'
    BY <1>1, <1>3, <1>9 DEF ListIs, BeforeHead, Linking
  <2> QED
    BY <1>1, <1>3, <1>7, <1>9, <2>1 DEF ListIs
<1> QED
  BY <1>4, <1>5, <1>8, <1>9 DEF ListInv


\* What the list is about has not changed.
LEMMA SameKeepsList ==
  ASSUME ListInv, UNCHANGED <<place, free_slices, prev, next, ref_count, slice, job, lock>>
  PROVE  ListInv'
<1>1. \A s : (InUse(s)' <=> InUse(s)) /\ (IsFree(s)' <=> IsFree(s))
  BY DEF InUse, Mapped, Batches, IsFree
<1>2. AllocType' /\ JobsOK'
  BY DEF ListInv, AllocType, JobsOK
<1>3. OwnersOK'
  BY <1>1 DEF ListInv, OwnersOK
<1>4. \A L, n, b : ListIs(L, n, b) => ListIs(L, n, b)'
  BY <1>1 DEF ListIs, BeforeHead
<1> QED
  BY <1>2, <1>3, <1>4 DEF ListInv

\* A context gets its trampoline.
LEMMA KeepKeepsList ==
  ASSUME ListInv, NEW k \in Controller, Keep(k)
  PROVE  ListInv'
<1>1. /\ job[k].at = "check" /\ job' = [job EXCEPT ![k] = Idle] /\ lock' = {}
      /\ slice' = [slice EXCEPT ![job[k].ctx] = job[k].slice]
      /\ UNCHANGED <<place, free_slices, prev, next, ref_count>>
  BY DEF Keep
<1>2. AllocType /\ JobsOK /\ OwnersOK
  BY DEF ListInv
<1>3. /\ job' \in [Controller -> Job] /\ job'[k] = Idle /\ job'[k].at = "idle"
      /\ \A j \in Controller : j # k => job'[j] = job[j]
  <2>1. job \in [Controller -> Job]
    BY <1>2 DEF AllocType
  <2> QED
    BY <1>1, <2>1, JobIdles
<1>4. PICK s, c : s = job[k].slice /\ c = job[k].ctx
  OBVIOUS
<1>5. s \in Slice /\ c \in Context /\ slice[c] = 0 /\ lock = {k}
  BY <1>1, <1>2, <1>4 DEF JobsOK
<1>6. /\ slice' \in [Context -> Slice \cup {0}] /\ slice'[c] = s
      /\ \A d \in Context : d # c => slice'[d] = slice[d]
  BY <1>1, <1>2, <1>4, <1>5 DEF AllocType
<1>7. AllocType'
  BY <1>1, <1>2, <1>3, <1>6 DEF AllocType
<1>8. \A j \in Controller : j # k => job[j].at \notin {"take", "check"}
  BY <1>2, <1>5 DEF JobsOK
<1>9. JobsOK'
  BY <1>2, <1>3, <1>8 DEF JobsOK
<1>10. 0 \notin Slice
  BY DEF Slice
<1>11. Mapped' = Mapped /\ ref_count' = ref_count
  BY <1>1 DEF Mapped, Batches
<1>12. /\ InUse(s) /\ \A d \in Context : slice[d] # s
       /\ \A j \in Controller : j # k /\ job[j].at \in Owning => job[j].slice # s
  BY <1>1, <1>2, <1>4 DEF OwnersOK, Owning
<1>13. ASSUME NEW x \in Slice
       PROVE  IsFree(x)' <=> IsFree(x)
  <2>1. (\A d \in Context : slice'[d] # x) <=> x # s /\ \A d \in Context : slice[d] # x
    BY <1>5, <1>6, <1>10
  <2>2. (\A j \in Controller : job'[j].at \in Owning => job'[j].slice # x) /\ x # s
        <=> \A j \in Controller : job[j].at \in Owning => job[j].slice # x
    BY <1>1, <1>3, <1>4, <1>12 DEF Owning
  <2> QED
    BY <1>11, <2>1, <2>2 DEF IsFree, InUse
<1>14. OwnersOK'
  <2>1. \A d, e \in Context : d # e /\ slice'[d] # 0 => slice'[d] # slice'[e]
    BY <1>2, <1>6, <1>12 DEF OwnersOK
  <2>2. \A d \in Context : slice'[d] # 0 => InUse(slice[d])'
    BY <1>2, <1>6, <1>11, <1>12 DEF OwnersOK, InUse
  <2>3. \A j \in Controller : job'[j].at \in Owning =>
          InUse(job[j].slice)' /\ \A d \in Context : slice'[d] # job'[j].slice
    BY <1>2, <1>3, <1>6, <1>11, <1>12 DEF OwnersOK, Owning, InUse
  <2>4. \A j \in Controller : job'[j].at # "take"
    BY <1>3, <1>8
  <2> QED
    BY <1>2, <1>3, <2>1, <2>2, <2>3, <2>4 DEF OwnersOK, Owning, Halfway
<1>15. ASSUME NEW L, NEW n, NEW b, ListIs(L, n, b)
       PROVE  ListIs(L, n, b)'
  <2>1. BeforeHead(b)'
    BY <1>1, <1>3, <1>15 DEF ListIs, BeforeHead, Linking
  <2> QED
    BY <1>1, <1>3, <1>13, <1>15, <2>1 DEF ListIs
<1> QED
  BY <1>7, <1>9, <1>14, <1>15 DEF ListInv

\* The old head is told of the slice that is to become the head.
LEMMA PushPrevKeepsList ==
  ASSUME ListInv, NEW k \in Controller, PushPrev(k), ~raced'
  PROVE  ListInv'
<1>1. /\ job[k].at = "push_prev" /\ job' = [job EXCEPT ![k].at = "push_next"]
      /\ prev' = [x \in Slice |-> IF x = free_slices THEN job[k].slice ELSE prev[x]]
      /\ UNCHANGED <<place, free_slices, next, ref_count, slice, lock>>
  BY DEF PushPrev, MovedOn
<1>2. AllocType /\ JobsOK /\ OwnersOK
  BY DEF ListInv
<1>3. /\ job' \in [Controller -> Job]
      /\ job'[k].at = "push_next" /\ job'[k].slice = job[k].slice /\ job'[k].ctx = job[k].ctx
      /\ \A j \in Controller : j # k => job'[j] = job[j]
  <2>1. job \in [Controller -> Job] /\ "push_next" \in Stages
    BY <1>2 DEF AllocType, Stages, Owning
  <2>2. job' = [job EXCEPT ![k].at = "push_next"]
    BY <1>1
  <2> QED
    BY <2>1, <2>2, JobMoves
<1>4. \A j \in Controller : j # k => job[j].at \notin {"take", "push_prev", "push_next", "push_head"}
  BY AloneAtList DEF PushPrev
<1>5. PICK s : s = job[k].slice
  OBVIOUS
<1>6. s \in Slice
  BY <1>1, <1>2, <1>5 DEF JobsOK
<1>7. AllocType'
  BY <1>1, <1>2, <1>3, <1>5, <1>6 DEF AllocType
<1>8. JobsOK'
  BY <1>1, <1>2, <1>3 DEF JobsOK
<1>9. \A x : InUse(x)' <=> InUse(x)
  BY <1>1 DEF InUse, Mapped, Batches
<1>10. \A x : IsFree(x)' <=> IsFree(x)
  BY <1>1, <1>3, <1>9 DEF IsFree, Owning
<1>11. OwnersOK'
  BY <1>1, <1>2, <1>3, <1>4, <1>9, <1>10 DEF OwnersOK, Owning, Halfway
<1>12. ASSUME NEW L, NEW n, NEW b, ListIs(L, n, b)
       PROVE  ListIs(L, n, s)'
  <2>1. Chain(L, n, free_slices, next, prev, b)
    BY <1>12 DEF ListIs
  <2>2. /\ Chain(L, n, free_slices, next, prev', s)
        /\ \A x \in Slice : ~Has(L, n, x) => prev'[x] = prev[x]
    <3>1. prev' = [x \in Slice |-> IF x = free_slices THEN s ELSE prev[x]]
      BY <1>1, <1>5
    <3> QED
      BY <2>1, <3>1, ChainPrev
  <2>3. Chain(L, n, free_slices', next', prev', s)
    BY <1>1, <2>2
  <2>4. BeforeHead(s)'
    BY <1>3, <1>4, <1>5 DEF BeforeHead, Linking
  <2>5. \A x \in Slice : ~IsFree(x) => prev'[x] = 0
    BY <1>12, <2>2 DEF ListIs
  <2>6. \A j \in Controller : job'[j].at # "push_head"
    BY <1>3, <1>4
  <2> QED
    BY <1>10, <1>12, <2>3, <2>4, <2>5, <2>6 DEF ListIs
<1> QED
  BY <1>7, <1>8, <1>11, <1>12 DEF ListInv


\* The slice is given its successor.
LEMMA PushNextKeepsList ==
  ASSUME ListInv, NEW k \in Controller, PushNext(k), ~raced'
  PROVE  ListInv'
<1>1. /\ job[k].at = "push_next" /\ job' = [job EXCEPT ![k].at = "push_head"]
      /\ next' = [next EXCEPT ![job[k].slice] = free_slices]
      /\ UNCHANGED <<place, free_slices, prev, ref_count, slice, lock>>
  BY DEF PushNext, MovedOn
<1>2. AllocType /\ JobsOK /\ OwnersOK
  BY DEF ListInv
<1>3. /\ job' \in [Controller -> Job]
      /\ job'[k].at = "push_head" /\ job'[k].slice = job[k].slice /\ job'[k].ctx = job[k].ctx
      /\ \A j \in Controller : j # k => job'[j] = job[j]
  <2>1. job \in [Controller -> Job] /\ "push_head" \in Stages
    BY <1>2 DEF AllocType, Stages, Owning
  <2>2. job' = [job EXCEPT ![k].at = "push_head"]
    BY <1>1
  <2> QED
    BY <2>1, <2>2, JobMoves
<1>4. \A j \in Controller : j # k => job[j].at \notin {"take", "push_prev", "push_next", "push_head"}
  BY AloneAtList DEF PushNext
<1>5. PICK s : s = job[k].slice
  OBVIOUS
<1>6. s \in Slice
  BY <1>1, <1>2, <1>5 DEF JobsOK
<1>7. AllocType'
  BY <1>1, <1>2, <1>3, <1>5, <1>6 DEF AllocType
<1>8. JobsOK'
  BY <1>1, <1>2, <1>3 DEF JobsOK
<1>9. \A x : InUse(x)' <=> InUse(x)
  BY <1>1 DEF InUse, Mapped, Batches
<1>10. \A x : IsFree(x)' <=> IsFree(x)
  BY <1>1, <1>3, <1>9 DEF IsFree, Owning
<1>11. OwnersOK'
  BY <1>1, <1>2, <1>3, <1>4, <1>9, <1>10 DEF OwnersOK, Owning, Halfway
<1>12. ASSUME NEW L, NEW n, NEW b, ListIs(L, n, b)
       PROVE  ListIs(L, n, s)'
  <2>1. b = s
    BY <1>1, <1>5, <1>12 DEF ListIs, BeforeHead, Linking
  <2>2. Chain(L, n, free_slices, next, prev, s)
    BY <1>12, <2>1 DEF ListIs
  <2>3. ~IsFree(s)
    BY <1>1, <1>5 DEF IsFree, Owning
  <2>4. ~Has(L, n, s)
    BY <1>6, <1>12, <2>3 DEF ListIs
  <2>5. next \in [Slice -> Slice \cup {0}] /\ next' = [next EXCEPT ![s] = free_slices]
    BY <1>1, <1>2, <1>5 DEF AllocType
  <2>6. Chain(L, n, free_slices, next', prev, s)
    BY <2>2, <2>4, <2>5, ChainNext
  <2>7. Chain(L, n, free_slices', next', prev', s)
    BY <1>1, <2>6
  <2>8. BeforeHead(s)'
    BY <1>3, <1>4, <1>5 DEF BeforeHead, Linking
  <2>9. \A j \in Controller : job'[j].at = "push_head" => next'[job'[j].slice] = free_slices
    BY <1>3, <1>4, <1>5, <1>6, <2>5
  <2> QED
    BY <1>1, <1>10, <1>12, <2>7, <2>8, <2>9 DEF ListIs
<1> QED
  BY <1>7, <1>8, <1>11, <1>12 DEF ListInv

\* The slice becomes the head: it is free again.
LEMMA PushHeadKeepsList ==
  ASSUME ListInv, NEW k \in Controller, PushHead(k), ~raced'
  PROVE  ListInv'
<1>1. /\ job[k].at = "push_head" /\ job' = [job EXCEPT ![k].at = "done"]
      /\ free_slices' = job[k].slice
      /\ UNCHANGED <<place, next, prev, ref_count, slice, lock>>
  BY DEF PushHead, MovedOn
<1>2. AllocType /\ JobsOK /\ OwnersOK
  BY DEF ListInv
<1>3. /\ job' \in [Controller -> Job]
      /\ job'[k].at = "done" /\ job'[k].slice = job[k].slice /\ job'[k].ctx = job[k].ctx
      /\ \A j \in Controller : j # k => job'[j] = job[j]
  <2>1. job \in [Controller -> Job] /\ "done" \in Stages
    BY <1>2 DEF AllocType, Stages, Owning
  <2>2. job' = [job EXCEPT ![k].at = "done"]
    BY <1>1
  <2> QED
    BY <2>1, <2>2, JobMoves
<1>4. \A j \in Controller : j # k => job[j].at \notin {"take", "push_prev", "push_next", "push_head"}
  BY AloneAtList DEF PushHead
<1>5. PICK s : s = job[k].slice
  OBVIOUS
<1>6. s \in Slice
  BY <1>1, <1>2, <1>5 DEF JobsOK
<1>7. AllocType'
  BY <1>1, <1>2, <1>3, <1>5, <1>6 DEF AllocType
<1>8. JobsOK'
  BY <1>1, <1>2, <1>3 DEF JobsOK
<1>9. \A x : InUse(x)' <=> InUse(x)
  BY <1>1 DEF InUse, Mapped, Batches
<1>10. /\ InUse(s) /\ \A c \in Context : slice[c] # s
       /\ \A j \in Controller : j # k /\ job[j].at \in Owning => job[j].slice # s
  BY <1>1, <1>2, <1>5 DEF OwnersOK, Owning
<1>11. \A x : IsFree(x)' <=> (x = s \/ IsFree(x))
  BY <1>1, <1>3, <1>5, <1>9, <1>10 DEF IsFree, Owning
<1>12. \A j \in Controller : job'[j].at \notin {"take", "push_prev", "push_next", "push_head"}
  BY <1>3, <1>4
<1>13. OwnersOK'
  BY <1>1, <1>2, <1>3, <1>9, <1>12 DEF OwnersOK, Owning, Halfway
<1>14. ASSUME NEW L, NEW n, NEW b, ListIs(L, n, b)
       PROVE  \E M, m, d : ListIs(M, m, d)'
  <2>1. b = s
    BY <1>1, <1>5, <1>14 DEF ListIs, BeforeHead, Linking
  <2>2. Chain(L, n, free_slices, next, prev, s)
    BY <1>14, <2>1 DEF ListIs
  <2>3. ~IsFree(s)
    BY <1>1, <1>5 DEF IsFree, Owning
  <2>4. ~Has(L, n, s)
    BY <1>6, <1>14, <2>3 DEF ListIs
  <2>5. next[s] = free_slices /\ prev[s] = 0
    BY <1>1, <1>5, <1>6, <1>14, <2>3 DEF ListIs
  <2>7. PICK M : /\ Chain(M, n + 1, s, next, prev, 0)
                 /\ \A x \in Slice : Has(M, n + 1, x) <=> x = s \/ Has(L, n, x)
    BY <1>6, <2>2, <2>4, <2>5, ChainPush
  <2>8. Chain(M, n + 1, free_slices', next', prev', 0)
    BY <1>1, <1>5, <2>7
  <2>9. BeforeHead(0)'
    BY <1>12 DEF BeforeHead, Linking
  <2>10. \A x \in Slice : IsFree(x)' <=> Has(M, n + 1, x)
    BY <1>11, <1>14, <2>7 DEF ListIs
  <2>11. \A x \in Slice : ~IsFree(x)' => prev'[x] = 0
    BY <1>1, <1>11, <1>14 DEF ListIs
  <2> QED
    BY <1>12, <2>8, <2>9, <2>10, <2>11 DEF ListIs
<1> QED
  BY <1>7, <1>8, <1>13, <1>14 DEF ListInv

\* A slice is taken off the list.
LEMMA TakeKeepsList ==
  ASSUME ListInv, NEW k \in Controller, Take(k), ~raced'
  PROVE  ListInv'
<1>1. PICK s : s = job[k].slice
  OBVIOUS
<1>2. /\ job[k].at = "take" /\ job' = [job EXCEPT ![k].at = "check"]
      /\ UNCHANGED <<place, ref_count, slice, lock>>
  BY DEF Take
<1>3. /\ next' = [x \in Slice |-> IF x = s THEN 0 ELSE IF x = prev[s] THEN next[s] ELSE next[x]]
      /\ prev' = [x \in Slice |-> IF x = s THEN 0 ELSE IF x = next[s] THEN prev[s] ELSE prev[x]]
      /\ free_slices' = IF free_slices = s THEN next[s] ELSE free_slices
  BY <1>1 DEF Take
<1>4. AllocType /\ JobsOK /\ OwnersOK
  BY DEF ListInv
<1>5. /\ job' \in [Controller -> Job]
      /\ job'[k].at = "check" /\ job'[k].slice = job[k].slice /\ job'[k].ctx = job[k].ctx
      /\ \A j \in Controller : j # k => job'[j] = job[j]
  <2>1. job \in [Controller -> Job] /\ "check" \in Stages
    BY <1>4 DEF AllocType, Stages, Owning
  <2>2. job' = [job EXCEPT ![k].at = "check"]
    BY <1>2
  <2> QED
    BY <2>1, <2>2, JobMoves
<1>6. \A j \in Controller : j # k => job[j].at \notin {"take", "push_prev", "push_next", "push_head"}
  BY AloneAtList DEF Take
<1>7. s \in Slice
  BY <1>1, <1>2, <1>4 DEF JobsOK
<1>8. AllocType'
  BY <1>2, <1>3, <1>4, <1>5, <1>7 DEF AllocType
<1>9. JobsOK'
  BY <1>2, <1>4, <1>5 DEF JobsOK
<1>10. \A x : InUse(x)' <=> InUse(x)
  BY <1>2 DEF InUse, Mapped, Batches
<1>11. IsFree(s)
  BY <1>1, <1>2, <1>4 DEF OwnersOK
<1>12. \A x : IsFree(x)' <=> (x # s /\ IsFree(x))
  BY <1>1, <1>2, <1>5, <1>10 DEF IsFree, Owning
<1>13. \A j \in Controller : job'[j].at \notin {"take", "push_prev", "push_next", "push_head"}
  BY <1>5, <1>6
<1>14. OwnersOK'
  <2>1. InUse(s) /\ (\A c \in Context : slice[c] # s)
        /\ \A j \in Controller : job[j].at \in Owning => job[j].slice # s
    BY <1>11 DEF IsFree
  <2> QED
    BY <1>1, <1>2, <1>4, <1>5, <1>10, <1>13, <2>1 DEF OwnersOK, Owning, Halfway
<1>15. ASSUME NEW L, NEW n, NEW b, ListIs(L, n, b)
       PROVE  \E M, m, d : ListIs(M, m, d)'
  <2>1. b = 0
    BY <1>2, <1>6, <1>15 DEF ListIs, BeforeHead, Linking
  <2>2. Chain(L, n, free_slices, next, prev, 0)
    BY <1>15, <2>1 DEF ListIs
  <2>3. Has(L, n, s)
    BY <1>7, <1>11, <1>15 DEF ListIs
  <2>5. PICK M : /\ Chain(M, n - 1, free_slices', next', prev', 0)
                 /\ \A x \in Slice : Has(M, n - 1, x) <=> x # s /\ Has(L, n, x)
                 /\ \A x \in Slice : x = s \/ (~Has(L, n, x) /\ prev[x] = 0) => prev'[x] = 0
    BY <1>3, <2>2, <2>3, ChainRemoves, SMTT(30)
  <2>6. BeforeHead(0)'
    BY <1>13 DEF BeforeHead, Linking
  <2>7. \A x \in Slice : IsFree(x)' <=> Has(M, n - 1, x)
    BY <1>12, <1>15, <2>5 DEF ListIs
  <2>8. \A x \in Slice : ~IsFree(x)' => prev'[x] = 0
    BY <1>12, <1>15, <2>5 DEF ListIs
  <2> QED
    BY <1>13, <2>5, <2>6, <2>7, <2>8 DEF ListIs
<1> QED
  BY <1>8, <1>9, <1>14, <1>15 DEF ListInv


\* gum_code_slice_unref of a slice that nobody else has: either the slice is on
\* its way back to the list or it is lost.
LEMMA UnrefKeepsList ==
  ASSUME ListInv, NEW k \in Controller, NEW s \in Slice, Unref(k, s), InUse(s),
         job[k].at \in {"idle", "check"}, job[k].at = "check" => job[k].slice = s,
         \A j \in Controller : j # k /\ job[j].at \in Owning => job[j].slice # s,
         slice' \in [Context -> Slice \cup {0}],
         \A c \in Context : slice'[c] = IF slice[c] = s THEN 0 ELSE slice[c],
         ~IsFree(s), UNCHANGED <<place, free_slices, prev, next, lock>>
  PROVE  ListInv'
<1> DEFINE w == AfterUnref(s)
<1>1. AllocType /\ JobsOK /\ OwnersOK /\ 0 \notin Slice
  BY DEF ListInv, Slice
<1>2. ref_count \in [Slice -> Int] /\ \A x \in Slice : ref_count[x] <= 1
  BY <1>1 DEF AllocType
<1>3. ref_count[s] \in {0, 1}
  BY <1>2 DEF InUse
<1>4. /\ ref_count' \in [Slice -> Int] /\ ref_count'[s] = ref_count[s] - 1
      /\ \A x \in Slice : x # s => ref_count'[x] = ref_count[x]
  BY <1>2 DEF Unref
<1>5. \A x \in Slice : ref_count'[x] <= 1
  BY <1>2, <1>3, <1>4
<1>6. \/ w = "push_prev" /\ ref_count'[s] >= 0
      \/ w = "done" /\ ~(ref_count'[s] >= 0)
  BY <1>3, <1>4 DEF AfterUnref
<1>7. /\ job' \in [Controller -> Job]
      /\ job'[k].at = w /\ job'[k].slice = s /\ job'[k].ctx = 0
      /\ \A j \in Controller : j # k => job'[j] = job[j]
  <2>1. job \in [Controller -> Job] /\ w \in Stages /\ s \in Slice \cup {0} /\ 0 \in Context \cup {0}
    BY <1>1, <1>6 DEF AllocType, Stages, Owning
  <2>2. job' = [job EXCEPT ![k] = [at |-> w, slice |-> s, ctx |-> 0]]
    BY DEF Unref
  <2> HIDE DEF w
  <2> QED
    BY <2>1, <2>2, JobIs
<1> HIDE DEF w
<1>8. AllocType'
  BY <1>1, <1>4, <1>5, <1>7 DEF AllocType
<1>9. \A j \in Controller : j # k /\ job[j].at \in {"take", "check"} =>
        lock' = {j} /\ job[j].ctx \in Context /\ slice'[job[j].ctx] = 0
  BY <1>1 DEF JobsOK
<1>10. JobsOK'
  BY <1>1, <1>6, <1>7, <1>9 DEF JobsOK
<1>11. Mapped' = Mapped
  BY DEF Mapped, Batches
<1>12. \A x \in Slice : x # s => (InUse(x)' <=> InUse(x))
  BY <1>4, <1>11 DEF InUse
<1>13. w = "push_prev" <=> InUse(s)'
  BY <1>6, <1>11 DEF InUse
<1>14. \A x \in Slice : x # s =>
         ((\A c \in Context : slice'[c] # x) <=> \A c \in Context : slice[c] # x)
  BY <1>1
<1>15. \A x \in Slice : x # s =>
         ((\A j \in Controller : job'[j].at \in Owning => job'[j].slice # x)
          <=> \A j \in Controller : job[j].at \in Owning => job[j].slice # x)
  BY <1>7 DEF Owning
<1>16. ~IsFree(s)'
  BY <1>6, <1>7, <1>13 DEF IsFree, Owning
<1>17. \A x \in Slice : IsFree(x)' <=> IsFree(x)
  BY <1>12, <1>14, <1>15, <1>16 DEF IsFree
<1>18. OwnersOK'
  <2>1. \A c, d \in Context : c # d /\ slice'[c] # 0 => slice'[c] # slice'[d]
    BY <1>1 DEF OwnersOK
  <2>2. \A c \in Context : slice'[c] # 0 => InUse(slice[c])'
    <3> SUFFICES ASSUME NEW c \in Context, slice'[c] # 0 PROVE InUse(slice[c])'
      OBVIOUS
    <3>1. slice'[c] = slice[c] /\ slice[c] # s /\ slice[c] \in Slice
      BY <1>1 DEF AllocType
    <3>2. InUse(slice[c])
      BY <1>1, <3>1 DEF OwnersOK
    <3> QED
      BY <1>4, <1>11, <3>1, <3>2 DEF InUse
  <2>3. \A j \in Controller : job'[j].at \in Owning =>
          InUse(job[j].slice)' /\ \A c \in Context : slice'[c] # job'[j].slice
    <3> SUFFICES ASSUME NEW j \in Controller, job'[j].at \in Owning
                 PROVE  InUse(job[j].slice)' /\ \A c \in Context : slice'[c] # job'[j].slice
      OBVIOUS
    <3>1. CASE j = k
      <4>1. w = "push_prev" /\ job'[j].slice = s
        BY <1>6, <1>7, <3>1 DEF Owning
      <4>2. InUse(job[j].slice)'
        BY <1>6, <1>11, <4>1 DEF InUse
      <4> QED
        BY <1>1, <4>1, <4>2
    <3>2. CASE j # k
      <4>1. job'[j] = job[j] /\ job[j].slice # s /\ job[j].slice \in Slice
        <5>1. job'[j] = job[j] /\ job[j].at # "idle"
          BY <1>7, <3>2 DEF Owning
        <5> QED
          BY <1>1, <3>2, <5>1 DEF JobsOK
      <4>2. InUse(job[j].slice) /\ \A c \in Context : slice[c] # job[j].slice
        BY <1>1, <4>1 DEF OwnersOK
      <4>3. InUse(job[j].slice)'
        BY <1>4, <1>11, <4>1, <4>2 DEF InUse
      <4> QED
        BY <1>1, <4>1, <4>2, <4>3
    <3> QED
      BY <3>1, <3>2
  <2>4. \A i, j \in Controller : i # j /\ job'[i].at \in Owning /\ job'[j].at \in Owning
          => job'[i].slice # job'[j].slice
    BY <1>1, <1>7 DEF OwnersOK
  <2>5. \A j \in Controller : job'[j].at = "take" => IsFree(job[j].slice)'
    <3> SUFFICES ASSUME NEW j \in Controller, job'[j].at = "take" PROVE IsFree(job[j].slice)'
      OBVIOUS
    <3>1. j # k /\ job'[j] = job[j] /\ job[j].at = "take"
      BY <1>6, <1>7
    <3>2. PICK x : x = job[j].slice
      OBVIOUS
    <3>3. x \in Slice /\ IsFree(x)
      BY <1>1, <3>1, <3>2 DEF OwnersOK, JobsOK
    <3>4. IsFree(x)' /\ x = job'[j].slice
      BY <1>17, <3>1, <3>2, <3>3
    <3> QED
      BY <3>4 DEF IsFree, InUse
  <2>6. \A i, j \in Controller : i # j /\ job'[i].at \in Halfway => job'[j].at \notin Halfway
    BY <1>1, <1>6, <1>7 DEF OwnersOK, Halfway
  <2> QED
    BY <2>1, <2>2, <2>3, <2>4, <2>5, <2>6 DEF OwnersOK
<1>19. ASSUME NEW L, NEW n, NEW b, ListIs(L, n, b)
       PROVE  ListIs(L, n, b)'
  <2>1. BeforeHead(b)'
    <3>1. BeforeHead(b)
      BY <1>19 DEF ListIs
    <3>2. w \notin Linking /\ job[k].at \notin Linking
      BY <1>6 DEF Linking
    <3> QED
      BY <1>7, <3>1, <3>2 DEF BeforeHead
  <2>2. \A j \in Controller : job'[j].at = "push_head" => next'[job'[j].slice] = free_slices'
    BY <1>6, <1>7, <1>19 DEF ListIs
  <2> QED
    BY <1>17, <1>19, <2>1, <2>2 DEF ListIs
<1> QED
  BY <1>8, <1>10, <1>18, <1>19 DEF ListInv


\* A slice for a function that cannot be relocated is given back.
LEMMA RefuseKeepsList ==
  ASSUME ListInv, NEW k \in Controller, Refuse(k)
  PROVE  ListInv'
<1>1. PICK s : s = job[k].slice
  OBVIOUS
<1>2. /\ job[k].at = "check" /\ Unref(k, s)
      /\ UNCHANGED <<place, free_slices, prev, next, slice, lock>>
  BY <1>1 DEF Refuse
<1>3. AllocType /\ JobsOK /\ OwnersOK
  BY DEF ListInv
<1>4. s \in Slice
  BY <1>1, <1>2, <1>3 DEF JobsOK
<1>5. /\ InUse(s) /\ \A c \in Context : slice[c] # s
      /\ \A j \in Controller : j # k /\ job[j].at \in Owning => job[j].slice # s
  BY <1>1, <1>2, <1>3 DEF OwnersOK, Owning
<1>6. ~IsFree(s)
  BY <1>1, <1>2 DEF IsFree, Owning
<1>7. /\ slice' \in [Context -> Slice \cup {0}]
      /\ \A c \in Context : slice'[c] = IF slice[c] = s THEN 0 ELSE slice[c]
  BY <1>2, <1>3, <1>5 DEF AllocType
<1> QED
  BY <1>1, <1>2, <1>4, <1>5, <1>6, <1>7, UnrefKeepsList

\* A function context's trampoline is destroyed.
LEMMA DestroyKeepsList ==
  ASSUME ListInv, NEW k \in Controller, NEW c \in Context, Destroy(k, c)
  PROVE  ListInv'
<1>1. PICK s : s = slice[c]
  OBVIOUS
<1>2. /\ job[k] = Idle /\ s # 0 /\ Unref(k, s) /\ slice' = [slice EXCEPT ![c] = 0]
      /\ UNCHANGED <<place, free_slices, prev, next, lock>>
  BY <1>1 DEF Destroy
<1>3. AllocType /\ JobsOK /\ OwnersOK
  BY DEF ListInv
<1>4. s \in Slice /\ job[k].at = "idle"
  BY <1>1, <1>2, <1>3 DEF AllocType, Idle
<1>5. /\ InUse(s) /\ \A d \in Context : d # c => slice[d] # s
      /\ \A j \in Controller : j # k /\ job[j].at \in Owning => job[j].slice # s
  BY <1>1, <1>2, <1>3 DEF OwnersOK
<1>6. ~IsFree(s)
  BY <1>1 DEF IsFree
<1>7. /\ slice' \in [Context -> Slice \cup {0}]
      /\ \A d \in Context : slice'[d] = IF slice[d] = s THEN 0 ELSE slice[d]
  BY <1>1, <1>2, <1>3, <1>5 DEF AllocType
<1> QED
  BY <1>2, <1>4, <1>5, <1>6, <1>7, UnrefKeepsList

\* A free slice is chosen for a context.
LEMMA ChosenKeepsList ==
  ASSUME ListInv, NEW k \in Controller, NEW c \in Context, NEW s \in Slice, IsFree(s),
         lock = {}, job[k] = Idle, slice[c] = 0, lock' = {k},
         job' = [job EXCEPT ![k] = [at |-> "take", slice |-> s, ctx |-> c]],
         Racing(k), ~raced',
         UNCHANGED <<place, free_slices, prev, next, ref_count, slice>>
  PROVE  ListInv'
<1>1. AllocType /\ JobsOK /\ OwnersOK /\ job[k].at = "idle"
  BY DEF ListInv, Idle
<1>2. /\ job' \in [Controller -> Job]
      /\ job'[k].at = "take" /\ job'[k].slice = s /\ job'[k].ctx = c
      /\ \A j \in Controller : j # k => job'[j] = job[j]
  <2>1. job \in [Controller -> Job] /\ "take" \in Stages /\ s \in Slice \cup {0} /\ c \in Context \cup {0}
    BY <1>1 DEF AllocType, Stages
  <2>2. PICK w : w = "take"
    OBVIOUS
  <2>3. w \in Stages /\ job' = [job EXCEPT ![k] = [at |-> w, slice |-> s, ctx |-> c]]
    BY <2>1, <2>2
  <2>4. /\ job' \in [Controller -> Job]
        /\ job'[k].at = w /\ job'[k].slice = s /\ job'[k].ctx = c
        /\ \A j \in Controller : j # k => job'[j] = job[j]
    BY <2>1, <2>3, JobIs
  <2> QED
    BY <2>2, <2>4
<1>3. \A j \in Controller : j # k => job[j].at \notin {"take", "push_prev", "push_next", "push_head"}
  BY AloneAtList
<1>4. AllocType'
  BY <1>1, <1>2 DEF AllocType
<1>5. \A j \in Controller : job[j].at \notin {"take", "check"}
  BY <1>1 DEF JobsOK
<1>6. JobsOK'
  BY <1>1, <1>2, <1>5 DEF JobsOK
<1>7. \A x : InUse(x)' <=> InUse(x)
  BY DEF InUse, Mapped, Batches
<1>8. \A x : IsFree(x)' <=> IsFree(x)
  BY <1>1, <1>2, <1>7 DEF IsFree, Owning
<1>9. OwnersOK'
  <2>1. \A j \in Controller : job'[j].at = "take" => IsFree(job[j].slice)'
    <3> SUFFICES ASSUME NEW j \in Controller, job'[j].at = "take" PROVE IsFree(job[j].slice)'
      OBVIOUS
    <3>1. job'[j].slice = s
      BY <1>2, <1>5
    <3>2. IsFree(s)'
      BY <1>8
    <3> QED
      BY <3>1, <3>2 DEF IsFree, InUse
  <2>2. \A i, j \in Controller : i # j /\ job'[i].at \in Halfway => job'[j].at \notin Halfway
    BY <1>2, <1>3 DEF Halfway
  <2> QED
    BY <1>1, <1>2, <1>7, <2>1, <2>2 DEF OwnersOK, Owning
<1>10. ASSUME NEW L, NEW n, NEW b, ListIs(L, n, b)
       PROVE  ListIs(L, n, b)'
  <2>1. BeforeHead(b)'
    BY <1>1, <1>2, <1>10 DEF ListIs, BeforeHead, Linking
  <2> QED
    BY <1>2, <1>8, <1>10, <2>1 DEF ListIs
<1> QED
  BY <1>4, <1>6, <1>9, <1>10 DEF ListInv


-----------------------------------------------------------------------------
(* A new batch.                                                            *)

\* The links and counts of try_alloc_batch_near, in the numbers of its slices.
LEMMA BatchIsNext ==
  ASSUME NEW N \in 1..MaxBatches, place \in [1..N -> Place], NEW p \in Place,
         NEW k \in Controller, NEW c \in Context, MapBatch(k, c, p),
         NEW S, S = SlicesPerBatch, NEW f, f = FirstOf(N + 1)
  PROVE  /\ N + 1 \in 1..MaxBatches
         /\ place' \in [1..(N + 1) -> Place] /\ place'[N + 1] = p
         /\ S \in Nat /\ S >= 2 /\ f \in Nat /\ f >= 3
         /\ SlicesOf(N + 1) = f..(f + S - 1)
         /\ \A x \in f..(f + S - 1) : x \in Slice /\ BatchOf(x) = N + 1
         /\ ref_count' = [x \in Slice |-> IF x \in f..(f + S - 1) THEN 1 ELSE ref_count[x]]
         /\ next' = BatchNext(next, free_slices, f, S) /\ prev' = BatchPrev(prev, free_slices, f, S)
         /\ free_slices' = f + 1
         /\ dirty_pages' = dirty_pages \cup {N + 1} /\ written' = written \cup {f}
         /\ job' = [job EXCEPT ![k] = [at |-> "check", slice |-> f, ctx |-> c]]
         /\ Racing(k)
<1>1. Batches = 1..N /\ N \in Nat /\ MaxBatches \in Nat /\ S \in Nat /\ S >= 2
  BY AllocBoundsAssumption, SlicesAssumption DEF Batches
<1>2. Cardinality(Batches) + 1 = N + 1
  BY <1>1, FS_Interval
<1> DEFINE b == N + 1
<1>3. b \in 1..MaxBatches
  BY <1>1, <1>2 DEF MapBatch
<1>4. /\ SlicesOf(b) = f..(f + S - 1) /\ Max(SlicesOf(b)) = f + S - 1
      /\ \A x \in SlicesOf(b) : x \in Slice /\ BatchOf(x) = b
  BY <1>3, BatchFacts
<1>5. f \in Nat /\ f >= 3
  <2>1. f = N * S + 1
    BY <1>1 DEF FirstOf
  <2>2. N * S >= 1 * S /\ 1 * S = S /\ N * S \in Nat
    BY <1>1, TimesMonotone
  <2> QED
    BY <1>1, <2>1, <2>2
<1>6. /\ place' = [d \in Batches \cup {b} |-> IF d = b THEN p ELSE place[d]]
      /\ Racing(k)
      /\ free_slices' = f + 1
      /\ dirty_pages' = dirty_pages \cup {b} /\ written' = written \cup {f}
      /\ job' = [job EXCEPT ![k] = [at |-> "check", slice |-> f, ctx |-> c]]
  BY <1>2 DEF MapBatch
<1>7. /\ ref_count' = [x \in Slice |-> IF x \in f..(f + S - 1) THEN 1 ELSE ref_count[x]]
      /\ next' = BatchNext(next, free_slices, f, S)
  BY <1>2, <1>4 DEF MapBatch, BatchNext
<1>8. prev' = BatchPrev(prev, free_slices, f, S)
  BY <1>2, <1>4 DEF MapBatch, BatchPrev
<1>9. Batches \cup {b} = 1..b /\ \A d \in 1..b : d # b => d \in 1..N
  BY <1>1
<1>10. place' \in [1..b -> Place] /\ place'[b] = p
  <2>1. b \in 1..b
    BY <1>1
  <2> HIDE DEF b
  <2> QED
    BY <1>6, <1>9, <2>1
<1> QED
  BY <1>1, <1>3, <1>4, <1>5, <1>6, <1>7, <1>8, <1>10

\* The slices of a new batch but the first are free, the first is the caller's.
LEMMA BatchKeepsList ==
  ASSUME ListInv, NEW N \in 1..MaxBatches, place \in [1..N -> Place], NEW p \in Place,
         NEW k \in Controller, NEW c \in Context, MapBatch(k, c, p), ~raced',
         lock = {}, job[k] = Idle, slice[c] = 0, lock' = {k}, UNCHANGED slice
  PROVE  ListInv'
<1> DEFINE b == N + 1
<1>0. PICK S, f : S = SlicesPerBatch /\ f = FirstOf(b)
  OBVIOUS
<1>1. /\ b \in 1..MaxBatches /\ place' \in [1..b -> Place]
      /\ S \in Nat /\ S >= 2 /\ f \in Nat /\ f >= 3
      /\ SlicesOf(b) = f..(f + S - 1)
      /\ \A x \in f..(f + S - 1) : x \in Slice /\ BatchOf(x) = b
  <2>1. b \in 1..MaxBatches /\ place' \in [1..b -> Place]
    BY <1>0, BatchIsNext
  <2>2. S \in Nat /\ S >= 2 /\ f \in Nat /\ f >= 3
    BY <1>0, BatchIsNext
  <2>3. /\ SlicesOf(b) = f..(f + S - 1)
        /\ \A x \in f..(f + S - 1) : x \in Slice /\ BatchOf(x) = b
    BY <1>0, BatchIsNext
  <2> QED
    BY <2>1, <2>2, <2>3
<1>2. /\ ref_count' = [x \in Slice |-> IF x \in f..(f + S - 1) THEN 1 ELSE ref_count[x]]
      /\ free_slices' = f + 1
      /\ job' = [job EXCEPT ![k] = [at |-> "check", slice |-> f, ctx |-> c]]
      /\ Racing(k)
  BY <1>0, BatchIsNext
<1>3. next' = BatchNext(next, free_slices, f, S) /\ prev' = BatchPrev(prev, free_slices, f, S)
  BY <1>0, BatchIsNext
<1>4. AllocType /\ JobsOK /\ OwnersOK /\ job[k].at = "idle" /\ 0 \notin Slice
  BY DEF ListInv, Idle, Slice
<1>5. /\ f \in f..(f + S - 1) /\ f + 1 \in f..(f + S - 1) /\ f + S - 1 \in f..(f + S - 1)
      /\ f \in Slice /\ f + 1 \in Slice /\ f + S - 1 \in Slice /\ f + S - 1 # f
      /\ \A x \in f..(f + S - 1) : x \notin Thunks
  <2>1. f \in f..(f + S - 1) /\ f + 1 \in f..(f + S - 1) /\ f + S - 1 \in f..(f + S - 1)
        /\ f + S - 1 # f /\ \A x \in f..(f + S - 1) : x >= 3
    BY <1>1
  <2>2. \A x \in f..(f + S - 1) : x \notin Thunks
    BY <2>1 DEF Thunks
  <2> QED
    BY <1>1, <2>1, <2>2
<1>6. /\ job' \in [Controller -> Job]
      /\ job'[k].at = "check" /\ job'[k].slice = f /\ job'[k].ctx = c
      /\ \A j \in Controller : j # k => job'[j] = job[j]
  <2>1. job \in [Controller -> Job]
    BY <1>4 DEF AllocType
  <2>2. [at |-> "check", slice |-> f, ctx |-> c] \in Job
    BY <1>5 DEF Job, Owning
  <2>3. job' = [job EXCEPT ![k] = [at |-> "check", slice |-> f, ctx |-> c]]
    BY <1>2
  <2> QED
    BY <2>1, <2>2, <2>3
<1>7. \A j \in Controller : j # k => job[j].at \notin {"take", "push_prev", "push_next", "push_head"}
  BY <1>2, AloneAtList
<1>8. /\ Mapped' = Mapped \cup (f..(f + S - 1))
      /\ \A x \in f..(f + S - 1) : x \notin Mapped
  <2>1. Batches = 1..N /\ Batches' = 1..b
    BY <1>1 DEF Batches
  <2>2. 1..b = (1..N) \cup {b} /\ \A d \in 1..N : d \in 1..MaxBatches /\ d # b
    BY AllocBoundsAssumption
  <2>3. \A d \in 1..N : \A x \in SlicesOf(d) : BatchOf(x) # b
    BY <2>2, BatchFacts
  <2> HIDE DEF b
  <2>4. Mapped' = Mapped \cup SlicesOf(b)
    BY <2>1, <2>2 DEF Mapped
  <2>5. \A x \in f..(f + S - 1) : x \notin Mapped
    BY <1>1, <2>1, <2>3 DEF Mapped
  <2> QED
    BY <1>1, <2>4, <2>5
<1>9. AllocType'
  <2>1. next' \in [Slice -> Slice \cup {0}]
    <3>1. \A x \in (f..(f + S - 1)) \ {f} : x # f + S - 1 => x + 1 \in f..(f + S - 1)
      BY <1>1
    <3>2. \A x \in Slice : next[x] \in Slice \cup {0}
      BY <1>4 DEF AllocType
    <3>3. free_slices \in Slice \cup {0}
      BY <1>4 DEF AllocType
    <3> QED
      BY <1>1, <1>3, <3>1, <3>2, <3>3 DEF BatchNext
  <2>2. prev' \in [Slice -> Slice \cup {0}]
    <3>1. \A x \in (f..(f + S - 1)) \ {f} : x - 1 \in f..(f + S - 1)
      BY <1>1
    <3>2. \A x \in Slice : prev[x] \in Slice \cup {0}
      BY <1>4 DEF AllocType
    <3> QED
      BY <1>1, <1>3, <1>5, <3>1, <3>2 DEF BatchPrev
  <2>3. ref_count' \in [Slice -> Int] /\ \A x \in Slice : ref_count'[x] <= 1
    BY <1>2, <1>4 DEF AllocType
  <2> QED
    BY <1>2, <1>4, <1>5, <1>6, <2>1, <2>2, <2>3 DEF AllocType
<1>10. \A j \in Controller : job[j].at \notin {"take", "check"}
  BY <1>4 DEF JobsOK
<1>11. JobsOK'
  BY <1>4, <1>5, <1>6, <1>10 DEF JobsOK
<1>12. \A x \in Slice : InUse(x)' <=> InUse(x) \/ x \in f..(f + S - 1)
  BY <1>2, <1>5, <1>8 DEF InUse
<1>13. \A x \in f..(f + S - 1) :
         /\ \A d \in Context : slice[d] # x
         /\ \A j \in Controller : job[j].at \in Owning => job[j].slice # x
  <2>1. \A x \in f..(f + S - 1) : ~InUse(x) /\ x # 0
    BY <1>1, <1>4, <1>8 DEF InUse
  <2> QED
    BY <1>4, <2>1 DEF OwnersOK
<1>14. \A x \in Slice : IsFree(x)' <=> IsFree(x) \/ x \in (f + 1)..(f + S - 1)
  <2> TAKE x \in Slice
  <2>1. x \in f..(f + S - 1) <=> x = f \/ x \in (f + 1)..(f + S - 1)
    BY <1>1
  <2>2. x \in (f + 1)..(f + S - 1) => x # f
    BY <1>1
  <2>3. (\A j \in Controller : job'[j].at \in Owning => job'[j].slice # x)
        <=> x # f /\ \A j \in Controller : job[j].at \in Owning => job[j].slice # x
    BY <1>4, <1>6 DEF Owning
  <2>4. x \in f..(f + S - 1) => ~InUse(x)
    BY <1>8 DEF InUse
  <2> QED
    BY <1>12, <1>13, <2>1, <2>2, <2>3, <2>4 DEF IsFree
<1>15. OwnersOK'
  <2>1. \A d \in Context : slice'[d] # 0 => InUse(slice[d])'
    <3> SUFFICES ASSUME NEW d \in Context, slice'[d] # 0 PROVE InUse(slice[d])'
      OBVIOUS
    <3>1. slice'[d] = slice[d] /\ slice[d] \in Slice /\ InUse(slice[d])
      BY <1>4 DEF AllocType, OwnersOK
    <3> QED
      BY <1>2, <1>8, <3>1 DEF InUse
  <2>2. \A j \in Controller : job'[j].at \in Owning =>
          InUse(job[j].slice)' /\ \A d \in Context : slice'[d] # job'[j].slice
    <3> SUFFICES ASSUME NEW j \in Controller, job'[j].at \in Owning
                 PROVE  InUse(job[j].slice)' /\ \A d \in Context : slice'[d] # job'[j].slice
      OBVIOUS
    <3>1. CASE j = k
      <4>1. InUse(f)' /\ job'[j].slice = f
        BY <1>5, <1>6, <1>12, <3>1
      <4> QED
        BY <1>5, <1>13, <4>1 DEF InUse
    <3>2. CASE j # k
      <4>1. job'[j] = job[j] /\ job[j].at # "idle"
        BY <1>6, <3>2 DEF Owning
      <4>2. job[j].slice \in Slice /\ InUse(job[j].slice) /\ \A d \in Context : slice[d] # job[j].slice
        BY <1>4, <4>1 DEF JobsOK, OwnersOK
      <4> QED
        BY <1>2, <1>8, <4>1, <4>2 DEF InUse
    <3> QED
      BY <3>1, <3>2
  <2>3. \A i, j \in Controller : i # j /\ job'[i].at \in Owning /\ job'[j].at \in Owning
          => job'[i].slice # job'[j].slice
    BY <1>4, <1>5, <1>6, <1>13 DEF OwnersOK
  <2>4. \A j \in Controller : job'[j].at \notin Halfway /\ job'[j].at # "take"
    BY <1>6, <1>7 DEF Halfway
  <2> QED
    BY <1>4, <2>1, <2>2, <2>3, <2>4 DEF OwnersOK
<1>16. ASSUME NEW L, NEW n, NEW d, ListIs(L, n, d)
       PROVE  \E M, m, e : ListIs(M, m, e)'
  <2>1. d = 0
    BY <1>4, <1>7, <1>16 DEF ListIs, BeforeHead, Linking
  <2>2. Chain(L, n, free_slices, next, prev, 0)
    BY <1>16, <2>1 DEF ListIs
  <2>3. Apart(L, n, f, S)
    BY <1>1, <1>8, <1>16 DEF ListIs, IsFree, InUse, Apart
  <2>4. PICK M :
          /\ Chain(M, n + S - 1, f + 1, next', prev', 0)
          /\ \A x \in Slice : Has(M, n + S - 1, x) <=> x \in (f + 1)..(f + S - 1) \/ Has(L, n, x)
          /\ \A x \in Slice : x \notin (f + 1)..(f + S - 1) /\ ~Has(L, n, x) /\ prev[x] = 0
               => prev'[x] = 0
    <3>1. S \in Nat /\ S >= 2 /\ f \in Nat /\ f >= 1
      BY <1>1
    <3> QED
      BY <1>3, <2>2, <2>3, <3>1, ChainBatch
  <2>5. BeforeHead(0)'
    BY <1>6, <1>7 DEF BeforeHead, Linking
  <2>6. \A x \in Slice : IsFree(x)' <=> Has(M, n + S - 1, x)
    BY <1>14, <1>16, <2>4 DEF ListIs
  <2>7. \A x \in Slice : ~IsFree(x)' => prev'[x] = 0
    BY <1>14, <1>16, <2>4 DEF ListIs
  <2>8. \A j \in Controller : job'[j].at # "push_head"
    BY <1>6, <1>7
  <2>9. Chain(M, n + S - 1, free_slices', next', prev', 0)
    BY <1>2, <2>4
  <2> QED
    BY <2>5, <2>6, <2>7, <2>8, <2>9 DEF ListIs
<1> QED
  BY <1>9, <1>11, <1>15, <1>16 DEF ListInv


-----------------------------------------------------------------------------
(* The invariant.                                                          *)

\* A slice is found on the list or a batch is mapped.
LEMMA PrepareKeepsList ==
  ASSUME ListInv, PlacesOK, NEW k \in Controller, NEW c \in Context, NEW fast \in BOOLEAN,
         Prepare(k, c, fast), ~raced'
  PROVE  ListInv'
<1> DEFINE nearest == IF fast THEN 0 ELSE FirstFree(PlaceOf[c])
           found == IF nearest # 0 THEN nearest ELSE FirstFree(0)
<1>1. lock = {} /\ job[k] = Idle /\ slice[c] = 0 /\ lock' = {k} /\ UNCHANGED slice
  BY DEF Prepare
<1>2. \/ /\ found # 0
         /\ job' = [job EXCEPT ![k] = [at |-> "take", slice |-> found, ctx |-> c]]
         /\ Racing(k)
         /\ UNCHANGED <<place, free_slices, prev, next, ref_count>>
      \/ \E p \in Place : MapBatch(k, c, p)
  <2>1. PlaceOf[c] \in Place
    BY PlaceAssumption
  <2> QED
    BY <2>1 DEF Prepare
<1>3. CASE \E p \in Place : MapBatch(k, c, p)
  <2>1. PICK p \in Place : MapBatch(k, c, p)
    BY <1>3
  <2>2. PICK N \in 1..MaxBatches : place \in [1..N -> Place]
    BY DEF PlacesOK
  <2> QED
    BY <1>1, <2>1, <2>2, BatchKeepsList
<1>4. CASE /\ found # 0
           /\ job' = [job EXCEPT ![k] = [at |-> "take", slice |-> found, ctx |-> c]]
           /\ Racing(k)
           /\ UNCHANGED <<place, free_slices, prev, next, ref_count>>
  <2>1. PICK L, n, b : ListIs(L, n, b)
    BY DEF ListInv
  <2>2. PICK s : s = found
    OBVIOUS
  <2>3. s = FirstFree(PlaceOf[c]) \/ s = FirstFree(0)
    BY <1>4, <2>2
  <2>4. s \in Slice /\ IsFree(s)
    <3>1. CASE s = FirstFree(PlaceOf[c])
      <4>1. FirstFree(PlaceOf[c]) = 0 \/ (FirstFree(PlaceOf[c]) \in Slice /\ IsFree(FirstFree(PlaceOf[c])))
        BY <2>1, FirstFreeIsFree
      <4> QED
        BY <1>4, <2>2, <3>1, <4>1
    <3>2. CASE s = FirstFree(0)
      <4>1. FirstFree(0) = 0 \/ (FirstFree(0) \in Slice /\ IsFree(FirstFree(0)))
        BY <2>1, FirstFreeIsFree
      <4> QED
        BY <1>4, <2>2, <3>2, <4>1
    <3> QED
      BY <2>3, <3>1, <3>2
  <2>5. job' = [job EXCEPT ![k] = [at |-> "take", slice |-> s, ctx |-> c]] /\ Racing(k)
        /\ UNCHANGED <<place, free_slices, prev, next, ref_count>>
    BY <1>4, <2>2
  <2> HIDE DEF nearest, found
  <2> QED
    BY <1>1, <2>4, <2>5, ChosenKeepsList
<1> QED
  BY <1>2, <1>3, <1>4

\* A race is never forgotten.
LEMMA RacesStay ==
  ASSUME [Next]_vars, ~raced'
  PROVE  ~raced
<1>1. ASSUME NEW k \in Controller, Racing(k)
      PROVE  ~raced
  BY <1>1, AloneAtList
<1>2. raced' = raced \/ \E k \in Controller : Racing(k)
  <2>1. ASSUME NEW k \in Controller, NEW c \in Context, NEW fast \in BOOLEAN, Prepare(k, c, fast)
        PROVE  Racing(k)
    BY <2>1 DEF Prepare, MapBatch
  <2> QED
    BY <2>1 DEF Next, vars, Take, Keep, Refuse, Destroy, PushPrev, PushNext, PushHead, Done, Commit
<1> QED
  BY <1>1, <1>2

\* Without races every step keeps the list.
LEMMA StepKeepsList ==
  ASSUME ListInv, PlacesOK, [Next]_vars, ~raced'
  PROVE  ListInv'
<1>1. CASE UNCHANGED vars
  BY <1>1, SameKeepsList DEF vars
<1>2. CASE Next
  <2>1. PICK k \in Controller :
          \/ \E c \in Context : (\E fast \in BOOLEAN : Prepare(k, c, fast)) \/ Destroy(k, c)
          \/ Take(k) \/ Keep(k) \/ Refuse(k)
          \/ PushPrev(k) \/ PushNext(k) \/ PushHead(k) \/ Done(k)
          \/ Commit(k)
    BY <1>2 DEF Next
  <2>2. ASSUME NEW c \in Context, NEW fast \in BOOLEAN, Prepare(k, c, fast)
        PROVE  ListInv'
    BY <2>2, PrepareKeepsList
  <2>3. ASSUME NEW c \in Context, Destroy(k, c)
        PROVE  ListInv'
    BY <2>3, DestroyKeepsList
  <2>4. CASE Take(k)
    BY <2>4, TakeKeepsList
  <2>5. CASE Keep(k)
    BY <2>5, KeepKeepsList
  <2>6. CASE Refuse(k)
    BY <2>6, RefuseKeepsList
  <2>7. CASE PushPrev(k)
    BY <2>7, PushPrevKeepsList
  <2>8. CASE PushNext(k)
    BY <2>8, PushNextKeepsList
  <2>9. CASE PushHead(k)
    BY <2>9, PushHeadKeepsList
  <2>10. CASE Done(k)
    BY <2>10, DoneKeepsList
  <2>11. CASE Commit(k)
    BY <2>11, SameKeepsList DEF Commit
  <2> QED
    BY <2>1, <2>2, <2>3, <2>4, <2>5, <2>6, <2>7, <2>8, <2>9, <2>10, <2>11
<1> QED
  BY <1>1, <1>2

\* Batches are mapped one after the other, and every slice handed out is on
\* pages that are dirty, races or not.
LEMMA StepKeepsPages ==
  ASSUME PlacesOK, CommitCoversNewCode, [Next]_vars
  PROVE  PlacesOK' /\ CommitCoversNewCode'
<1>1. ASSUME NEW k \in Controller, NEW c \in Context, NEW p \in Place, MapBatch(k, c, p)
      PROVE  PlacesOK' /\ CommitCoversNewCode'
  <2>1. PICK N \in 1..MaxBatches : place \in [1..N -> Place]
    BY DEF PlacesOK
  <2>2. PICK S, f, b : S = SlicesPerBatch /\ f = FirstOf(N + 1) /\ b = N + 1
    OBVIOUS
  <2>3. /\ b \in 1..MaxBatches /\ place' \in [1..b -> Place]
        /\ dirty_pages' = dirty_pages \cup {b} /\ written' = written \cup {f}
    BY <1>1, <2>1, <2>2, BatchIsNext
  <2>4. S \in Nat /\ S >= 2 /\ f \in Nat /\ \A x \in f..(f + S - 1) : BatchOf(x) = b
    BY <1>1, <2>1, <2>2, BatchIsNext
  <2>5. BatchOf(f) = b
    BY <2>4
  <2>6. CommitCoversNewCode'
    BY <2>3, <2>5 DEF CommitCoversNewCode
  <2> QED
    BY <2>3, <2>6 DEF PlacesOK
<1>2. ASSUME NEW k \in Controller, Take(k)
      PROVE  PlacesOK' /\ CommitCoversNewCode'
  BY <1>2 DEF Take, PlacesOK, CommitCoversNewCode
<1>3. ASSUME UNCHANGED <<place, dirty_pages, written>>
      PROVE  PlacesOK' /\ CommitCoversNewCode'
  BY <1>3 DEF PlacesOK, CommitCoversNewCode
<1>4. ASSUME NEW k \in Controller, Commit(k)
      PROVE  PlacesOK' /\ CommitCoversNewCode'
  BY <1>4 DEF Commit, PlacesOK, CommitCoversNewCode
<1>5. ASSUME NEW k \in Controller, NEW c \in Context, NEW fast \in BOOLEAN, Prepare(k, c, fast)
      PROVE  UNCHANGED <<place, dirty_pages, written>> \/ \E p \in Place : MapBatch(k, c, p)
  <2>1. PlaceOf[c] \in Place
    BY PlaceAssumption
  <2> QED
    BY <1>5, <2>1 DEF Prepare
<1>6. \/ UNCHANGED <<place, dirty_pages, written>>
      \/ \E k \in Controller : \/ \E c \in Context, fast \in BOOLEAN : Prepare(k, c, fast)
                               \/ Take(k) \/ Commit(k)
  BY DEF Next, vars, Keep, Refuse, Destroy, PushPrev, PushNext, PushHead, Done
<1> QED
  BY <1>1, <1>2, <1>3, <1>4, <1>5, <1>6


\* The slices of the first batch but the two thunks are free.
LEMMA InitIInv ==
  ASSUME Init
  PROVE  IInv
<1>1. PICK S : S = SlicesPerBatch
  OBVIOUS
<1>2. S \in Nat /\ S >= 2 /\ 1 \in 1..MaxBatches
  BY <1>1, SlicesAssumption, AllocBoundsAssumption
<1>3. SlicesOf(1) = 1..S /\ FirstOf(1) = 1 /\ \A x \in 1..S : x \in Slice
  <2>1. FirstOf(1) = 1
    BY <1>1, <1>2 DEF FirstOf
  <2>2. SlicesOf(1) = 1..(1 + S - 1) /\ \A x \in SlicesOf(1) : x \in Slice
    BY <1>1, <1>2, <2>1, BatchFacts
  <2>3. 1 + S - 1 = S
    BY <1>2
  <2> QED
    BY <2>1, <2>2, <2>3
<1>4. /\ place \in [{1} -> Place]
      /\ free_slices = IF S > 2 THEN 3 ELSE 0
      /\ next = [s \in Slice |-> IF s \in 3..(S - 1) THEN s + 1 ELSE 0]
      /\ prev = [s \in Slice |-> IF s \in 4..S THEN s - 1 ELSE 0]
      /\ ref_count = [s \in Slice |-> IF s <= S THEN 1 ELSE 0]
  BY <1>1 DEF Init
<1>5. /\ slice = [c \in Context |-> 0] /\ job = [k \in Controller |-> Idle]
      /\ Idle \in Job /\ Idle.at = "idle" /\ Idle.slice = 0
  BY DEF Init, Idle, Job
<1>6. \A s \in Slice : s \in Nat /\ s >= 1
  BY DEF Slice
<1>7. Batches = {1} /\ Mapped = 1..S /\ 1..1 = {1}
  <2>1. Batches = {1} /\ 1..1 = {1}
    BY <1>4 DEF Batches
  <2> QED
    BY <1>3, <2>1 DEF Mapped
<1>8. PlacesOK
  BY <1>2, <1>4, <1>7 DEF PlacesOK
<1>9. CommitCoversNewCode
  BY DEF CommitCoversNewCode, Init
<1>10. AllocType
  <2>1. \A s \in 3..(S - 1) : s + 1 \in 1..S
    BY <1>2
  <2>2. \A s \in 4..S : s - 1 \in 1..S
    BY <1>2
  <2>3. next \in [Slice -> Slice \cup {0}] /\ prev \in [Slice -> Slice \cup {0}]
    BY <1>3, <1>4, <2>1, <2>2
  <2>4. free_slices \in Slice \cup {0}
    BY <1>2, <1>3, <1>4
  <2>5. ref_count \in [Slice -> Int] /\ \A s \in Slice : ref_count[s] <= 1
    BY <1>4
  <2>6. slice \in [Context -> Slice \cup {0}] /\ job \in [Controller -> Job]
    BY <1>5
  <2> QED
    BY <2>3, <2>4, <2>5, <2>6 DEF AllocType
<1>11. JobsOK
  BY <1>5 DEF JobsOK
<1>12. OwnersOK
  BY <1>5 DEF OwnersOK, Owning, Halfway
<1>13. \A s \in Slice : IsFree(s) <=> s \in 3..S
  <2> TAKE s \in Slice
  <2>1. InUse(s) <=> s \in 1..S /\ s \notin {1, 2}
    BY <1>2, <1>4, <1>6, <1>7 DEF InUse, Thunks
  <2>2. s \in 1..S /\ s \notin {1, 2} <=> s \in 3..S
    BY <1>2, <1>6
  <2>3. s # 0
    BY <1>6
  <2> QED
    BY <1>5, <2>1, <2>2, <2>3 DEF IsFree, Owning
<1>14. PICK L : L = [i \in 1..(S - 2) |-> i + 2]
  OBVIOUS
<1>15. Chain(L, S - 2, free_slices, next, prev, 0)
  <2>1. S - 2 \in Nat
    BY <1>2
  <2>2. \A i \in 1..(S - 2) : L[i] = i + 2 /\ i + 2 \in 1..S /\ L[i] \in Slice
    BY <1>2, <1>3, <1>14
  <2>3. L \in [1..(S - 2) -> Slice]
    BY <1>14, <2>2
  <2>4. \A i, j \in 1..(S - 2) : L[i] = L[j] => i = j
    BY <2>2
  <2>5. free_slices = IF S - 2 = 0 THEN 0 ELSE L[1]
    BY <1>2, <1>4, <2>2
  <2>6. \A i \in 1..(S - 2) : next[L[i]] = IF i = S - 2 THEN 0 ELSE L[i + 1]
    <3> TAKE i \in 1..(S - 2)
    <3>1. next[L[i]] = IF i + 2 \in 3..(S - 1) THEN i + 2 + 1 ELSE 0
      BY <1>4, <2>2
    <3>2. i + 2 \in 3..(S - 1) <=> i # S - 2
      BY <1>2
    <3>3. i # S - 2 => i + 1 \in 1..(S - 2) /\ i + 1 + 2 = i + 2 + 1
      BY <1>2
    <3> QED
      BY <2>2, <3>1, <3>2, <3>3
  <2>7. \A i \in 1..(S - 2) : prev[L[i]] = IF i = 1 THEN 0 ELSE L[i - 1]
    <3> TAKE i \in 1..(S - 2)
    <3>1. prev[L[i]] = IF i + 2 \in 4..S THEN i + 2 - 1 ELSE 0
      BY <1>4, <2>2
    <3>2. i + 2 \in 4..S <=> i # 1
      BY <1>2
    <3>3. i # 1 => i - 1 \in 1..(S - 2) /\ i - 1 + 2 = i + 2 - 1
      BY <1>2
    <3> QED
      BY <2>2, <3>1, <3>2, <3>3
  <2> QED
    BY <2>1, <2>3, <2>4, <2>5, <2>6, <2>7 DEF Chain
<1>16. ListIs(L, S - 2, 0)
  <2>1. \A s \in Slice : IsFree(s) <=> Has(L, S - 2, s)
    <3> TAKE s \in Slice
    <3>1. s \in 3..S => s - 2 \in 1..(S - 2) /\ s - 2 + 2 = s
      BY <1>2
    <3>2. \A i \in 1..(S - 2) : L[i] = i + 2 /\ i + 2 \in 3..S
      BY <1>2, <1>14
    <3>3. Has(L, S - 2, s) <=> s \in 3..S
      BY <3>1, <3>2 DEF Has
    <3> QED
      BY <1>13, <3>3
  <2>2. \A s \in Slice : ~IsFree(s) => prev[s] = 0
    <3>1. 4..S \subseteq 3..S
      BY <1>2
    <3> QED
      BY <1>4, <1>13, <3>1
  <2>3. BeforeHead(0)
    BY <1>5 DEF BeforeHead, Linking
  <2>4. \A k \in Controller : job[k].at # "push_head"
    BY <1>5
  <2> QED
    BY <1>15, <2>1, <2>2, <2>3, <2>4 DEF ListIs
<1> QED
  BY <1>8, <1>9, <1>10, <1>11, <1>12, <1>16 DEF IInv, ListInv

\* Always: batches are mapped one after the other and the code that is new is on
\* dirty pages and, as long as no two controllers have been at the list
\* together, the free slices, in some order, are what the links lead through.
THEOREM AllocatorInvariant == Spec => []IInv
<1>1. Init => IInv
  BY InitIInv
<1>2. IInv /\ [Next]_vars => IInv'
  <2> SUFFICES ASSUME IInv, [Next]_vars PROVE IInv'
    OBVIOUS
  <2>1. PlacesOK' /\ CommitCoversNewCode'
    BY StepKeepsPages DEF IInv
  <2>2. ASSUME ~raced' PROVE ListInv'
    BY <2>2, RacesStay, StepKeepsList DEF IInv
  <2> QED
    BY <2>1, <2>2 DEF IInv
<1> QED
  BY <1>1, <1>2, PTL DEF Spec

\* Every slice handed out since the last commit is on pages that the next
\* gum_code_allocator_commit will see to, even when controllers race.
THEOREM NewCodeIsCommitted == Spec => []CommitCoversNewCode
<1>1. IInv => CommitCoversNewCode
  BY DEF IInv
<1> QED
  BY <1>1, AllocatorInvariant, PTL

\* No slice is the trampoline of two function contexts, or of one and being
\* prepared for another, and none is one of the thunks.
THEOREM TrampolinesAreApart == Spec => []SlicesAreNotShared
<1>1. ASSUME IInv PROVE SlicesAreNotShared
  <2> SUFFICES ASSUME ~raced PROVE
        /\ \A c, d \in Context : c # d /\ slice[c] # 0 => slice[c] # slice[d]
        /\ Held \cap Thunks = {}
        /\ \A k \in Controller : job[k].at \in {"take", "check"} =>
             job[k].slice \notin Held \cup Thunks
    BY DEF SlicesAreNotShared
  <2>1. OwnersOK
    BY <1>1 DEF IInv, ListInv
  <2>2. Held \cap Thunks = {}
    BY <2>1 DEF Held, OwnersOK, InUse
  <2>3. ASSUME NEW k \in Controller, job[k].at \in {"take", "check"}
        PROVE  job[k].slice \notin Held \cup Thunks
    BY <2>1, <2>3 DEF Held, OwnersOK, InUse, IsFree, Owning
  <2> QED
    BY <2>1, <2>2, <2>3 DEF OwnersOK
<1> QED
  BY <1>1, AllocatorInvariant, PTL

\* When every controller is idle the list holds the mapped slices nobody has,
\* but for those given back twice, and its links are each other's inverses.
THEOREM ListIsExact == Spec => []FreeListIsExact
<1>1. ASSUME IInv PROVE FreeListIsExact
  <2> SUFFICES ASSUME ~raced, \A k \in Controller : job[k] = Idle PROVE
        /\ OnList = (Mapped \ (Thunks \cup Held)) \ {s \in Slice : ref_count[s] < 0}
        /\ \A s \in OnList : next[s] # 0 => prev[next[s]] = s
        /\ free_slices # 0 => prev[free_slices] = 0
    BY DEF FreeListIsExact
  <2>1. AllocType /\ PlacesOK
    BY <1>1 DEF IInv, ListInv
  <2>2. PICK L, n, b : ListIs(L, n, b)
    BY <1>1 DEF IInv, ListInv
  <2>3. \A k \in Controller : job[k].at = "idle"
    BY DEF Idle
  <2>4. b = 0
    BY <2>2, <2>3 DEF ListIs, BeforeHead, Linking
  <2>5. /\ n \in Nat /\ L \in [1..n -> Slice] /\ free_slices = IF n = 0 THEN 0 ELSE L[1]
        /\ \A i \in 1..n : next[L[i]] = IF i = n THEN 0 ELSE L[i + 1]
        /\ \A i \in 1..n : prev[L[i]] = IF i = 1 THEN 0 ELSE L[i - 1]
    BY <2>2, <2>4 DEF ListIs, Chain
  <2>6. OnList = {s \in Slice : IsFree(s)}
    BY <2>2, ListIsFreeSlices
  <2>7. OnList = (Mapped \ (Thunks \cup Held)) \ {s \in Slice : ref_count[s] < 0}
    <3>1. Mapped \subseteq Slice /\ 0 \notin Slice
      <4>1. PICK N \in 1..MaxBatches : place \in [1..N -> Place]
        BY <2>1 DEF PlacesOK
      <4>2. Batches = 1..N /\ \A d \in 1..N : d \in 1..MaxBatches
        BY <4>1, AllocBoundsAssumption DEF Batches
      <4>3. \A d \in 1..N : SlicesOf(d) \subseteq Slice
        BY <4>2, BatchFacts
      <4> QED
        BY <4>2, <4>3 DEF Mapped, Slice
    <3>2. \A s \in Slice : ref_count[s] < 0 <=> ~(ref_count[s] >= 0)
      BY <2>1 DEF AllocType
    <3>3. \A s \in Slice : s \in Held <=> \E c \in Context : slice[c] = s
      BY <3>1 DEF Held
    <3>4. \A s \in Slice : IsFree(s) <=>
            s \in Mapped /\ s \notin Thunks /\ s \notin Held /\ ~(ref_count[s] < 0)
      BY <2>3, <3>2, <3>3 DEF IsFree, InUse, Owning
    <3> QED
      BY <2>6, <3>1, <3>4
  <2>8. ASSUME NEW s \in OnList, next[s] # 0
        PROVE  prev[next[s]] = s
    <3>1. s \in Slice /\ Has(L, n, s)
      BY <2>2, <2>6 DEF ListIs
    <3>2. PICK i \in 1..n : L[i] = s
      BY <3>1 DEF Has
    <3>3. i # n /\ next[s] = L[i + 1]
      BY <2>5, <2>8, <3>2
    <3>4. i + 1 \in 1..n /\ i + 1 # 1 /\ i + 1 - 1 = i
      BY <2>5, <3>3
    <3> QED
      BY <2>5, <3>2, <3>3, <3>4
  <2>9. free_slices # 0 => prev[free_slices] = 0
    <3>1. n # 0 => 1 \in 1..n
      BY <2>5
    <3> QED
      BY <2>5, <3>1
  <2> QED
    BY <2>7, <2>8, <2>9
<1> QED
  BY <1>1, AllocatorInvariant, PTL

\* gum_code_allocator_alloc_slice and try_alloc_slice_near go through the whole
\* list before a page is mapped: no slice on it would have done.
THEOREM NoBatchWithoutNeed == Spec => MapsOnlyWhenNeeded
<1> DEFINE Needed == Batches' # Batches =>
             LET b == Max(Batches') IN
             ~raced' => \A s \in OnList : place[BatchOf(s)] # place'[b]
<1>1. ASSUME IInv, [Next]_vars PROVE Needed
  <2> SUFFICES ASSUME Batches' # Batches, ~raced',
                      NEW s \in OnList
               PROVE  place[BatchOf(s)] # place'[Max(Batches')]
    OBVIOUS
  <2>1. PICK N \in 1..MaxBatches : place \in [1..N -> Place]
    BY <1>1 DEF IInv, PlacesOK
  <2>2. ~raced /\ ListInv
    BY <1>1, RacesStay DEF IInv
  <2>3. PICK L, n, d : ListIs(L, n, d)
    BY <2>2 DEF ListInv
  <2>4. s \in Slice /\ IsFree(s)
    BY <2>3, ListIsFreeSlices
  <2>5. PICK k \in Controller, c \in Context, fast \in BOOLEAN : Prepare(k, c, fast)
    BY <1>1 DEF Next, vars, Batches, Destroy, Take, Keep, Refuse, PushPrev, PushNext, PushHead,
                Done, Commit
  <2>6. PICK p \in Place : MapBatch(k, c, p) /\ (FirstFree(p) = 0 \/ FirstFree(0) = 0)
    <3>1. PlaceOf[c] \in Place
      BY PlaceAssumption
    <3>2. ~UNCHANGED place
      BY DEF Batches
    <3> QED
      BY <2>5, <3>1, <3>2 DEF Prepare
  <2>7. FirstFree(0) # 0
    <3>1. FirstFree(0) = 0 => \A x \in Slice : IsFree(x) => 0 \in Place /\ ~Near(x, 0)
      BY <2>3, FirstFreeIsFree
    <3> QED
      BY <2>4, <3>1, PlaceAssumption
  <2>8. ~Near(s, p)
    <3>1. FirstFree(p) = 0 => \A x \in Slice : IsFree(x) => p \in Place /\ ~Near(x, p)
      BY <2>3, FirstFreeIsFree
    <3> QED
      BY <2>4, <2>6, <2>7, <3>1
  <2>9. place' \in [1..(N + 1) -> Place] /\ place'[N + 1] = p
    BY <2>1, <2>6, BatchIsNext
  <2>10. Max(Batches') = N + 1
    <3>1. Batches' = 1..(N + 1) /\ N \in Nat
      BY <2>9, AllocBoundsAssumption DEF Batches
    <3>2. N + 1 \in 1..(N + 1) /\ \A y \in 1..(N + 1) : N + 1 >= y
      BY <3>1
    <3>3. \A x \in 1..(N + 1) : (\A y \in 1..(N + 1) : x >= y) => x = N + 1
      BY <3>1, <3>2
    <3>4. Max(1..(N + 1)) = N + 1
      BY <3>2, <3>3 DEF Max
    <3> QED
      BY <3>1, <3>4
  <2> QED
    BY <2>8, <2>9, <2>10 DEF Near
<1>2. Spec => [][Needed]_vars
  BY <1>1, AllocatorInvariant, PTL DEF Spec
<1> QED
  BY <1>2 DEF MapsOnlyWhenNeeded

=============================================================================
