----------------------- MODULE TrampolineWriter_proofs ----------------------
(***************************************************************************)
(* Proofs about TrampolineWriter for every set of prologues, every size of *)
(* a slice and every number of trampolines.                                *)
(***************************************************************************)
EXTENDS TrampolineWriter, SequenceTheorems, WellFoundedInduction, TLAPS

-----------------------------------------------------------------------------
(* Numbers, and functions defined by recursion on them.                    *)

\* A set of numbers has a least one.
LEMMA LeastNumber ==
  ASSUME NEW S \in SUBSET Nat, S # {}
  PROVE  Min(S) \in S /\ \A y \in S : Min(S) <= y
<1>1. PICK x \in S : \A y \in S : ~(<<y, x>> \in OpToRel(<, Nat))
  BY NatLessThanWellFounded, WFMin
<1>2. \A y \in S : x =< y
  <2> TAKE y \in S
  <2>1. x \in Nat /\ y \in Nat
    BY <1>1
  <2>2. ~(y < x)
    BY <1>1, <2>1 DEF OpToRel
  <2> QED
    BY <2>1, <2>2
<1> QED
  BY <1>1, <1>2 DEF Min

\* A set that has 0 and with each number the next has all numbers.
LEMMA SetInduction ==
  ASSUME NEW S, 0 \in S, \A k \in Nat : k \in S => k + 1 \in S
  PROVE  \A k \in Nat : k \in S
<1> DEFINE Bad == {k \in Nat : k \notin S}
<1> SUFFICES ASSUME Bad # {} PROVE FALSE
  OBVIOUS
<1>1. PICK m \in Bad : \A y \in Bad : m <= y
  <2>1. Bad \in SUBSET Nat
    OBVIOUS
  <2> HIDE DEF Bad
  <2> QED
    BY <2>1, LeastNumber
<1>2. m # 0 /\ m - 1 \in Nat /\ m - 1 + 1 = m /\ ~(m <= m - 1)
  BY <1>1
<1>3. m - 1 \in S
  BY <1>1, <1>2
<1> QED
  BY <1>1, <1>2, <1>3

\* Running sums are what their definition says, and numbers.
LEMMA RunningSumIs ==
  ASSUME NEW n \in Nat, NEW f, \A k \in 1..n : f[k] \in Nat
  PROVE  /\ RunningSum(f, n) \in [0..n -> Nat]
         /\ RunningSum(f, n)[0] = 0
         /\ \A k \in 1..n : RunningSum(f, n)[k] = RunningSum(f, n)[k - 1] + f[k]
<1> DEFINE IsSum(g, m) == g = [k \in 0..m |-> IF k = 0 THEN 0 ELSE g[k - 1] + f[k]]
           S == {m \in Nat : m <= n => \E g : IsSum(g, m)}
<1>1. 0 \in S
  <2>1. PICK g : g = [k \in 0..0 |-> 0]
    OBVIOUS
  <2>2. IsSum(g, 0)
    BY <2>1
  <2> QED
    BY <2>2
<1>2. ASSUME NEW m \in Nat, m \in S
      PROVE  m + 1 \in S
  <2> SUFFICES ASSUME m + 1 <= n
               PROVE  \E g : IsSum(g, m + 1)
    OBVIOUS
  <2>1. PICK g : IsSum(g, m)
    BY <1>2
  <2>2. PICK h : h = [k \in 0..(m + 1) |-> IF k = m + 1 THEN g[m] + f[m + 1] ELSE g[k]]
    OBVIOUS
  <2>3. ASSUME NEW k \in 0..(m + 1)
        PROVE  h[k] = IF k = 0 THEN 0 ELSE h[k - 1] + f[k]
    <3>1. CASE k = 0
      BY <2>1, <2>2, <3>1
    <3>2. CASE k = m + 1
      <4>1. k # 0 /\ k - 1 = m /\ m \in 0..(m + 1) /\ m # m + 1
        BY <3>2
      <4> QED
        BY <2>2, <3>2, <4>1
    <3>3. CASE k # 0 /\ k # m + 1
      <4>1. k \in 0..m /\ k - 1 \in 0..(m + 1) /\ k - 1 # m + 1
        BY <3>3
      <4>2. g[k] = g[k - 1] + f[k]
        BY <2>1, <3>3, <4>1
      <4> QED
        BY <2>2, <3>3, <4>1, <4>2
    <3> QED
      BY <3>1, <3>2, <3>3
  <2>4. h = [k \in 0..(m + 1) |-> h[k]]
    BY <2>2
  <2>5. IsSum(h, m + 1)
    BY <2>3, <2>4, Zenon
  <2> QED
    BY <2>5
<1>3. n \in S
  <2> HIDE DEF S
  <2> QED
    BY <1>1, <1>2, SetInduction
<1>4. PICK g : IsSum(g, n)
  BY <1>3
<1> DEFINE R == RunningSum(f, n)
<1>5. IsSum(R, n)
  BY <1>4 DEF RunningSum
<1> HIDE DEF R
<1>6. R[0] = 0 /\ \A k \in 1..n : R[k] = R[k - 1] + f[k]
  <2>1. 0 \in 0..n /\ \A k \in 1..n : k \in 0..n /\ k # 0
    OBVIOUS
  <2> QED
    BY <1>5, <2>1
<1> DEFINE T == {m \in Nat : m <= n => R[m] \in Nat}
<1>7. \A k \in 0..n : R[k] \in Nat
  <2>1. 0 \in T
    BY <1>6
  <2>2. ASSUME NEW m \in Nat, m \in T
        PROVE  m + 1 \in T
    <3> SUFFICES ASSUME m + 1 <= n
                 PROVE  R[m + 1] \in Nat
      OBVIOUS
    <3>1. m + 1 \in 1..n /\ m + 1 - 1 = m /\ R[m] \in Nat
      BY <2>2
    <3> QED
      BY <1>6, <3>1
  <2>3. \A k \in Nat : k \in T
    <3> HIDE DEF T
    <3> QED
      BY <2>1, <2>2, SetInduction
  <2> QED
    BY <2>3
<1>8. R = [k \in 0..n |-> R[k]]
  BY <1>5
<1>9. R \in [0..n -> Nat]
  BY <1>7, <1>8
<1> QED
  BY <1>6, <1>9 DEF R

\* Pieces are put one after the other.
LEMMA PutAllIs ==
  ASSUME NEW s, NEW S0, NEW pieces \in Seq(S0)
  PROVE  \E d : /\ d[0] = s
                /\ \A k \in 1..Len(pieces) : d[k] = Put(d[k - 1], pieces[k])
                /\ PutAll(s, pieces) = d[Len(pieces)]
<1> DEFINE Is(g, m) == g = [k \in 0..m |-> IF k = 0 THEN s ELSE Put(g[k - 1], pieces[k])]
           S == {m \in Nat : \E g : Is(g, m)}
<1>1. 0 \in S
  <2>1. PICK g : g = [k \in 0..0 |-> s]
    OBVIOUS
  <2>2. g = [k \in 0..0 |-> IF k = 0 THEN s ELSE Put(g[k - 1], pieces[k])]
    BY <2>1
  <2> QED
    BY <2>2
<1>2. ASSUME NEW m \in Nat, m \in S
      PROVE  m + 1 \in S
  <2>1. PICK g : Is(g, m)
    BY <1>2
  <2>2. PICK last : last = Put(g[m], pieces[m + 1])
    OBVIOUS
  <2>3. PICK h : h = [k \in 0..(m + 1) |-> IF k = m + 1 THEN last ELSE g[k]]
    OBVIOUS
  <2>4. ASSUME NEW k \in 0..(m + 1)
        PROVE  h[k] = IF k = 0 THEN s ELSE Put(h[k - 1], pieces[k])
    <3>1. CASE k = 0
      BY <2>1, <2>3, <3>1
    <3>2. CASE k = m + 1
      <4>1. k # 0 /\ k - 1 = m /\ m \in 0..(m + 1) /\ m # m + 1
        BY <3>2
      <4>2. h[m] = g[m] /\ h[k] = last
        BY <2>3, <3>2, <4>1
      <4> QED
        BY <2>2, <3>2, <4>1, <4>2
    <3>3. CASE k # 0 /\ k # m + 1
      <4>1. k \in 0..m /\ k \in 0..(m + 1) /\ k - 1 \in 0..(m + 1) /\ k - 1 # m + 1
        BY <3>3
      <4>2. g[k] = Put(g[k - 1], pieces[k])
        BY <2>1, <3>3, <4>1
      <4>3. h[k] = g[k] /\ h[k - 1] = g[k - 1]
        BY <2>3, <3>3, <4>1
      <4> QED
        BY <3>3, <4>2, <4>3
    <3> QED
      BY <3>1, <3>2, <3>3
  <2>5. h = [k \in 0..(m + 1) |-> h[k]]
    BY <2>3
  <2>6. Is(h, m + 1)
    BY <2>4, <2>5, Zenon
  <2>7. m + 1 \in Nat
    OBVIOUS
  <2> HIDE DEF Is
  <2> QED
    BY <2>6, <2>7
<1>3. Len(pieces) \in Nat
  BY LenProperties
<1>4. Len(pieces) \in S
  <2> HIDE DEF S
  <2> QED
    BY <1>1, <1>2, <1>3, SetInduction
<1>5. PICK g : Is(g, Len(pieces))
  BY <1>4
<1> DEFINE D == CHOOSE d : d = [k \in 0..Len(pieces) |-> IF k = 0 THEN s ELSE Put(d[k - 1], pieces[k])]
<1>6. Is(D, Len(pieces))
  BY <1>5
<1>7. PutAll(s, pieces) = D[Len(pieces)]
  BY DEF PutAll
<1> HIDE DEF D
<1>8. D[0] = s /\ \A k \in 1..Len(pieces) : D[k] = Put(D[k - 1], pieces[k])
  <2>1. 0 \in 0..Len(pieces) /\ \A k \in 1..Len(pieces) : k \in 0..Len(pieces) /\ k # 0
    BY <1>3
  <2> QED
    BY <1>6, <2>1
<1> QED
  BY <1>7, <1>8

\* What gum_x86_relocator_write_all has written after each instruction.
Written(code, n, near) ==
  CHOOSE d : d = [k \in 0..n |-> IF k = 0 THEN <<>> ELSE d[k - 1] \o WriteOne(code[k], k, n, near)]

\* It writes one instruction after the other.
LEMMA WriteAllIs ==
  ASSUME NEW code, NEW n \in Nat, NEW near
  PROVE  /\ Written(code, n, near)[0] = <<>>
         /\ \A k \in 1..n : Written(code, n, near)[k]
                            = Written(code, n, near)[k - 1] \o WriteOne(code[k], k, n, near)
         /\ WriteAll(code, n, near) = Written(code, n, near)[n]
<1> DEFINE Is(g, m) == g = [k \in 0..m |-> IF k = 0 THEN <<>> ELSE g[k - 1] \o WriteOne(code[k], k, n, near)]
           S == {m \in Nat : \E g : Is(g, m)}
<1>1. 0 \in S
  <2>1. PICK g : g = [k \in 0..0 |-> <<>>]
    OBVIOUS
  <2>2. g = [k \in 0..0 |-> IF k = 0 THEN <<>> ELSE g[k - 1] \o WriteOne(code[k], k, n, near)]
    BY <2>1
  <2> QED
    BY <2>2
<1>2. ASSUME NEW m \in Nat, m \in S
      PROVE  m + 1 \in S
  <2>1. PICK g : Is(g, m)
    BY <1>2
  <2>2. PICK last : last = g[m] \o WriteOne(code[m + 1], m + 1, n, near)
    OBVIOUS
  <2>3. PICK h : h = [k \in 0..(m + 1) |-> IF k = m + 1 THEN last ELSE g[k]]
    OBVIOUS
  <2>4. ASSUME NEW k \in 0..(m + 1)
        PROVE  h[k] = IF k = 0 THEN <<>> ELSE h[k - 1] \o WriteOne(code[k], k, n, near)
    <3>1. CASE k = 0
      BY <2>1, <2>3, <3>1
    <3>2. CASE k = m + 1
      <4>1. k # 0 /\ k - 1 = m /\ m \in 0..(m + 1) /\ m # m + 1
        BY <3>2
      <4>2. h[m] = g[m] /\ h[k] = last
        BY <2>3, <3>2, <4>1
      <4> QED
        BY <2>2, <3>2, <4>1, <4>2
    <3>3. CASE k # 0 /\ k # m + 1
      <4>1. k \in 0..m /\ k \in 0..(m + 1) /\ k - 1 \in 0..(m + 1) /\ k - 1 # m + 1
        BY <3>3
      <4>2. g[k] = g[k - 1] \o WriteOne(code[k], k, n, near)
        BY <2>1, <3>3, <4>1
      <4>3. h[k] = g[k] /\ h[k - 1] = g[k - 1]
        BY <2>3, <3>3, <4>1
      <4> QED
        BY <3>3, <4>2, <4>3
    <3> QED
      BY <3>1, <3>2, <3>3
  <2>5. h = [k \in 0..(m + 1) |-> h[k]]
    BY <2>3
  <2>6. Is(h, m + 1)
    BY <2>4, <2>5, Zenon
  <2>7. m + 1 \in Nat
    OBVIOUS
  <2> HIDE DEF Is
  <2> QED
    BY <2>6, <2>7
<1>3. n \in Nat
  OBVIOUS
<1>4. n \in S
  <2> HIDE DEF S
  <2> QED
    BY <1>1, <1>2, <1>3, SetInduction
<1>5. PICK g : Is(g, n)
  BY <1>4, Zenon
<1> DEFINE D == Written(code, n, near)
<1>6. Is(D, n)
  BY <1>5, Zenon DEF Written
<1>7. WriteAll(code, n, near) = D[n]
  BY DEF WriteAll, Written
<1> HIDE DEF D
<1>8. D[0] = <<>> /\ \A k \in 1..n : D[k] = D[k - 1] \o WriteOne(code[k], k, n, near)
  <2>1. 0 \in 0..n /\ \A k \in 1..n : k \in 0..n /\ k # 0
    BY <1>3
  <2> QED
    BY <1>6, <2>1
<1> QED
  BY <1>7, <1>8 DEF D

-----------------------------------------------------------------------------
(* Pieces and where they end.                                              *)

\* The names of labels: those within an instruction's translation, and the others.
Inner == {"is_true", "is_false", "storage", "carry_on"}
LabelName == {"is_true", "is_false", "storage", "carry_on",
              "insn", "sampling_skip", "invoke_trampoline"}

\* A piece of code.
Piece == [op : {"bytes", "label", "jump", "flush"}, len : Nat,
          id : (Nat \X LabelName) \cup { <<>> }, wide : BOOLEAN]

\* Where the pieces p end when the first begins at 0, and how long they are.
Pos(p) == RunningSum([i \in 1..Len(p) |-> p[i].len], Len(p))
Span(p) == Pos(p)[Len(p)]

\* Each piece ends its length after the one before.
LEMMA PosIs ==
  ASSUME NEW p \in Seq(Piece)
  PROVE  /\ Len(p) \in Nat
         /\ \A k \in 1..Len(p) : p[k] \in Piece /\ p[k].len \in Nat
         /\ Pos(p) \in [0..Len(p) -> Nat]
         /\ Pos(p)[0] = 0
         /\ \A k \in 1..Len(p) : Pos(p)[k] = Pos(p)[k - 1] + p[k].len
<1>1. Len(p) \in Nat /\ \A k \in 1..Len(p) : p[k] \in Piece
  BY LenProperties, ElementOfSeq
<1>2. \A k \in 1..Len(p) : p[k].len \in Nat
  BY <1>1 DEF Piece
<1> DEFINE f == [i \in 1..Len(p) |-> p[i].len]
<1>3. \A k \in 1..Len(p) : f[k] = p[k].len /\ f[k] \in Nat
  BY <1>2
<1>4. Pos(p) = RunningSum(f, Len(p))
  BY DEF Pos
<1> HIDE DEF f
<1>5. /\ RunningSum(f, Len(p)) \in [0..Len(p) -> Nat]
      /\ RunningSum(f, Len(p))[0] = 0
      /\ \A k \in 1..Len(p) : RunningSum(f, Len(p))[k] = RunningSum(f, Len(p))[k - 1] + f[k]
  BY <1>1, <1>3, RunningSumIs
<1> QED
  BY <1>1, <1>2, <1>3, <1>4, <1>5

\* How long pieces are is a number.
LEMMA SpanIs ==
  ASSUME NEW p \in Seq(Piece)
  PROVE  Len(p) \in Nat /\ Span(p) \in Nat
BY PosIs DEF Span

\* Later pieces end later.
LEMMA PosGrows ==
  ASSUME NEW p \in Seq(Piece), NEW i \in 0..Len(p), NEW j \in 0..Len(p), i <= j
  PROVE  Pos(p)[i] \in Nat /\ Pos(p)[j] \in Nat /\ Pos(p)[i] <= Pos(p)[j]
<1> DEFINE S == {m \in Nat : i + m <= Len(p) => Pos(p)[i] <= Pos(p)[i + m]}
<1>1. /\ Len(p) \in Nat /\ \A k \in 0..Len(p) : Pos(p)[k] \in Nat
      /\ \A k \in 1..Len(p) : p[k].len \in Nat /\ Pos(p)[k] = Pos(p)[k - 1] + p[k].len
  BY PosIs
<1>2. 0 \in S
  BY <1>1
<1>3. ASSUME NEW m \in Nat, m \in S
      PROVE  m + 1 \in S
  <2> SUFFICES ASSUME i + (m + 1) <= Len(p)
               PROVE  Pos(p)[i] <= Pos(p)[i + (m + 1)]
    OBVIOUS
  <2>1. i + (m + 1) \in 1..Len(p) /\ i + (m + 1) - 1 = i + m /\ i + m \in 0..Len(p)
    BY <1>1
  <2>2. Pos(p)[i] <= Pos(p)[i + m]
    BY <1>1, <1>3, <2>1
  <2>3. Pos(p)[i + (m + 1)] = Pos(p)[i + m] + p[i + (m + 1)].len /\ p[i + (m + 1)].len \in Nat
    BY <1>1, <2>1
  <2> QED
    BY <1>1, <2>1, <2>2, <2>3
<1>4. j - i \in Nat /\ i + (j - i) = j
  OBVIOUS
<1>5. j - i \in S
  <2> HIDE DEF S
  <2> QED
    BY <1>2, <1>3, <1>4, SetInduction
<1> QED
  BY <1>1, <1>4, <1>5

\* Pieces after others end that much later.
LEMMA PosConcat ==
  ASSUME NEW p \in Seq(Piece), NEW q \in Seq(Piece)
  PROVE  /\ p \o q \in Seq(Piece) /\ Len(p \o q) = Len(p) + Len(q)
         /\ \A k \in 1..Len(p) : (p \o q)[k] = p[k]
         /\ \A k \in 1..Len(q) : (p \o q)[Len(p) + k] = q[k]
         /\ \A k \in 0..Len(p) : Pos(p \o q)[k] = Pos(p)[k]
         /\ \A k \in 0..Len(q) : Pos(p \o q)[Len(p) + k] = Span(p) + Pos(q)[k]
         /\ Span(p \o q) = Span(p) + Span(q)
<1> DEFINE r == p \o q
           n == Len(p)
<1>1. /\ r \in Seq(Piece) /\ Len(r) = n + Len(q)
      /\ \A k \in 1..Len(r) : r[k] = IF k <= n THEN p[k] ELSE q[k - n]
  BY ConcatProperties
<1> HIDE DEF r
<1>2. /\ n \in Nat /\ \A k \in 1..n : p[k].len \in Nat
      /\ Pos(p)[0] = 0 /\ \A k \in 0..n : Pos(p)[k] \in Nat
      /\ \A k \in 1..n : Pos(p)[k] = Pos(p)[k - 1] + p[k].len
  BY PosIs
<1>3. /\ Len(q) \in Nat /\ \A k \in 1..Len(q) : q[k].len \in Nat
      /\ Pos(q)[0] = 0 /\ \A k \in 0..Len(q) : Pos(q)[k] \in Nat
      /\ \A k \in 1..Len(q) : Pos(q)[k] = Pos(q)[k - 1] + q[k].len
  BY PosIs
<1>4. /\ Pos(r)[0] = 0 /\ \A k \in 0..Len(r) : Pos(r)[k] \in Nat
      /\ \A k \in 1..Len(r) : Pos(r)[k] = Pos(r)[k - 1] + r[k].len
  BY <1>1, PosIs
<1> HIDE DEF n
<1>5. \A k \in 1..n : k \in 1..Len(r) /\ r[k] = p[k]
  BY <1>1, <1>2, <1>3
<1>6. \A k \in 1..Len(q) : n + k \in 1..Len(r) /\ r[n + k] = q[k]
  <2> TAKE k \in 1..Len(q)
  <2>1. PICK j : j = n + k
    OBVIOUS
  <2>2. j \in 1..Len(r) /\ ~(j <= n) /\ j - n = k
    BY <1>1, <1>2, <1>3, <2>1
  <2>3. r[j] = q[k]
    BY <1>1, <2>2
  <2> QED
    BY <2>1, <2>2, <2>3
<1>7. \A k \in 0..n : Pos(r)[k] = Pos(p)[k]
  <2> DEFINE S == {m \in Nat : m <= n => Pos(r)[m] = Pos(p)[m]}
  <2>1. 0 \in S
    BY <1>2, <1>4
  <2>2. ASSUME NEW m \in Nat, m \in S
        PROVE  m + 1 \in S
    <3> SUFFICES ASSUME m + 1 <= n
                 PROVE  Pos(r)[m + 1] = Pos(p)[m + 1]
      OBVIOUS
    <3>1. m + 1 \in 1..n /\ m + 1 - 1 = m /\ m <= n
      BY <1>2
    <3>2. Pos(r)[m] = Pos(p)[m]
      BY <2>2, <3>1
    <3>3. Pos(r)[m + 1] = Pos(r)[m] + p[m + 1].len
      BY <1>4, <1>5, <3>1
    <3>4. Pos(p)[m + 1] = Pos(p)[m] + p[m + 1].len
      BY <1>2, <3>1
    <3> QED
      BY <3>2, <3>3, <3>4
  <2>3. \A m \in Nat : m \in S
    <3> HIDE DEF S
    <3> QED
      BY <2>1, <2>2, SetInduction
  <2> QED
    BY <1>2, <2>3
<1>8. Pos(r)[n] = Span(p)
  BY <1>2, <1>7 DEF Span, n
<1>9. \A k \in 0..Len(q) : Pos(r)[n + k] = Span(p) + Pos(q)[k]
  <2> DEFINE S == {m \in Nat : m <= Len(q) => Pos(r)[n + m] = Span(p) + Pos(q)[m]}
  <2>0. Span(p) \in Nat
    BY <1>2 DEF Span, n
  <2>1. 0 \in S
    BY <1>2, <1>3, <1>8, <2>0
  <2>2. ASSUME NEW m \in Nat, m \in S
        PROVE  m + 1 \in S
    <3> SUFFICES ASSUME m + 1 <= Len(q)
                 PROVE  Pos(r)[n + (m + 1)] = Span(p) + Pos(q)[m + 1]
      OBVIOUS
    <3>1. m + 1 \in 1..Len(q) /\ m + 1 - 1 = m /\ m <= Len(q) /\ m \in 0..Len(q)
      BY <1>3
    <3>2. n + (m + 1) - 1 = n + m
      BY <1>2
    <3>3. Pos(r)[n + m] = Span(p) + Pos(q)[m]
      BY <2>2, <3>1
    <3>4. Pos(r)[n + (m + 1)] = Pos(r)[n + m] + q[m + 1].len
      <4>1. n + (m + 1) \in 1..Len(r) /\ r[n + (m + 1)] = q[m + 1]
        BY <1>6, <3>1
      <4>2. PICK j : j = n + (m + 1)
        OBVIOUS
      <4>3. Pos(r)[j] = Pos(r)[j - 1] + r[j].len
        BY <1>4, <4>1, <4>2
      <4>4. j - 1 = n + m
        BY <1>2, <4>2
      <4> QED
        BY <4>1, <4>2, <4>3, <4>4, Zenon
    <3>5. Pos(q)[m + 1] = Pos(q)[m] + q[m + 1].len
      BY <1>3, <3>1
    <3>6. Pos(q)[m] \in Nat /\ q[m + 1].len \in Nat
      BY <1>3, <3>1
    <3> QED
      BY <2>0, <3>3, <3>4, <3>5, <3>6
  <2>3. \A m \in Nat : m \in S
    <3> HIDE DEF S
    <3> QED
      BY <2>1, <2>2, SetInduction
  <2> QED
    BY <1>3, <2>3
<1>10. Span(r) = Span(p) + Span(q)
  <2>1. Len(q) \in 0..Len(q)
    BY <1>3
  <2> QED
    BY <1>1, <1>9, <2>1 DEF Span
<1> QED
  BY <1>1, <1>5, <1>6, <1>7, <1>9, <1>10 DEF r, n

-----------------------------------------------------------------------------
(* What the writer knows, and what is in memory, after k pieces p were put *)
(* from address b on, before they are flushed.                             *)

\* A writer and the memory it writes to.
State(b, c, d, r, m) ==
  [writer |-> [base |-> b, code |-> c, label_defs |-> d, label_refs |-> r], memory |-> m]

Ref == [id : (Nat \X LabelName) \cup { <<>> }, address : Nat, wide : BOOLEAN]

\* Pieces of a trampoline: labels have no length, jumps have.
Writable(p) ==
  /\ p \in Seq(Piece)
  /\ \A j \in 1..Len(p) :
       /\ p[j].op \in {"bytes", "label", "jump"}
       /\ p[j].op = "label" => p[j] = Label(p[j].id)
       /\ p[j].op = "jump" => p[j].len > 0

RefOf(p, b, j) == [id |-> p[j].id, address |-> b + Pos(p)[j], wide |-> p[j].wide]

\* The labels put so far are defined, where they were put.
DefsAre(d, p, b, k) ==
  /\ \A e \in d : \E i \in 1..k : p[i] = Label(e.id) /\ e.address = b + Pos(p)[i]
  /\ \A i \in 1..k : p[i].op = "label" => \E e \in d : e.id = p[i].id

\* The jumps put so far are referred to, in their order.
RefsAre(r, p, b, k) ==
  /\ r \in Seq(Ref)
  /\ \A i \in 1..Len(r) : \E j \in 1..k : p[j].op = "jump" /\ r[i] = RefOf(p, b, j)
  /\ \A j \in 1..k : p[j].op = "jump" => \E i \in 1..Len(r) : r[i] = RefOf(p, b, j)
  /\ \A i, j \in 1..Len(r) : i < j => r[i].address < r[j].address

\* Only memory behind b was written to.
MemIs(m, p, b, k, mem) ==
  /\ \A j \in 1..k : p[j].op = "jump" => b + Pos(p)[j] \in DOMAIN m
  /\ \A a \in DOMAIN mem \cap Nat :
       a <= b \/ a > b + Pos(p)[k] => a \in DOMAIN m /\ m[a] = mem[a]

\* What one call of the writer with the piece p does, whose end is at h.
PutIs(b, c, d, r, m, p, h) ==
  /\ p.op = "bytes" => Put(State(b, c, d, r, m), p) = State(b, h, d, r, m)
  /\ p.op = "label" =>
       Put(State(b, c, d, r, m), p) =
         IF \E e \in d : e.id = p.id THEN State(b, c, d, r, m)
         ELSE State(b, c, d \cup {[id |-> p.id, address |-> h]}, r, m)
  /\ p.op = "jump" =>
       Put(State(b, c, d, r, m), p) =
         State(b, h, d, Append(r, [id |-> p.id, address |-> h, wide |-> p.wide]),
               [a \in DOMAIN m \cup {h} |-> IF a = h THEN -p.len ELSE m[a]])
  /\ p.op = "flush" =>
       Put(State(b, c, d, r, m), p) =
         IF d = {} THEN State(b, c, d, r, m)
         ELSE State(b, c, d, <<>>, Patch(State(b, c, d, r, m).writer, m))

LEMMA PutCases ==
  ASSUME NEW b, NEW c, NEW d, NEW r, NEW m, NEW p, NEW h, h = c + p.len
  PROVE  PutIs(b, c, d, r, m, p, h)
<1> DEFINE s == State(b, c, d, r, m)
<1>1. /\ s.writer = [base |-> b, code |-> c, label_defs |-> d, label_refs |-> r]
      /\ s.memory = m /\ s = [writer |-> s.writer, memory |-> s.memory]
  BY DEF State
<1>2. /\ s.writer.code = c /\ s.writer.label_defs = d /\ s.writer.label_refs = r
      /\ s.writer.base = b
  BY <1>1
<1>3. CASE p.op = "bytes"
  <2>1. Put(s, p) = [s EXCEPT !.writer.code = h]
    BY <1>2, <1>3 DEF Put
  <2>2. [s EXCEPT !.writer.code = h] = State(b, h, d, r, m)
    BY DEF State
  <2> QED
    BY <1>3, <2>1, <2>2 DEF PutIs
<1>4. CASE p.op = "label"
  <2>1. Put(s, p) =
          IF \E e \in d : e.id = p.id THEN s
          ELSE [s EXCEPT !.writer.label_defs = @ \cup {[id |-> p.id, address |-> h]}]
    BY <1>2, <1>4 DEF Put, Defined
  <2>2. PICK e : e = d \cup {[id |-> p.id, address |-> h]}
    OBVIOUS
  <2>3. Put(s, p) = IF \E x \in d : x.id = p.id THEN s ELSE [s EXCEPT !.writer.label_defs = e]
    BY <1>2, <2>1, <2>2
  <2>4. [s EXCEPT !.writer.label_defs = e] = State(b, c, e, r, m)
    BY DEF State
  <2> QED
    BY <1>4, <2>2, <2>3, <2>4 DEF PutIs
<1>5. CASE p.op = "jump"
  <2> DEFINE ref == [id |-> p.id, address |-> h, wide |-> p.wide]
             mem == [a \in DOMAIN m \cup {h} |-> IF a = h THEN -p.len ELSE m[a]]
  <2>1. Put(s, p) =
          [writer |-> [s.writer EXCEPT !.code = h, !.label_refs = Append(@, ref)],
           memory |-> mem]
    BY <1>1, <1>2, <1>5 DEF Put
  <2> HIDE DEF ref, mem
  <2>2. PICK refs : refs = Append(r, ref)
    OBVIOUS
  <2>3. Put(s, p) =
          [writer |-> [s.writer EXCEPT !.code = h, !.label_refs = refs], memory |-> mem]
    BY <1>2, <2>1, <2>2
  <2>4. [s.writer EXCEPT !.code = h, !.label_refs = refs]
          = [base |-> b, code |-> h, label_defs |-> d, label_refs |-> refs]
    <3>1. PICK w : w = [base |-> b, code |-> c, label_defs |-> d, label_refs |-> r]
      OBVIOUS
    <3>2. [w EXCEPT !.code = h, !.label_refs = refs]
            = [base |-> b, code |-> h, label_defs |-> d, label_refs |-> refs]
      <4> DEFINE v == [w EXCEPT !.code = h, !.label_refs = refs]
      <4>1. v = [f \in {"base", "code", "label_defs", "label_refs"} |-> v[f]]
        BY <3>1
      <4>2. v.base = b /\ v.code = h /\ v.label_defs = d /\ v.label_refs = refs
        BY <3>1
      <4> HIDE DEF v
      <4>3. v = [base |-> b, code |-> h, label_defs |-> d, label_refs |-> refs]
        BY <4>1, <4>2
      <4> QED
        BY <4>3 DEF v
    <3> HIDE DEF s
    <3> QED
      BY <1>1, <3>1, <3>2
  <2>5. Put(s, p) = State(b, h, d, refs, mem)
    BY <2>3, <2>4 DEF State
  <2> QED
    BY <1>5, <2>2, <2>5 DEF ref, mem, PutIs
<1>6. CASE p.op = "flush"
  <2>1. Put(s, p) =
          IF d = {} THEN s
          ELSE [writer |-> [s.writer EXCEPT !.label_refs = <<>>], memory |-> Patch(s.writer, m)]
    BY <1>1, <1>2, <1>6 DEF Put
  <2>2. [s.writer EXCEPT !.label_refs = <<>>]
          = [base |-> b, code |-> c, label_defs |-> d, label_refs |-> <<>>]
    BY <1>1
  <2>3. [writer |-> [s.writer EXCEPT !.label_refs = <<>>], memory |-> Patch(s.writer, m)]
          = State(b, c, d, <<>>, Patch(s.writer, m))
    BY <2>2 DEF State
  <2> QED
    BY <1>6, <2>1, <2>3 DEF PutIs
<1> QED
  BY <1>3, <1>4, <1>5, <1>6 DEF PutIs

\* What is known after k pieces.
Progress(s, p, b, k, mem) ==
  \E d, r, m : /\ s = State(b, b + Pos(p)[k], d, r, m)
               /\ DefsAre(d, p, b, k) /\ RefsAre(r, p, b, k) /\ MemIs(m, p, b, k, mem)

\* A piece that defines no label that is not defined already leaves the labels alone.
LEMMA DefsStay ==
  ASSUME NEW d, NEW p, NEW b \in Nat, NEW k \in Nat, DefsAre(d, p, b, k),
         p[k + 1].op = "label" => \E e \in d : e.id = p[k + 1].id
  PROVE  DefsAre(d, p, b, k + 1)
<1>1. ASSUME NEW e \in d
      PROVE  \E i \in 1..(k + 1) : p[i] = Label(e.id) /\ e.address = b + Pos(p)[i]
  <2>1. PICK i \in 1..k : p[i] = Label(e.id) /\ e.address = b + Pos(p)[i]
    BY DEF DefsAre
  <2>2. i \in 1..(k + 1)
    OBVIOUS
  <2> QED
    BY <2>1, <2>2
<1>2. ASSUME NEW i \in 1..(k + 1), p[i].op = "label"
      PROVE  \E e \in d : e.id = p[i].id
  <2>1. i \in 1..k \/ i = k + 1
    OBVIOUS
  <2> QED
    BY <1>2, <2>1 DEF DefsAre
<1> QED
  BY <1>1, <1>2 DEF DefsAre

\* A piece that is no jump leaves the references alone.
LEMMA RefsStay ==
  ASSUME NEW r, NEW p, NEW b \in Nat, NEW k \in Nat, RefsAre(r, p, b, k), p[k + 1].op # "jump"
  PROVE  RefsAre(r, p, b, k + 1)
<1>1. \A j \in 1..k : j \in 1..(k + 1)
  OBVIOUS
<1>2. \A j \in 1..(k + 1) : p[j].op = "jump" => j \in 1..k
  <2> TAKE j \in 1..(k + 1)
  <2>1. j \in 1..k \/ j = k + 1
    OBVIOUS
  <2> QED
    BY <2>1
<1>3. \A i \in 1..Len(r) : \E j \in 1..(k + 1) : p[j].op = "jump" /\ r[i] = RefOf(p, b, j)
  BY <1>1 DEF RefsAre
<1>4. \A j \in 1..(k + 1) : p[j].op = "jump" => \E i \in 1..Len(r) : r[i] = RefOf(p, b, j)
  BY <1>2 DEF RefsAre
<1> QED
  BY <1>3, <1>4 DEF RefsAre

\* The same of the memory.
LEMMA MemStays ==
  ASSUME NEW m, NEW mem, NEW p \in Seq(Piece), NEW b \in Nat, NEW k \in Nat, k + 1 <= Len(p),
         MemIs(m, p, b, k, mem), p[k + 1].op # "jump"
  PROVE  MemIs(m, p, b, k + 1, mem)
<1>1. Len(p) \in Nat /\ k \in 0..Len(p) /\ k + 1 \in 0..Len(p)
  BY PosIs
<1>2. Pos(p)[k] \in Nat /\ Pos(p)[k + 1] \in Nat /\ Pos(p)[k] <= Pos(p)[k + 1]
  BY <1>1, PosGrows
<1>3. ASSUME NEW j \in 1..(k + 1), p[j].op = "jump"
      PROVE  b + Pos(p)[j] \in DOMAIN m
  <2>1. j \in 1..k \/ j = k + 1
    OBVIOUS
  <2> QED
    BY <1>3, <2>1 DEF MemIs
<1>4. ASSUME NEW a \in DOMAIN mem \cap Nat, a <= b \/ a > b + Pos(p)[k + 1]
      PROVE  a \in DOMAIN m /\ m[a] = mem[a]
  <2>1. a <= b \/ a > b + Pos(p)[k]
    BY <1>2, <1>4
  <2> QED
    BY <2>1 DEF MemIs
<1> QED
  BY <1>3, <1>4 DEF MemIs

\* A jump is referred to after all the others.
LEMMA RefsGrow ==
  ASSUME NEW r, NEW p \in Seq(Piece), NEW b \in Nat, NEW k \in Nat, k + 1 <= Len(p),
         RefsAre(r, p, b, k), p[k + 1].op = "jump", p[k + 1].len > 0
  PROVE  RefsAre(Append(r, RefOf(p, b, k + 1)), p, b, k + 1)
<1> PICK q : q = Append(r, RefOf(p, b, k + 1))
  OBVIOUS
<1>1. /\ Len(p) \in Nat /\ k \in 0..Len(p) /\ k + 1 \in 1..Len(p) /\ k + 1 \in 0..Len(p)
      /\ k + 1 - 1 = k
  BY PosIs
<1>2. p[k + 1] \in Piece /\ p[k + 1].len \in Nat /\ Pos(p)[k + 1] = Pos(p)[k] + p[k + 1].len
  BY <1>1, PosIs
<1>3. Pos(p)[k] \in Nat /\ Pos(p)[k + 1] \in Nat /\ Pos(p)[k] < Pos(p)[k + 1]
  <2>1. Pos(p)[k] \in Nat
    BY <1>1, PosIs
  <2> QED
    BY <1>2, <2>1
<1>4. RefOf(p, b, k + 1) \in Ref
  <2>1. b + Pos(p)[k + 1] \in Nat
    BY <1>3
  <2>2. p[k + 1].id \in (Nat \X LabelName) \cup { <<>> } /\ p[k + 1].wide \in BOOLEAN
    BY <1>2 DEF Piece
  <2> QED
    BY <2>1, <2>2 DEF RefOf, Ref
<1>5. r \in Seq(Ref) /\ Len(r) \in Nat
  BY LenProperties DEF RefsAre
<1>6. /\ q \in Seq(Ref) /\ Len(q) = Len(r) + 1
      /\ \A i \in 1..Len(r) : q[i] = r[i]
      /\ q[Len(r) + 1] = RefOf(p, b, k + 1)
  BY <1>4, <1>5, AppendProperties
<1>7. \A i \in 1..Len(q) : i \in 1..Len(r) \/ i = Len(r) + 1
  BY <1>5, <1>6
<1>8. \A i \in 1..Len(r) : i \in 1..Len(q)
  BY <1>5, <1>6
<1>9. Len(r) + 1 \in 1..Len(q)
  BY <1>5, <1>6
<1>10. ASSUME NEW i \in 1..Len(q)
       PROVE  \E j \in 1..(k + 1) : p[j].op = "jump" /\ q[i] = RefOf(p, b, j)
  <2>1. CASE i \in 1..Len(r)
    <3>1. PICK j \in 1..k : p[j].op = "jump" /\ r[i] = RefOf(p, b, j)
      BY <2>1 DEF RefsAre
    <3>2. j \in 1..(k + 1)
      OBVIOUS
    <3> QED
      BY <1>6, <2>1, <3>1, <3>2
  <2>2. CASE i = Len(r) + 1
    <3>1. k + 1 \in 1..(k + 1)
      OBVIOUS
    <3> QED
      BY <1>6, <2>2, <3>1
  <2> QED
    BY <1>7, <2>1, <2>2
<1>11. ASSUME NEW j \in 1..(k + 1), p[j].op = "jump"
       PROVE  \E i \in 1..Len(q) : q[i] = RefOf(p, b, j)
  <2>1. CASE j \in 1..k
    <3>1. PICK i \in 1..Len(r) : r[i] = RefOf(p, b, j)
      BY <1>11, <2>1 DEF RefsAre
    <3> QED
      BY <1>6, <1>8, <3>1
  <2>2. CASE j = k + 1
    BY <1>6, <1>9, <2>2
  <2>3. j \in 1..k \/ j = k + 1
    OBVIOUS
  <2> QED
    BY <2>1, <2>2, <2>3
<1>12. \A i \in 1..Len(r) : r[i].address < b + Pos(p)[k + 1]
  <2> TAKE i \in 1..Len(r)
  <2>1. PICK j \in 1..k : r[i] = RefOf(p, b, j)
    BY DEF RefsAre
  <2>2. j \in 0..Len(p) /\ j <= k
    BY <1>1
  <2>3. Pos(p)[j] \in Nat /\ Pos(p)[j] <= Pos(p)[k]
    BY <1>1, <2>2, PosGrows
  <2>4. r[i].address = b + Pos(p)[j]
    BY <2>1 DEF RefOf
  <2> QED
    BY <1>3, <2>3, <2>4, SMTT(30)
<1>13. ASSUME NEW i \in 1..Len(q), NEW j \in 1..Len(q), i < j
       PROVE  q[i].address < q[j].address
  <2>1. i \in 1..Len(r)
    BY <1>5, <1>6, <1>13
  <2>2. CASE j \in 1..Len(r)
    BY <1>6, <1>13, <2>1, <2>2 DEF RefsAre
  <2>3. CASE j = Len(r) + 1
    <3>1. q[j].address = b + Pos(p)[k + 1]
      BY <1>6, <2>3 DEF RefOf
    <3> QED
      BY <1>6, <1>12, <2>1, <3>1
  <2> QED
    BY <1>7, <2>2, <2>3
<1> QED
  BY <1>6, <1>10, <1>11, <1>13 DEF RefsAre

\* Each call of the writer keeps what is known.
LEMMA PutProgress ==
  ASSUME NEW p, Writable(p), NEW b \in Nat, NEW k \in Nat, k + 1 <= Len(p), NEW mem, NEW s,
         Progress(s, p, b, k, mem)
  PROVE  Progress(Put(s, p[k + 1]), p, b, k + 1, mem)
<1> PICK d, r, m : /\ s = State(b, b + Pos(p)[k], d, r, m)
                   /\ DefsAre(d, p, b, k) /\ RefsAre(r, p, b, k) /\ MemIs(m, p, b, k, mem)
  BY DEF Progress
<1> PICK x : x = p[k + 1]
  OBVIOUS
<1>1. /\ p \in Seq(Piece) /\ Len(p) \in Nat
      /\ k \in 0..Len(p) /\ k + 1 \in 1..Len(p) /\ k + 1 - 1 = k
  BY PosIs DEF Writable
<1>2. /\ x.op \in {"bytes", "label", "jump"} /\ (x.op = "label" => x = Label(x.id))
      /\ x.op = "jump" => x.len > 0
  BY <1>1 DEF Writable
<1>3. /\ x.len \in Nat /\ Pos(p)[k] \in Nat
      /\ Pos(p)[k + 1] = Pos(p)[k] + x.len
  BY <1>1, PosIs
<1> PICK c, h : c = b + Pos(p)[k] /\ h = b + Pos(p)[k + 1]
  OBVIOUS
<1>4. c + x.len = h
  BY <1>3
<1>8. /\ x.op = "bytes" => Put(s, x) = State(b, h, d, r, m)
      /\ x.op = "label" =>
           Put(s, x) = IF \E e \in d : e.id = x.id THEN State(b, c, d, r, m)
                       ELSE State(b, c, d \cup {[id |-> x.id, address |-> h]}, r, m)
      /\ x.op = "jump" =>
           Put(s, x) = State(b, h, d, Append(r, [id |-> x.id, address |-> h, wide |-> x.wide]),
                             [a \in DOMAIN m \cup {h} |-> IF a = h THEN -x.len ELSE m[a]])
  <2>1. s = State(b, c, d, r, m) /\ h = c + x.len
    BY <1>4
  <2>2. PutIs(b, c, d, r, m, x, h)
    BY <2>1, PutCases, Zenon
  <2> QED
    BY <2>1, <2>2 DEF PutIs
<1>5. CASE x.op = "bytes"
  <2>1. Put(s, x) = State(b, h, d, r, m)
    BY <1>5, <1>8
  <2>2. DefsAre(d, p, b, k + 1) /\ RefsAre(r, p, b, k + 1)
    BY <1>5, DefsStay, RefsStay
  <2>3. MemIs(m, p, b, k + 1, mem)
    BY <1>1, <1>5, MemStays
  <2> QED
    BY <2>1, <2>2, <2>3 DEF Progress
<1>6. CASE x.op = "label"
  <2>1. RefsAre(r, p, b, k + 1)
    BY <1>6, RefsStay
  <2>2. MemIs(m, p, b, k + 1, mem)
    BY <1>1, <1>6, MemStays
  <2>3. x.len = 0 /\ c = h
    <3>1. x.len = 0
      BY <1>2, <1>6 DEF Label
    <3> QED
      BY <1>3, <3>1
  <2>4. CASE \E e \in d : e.id = x.id
    <3>1. Put(s, x) = State(b, h, d, r, m)
      BY <1>6, <1>8, <2>3, <2>4
    <3>2. DefsAre(d, p, b, k + 1)
      BY <2>4, DefsStay
    <3> QED
      BY <2>1, <2>2, <3>1, <3>2 DEF Progress
  <2>5. CASE ~\E e \in d : e.id = x.id
    <3>1. PICK new, d2 : new = [id |-> x.id, address |-> h] /\ d2 = d \cup {new}
      OBVIOUS
    <3>2. Put(s, x) = State(b, h, d2, r, m)
      BY <1>6, <1>8, <2>3, <2>5, <3>1
    <3>3. ASSUME NEW e \in d2
          PROVE  \E i \in 1..(k + 1) : p[i] = Label(e.id) /\ e.address = b + Pos(p)[i]
      <4>1. CASE e \in d
        <5>1. PICK i \in 1..k : p[i] = Label(e.id) /\ e.address = b + Pos(p)[i]
          BY <4>1 DEF DefsAre
        <5>2. i \in 1..(k + 1)
          OBVIOUS
        <5> QED
          BY <5>1, <5>2
      <4>2. CASE e = new
        <5>1. k + 1 \in 1..(k + 1) /\ e.id = x.id /\ e.address = h
          BY <3>1, <4>2
        <5> QED
          BY <1>2, <1>6, <5>1
      <4> QED
        BY <3>1, <4>1, <4>2
    <3>4. ASSUME NEW i \in 1..(k + 1), p[i].op = "label"
          PROVE  \E e \in d2 : e.id = p[i].id
      <4>1. CASE i \in 1..k
        BY <3>1, <3>4, <4>1 DEF DefsAre
      <4>2. CASE i = k + 1
        BY <3>1, <4>2
      <4>3. i \in 1..k \/ i = k + 1
        OBVIOUS
      <4> QED
        BY <4>1, <4>2, <4>3
    <3>5. DefsAre(d2, p, b, k + 1)
      BY <3>3, <3>4 DEF DefsAre
    <3> QED
      BY <2>1, <2>2, <3>2, <3>5 DEF Progress
  <2> QED
    BY <2>4, <2>5
<1>7. CASE x.op = "jump"
  <2>1. DefsAre(d, p, b, k + 1)
    BY <1>7, DefsStay
  <2>2. PICK r2, m2 : /\ r2 = Append(r, RefOf(p, b, k + 1))
                      /\ m2 = [a \in DOMAIN m \cup {h} |-> IF a = h THEN -x.len ELSE m[a]]
    OBVIOUS
  <2>3. RefsAre(r2, p, b, k + 1)
    BY <1>1, <1>2, <1>7, <2>2, RefsGrow
  <2>4. RefOf(p, b, k + 1) = [id |-> x.id, address |-> h, wide |-> x.wide]
    BY DEF RefOf
  <2>5. Put(s, x) = State(b, h, d, r2, m2)
    BY <1>7, <1>8, <2>2, <2>4
  <2>6. ASSUME NEW j \in 1..(k + 1), p[j].op = "jump"
        PROVE  b + Pos(p)[j] \in DOMAIN m2
    <3>1. j \in 1..k \/ j = k + 1
      OBVIOUS
    <3> QED
      BY <2>2, <2>6, <3>1 DEF MemIs
  <2>7. ASSUME NEW a \in DOMAIN mem \cap Nat, a <= b \/ a > b + Pos(p)[k + 1]
        PROVE  a \in DOMAIN m2 /\ m2[a] = mem[a]
    <3>1. (a <= b \/ a > b + Pos(p)[k]) /\ a # h
      BY <1>2, <1>3, <1>7, <2>7
    <3>2. a \in DOMAIN m /\ m[a] = mem[a]
      BY <3>1 DEF MemIs
    <3> QED
      BY <2>2, <3>1, <3>2
  <2>8. MemIs(m2, p, b, k + 1, mem)
    BY <2>6, <2>7 DEF MemIs
  <2> QED
    BY <2>1, <2>3, <2>5, <2>8 DEF Progress
<1> QED
  BY <1>2, <1>5, <1>6, <1>7

\* The jump i has a label, and is wide enough wherever a label of that name is.
Resolves(p, i) ==
  /\ \E k \in 1..Len(p) : p[k] = Label(p[i].id)
  /\ \A k \in 1..Len(p) : p[k] = Label(p[i].id) => Fits(p[i], Pos(p)[k] - Pos(p)[i])

\* The jump j, put from b on, leads to its label.
Leads(mem, p, b, j) ==
  \E k \in 1..Len(p) : p[k] = Label(p[j].id) /\ mem[b + Pos(p)[j]] = Pos(p)[k] - Pos(p)[j]

\* What the memory is after the flush: only memory behind b was written to, and
\* each jump leads to its label when it and those before it can be resolved.
Patched(m, p, b, mem) ==
  /\ MemIs(m, p, b, Len(p), mem)
  /\ \A j \in 1..Len(p) :
       p[j].op = "jump" /\ (\A i \in 1..j : p[i].op = "jump" => Resolves(p, i))
         => Leads(m, p, b, j)

\* A jump that ends before another, or where it does, is no later one.
LEMMA JumpOrder ==
  ASSUME NEW p, Writable(p), NEW i \in 1..Len(p), NEW j \in 1..Len(p),
         p[i].op = "jump", p[j].op = "jump", Pos(p)[i] <= Pos(p)[j]
  PROVE  i <= j
<1> SUFFICES ASSUME j < i PROVE FALSE
  OBVIOUS
<1>1. p \in Seq(Piece) /\ Len(p) \in Nat /\ p[i].len > 0 /\ p[i].len \in Nat
  BY PosIs DEF Writable
<1>2. i - 1 \in 0..Len(p) /\ j \in 0..Len(p) /\ j <= i - 1
  BY <1>1
<1>3. Pos(p)[j] \in Nat /\ Pos(p)[i - 1] \in Nat /\ Pos(p)[j] <= Pos(p)[i - 1]
  BY <1>1, <1>2, PosGrows
<1>4. Pos(p)[i] = Pos(p)[i - 1] + p[i].len
  BY <1>1, PosIs
<1> QED
  BY <1>1, <1>3, <1>4

\* gum_x86_writer_flush
LEMMA FlushPatches ==
  ASSUME NEW p, Writable(p), NEW b \in Nat, NEW mem, NEW s, Progress(s, p, b, Len(p), mem),
         NEW f, f.op = "flush", f.len = 0
  PROVE  Patched(Put(s, f).memory, p, b, mem)
<1> DEFINE n == Len(p)
<1> PICK d, r, m : /\ s = State(b, b + Pos(p)[n], d, r, m)
                   /\ DefsAre(d, p, b, n) /\ RefsAre(r, p, b, n) /\ MemIs(m, p, b, n, mem)
  BY DEF Progress
<1> PICK c : c = b + Pos(p)[n]
  OBVIOUS
<1>1. /\ p \in Seq(Piece) /\ n \in Nat
      /\ \A k \in 1..n : Pos(p)[k] \in Nat /\ Pos(p)[k] <= Pos(p)[n]
  <2>1. p \in Seq(Piece) /\ n \in Nat
    BY PosIs DEF Writable
  <2>2. \A k \in 1..n : k \in 0..n /\ k <= n /\ n \in 0..n
    BY <2>1
  <2> QED
    BY <2>1, <2>2, PosGrows
<1> DEFINE w == State(b, c, d, r, m).writer
<1>2. w.label_defs = d /\ w.label_refs = r
  BY DEF State
<1>3. PutIs(b, c, d, r, m, f, c)
  <2>1. c \in Nat
    <3>1. n \in 0..n
      BY <1>1
    <3>2. Pos(p)[n] \in Nat
      BY <1>1, <3>1, PosIs
    <3> QED
      BY <3>2
  <2>2. c = c + f.len
    BY <2>1
  <2> QED
    BY <2>2, PutCases, Zenon
<1>4. Put(s, f).memory = IF d = {} THEN m ELSE Patch(w, m)
  <2>1. Put(s, f) = IF d = {} THEN State(b, c, d, r, m) ELSE State(b, c, d, <<>>, Patch(w, m))
    BY <1>3 DEF PutIs
  <2>2. State(b, c, d, r, m).memory = m /\ State(b, c, d, <<>>, Patch(w, m)).memory = Patch(w, m)
    BY DEF State
  <2> QED
    BY <2>1, <2>2
<1> HIDE DEF w
<1> DEFINE q == Put(s, f).memory
           patched == {r[i] : i \in PatchedRefs(w)}
<1>5. r \in Seq(Ref) /\ Len(r) \in Nat /\ DOMAIN r = 1..Len(r)
  BY LenProperties DEF RefsAre
<1>6. PatchedRefs(w) = {i \in 1..Len(r) : \A j \in 1..i : Resolvable(w, r[j])}
  BY <1>2, <1>5 DEF PatchedRefs
<1>7. Patch(w, m) = [a \in DOMAIN m |->
                       IF \E x \in patched : x.address = a
                       THEN AddressOf(w, (CHOOSE x \in patched : x.address = a).id) - a
                       ELSE m[a]]
  BY <1>2 DEF Patch
<1>8. \A x \in patched : \E j \in 1..n : p[j].op = "jump" /\ x = RefOf(p, b, j)
  BY <1>6 DEF RefsAre
<1> HIDE DEF patched
<1>9. MemIs(q, p, b, n, mem)
  <2>1. CASE d = {}
    BY <1>4, <2>1
  <2>2. CASE d # {}
    <3>1. q = Patch(w, m) /\ DOMAIN q = DOMAIN m
      BY <1>4, <1>7, <2>2
    <3>2. ASSUME NEW a \in DOMAIN mem \cap Nat, a <= b \/ a > b + Pos(p)[n]
          PROVE  a \in DOMAIN q /\ q[a] = mem[a]
      <4>1. a \in DOMAIN m /\ m[a] = mem[a]
        BY <3>2 DEF MemIs
      <4>2. ~\E x \in patched : x.address = a
        <5> SUFFICES ASSUME NEW x \in patched, x.address = a
                     PROVE  FALSE
          OBVIOUS
        <5>1. PICK j \in 1..n : p[j].op = "jump" /\ x = RefOf(p, b, j)
          BY <1>8
        <5>2. a = b + Pos(p)[j] /\ Pos(p)[j] \in Nat /\ Pos(p)[j] <= Pos(p)[n]
          BY <1>1, <5>1 DEF RefOf
        <5>3. Pos(p)[j] > 0
          <6>1. /\ p[j].len \in Nat /\ p[j].len > 0 /\ Pos(p)[j] = Pos(p)[j - 1] + p[j].len
                /\ j - 1 \in 0..n /\ Pos(p)[j - 1] \in Nat
            <7>1. j - 1 \in 0..n
              BY <1>1
            <7> QED
              BY <1>1, <5>1, <7>1, PosIs DEF Writable
          <6> QED
            BY <6>1
        <5>4. n \in 1..n /\ Pos(p)[n] \in Nat
          BY <1>1, <5>1
        <5> QED
          BY <3>2, <5>2, <5>3, <5>4
      <4> QED
        BY <1>7, <3>1, <4>1, <4>2
    <3> QED
      BY <3>1, <3>2 DEF MemIs
  <2> QED
    BY <2>1, <2>2
<1>10. ASSUME NEW j \in 1..n, p[j].op = "jump",
              \A i \in 1..j : p[i].op = "jump" => Resolves(p, i)
       PROVE  Leads(q, p, b, j)
  <2>1. PICK i \in 1..Len(r) : r[i] = RefOf(p, b, j)
    BY <1>10 DEF RefsAre
  <2>2. ASSUME NEW x \in 1..n, p[x].op = "jump", Resolves(p, x)
        PROVE  /\ Resolvable(w, RefOf(p, b, x)) /\ d # {}
               /\ \E k \in 1..n : /\ p[k] = Label(p[x].id)
                                  /\ AddressOf(w, p[x].id) = b + Pos(p)[k]
    <3>1. PICK k \in 1..n : p[k] = Label(p[x].id)
      BY <2>2 DEF Resolves
    <3>2. p[k].op = "label" /\ p[k].id = p[x].id
      BY <3>1 DEF Label
    <3>3. PICK e \in d : e.id = p[x].id
      BY <3>2 DEF DefsAre
    <3>4. PICK a : a = CHOOSE e2 \in w.label_defs : e2.id = p[x].id
      OBVIOUS
    <3>5. a \in d /\ a.id = p[x].id
      BY <1>2, <3>3, <3>4
    <3>6. PICK h \in 1..n : p[h] = Label(p[x].id) /\ a.address = b + Pos(p)[h]
      BY <3>5 DEF DefsAre
    <3>7. Fits(p[x], Pos(p)[h] - Pos(p)[x])
      BY <2>2, <3>6 DEF Resolves
    <3>8. AddressOf(w, p[x].id) = b + Pos(p)[h]
      BY <3>4, <3>6 DEF AddressOf
    <3>9. PICK y : y = RefOf(p, b, x)
      OBVIOUS
    <3>10. y.id = p[x].id /\ y.address = b + Pos(p)[x] /\ y.wide = p[x].wide
      BY <3>9 DEF RefOf
    <3>11. Fits(y, AddressOf(w, y.id) - y.address)
      <4>1. AddressOf(w, y.id) - y.address = Pos(p)[h] - Pos(p)[x]
        <5>1. Pos(p)[h] \in Nat /\ Pos(p)[x] \in Nat
          BY <1>1
        <5>2. b + Pos(p)[h] - (b + Pos(p)[x]) = Pos(p)[h] - Pos(p)[x]
          BY <5>1
        <5>3. AddressOf(w, y.id) = b + Pos(p)[h]
          BY <3>8, <3>10, Zenon
        <5> QED
          BY <3>10, <5>1, <5>2, <5>3
      <4> QED
        BY <3>7, <3>10, <4>1 DEF Fits
    <3>12. Defined(w, y.id)
      BY <1>2, <3>3, <3>10 DEF Defined
    <3> QED
      BY <3>3, <3>6, <3>8, <3>9, <3>11, <3>12 DEF Resolvable
  <2>3. i \in PatchedRefs(w)
    <3>1. ASSUME NEW i2 \in 1..i
          PROVE  Resolvable(w, r[i2])
      <4>1. i2 \in 1..Len(r) /\ (i2 < i \/ i2 = i)
        BY <1>5
      <4>2. PICK j2 \in 1..n : p[j2].op = "jump" /\ r[i2] = RefOf(p, b, j2)
        BY <4>1 DEF RefsAre
      <4>3. r[i2].address < r[i].address \/ r[i2] = r[i]
        BY <4>1 DEF RefsAre
      <4>4. r[i2].address = b + Pos(p)[j2] /\ r[i].address = b + Pos(p)[j]
        BY <2>1, <4>2 DEF RefOf
      <4>5. Pos(p)[j2] <= Pos(p)[j]
        <5>1. Pos(p)[j2] \in Nat /\ Pos(p)[j] \in Nat
          BY <1>1
        <5>2. CASE r[i2].address < r[i].address
          <6>1. b + Pos(p)[j2] < b + Pos(p)[j]
            BY ONLY <4>4, <5>2
          <6> QED
            BY ONLY <5>1, <6>1, b \in Nat
        <5>3. CASE r[i2] = r[i]
          <6>1. b + Pos(p)[j2] = b + Pos(p)[j]
            BY ONLY <4>4, <5>3
          <6> QED
            BY ONLY <5>1, <6>1, b \in Nat
        <5> QED
          BY ONLY <4>3, <5>2, <5>3
      <4>6. j2 <= j
        BY <1>10, <4>2, <4>5, JumpOrder
      <4>7. j2 \in 1..j
        BY <4>6
      <4> QED
        BY <1>10, <2>2, <4>2, <4>7
    <3> QED
      BY <1>6, <3>1
  <2>4. r[i] \in patched
    BY <2>3 DEF patched
  <2>5. PICK a : a = b + Pos(p)[j]
    OBVIOUS
  <2>6. r[i].address = a
    BY <2>1, <2>5 DEF RefOf
  <2>7. PICK x : x = CHOOSE z \in patched : z.address = a
    OBVIOUS
  <2>8. x \in patched /\ x.address = a
    BY <2>4, <2>6, <2>7
  <2>9. x.id = p[j].id
    <3>1. PICK j2 \in 1..n : p[j2].op = "jump" /\ x = RefOf(p, b, j2)
      BY <1>8, <2>8
    <3>2. Pos(p)[j2] = Pos(p)[j]
      <4>1. x.address = b + Pos(p)[j2] /\ Pos(p)[j2] \in Nat /\ Pos(p)[j] \in Nat
        BY <1>1, <3>1 DEF RefOf
      <4> QED
        BY <2>5, <2>8, <4>1
    <3>3. j2 <= j /\ j <= j2
      <4>1. Pos(p)[j2] <= Pos(p)[j] /\ Pos(p)[j] <= Pos(p)[j2]
        BY <1>1, <3>2
      <4> QED
        BY <1>10, <3>1, <4>1, JumpOrder
    <3>4. j2 = j
      BY <3>3
    <3> QED
      BY <3>1, <3>4 DEF RefOf
  <2>10. a \in DOMAIN m
    BY <1>10, <2>5 DEF MemIs
  <2>11. j \in 1..j
    OBVIOUS
  <2>12. PICK k \in 1..n : p[k] = Label(p[j].id) /\ AddressOf(w, p[j].id) = b + Pos(p)[k]
    BY <1>10, <2>2, <2>11
  <2>13. d # {}
    BY <1>10, <2>2, <2>11
  <2>14. q[a] = AddressOf(w, x.id) - a
    <3>1. \E z \in patched : z.address = a
      BY <2>8
    <3> QED
      BY <1>4, <1>7, <2>7, <2>10, <2>13, <3>1
  <2>15. q[a] = Pos(p)[k] - Pos(p)[j]
    <3>1. Pos(p)[k] \in Nat /\ Pos(p)[j] \in Nat
      BY <1>1
    <3>2. b + Pos(p)[k] - (b + Pos(p)[j]) = Pos(p)[k] - Pos(p)[j]
      BY <3>1
    <3>3. q[a] = AddressOf(w, p[j].id) - a
      BY <2>9, <2>14, Zenon
    <3> QED
      BY <2>5, <2>12, <3>1, <3>2, <3>3
  <2> QED
    BY <2>5, <2>12, <2>15 DEF Leads
<1> QED
  BY <1>9, <1>10 DEF Patched

\* Pieces put and flushed.
LEMMA PutAllPatches ==
  ASSUME NEW p, Writable(p), NEW b \in Nat, NEW mem,
         NEW all \in Seq(Piece), Len(all) = Len(p) + 1,
         \A k \in 1..Len(p) : all[k] = p[k], all[Len(p) + 1] = Flush
  PROVE  Patched(PutAll(State(b, b, {}, <<>>, mem), all).memory, p, b, mem)
<1> DEFINE s == State(b, b, {}, <<>>, mem)
           n == Len(p)
<1>1. PICK d : /\ d[0] = s
               /\ \A k \in 1..Len(all) : d[k] = Put(d[k - 1], all[k])
               /\ PutAll(s, all) = d[Len(all)]
  BY ONLY all \in Seq(Piece), PutAllIs
<1>2. p \in Seq(Piece) /\ n \in Nat /\ Len(all) = n + 1 /\ Pos(p)[0] = 0
  BY PosIs DEF Writable
<1>3. Progress(s, p, b, 0, mem)
  <2>1. DefsAre({}, p, b, 0)
    BY DEF DefsAre
  <2>2. RefsAre(<<>>, p, b, 0)
    BY DEF RefsAre
  <2>3. MemIs(mem, p, b, 0, mem)
    BY DEF MemIs
  <2>4. b + Pos(p)[0] = b
    BY <1>2
  <2> QED
    BY <2>1, <2>2, <2>3, <2>4 DEF Progress
<1> DEFINE S == {m \in Nat : m <= n => Progress(d[m], p, b, m, mem)}
<1>4. 0 \in S
  BY <1>1, <1>3
<1>5. ASSUME NEW m \in Nat, m \in S
      PROVE  m + 1 \in S
  <2> SUFFICES ASSUME m + 1 <= n
               PROVE  Progress(d[m + 1], p, b, m + 1, mem)
    OBVIOUS
  <2>1. /\ m <= n /\ m + 1 \in 1..Len(all) /\ m + 1 \in 1..n /\ m + 1 - 1 = m
    BY <1>2
  <2>2. Progress(d[m], p, b, m, mem)
    BY <1>5, <2>1
  <2>3. d[m + 1] = Put(d[m], p[m + 1])
    BY <1>1, <2>1
  <2> QED
    BY <2>2, <2>3, PutProgress
<1>6. n \in S
  <2> HIDE DEF S
  <2> QED
    BY <1>2, <1>4, <1>5, SetInduction
<1>7. Progress(d[n], p, b, n, mem)
  BY <1>2, <1>6
<1>8. PutAll(s, all) = Put(d[n], Flush)
  <2>1. n + 1 \in 1..Len(all) /\ n + 1 - 1 = n
    BY <1>2
  <2> QED
    BY <1>1, <1>2, <2>1
<1>9. Flush.op = "flush" /\ Flush.len = 0
  BY DEF Flush
<1> QED
  BY <1>7, <1>8, <1>9, FlushPatches

-----------------------------------------------------------------------------
(* The parts of a trampoline.                                              *)

\* A part defines labels of ids only, and each jump in it leads to a label of
\* ids that it defines itself, within a disp8's reach, or to one of far.
Part(q, ids, far) ==
  /\ Writable(q)
  /\ \A k \in 1..Len(q) : q[k].op = "label" => q[k].id \in ids
  /\ \A j \in 1..Len(q) : q[j].op = "jump" =>
       \/ q[j].id \in far
       \/ /\ q[j].id \in ids
          /\ \E k \in 1..Len(q) : q[k] = Label(q[j].id)
          /\ \A k \in 1..Len(q) : q[k] = Label(q[j].id) => Pos(q)[k] - Pos(q)[j] \in -127..127

\* Two places are no further apart than the whole is long.
LEMMA WithinSpan ==
  ASSUME NEW q \in Seq(Piece), NEW j \in 1..Len(q), NEW k \in 1..Len(q),
         NEW limit \in Nat, Span(q) <= limit
  PROVE  Pos(q)[k] - Pos(q)[j] \in -limit..limit
<1>1. Len(q) \in Nat /\ j \in 0..Len(q) /\ k \in 0..Len(q) /\ 0 \in 0..Len(q) /\ Len(q) \in 0..Len(q)
      /\ Pos(q)[0] = 0 /\ j <= Len(q) /\ k <= Len(q)
  BY PosIs
<1>2. /\ Pos(q)[j] \in Nat /\ Pos(q)[k] \in Nat /\ Span(q) \in Nat
      /\ Pos(q)[j] <= Span(q) /\ Pos(q)[k] <= Span(q)
  BY <1>1, PosGrows DEF Span
<1> QED
  BY ONLY <1>2, limit \in Nat, Span(q) <= limit, SMTT(30)

\* More names and more places to lead to.
LEMMA PartWeaker ==
  ASSUME NEW q, NEW A, NEW B, NEW far, NEW further, A \subseteq B, far \subseteq further,
         Part(q, A, far)
  PROVE  Part(q, B, further)
BY DEF Part

\* A part after another, with names of its own.
LEMMA PartConcat ==
  ASSUME NEW p, NEW q, NEW A, NEW B, NEW far, Part(p, A, far), Part(q, B, far), A \cap B = {}
  PROVE  Part(p \o q, A \cup B, far)
<1> DEFINE n == Len(p)
<1> PICK r : r = p \o q
  OBVIOUS
<1>1. p \in Seq(Piece) /\ q \in Seq(Piece) /\ n \in Nat /\ Len(q) \in Nat /\ Span(p) \in Nat
  <2>1. p \in Seq(Piece) /\ q \in Seq(Piece)
    BY DEF Part, Writable
  <2>2. Len(p) \in Nat /\ Len(q) \in Nat /\ Len(p) \in 0..Len(p)
    BY <2>1, PosIs
  <2> QED
    BY <2>1, <2>2, PosIs DEF Span
<1>2. /\ r \in Seq(Piece) /\ Len(r) = n + Len(q)
      /\ \A k \in 1..n : r[k] = p[k] /\ Pos(r)[k] = Pos(p)[k] /\ k \in 1..Len(r)
      /\ \A k \in 1..Len(q) : /\ r[n + k] = q[k] /\ Pos(r)[n + k] = Span(p) + Pos(q)[k]
                              /\ n + k \in 1..Len(r)
  <2>1. /\ \A k \in 1..n : k \in 0..n
        /\ \A k \in 1..Len(q) : k \in 0..Len(q)
    BY <1>1
  <2>2. /\ r \in Seq(Piece) /\ Len(r) = n + Len(q)
        /\ \A k \in 1..n : r[k] = p[k]
        /\ \A k \in 1..Len(q) : r[n + k] = q[k]
        /\ \A k \in 0..n : Pos(r)[k] = Pos(p)[k]
        /\ \A k \in 0..Len(q) : Pos(r)[n + k] = Span(p) + Pos(q)[k]
    BY <1>1, PosConcat
  <2>3. /\ \A k \in 1..n : k \in 1..Len(r)
        /\ \A k \in 1..Len(q) : n + k \in 1..Len(r)
    BY <1>1, <2>2
  <2> QED
    BY <2>1, <2>2, <2>3
<1>3. ASSUME NEW k \in 1..Len(r)
      PROVE  k \in 1..n \/ \E h \in 1..Len(q) : k = n + h
  <2>1. CASE k <= n
    BY <1>1, <2>1
  <2>2. CASE ~(k <= n)
    <3>1. k - n \in 1..Len(q) /\ k = n + (k - n)
      BY <1>1, <1>2, <2>2
    <3> QED
      BY <3>1
  <2> QED
    BY <2>1, <2>2
<1> HIDE DEF n
<1>4. Writable(r)
  <2>1. ASSUME NEW k \in 1..Len(r)
        PROVE  /\ r[k].op \in {"bytes", "label", "jump"}
               /\ r[k].op = "label" => r[k] = Label(r[k].id)
               /\ r[k].op = "jump" => r[k].len > 0
    <3>1. CASE k \in 1..n
      BY <1>2, <3>1 DEF Part, Writable, n
    <3>2. CASE \E h \in 1..Len(q) : k = n + h
      <4>1. PICK h \in 1..Len(q) : k = n + h
        BY <3>2
      <4>2. r[k] = q[h]
        BY <1>2, <4>1
      <4> QED
        BY <4>2 DEF Part, Writable
    <3> QED
      BY <1>3, <3>1, <3>2
  <2> QED
    BY <1>2, <2>1 DEF Writable
<1>5. ASSUME NEW k \in 1..Len(r), r[k].op = "label"
      PROVE  \/ k \in 1..n /\ r[k].id \in A
             \/ \E h \in 1..Len(q) : k = n + h /\ r[k].id \in B
  <2>1. CASE k \in 1..n
    BY <1>2, <1>5, <2>1 DEF Part, n
  <2>2. CASE \E h \in 1..Len(q) : k = n + h
    <3>1. PICK h \in 1..Len(q) : k = n + h
      BY <2>2
    <3>2. r[k] = q[h]
      BY <1>2, <3>1
    <3> QED
      BY <1>5, <3>1, <3>2 DEF Part
  <2> QED
    BY <1>3, <2>1, <2>2
<1>6. \A id, k : r[k] = Label(id) => r[k].op = "label" /\ r[k].id = id
  BY DEF Label
<1>7. ASSUME NEW j \in 1..n, r[j].op = "jump"
      PROVE  \/ r[j].id \in far
             \/ /\ r[j].id \in A
                /\ \E k \in 1..Len(r) : r[k] = Label(r[j].id)
                /\ \A k \in 1..Len(r) : r[k] = Label(r[j].id) => Pos(r)[k] - Pos(r)[j] \in -127..127
  <2> SUFFICES ASSUME r[j].id \notin far
               PROVE  /\ r[j].id \in A
                      /\ \E k \in 1..Len(r) : r[k] = Label(r[j].id)
                      /\ \A k \in 1..Len(r) : r[k] = Label(r[j].id) => Pos(r)[k] - Pos(r)[j] \in -127..127
    OBVIOUS
  <2>1. r[j] = p[j] /\ Pos(r)[j] = Pos(p)[j]
    BY <1>2
  <2>2. /\ p[j].id \in A /\ \E k \in 1..n : p[k] = Label(p[j].id)
        /\ \A k \in 1..n : p[k] = Label(p[j].id) => Pos(p)[k] - Pos(p)[j] \in -127..127
    BY <1>7, <2>1 DEF Part, n
  <2>3. ASSUME NEW k \in 1..Len(r), r[k] = Label(r[j].id)
        PROVE  Pos(r)[k] - Pos(r)[j] \in -127..127
    <3>0. r[k].op = "label" /\ r[k].id = r[j].id /\ r[j].id \in A /\ r[k].id \notin B
      <4>1. r[k].op = "label" /\ r[k].id = r[j].id
        BY <1>6, <2>3
      <4>2. r[j].id \in A
        BY <2>1, <2>2
      <4> QED
        BY <4>1, <4>2
    <3>1. k \in 1..n
      BY <1>5, <3>0
    <3> QED
      BY <1>2, <2>1, <2>2, <2>3, <3>1
  <2> QED
    BY <1>2, <2>1, <2>2, <2>3
<1>8. ASSUME NEW x \in 1..Len(q), r[n + x].op = "jump"
      PROVE  \/ r[n + x].id \in far
             \/ /\ r[n + x].id \in B
                /\ \E k \in 1..Len(r) : r[k] = Label(r[n + x].id)
                /\ \A k \in 1..Len(r) :
                     r[k] = Label(r[n + x].id) => Pos(r)[k] - Pos(r)[n + x] \in -127..127
  <2> PICK j : j = n + x
    OBVIOUS
  <2> SUFFICES ASSUME r[j].id \notin far
               PROVE  /\ r[j].id \in B
                      /\ \E k \in 1..Len(r) : r[k] = Label(r[j].id)
                      /\ \A k \in 1..Len(r) : r[k] = Label(r[j].id) => Pos(r)[k] - Pos(r)[j] \in -127..127
    OBVIOUS
  <2>1. r[j] = q[x] /\ Pos(r)[j] = Span(p) + Pos(q)[x]
    BY <1>2
  <2>2. /\ q[x].id \in B /\ \E k \in 1..Len(q) : q[k] = Label(q[x].id)
        /\ \A k \in 1..Len(q) : q[k] = Label(q[x].id) => Pos(q)[k] - Pos(q)[x] \in -127..127
    BY <1>8, <2>1 DEF Part
  <2>3. ASSUME NEW k \in 1..Len(r), r[k] = Label(r[j].id)
        PROVE  Pos(r)[k] - Pos(r)[j] \in -127..127
    <3>0. r[k].op = "label" /\ r[k].id = r[j].id /\ r[j].id \in B /\ r[k].id \notin A
      <4>1. r[k].op = "label" /\ r[k].id = r[j].id
        BY <1>6, <2>3
      <4>2. r[j].id \in B
        BY <2>1, <2>2
      <4> QED
        BY <4>1, <4>2
    <3>1. PICK h \in 1..Len(q) : k = n + h
      BY <1>5, <3>0
    <3>2. r[k] = q[h] /\ Pos(r)[k] = Span(p) + Pos(q)[h]
      BY <1>2, <3>1
    <3>3. Pos(q)[h] \in Nat /\ Pos(q)[x] \in Nat
      <4>1. h \in 0..Len(q) /\ x \in 0..Len(q)
        BY <1>1
      <4> QED
        BY <1>1, <4>1, PosIs
    <3>4. Pos(q)[h] - Pos(q)[x] \in -127..127
      BY <2>1, <2>2, <2>3, <3>2
    <3>5. Span(p) + Pos(q)[h] - (Span(p) + Pos(q)[x]) = Pos(q)[h] - Pos(q)[x]
      BY <1>1, <3>3
    <3>6. Pos(r)[k] - Pos(r)[j] = Pos(q)[h] - Pos(q)[x]
      <4>1. PICK u, v : u = Pos(r)[k] /\ v = Pos(r)[j]
        OBVIOUS
      <4>2. u - v = Pos(q)[h] - Pos(q)[x]
        BY <1>1, <2>1, <3>2, <3>3, <3>5, <4>1
      <4> QED
        BY <4>1, <4>2
    <3> QED
      BY <3>4, <3>6
  <2>4. \E k \in 1..Len(r) : r[k] = Label(r[j].id)
    <3>1. PICK h \in 1..Len(q) : q[h] = Label(q[x].id)
      BY <2>2
    <3>2. n + h \in 1..Len(r) /\ r[n + h] = Label(r[j].id)
      BY <1>2, <2>1, <3>1
    <3> QED
      BY <3>2
  <2> QED
    BY <2>1, <2>2, <2>3, <2>4
<1>9. \A k \in 1..Len(r) : r[k].op = "label" => r[k].id \in A \cup B
  BY <1>5
<1>10. ASSUME NEW j \in 1..Len(r), r[j].op = "jump"
       PROVE  \/ r[j].id \in far
              \/ /\ r[j].id \in A \cup B
                 /\ \E k \in 1..Len(r) : r[k] = Label(r[j].id)
                 /\ \A k \in 1..Len(r) : r[k] = Label(r[j].id) => Pos(r)[k] - Pos(r)[j] \in -127..127
  <2>1. CASE j \in 1..n
    BY <1>7, <1>10, <2>1
  <2>2. CASE \E x \in 1..Len(q) : j = n + x
    <3>1. PICK x \in 1..Len(q) : j = n + x
      BY <2>2
    <3> QED
      BY <1>8, <1>10, <3>1
  <2> QED
    BY <1>3, <2>1, <2>2
<1> QED
  BY <1>4, <1>9, <1>10, ZenonT(30) DEF Part

\* A short part needs nothing said about distances.
LEMMA ShortPart ==
  ASSUME NEW q, Writable(q), NEW ids, NEW far, Span(q) <= 127,
         \A k \in 1..Len(q) : q[k].op = "label" => q[k].id \in ids,
         \A j \in 1..Len(q) : q[j].op = "jump" =>
           \/ q[j].id \in far
           \/ q[j].id \in ids /\ \E k \in 1..Len(q) : q[k] = Label(q[j].id)
  PROVE  Part(q, ids, far)
<1>1. q \in Seq(Piece)
  BY DEF Writable
<1>2. \A j, k \in 1..Len(q) : Pos(q)[k] - Pos(q)[j] \in -127..127
  BY <1>1, WithinSpan, ZenonT(30)
<1> QED
  BY <1>2 DEF Part

\* What the calls of the writer are.
LEMMA PiecesAre ==
  ASSUME NEW i \in Nat, NEW t \in LabelName
  PROVE  /\ /\ Label(<<i, t>>) \in Piece /\ Label(<<i, t>>).op = "label"
            /\ Label(<<i, t>>).id = <<i, t>> /\ Label(<<i, t>>).len = 0
         /\ /\ ShortJump(<<i, t>>) \in Piece /\ ShortJump(<<i, t>>).op = "jump"
            /\ ShortJump(<<i, t>>).id = <<i, t>> /\ ShortJump(<<i, t>>).len = 2
         /\ /\ NearJump(<<i, t>>) \in Piece /\ NearJump(<<i, t>>).op = "jump"
            /\ NearJump(<<i, t>>).id = <<i, t>> /\ NearJump(<<i, t>>).len = 5
         /\ /\ IndirectCall(<<i, t>>) \in Piece /\ IndirectCall(<<i, t>>).op = "jump"
            /\ IndirectCall(<<i, t>>).id = <<i, t>> /\ IndirectCall(<<i, t>>).len = 6
<1>1. <<i, t>> \in (Nat \X LabelName) \cup { <<>> }
  OBVIOUS
<1>2. PICK id : id = <<i, t>>
  OBVIOUS
<1>3. id \in (Nat \X LabelName) \cup { <<>> }
  BY <1>1, <1>2
<1> QED
  BY <1>2, <1>3 DEF Label, ShortJump, NearJump, IndirectCall, Piece

LEMMA BytesAre ==
  ASSUME NEW m \in Nat
  PROVE  Bytes(m) \in Piece /\ Bytes(m).op = "bytes" /\ Bytes(m).len = m
BY DEF Bytes, Piece

\* One piece, and five.
LEMMA SpanOne ==
  ASSUME NEW p, NEW a \in Piece, p = <<a>>
  PROVE  p \in Seq(Piece) /\ Len(p) = 1 /\ p[1] = a /\ Span(p) = a.len
<1>1. p \in Seq(Piece) /\ Len(p) = 1 /\ p[1] = a
  OBVIOUS
<1>2. Pos(p)[0] = 0 /\ Pos(p)[1] = Pos(p)[0] + p[1].len /\ p[1].len \in Nat
  <2>1. 1 \in 1..Len(p) /\ 1 - 1 = 0
    BY <1>1
  <2> QED
    BY <1>1, <2>1, PosIs
<1>3. Span(p) = a.len
  BY <1>1, <1>2 DEF Span
<1> QED
  BY <1>1, <1>3

LEMMA SpanFive ==
  ASSUME NEW p, NEW a \in Piece, NEW b \in Piece, NEW c \in Piece, NEW d \in Piece, NEW e \in Piece,
         p = <<a, b, c, d, e>>
  PROVE  /\ p \in Seq(Piece) /\ Len(p) = 5
         /\ p[1] = a /\ p[2] = b /\ p[3] = c /\ p[4] = d /\ p[5] = e
         /\ Span(p) = a.len + b.len + c.len + d.len + e.len
<1>1. p \in Seq(Piece) /\ Len(p) = 5
      /\ p[1] = a /\ p[2] = b /\ p[3] = c /\ p[4] = d /\ p[5] = e
  OBVIOUS
<1>2. Pos(p)[0] = 0 /\ \A k \in 1..5 : p[k].len \in Nat /\ Pos(p)[k] = Pos(p)[k - 1] + p[k].len
  BY <1>1, PosIs
<1>3. Pos(p)[1] = a.len
  <2>1. Pos(p)[1] = Pos(p)[1 - 1] + p[1].len /\ p[1].len \in Nat
    BY <1>2
  <2> QED
    BY <1>1, <1>2, <2>1
<1>4. Pos(p)[2] = Pos(p)[1] + b.len
  <2>1. Pos(p)[2] = Pos(p)[2 - 1] + p[2].len
    BY <1>2
  <2> QED
    BY <1>1, <2>1
<1>5. Pos(p)[3] = Pos(p)[2] + c.len
  <2>1. Pos(p)[3] = Pos(p)[3 - 1] + p[3].len
    BY <1>2
  <2> QED
    BY <1>1, <2>1
<1>6. Pos(p)[4] = Pos(p)[3] + d.len
  <2>1. Pos(p)[4] = Pos(p)[4 - 1] + p[4].len
    BY <1>2
  <2> QED
    BY <1>1, <2>1
<1>7. Pos(p)[5] = Pos(p)[4] + e.len
  <2>1. Pos(p)[5] = Pos(p)[5 - 1] + p[5].len
    BY <1>2
  <2> QED
    BY <1>1, <2>1
<1>8. Span(p) = Pos(p)[5]
  BY <1>1 DEF Span
<1> QED
  BY <1>1, <1>3, <1>4, <1>5, <1>6, <1>7, <1>8

-----------------------------------------------------------------------------
(* The relocated prologue.                                                 *)

\* The labels of the instructions up to n.
Insns(n) == (1..n) \X {"insn"}

\* What gum_x86_relocator_write_one puts after the label of an instruction.
Translates(q, insn, i, n, near) ==
  /\ Part(q, {i} \X Inner, Insns(n))
  /\ Span(q) <= 10 * insn.size /\ Span(q) <= 44
  /\ near => Span(q) <= 5 * insn.size /\ Span(q) <= 15

\* Bytes are a translation if they are few enough.
LEMMA TranslatesBytes ==
  ASSUME NEW insn, NEW i, NEW n, NEW near, NEW m \in Nat, NEW q, q = <<Bytes(m)>>,
         m <= 10 * insn.size, m <= 44, near => m <= 5 * insn.size /\ m <= 15
  PROVE  Translates(q, insn, i, n, near)
<1>1. /\ q \in Seq(Piece) /\ Len(q) = 1 /\ q[1].op = "bytes" /\ Span(q) = m
  <2>1. Bytes(m) \in Piece /\ Bytes(m).op = "bytes" /\ Bytes(m).len = m
    BY BytesAre
  <2> QED
    BY <2>1, SpanOne
<1>2. \A k \in 1..Len(q) : q[k].op = "bytes"
  BY <1>1
<1>3. Writable(q)
  BY <1>1, <1>2 DEF Writable
<1>4. Span(q) <= 127
  BY <1>1
<1>5. Part(q, {i} \X Inner, Insns(n))
  BY <1>2, <1>3, <1>4, ShortPart
<1> QED
  BY <1>1, <1>5 DEF Translates

\* A branch to an instruction of the prologue is a jump to its label.
LEMMA TranslatesBranch ==
  ASSUME NEW insn \in Insn, insn.size >= 2, NEW i, NEW n \in Nat, NEW near, NEW to \in 1..n,
         NEW q, q = <<ShortJump(<<to, "insn">>)>>
  PROVE  Translates(q, insn, i, n, near)
<1>1. /\ q \in Seq(Piece) /\ Len(q) = 1 /\ q[1].op = "jump" /\ q[1].id = <<to, "insn">>
      /\ q[1].len = 2 /\ Span(q) = 2
  <2>1. /\ ShortJump(<<to, "insn">>) \in Piece /\ ShortJump(<<to, "insn">>).op = "jump"
        /\ ShortJump(<<to, "insn">>).id = <<to, "insn">> /\ ShortJump(<<to, "insn">>).len = 2
    <3>1. to \in Nat /\ "insn" \in LabelName
      BY DEF LabelName
    <3> QED
      BY <3>1, PiecesAre
  <2> QED
    BY <2>1, SpanOne
<1>2. \A k \in 1..Len(q) : q[k].op = "jump" /\ q[k].len = 2 /\ q[k].id = <<to, "insn">>
  BY <1>1
<1>3. Writable(q)
  BY <1>1, <1>2 DEF Writable
<1>4. <<to, "insn">> \in Insns(n)
  BY DEF Insns
<1>5. \A k \in 1..Len(q) : q[k].id \in Insns(n) /\ q[k].op # "label"
  BY <1>2, <1>4
<1>6. Part(q, {i} \X Inner, Insns(n))
  BY <1>1, <1>3, <1>5, ShortPart
<1>7. insn.size \in Nat
  BY DEF Insn
<1> QED
  BY <1>1, <1>6, <1>7 DEF Translates

\* Two jumps, each to a label behind it.
LEMMA TranslatesFive ==
  ASSUME NEW insn, NEW i \in Nat, NEW n, NEW near, NEW q, NEW s \in Inner, NEW t \in Inner,
         NEW a \in {IndirectCall(<<i, s>>), ShortJump(<<i, s>>)}, NEW m \in Nat,
         q = <<a, ShortJump(<<i, t>>), Label(<<i, s>>), Bytes(m), Label(<<i, t>>)>>,
         a.len + 2 + m <= 10 * insn.size, a.len + 2 + m <= 44,
         near => a.len + 2 + m <= 5 * insn.size /\ a.len + 2 + m <= 15
  PROVE  Translates(q, insn, i, n, near)
<1>1. s \in LabelName /\ t \in LabelName
  BY DEF Inner, LabelName
<1>2. /\ /\ a \in Piece /\ a.op = "jump" /\ a.id = <<i, s>> /\ a.len \in {2, 6}
      /\ /\ ShortJump(<<i, t>>) \in Piece /\ ShortJump(<<i, t>>).op = "jump"
         /\ ShortJump(<<i, t>>).id = <<i, t>> /\ ShortJump(<<i, t>>).len = 2
      /\ /\ Label(<<i, s>>) \in Piece /\ Label(<<i, s>>).op = "label"
         /\ Label(<<i, s>>).id = <<i, s>> /\ Label(<<i, s>>).len = 0
      /\ /\ Label(<<i, t>>) \in Piece /\ Label(<<i, t>>).op = "label"
         /\ Label(<<i, t>>).id = <<i, t>> /\ Label(<<i, t>>).len = 0
  <2>1. CASE a = IndirectCall(<<i, s>>)
    BY ONLY <1>1, <2>1, i \in Nat, PiecesAre, ZenonT(40)
  <2>2. CASE a = ShortJump(<<i, s>>)
    BY ONLY <1>1, <2>2, i \in Nat, PiecesAre, ZenonT(40)
  <2> QED
    BY <2>1, <2>2
<1>3. Bytes(m) \in Piece /\ Bytes(m).op = "bytes" /\ Bytes(m).len = m
  BY BytesAre
<1>4. /\ q \in Seq(Piece) /\ Len(q) = 5
      /\ q[1] = a /\ q[2] = ShortJump(<<i, t>>) /\ q[3] = Label(<<i, s>>)
      /\ q[4] = Bytes(m) /\ q[5] = Label(<<i, t>>)
      /\ Span(q) = a.len + 2 + 0 + m + 0
  <2>1. PICK b, c, d, e : /\ b = ShortJump(<<i, t>>) /\ c = Label(<<i, s>>)
                          /\ d = Bytes(m) /\ e = Label(<<i, t>>)
    OBVIOUS
  <2>2. q = <<a, b, c, d, e>> /\ a \in Piece /\ b \in Piece /\ c \in Piece
        /\ d \in Piece /\ e \in Piece
    BY <1>2, <1>3, <2>1
  <2>3. /\ q \in Seq(Piece) /\ Len(q) = 5
        /\ q[1] = a /\ q[2] = b /\ q[3] = c /\ q[4] = d /\ q[5] = e
        /\ Span(q) = a.len + b.len + c.len + d.len + e.len
    BY ONLY <2>2, SpanFive
  <2>4. b.len = 2 /\ c.len = 0 /\ d.len = m /\ e.len = 0
    BY <1>2, <1>3, <2>1
  <2> QED
    BY <2>1, <2>3, <2>4
<1>5. /\ <<i, s>> \in {i} \X Inner /\ <<i, t>> \in {i} \X Inner
  OBVIOUS
<1>6. \A k \in 1..Len(q) : k \in {1, 2, 3, 4, 5}
  BY <1>4
<1>7. Writable(q)
  <2>1. \A k \in 1..Len(q) :
          /\ q[k].op \in {"bytes", "label", "jump"}
          /\ q[k].op = "label" => q[k] = Label(q[k].id)
          /\ q[k].op = "jump" => q[k].len > 0
    <3> TAKE k \in 1..Len(q)
    <3>1. CASE k \in {1, 2}
      BY <1>2, <1>4, <3>1
    <3>2. CASE k \in {3, 5}
      BY <1>2, <1>4, <3>2
    <3>3. CASE k = 4
      BY <1>3, <1>4, <3>3
    <3> QED
      BY <1>6, <3>1, <3>2, <3>3
  <2> QED
    BY <1>4, <2>1 DEF Writable
<1>8. \A k \in 1..Len(q) : q[k].op = "label" => q[k].id \in {i} \X Inner
  <2> TAKE k \in 1..Len(q)
  <2>1. CASE k \in {1, 2}
    BY <1>2, <1>4, <2>1
  <2>2. CASE k \in {3, 5}
    BY <1>2, <1>4, <1>5, <2>2
  <2>3. CASE k = 4
    BY <1>3, <1>4, <2>3
  <2> QED
    BY <1>6, <2>1, <2>2, <2>3
<1>9. \A k \in 1..Len(q) : q[k].op = "jump" =>
        q[k].id \in {i} \X Inner /\ \E h \in 1..Len(q) : q[h] = Label(q[k].id)
  <2> TAKE k \in 1..Len(q)
  <2>0. 3 \in 1..Len(q) /\ 5 \in 1..Len(q)
    BY <1>4
  <2>1. CASE k = 1
    BY <1>2, <1>4, <1>5, <2>0, <2>1
  <2>2. CASE k = 2
    BY <1>2, <1>4, <1>5, <2>0, <2>2
  <2>3. CASE k \in {3, 5}
    BY <1>2, <1>4, <2>3
  <2>4. CASE k = 4
    BY <1>3, <1>4, <2>4
  <2> QED
    BY <1>6, <2>1, <2>2, <2>3, <2>4
<1>10. Span(q) = a.len + 2 + m
  BY <1>2, <1>4
<1>11. Span(q) <= 127
  BY <1>2, <1>10
<1>12. Part(q, {i} \X Inner, Insns(n))
  BY <1>7, <1>8, <1>9, <1>11, ShortPart
<1> QED
  BY <1>10, <1>12 DEF Translates

\* Each kind of instruction is translated within its bounds.
LEMMA InsnTranslated ==
  ASSUME NEW insn \in Insn, NEW n \in Nat, NEW i \in 1..n, NEW near
  PROVE  \E q : /\ WriteOne(insn, i, n, near) = <<Label(<<i, "insn">>)>> \o q
                /\ Translates(q, insn, i, n, near)
<1>1. /\ insn.kind \in Kind /\ insn.size \in Nat /\ insn.size >= 1 /\ insn.size <= 15
      /\ insn.size >= Shortest(insn.kind)
  BY DEF Insn
<1>2. i \in Nat
  OBVIOUS
<1>3. /\ Bytes(4 + 1) = Bytes(5)
      /\ "is_true" \in Inner /\ "is_false" \in Inner /\ "storage" \in Inner /\ "carry_on" \in Inner
  BY DEF Inner
<1> DEFINE L == <<Label(<<i, "insn">>)>>
<1>4. CASE insn.kind \in {"plain", "ret"}
  <2>1. WriteOne(insn, i, n, near) = L \o <<Bytes(insn.size)>>
    BY <1>4 DEF WriteOne
  <2>2. PICK q : q = <<Bytes(insn.size)>>
    OBVIOUS
  <2>3. Translates(q, insn, i, n, near)
    <3>1. insn.size <= 10 * insn.size /\ insn.size <= 44
          /\ insn.size <= 5 * insn.size /\ insn.size <= 15
      BY <1>1
    <3> QED
      BY ONLY <1>1, <2>2, <3>1, TranslatesBytes
  <2> QED
    BY <2>1, <2>2, <2>3
<1>5. CASE insn.kind \in {"rip", "push_rip", "call_rip", "jmp_rip"}
  <2>1. insn.size >= 6
    BY <1>1, <1>5 DEF Shortest
  <2>2. PICK m \in Nat : /\ RewriteRipRelative(insn, near) = Bytes(m)
                         /\ m <= 10 * insn.size /\ m <= 44
                         /\ near => m <= 5 * insn.size /\ m <= 15
    <3>1. CASE near
      <4>1. RewriteRipRelative(insn, near) = Bytes(insn.size)
        BY <3>1 DEF RewriteRipRelative
      <4> QED
        BY <1>1, <4>1
    <3>2. CASE ~near
      <4>1. CASE insn.kind = "rip"
        <5>1. RewriteRipRelative(insn, near) = Bytes(insn.size + 28)
          BY <3>2, <4>1 DEF RewriteRipRelative
        <5>2. insn.size + 28 \in Nat /\ insn.size + 28 <= 10 * insn.size /\ insn.size + 28 <= 44
          BY <1>1, <2>1
        <5> QED
          BY <3>2, <5>1, <5>2
      <4>2. CASE insn.kind = "push_rip"
        <5>1. RewriteRipRelative(insn, near) = Bytes(44)
          BY <3>2, <4>2 DEF RewriteRipRelative
        <5> QED
          BY <1>1, <2>1, <3>2, <5>1
      <4>3. CASE insn.kind = "call_rip"
        <5>1. RewriteRipRelative(insn, near) = Bytes(35)
          BY <3>2, <4>3 DEF RewriteRipRelative
        <5> QED
          BY <1>1, <2>1, <3>2, <5>1
      <4>4. CASE insn.kind = "jmp_rip"
        <5>1. RewriteRipRelative(insn, near) = Bytes(20)
          BY <3>2, <4>4 DEF RewriteRipRelative
        <5> QED
          BY <1>1, <2>1, <3>2, <5>1
      <4> QED
        BY <1>5, <4>1, <4>2, <4>3, <4>4
    <3> QED
      BY <3>1, <3>2
  <2>3. WriteOne(insn, i, n, near) = L \o <<RewriteRipRelative(insn, near)>>
    BY <1>5 DEF WriteOne
  <2>4. PICK q : q = <<Bytes(m)>>
    OBVIOUS
  <2>5. Translates(q, insn, i, n, near)
    BY <2>2, <2>4, TranslatesBytes
  <2> QED
    BY <2>2, <2>3, <2>4, <2>5
<1>6. CASE insn.kind = "call"
  <2>1. insn.size >= 5
    BY <1>1, <1>6 DEF Shortest
  <2>2. WriteOne(insn, i, n, near) = L \o CallAddress(i, near)
    BY <1>6 DEF WriteOne
  <2>3. CASE near
    <3>1. PICK q : q = <<Bytes(5)>>
      OBVIOUS
    <3>2. CallAddress(i, near) = q
      BY <2>3, <3>1 DEF CallAddress
    <3>3. Translates(q, insn, i, n, near)
      <4>1. 5 \in Nat /\ 5 <= 10 * insn.size /\ 5 <= 44 /\ 5 <= 5 * insn.size /\ 5 <= 15
        BY <1>1, <2>1
      <4> QED
        BY ONLY <3>1, <4>1, TranslatesBytes
    <3> QED
      BY <2>2, <3>2, <3>3
  <2>4. CASE ~near
    <3>1. PICK q : q = << IndirectCall(<<i, "storage">>), ShortJump(<<i, "carry_on">>),
                          Label(<<i, "storage">>), Bytes(8), Label(<<i, "carry_on">>) >>
      OBVIOUS
    <3>2. CallAddress(i, near) = q
      BY <2>4, <3>1 DEF CallAddress
    <3>3. PICK a : a = IndirectCall(<<i, "storage">>)
      OBVIOUS
    <3>4. a.len = 6
      BY <3>3 DEF IndirectCall
    <3>5. /\ a.len + 2 + 8 <= 10 * insn.size /\ a.len + 2 + 8 <= 44
      BY <1>1, <2>1, <3>4
    <3>6. Translates(q, insn, i, n, near)
      BY <1>2, <1>3, <2>4, <3>1, <3>3, <3>5, TranslatesFive
    <3> QED
      BY <2>2, <3>2, <3>6
  <2> QED
    BY <2>3, <2>4
<1>7. CASE insn.kind = "call_next"
  <2>1. insn.size >= 5
    BY <1>1, <1>7 DEF Shortest
  <2>2. WriteOne(insn, i, n, near) = L \o <<Bytes(15)>>
    BY <1>7 DEF WriteOne
  <2>3. PICK q : q = <<Bytes(15)>>
    OBVIOUS
  <2>4. Translates(q, insn, i, n, near)
    BY <1>1, <2>1, <2>3, TranslatesBytes
  <2> QED
    BY <2>2, <2>3, <2>4
<1>8. CASE insn.kind = "jmp"
  <2>1. insn.size >= 2
    BY <1>1, <1>8 DEF Shortest
  <2>2. WriteOne(insn, i, n, near) = L \o <<JmpAddress(near)>>
    BY <1>8 DEF WriteOne
  <2>3. PICK m \in Nat : JmpAddress(near) = Bytes(m) /\ m <= 16 /\ (near => m = 5)
    BY DEF JmpAddress
  <2>4. PICK q : q = <<Bytes(m)>>
    OBVIOUS
  <2>5. Translates(q, insn, i, n, near)
    <3>1. m <= 10 * insn.size /\ m <= 44 /\ (near => m <= 5 * insn.size /\ m <= 15)
      BY <1>1, <2>1, <2>3
    <3> QED
      BY ONLY m \in Nat, <2>4, <3>1, TranslatesBytes
  <2> QED
    BY <2>2, <2>3, <2>4, <2>5
<1>9. CASE insn.kind \in {"jcc", "jrcxz"}
  <2>1. insn.size >= 2
    BY <1>1, <1>9 DEF Shortest
  <2>2. WriteOne(insn, i, n, near) = L \o RewriteConditional(insn, i, n, near)
    BY <1>9 DEF WriteOne
  <2>3. CASE insn.to \in 1..n
    <3>1. PICK q : q = <<ShortJump(<<insn.to, "insn">>)>>
      OBVIOUS
    <3>2. RewriteConditional(insn, i, n, near) = q
      BY <2>3, <3>1 DEF RewriteConditional
    <3>3. PICK to \in 1..n : to = insn.to
      BY <2>3
    <3>4. Translates(q, insn, i, n, near)
      BY <2>1, <3>1, <3>3, TranslatesBranch
    <3> QED
      BY <2>2, <3>2, <3>4
  <2>4. CASE insn.to \notin 1..n /\ insn.kind = "jcc" /\ near
    <3>1. PICK q : q = <<Bytes(6)>>
      OBVIOUS
    <3>2. RewriteConditional(insn, i, n, near) = q
      BY <2>4, <3>1 DEF RewriteConditional
    <3>3. Translates(q, insn, i, n, near)
      <4>1. 6 \in Nat /\ 6 <= 10 * insn.size /\ 6 <= 44 /\ 6 <= 5 * insn.size /\ 6 <= 15
        BY <1>1, <2>1
      <4> QED
        BY ONLY <3>1, <4>1, TranslatesBytes
    <3> QED
      BY <2>2, <3>2, <3>3
  <2>5. CASE insn.to \notin 1..n /\ ~(insn.kind = "jcc" /\ near)
    <3>1. PICK m \in Nat : JmpAddress(near) = Bytes(m) /\ m <= 16 /\ (near => m = 5)
      BY DEF JmpAddress
    <3>2. PICK q : q = << ShortJump(<<i, "is_true">>), ShortJump(<<i, "is_false">>),
                          Label(<<i, "is_true">>), Bytes(m), Label(<<i, "is_false">>) >>
      OBVIOUS
    <3>3. RewriteConditional(insn, i, n, near) = q
      BY <2>5, <3>1, <3>2 DEF RewriteConditional
    <3>4. PICK a : a = ShortJump(<<i, "is_true">>)
      OBVIOUS
    <3>5. a.len = 2
      BY <3>4 DEF ShortJump
    <3>6. /\ a.len + 2 + m <= 10 * insn.size /\ a.len + 2 + m <= 44
          /\ near => a.len + 2 + m <= 5 * insn.size /\ a.len + 2 + m <= 15
      BY <1>1, <2>1, <3>1, <3>5
    <3>7. Translates(q, insn, i, n, near)
      BY <1>2, <1>3, <3>2, <3>4, <3>6, TranslatesFive
    <3> QED
      BY <2>2, <3>3, <3>7
  <2> QED
    BY <2>3, <2>4, <2>5
<1> QED
  BY <1>1, <1>4, <1>5, <1>6, <1>7, <1>8, <1>9 DEF Kind

\* The translation with the instruction's label.
Rewritten(w, insn, i, n, near) ==
  /\ Part(w, {i} \X LabelName, Insns(n))
  /\ \E k \in 1..Len(w) : w[k] = Label(<<i, "insn">>)
  /\ Span(w) <= 10 * insn.size /\ Span(w) <= 44
  /\ near => Span(w) <= 5 * insn.size /\ Span(w) <= 15

\* gum_x86_relocator_write_one
LEMMA InsnWritten ==
  ASSUME NEW insn \in Insn, NEW n \in Nat, NEW i \in 1..n, NEW near
  PROVE  Rewritten(WriteOne(insn, i, n, near), insn, i, n, near)
<1> PICK w : w = WriteOne(insn, i, n, near)
  OBVIOUS
<1>1. PICK q : w = <<Label(<<i, "insn">>)>> \o q /\ Translates(q, insn, i, n, near)
  BY InsnTranslated
<1>2. PICK l : l = <<Label(<<i, "insn">>)>>
  OBVIOUS
<1>3. i \in Nat /\ "insn" \in LabelName
  BY DEF LabelName
<1>4. /\ l \in Seq(Piece) /\ Len(l) = 1 /\ l[1] = Label(<<i, "insn">>) /\ Span(l) = 0
      /\ l[1].op = "label" /\ l[1].id = <<i, "insn">>
  <2>1. PICK a : a = Label(<<i, "insn">>)
    OBVIOUS
  <2>2. a \in Piece /\ a.op = "label" /\ a.id = <<i, "insn">> /\ a.len = 0
    BY <1>3, <2>1, PiecesAre
  <2>3. l = <<a>>
    BY <1>2, <2>1
  <2>4. l \in Seq(Piece) /\ Len(l) = 1 /\ l[1] = a /\ Span(l) = a.len
    BY <2>2, <2>3, SpanOne
  <2> QED
    BY <2>1, <2>2, <2>4
<1>5. \A k \in 1..Len(l) : l[k].op = "label" /\ l[k] = Label(l[k].id) /\ l[k].id = <<i, "insn">>
  BY <1>4
<1>6. Writable(l)
  BY <1>4, <1>5 DEF Writable
<1>7. Part(l, {<<i, "insn">>}, Insns(n))
  BY <1>4, <1>5, <1>6, ShortPart
<1>8. Part(q, {i} \X Inner, Insns(n))
  BY <1>1 DEF Translates
<1>9. {<<i, "insn">>} \cap ({i} \X Inner) = {}
  BY DEF Inner
<1>10. Part(w, {<<i, "insn">>} \cup ({i} \X Inner), Insns(n))
  BY <1>1, <1>2, <1>7, <1>8, <1>9, PartConcat
<1>11. Part(w, {i} \X LabelName, Insns(n))
  <2>1. {<<i, "insn">>} \cup ({i} \X Inner) \subseteq {i} \X LabelName
    BY DEF Inner, LabelName
  <2> QED
    BY <1>10, <2>1, PartWeaker
<1>12. q \in Seq(Piece)
  BY <1>8 DEF Part, Writable
<1>13. /\ Len(w) = 1 + Len(q) /\ Len(q) \in Nat /\ w[1] = l[1] /\ Span(w) = 0 + Span(q)
       /\ Span(q) \in Nat
  <2>1. Len(q) \in Nat /\ Pos(q) \in [0..Len(q) -> Nat]
    BY <1>12, PosIs
  <2>2. Span(q) \in Nat
    BY <2>1 DEF Span
  <2>3. 1 \in 1..Len(l)
    BY <1>4
  <2>4. w = l \o q
    BY <1>1, <1>2
  <2>5. Len(w) = Len(l) + Len(q) /\ w[1] = l[1] /\ Span(w) = Span(l) + Span(q)
    BY ONLY <1>4, <1>12, <2>3, <2>4, PosConcat
  <2> QED
    BY <1>4, <2>1, <2>2, <2>5
<1>14. \E k \in 1..Len(w) : w[k] = Label(<<i, "insn">>)
  BY <1>4, <1>13
<1>15. insn.size \in Nat
  BY DEF Insn
<1>16. Span(q) <= 10 * insn.size /\ Span(q) <= 44
       /\ (near => Span(q) <= 5 * insn.size /\ Span(q) <= 15)
  BY <1>1 DEF Translates
<1>17. Span(w) = Span(q)
  BY <1>13
<1>18. Rewritten(w, insn, i, n, near)
  BY <1>11, <1>14, <1>16, <1>17 DEF Rewritten
<1> QED
  BY <1>18

\* How many bytes have been read grows by each instruction's size.
LEMMA SizeOfIs ==
  ASSUME NEW code \in Seq(Insn)
  PROVE  /\ Len(code) \in Nat /\ \A k \in 1..Len(code) : code[k] \in Insn /\ code[k].size \in Nat
         /\ \A k \in 0..Len(code) : SizeOf(code, k) \in Nat
         /\ SizeOf(code, 0) = 0
         /\ \A k \in 1..Len(code) : SizeOf(code, k) = SizeOf(code, k - 1) + code[k].size
<1> DEFINE n == Len(code)
           f(k) == [i \in 1..k |-> code[i].size]
           R(k) == RunningSum(f(k), k)
<1>1. n \in Nat /\ \A k \in 1..n : code[k] \in Insn
  BY LenProperties, ElementOfSeq
<1>2. \A k \in 1..n : code[k].size \in Nat
  <2>1. \A x \in Insn : x.size \in Nat
    BY DEF Insn
  <2> QED
    BY <1>1, <2>1
<1>3. ASSUME NEW k \in 0..n
      PROVE  /\ R(k) \in [0..k -> Nat] /\ R(k)[0] = 0
             /\ \A j \in 1..k : R(k)[j] = R(k)[j - 1] + code[j].size
  <2>1. k \in Nat /\ \A j \in 1..k : f(k)[j] = code[j].size /\ f(k)[j] \in Nat
    <3>1. \A j \in 1..k : j \in 1..n
      BY <1>1
    <3> QED
      BY <1>2, <3>1
  <2> PICK g : g = f(k)
    OBVIOUS
  <2>2. \A j \in 1..k : g[j] = code[j].size /\ g[j] \in Nat
    BY <2>1
  <2>3. /\ RunningSum(g, k) \in [0..k -> Nat] /\ RunningSum(g, k)[0] = 0
        /\ \A j \in 1..k : RunningSum(g, k)[j] = RunningSum(g, k)[j - 1] + g[j]
    BY <2>1, <2>2, RunningSumIs
  <2> QED
    BY <2>2, <2>3
<1>4. \A k \in 0..n : SizeOf(code, k) = R(k)[k]
  BY DEF SizeOf
<1> HIDE DEF R
<1>5. ASSUME NEW k \in 1..n
      PROVE  R(k)[k - 1] = R(k - 1)[k - 1]
  <2> DEFINE S == {m \in Nat : m <= k - 1 => R(k)[m] = R(k - 1)[m]}
  <2>1. k \in 0..n /\ k - 1 \in 0..n /\ k - 1 \in Nat
    BY <1>1
  <2>2. 0 \in S
    BY <1>3, <2>1
  <2>3. ASSUME NEW m \in Nat, m \in S
        PROVE  m + 1 \in S
    <3> SUFFICES ASSUME m + 1 <= k - 1
                 PROVE  R(k)[m + 1] = R(k - 1)[m + 1]
      OBVIOUS
    <3>1. m + 1 \in 1..k /\ m + 1 \in 1..(k - 1) /\ m + 1 - 1 = m /\ m <= k - 1
      BY <2>1
    <3>2. R(k)[m] = R(k - 1)[m]
      BY <2>3, <3>1
    <3>3. R(k)[m + 1] = R(k)[m] + code[m + 1].size
      BY <1>3, <2>1, <3>1
    <3>4. R(k - 1)[m + 1] = R(k - 1)[m] + code[m + 1].size
      <4>1. PICK h \in 0..n : h = k - 1
        BY <2>1
      <4>2. PICK j \in 1..h : j = m + 1
        BY <3>1, <4>1
      <4>3. R(h)[j] = R(h)[j - 1] + code[j].size
        BY <1>3
      <4> QED
        BY <3>1, <4>1, <4>2, <4>3
    <3> QED
      BY <3>2, <3>3, <3>4
  <2>4. k - 1 \in S
    <3> HIDE DEF S
    <3> QED
      BY <2>1, <2>2, <2>3, SetInduction
  <2> QED
    BY <2>1, <2>4
<1>6. ASSUME NEW k \in 1..n
      PROVE  SizeOf(code, k) = SizeOf(code, k - 1) + code[k].size
  <2>1. k \in 0..n /\ k - 1 \in 0..n /\ k \in 1..k
    BY <1>1
  <2>2. R(k)[k] = R(k)[k - 1] + code[k].size
    BY <1>3, <2>1
  <2> QED
    BY <1>4, <1>5, <2>1, <2>2
<1>7. \A k \in 0..n : SizeOf(code, k) \in Nat
  <2> TAKE k \in 0..n
  <2>1. k \in 0..k
    OBVIOUS
  <2> QED
    BY <1>3, <1>4, <2>1
<1>8. SizeOf(code, 0) = 0
  <2>1. 0 \in 0..n
    BY <1>1
  <2> QED
    BY <1>3, <1>4, <2>1
<1> QED
  BY <1>1, <1>2, <1>6, <1>7, <1>8

\* What k of n instructions are written to.
Relocated(w, code, k, n, near) ==
  /\ Part(w, (1..k) \X LabelName, Insns(n))
  /\ \A i \in 1..k : \E j \in 1..Len(w) : w[j] = Label(<<i, "insn">>)
  /\ Span(w) <= 10 * SizeOf(code, k)
  /\ near => Span(w) <= 5 * SizeOf(code, k)

\* How long what is written is depends on what was read before the last of them.
ShortAfter(w, code, k, near) ==
  /\ Span(w) <= 10 * SizeOf(code, k) + 44
  /\ near => Span(w) <= 5 * SizeOf(code, k) + 15

\* No instruction, and one more.
LEMMA RelocatedNone ==
  ASSUME NEW code \in Seq(Insn), NEW n \in Nat, NEW near, NEW w, w = <<>>
  PROVE  Relocated(w, code, 0, n, near)
<1>1. w \in Seq(Piece) /\ Len(w) = 0
  OBVIOUS
<1>2. Span(w) = 0
  BY <1>1, PosIs DEF Span
<1>3. Writable(w)
  BY <1>1 DEF Writable
<1>4. Part(w, (1..0) \X LabelName, Insns(n))
  BY <1>1, <1>2, <1>3, ShortPart
<1>5. SizeOf(code, 0) = 0
  BY SizeOfIs
<1> QED
  BY <1>2, <1>4, <1>5 DEF Relocated

LEMMA RelocatedNext ==
  ASSUME NEW code \in Seq(Insn), NEW n \in Nat, n <= Len(code), NEW near,
         NEW k \in Nat, NEW i \in 1..n, i = k + 1, NEW v, Relocated(v, code, k, n, near)
  PROVE  /\ Relocated(v \o WriteOne(code[i], i, n, near), code, i, n, near)
         /\ ShortAfter(v \o WriteOne(code[i], i, n, near), code, k, near)
<1> PICK x : x = WriteOne(code[i], i, n, near)
  OBVIOUS
<1> PICK w : w = v \o x
  OBVIOUS
<1>1. Len(code) \in Nat /\ i \in 1..Len(code) /\ i - 1 = k /\ k \in 0..Len(code)
  BY SizeOfIs
<1>2. /\ code[i] \in Insn /\ code[i].size \in Nat /\ SizeOf(code, k) \in Nat
      /\ SizeOf(code, i) = SizeOf(code, k) + code[i].size
  BY <1>1, SizeOfIs
<1>3. /\ Part(x, {i} \X LabelName, Insns(n))
      /\ \E j \in 1..Len(x) : x[j] = Label(<<i, "insn">>)
      /\ Span(x) <= 10 * code[i].size /\ Span(x) <= 44
      /\ near => Span(x) <= 5 * code[i].size /\ Span(x) <= 15
  <2>1. PICK insn \in Insn : insn = code[i]
    BY <1>2
  <2>2. x = WriteOne(insn, i, n, near)
    BY <2>1
  <2>3. /\ Part(x, {i} \X LabelName, Insns(n))
        /\ \E j \in 1..Len(x) : x[j] = Label(<<i, "insn">>)
        /\ Span(x) <= 10 * insn.size /\ Span(x) <= 44
        /\ near => Span(x) <= 5 * insn.size /\ Span(x) <= 15
    <3>1. Rewritten(x, insn, i, n, near)
      BY <2>2, InsnWritten
    <3> QED
      BY <3>1 DEF Rewritten
  <2> QED
    BY <2>1, <2>3
<1>4. Part(w, (1..i) \X LabelName, Insns(n))
  <2>1. Part(v, (1..k) \X LabelName, Insns(n))
    BY DEF Relocated
  <2>2. ((1..k) \X LabelName) \cap ({i} \X LabelName) = {}
    OBVIOUS
  <2>3. Part(w, ((1..k) \X LabelName) \cup ({i} \X LabelName), Insns(n))
    BY ONLY w = v \o x, <1>3, <2>1, <2>2, PartConcat, Zenon
  <2>4. ((1..k) \X LabelName) \cup ({i} \X LabelName) \subseteq (1..i) \X LabelName
    OBVIOUS
  <2> QED
    BY <2>3, <2>4, PartWeaker
<1>5. /\ v \in Seq(Piece) /\ x \in Seq(Piece) /\ Len(v) \in Nat /\ Len(x) \in Nat
      /\ Span(v) \in Nat /\ Span(x) \in Nat
  <2>1. v \in Seq(Piece) /\ x \in Seq(Piece)
    BY <1>3, Zenon DEF Relocated, Part, Writable
  <2> QED
    BY ONLY <2>1, SpanIs
<1>6. /\ Len(w) = Len(v) + Len(x) /\ Span(w) = Span(v) + Span(x)
      /\ \A j \in 1..Len(v) : w[j] = v[j]
      /\ \A j \in 1..Len(x) : w[Len(v) + j] = x[j]
  BY <1>5, PosConcat
<1>7. ASSUME NEW h \in 1..i
      PROVE  \E j \in 1..Len(w) : w[j] = Label(<<h, "insn">>)
  <2>1. CASE h \in 1..k
    <3>1. PICK j \in 1..Len(v) : v[j] = Label(<<h, "insn">>)
      BY <2>1 DEF Relocated
    <3>2. j \in 1..Len(w) /\ w[j] = Label(<<h, "insn">>)
      BY <1>5, <1>6, <3>1
    <3> QED
      BY <3>2
  <2>2. CASE h = i
    <3>1. PICK j \in 1..Len(x) : x[j] = Label(<<h, "insn">>)
      BY <1>3, <2>2
    <3>2. Len(v) + j \in 1..Len(w) /\ w[Len(v) + j] = Label(<<h, "insn">>)
      BY <1>5, <1>6, <3>1
    <3> QED
      BY <3>2
  <2>3. h \in 1..k \/ h = i
    OBVIOUS
  <2> QED
    BY <2>1, <2>2, <2>3
<1>8. Span(v) <= 10 * SizeOf(code, k) /\ (near => Span(v) <= 5 * SizeOf(code, k))
  BY DEF Relocated
<1> PICK a, b, c, z : a = Span(v) /\ b = Span(x) /\ c = SizeOf(code, k) /\ z = code[i].size
  OBVIOUS
<1>9. /\ a \in Nat /\ b \in Nat /\ c \in Nat /\ z \in Nat
      /\ Span(w) = a + b /\ SizeOf(code, i) = c + z
  BY <1>2, <1>5, <1>6
<1>10. /\ a <= 10 * c /\ b <= 10 * z /\ b <= 44
       /\ near => a <= 5 * c /\ b <= 5 * z /\ b <= 15
  BY <1>3, <1>8
<1>11. /\ a + b <= 10 * (c + z) /\ a + b <= 10 * c + 44
       /\ near => a + b <= 5 * (c + z) /\ a + b <= 5 * c + 15
  BY ONLY <1>9, <1>10
<1>12. \A h \in 1..i : \E j \in 1..Len(w) : w[j] = Label(<<h, "insn">>)
  BY <1>7
<1>13. /\ Span(w) <= 10 * SizeOf(code, i) /\ Span(w) <= 10 * SizeOf(code, k) + 44
       /\ near => Span(w) <= 5 * SizeOf(code, i) /\ Span(w) <= 5 * SizeOf(code, k) + 15
  BY <1>9, <1>11
<1> QED
  BY <1>4, <1>12, <1>13 DEF Relocated, ShortAfter

\* gum_x86_relocator_write_all
LEMMA PrologueWritten ==
  ASSUME NEW code \in Seq(Insn), NEW n \in 1..Len(code), NEW near
  PROVE  /\ Relocated(WriteAll(code, n, near), code, n, n, near)
         /\ ShortAfter(WriteAll(code, n, near), code, n - 1, near)
<1>1. Len(code) \in Nat /\ n \in Nat /\ n <= Len(code) /\ n - 1 \in Nat /\ n - 1 + 1 = n
  BY SizeOfIs
<1> DEFINE d == Written(code, n, near)
<1>2. /\ d[0] = <<>>
      /\ \A k \in 1..n : d[k] = d[k - 1] \o WriteOne(code[k], k, n, near)
      /\ WriteAll(code, n, near) = d[n]
  BY <1>1, WriteAllIs
<1> HIDE DEF d
<1>3. ASSUME NEW k \in Nat, NEW i \in 1..n, i = k + 1, Relocated(d[k], code, k, n, near)
      PROVE  Relocated(d[i], code, i, n, near) /\ ShortAfter(d[i], code, k, near)
  <2>1. d[i] = d[k] \o WriteOne(code[i], i, n, near)
    <3>1. i - 1 = k
      BY <1>3
    <3> QED
      BY <1>2, <3>1
  <2>2. /\ Relocated(d[k] \o WriteOne(code[i], i, n, near), code, i, n, near)
        /\ ShortAfter(d[k] \o WriteOne(code[i], i, n, near), code, k, near)
    BY <1>1, <1>3, RelocatedNext
  <2> QED
    BY <2>1, <2>2
<1> DEFINE S == {k \in Nat : k <= n => Relocated(d[k], code, k, n, near)}
<1>4. 0 \in S
  <2>1. Relocated(d[0], code, 0, n, near)
    BY <1>1, <1>2, RelocatedNone
  <2> QED
    BY <2>1
<1>5. ASSUME NEW k \in Nat, k \in S
      PROVE  k + 1 \in S
  <2> SUFFICES ASSUME k + 1 <= n
               PROVE  Relocated(d[k + 1], code, k + 1, n, near)
    OBVIOUS
  <2>1. Relocated(d[k], code, k, n, near)
    BY <1>1, <1>5
  <2>2. PICK i \in 1..n : i = k + 1
    BY <1>1
  <2>3. Relocated(d[i], code, i, n, near)
    BY <1>3, <2>1, <2>2
  <2> QED
    BY <2>2, <2>3
<1>6. n - 1 \in S
  <2> HIDE DEF S
  <2> QED
    BY <1>1, <1>4, <1>5, SetInduction
<1>7. PICK k \in Nat : k = n - 1
  BY <1>1
<1>8. n = k + 1 /\ Relocated(d[k], code, k, n, near) /\ n \in 1..n
  BY <1>1, <1>6, <1>7
<1>9. Relocated(d[n], code, n, n, near) /\ ShortAfter(d[n], code, k, near)
  BY <1>3, <1>8
<1> QED
  BY <1>2, <1>7, <1>9

-----------------------------------------------------------------------------
(* The whole trampoline.                                                   *)

\* The sampling guard up to the invocation of the function.
Guard(x) ==
  (IF x.fast THEN <<>> ELSE GuardHead \o GuardTail("thunk" \in x.reach))
    \o << Label(<<0, "invoke_trampoline">>) >>

\* A jump back to the function, when there is something to come back to.
Back(x) == IF EndsInput(x.code[x.n]) THEN <<>> ELSE << JmpAddress("function" \in x.reach) >>

\* All but the flush.
Front(x) == Guard(x) \o WriteAll(x.code, x.n, "target" \in x.reach) \o Back(x)

LEMMA TrampolineIs ==
  ASSUME NEW x
  PROVE  Trampoline(x) = Front(x) \o <<Flush>>
BY DEF Trampoline, Front, Guard, Back

\* The pieces of the guard.
LEMMA GuardHeadIs ==
  ASSUME NEW p, p = GuardHead
  PROVE  /\ p \in Seq(Piece) /\ Len(p) = 2 /\ Span(p) = 56
         /\ p[1] = Bytes(54) /\ p[2] = ShortJump(<<0, "sampling_skip">>)
<1> PICK a, b : a = Bytes(54) /\ b = ShortJump(<<0, "sampling_skip">>)
  OBVIOUS
<1>1. p = <<a, b>>
  BY DEF GuardHead
<1>2. a \in Piece /\ a.len = 54 /\ b \in Piece /\ b.len = 2
  <2>1. "sampling_skip" \in LabelName
    BY DEF LabelName
  <2> QED
    BY <2>1, BytesAre, PiecesAre
<1>3. p \in Seq(Piece) /\ Len(p) = 2 /\ p[1] = a /\ p[2] = b
  BY <1>1, <1>2
<1>4. Pos(p)[0] = 0 /\ \A k \in 1..2 : Pos(p)[k] = Pos(p)[k - 1] + p[k].len
  BY ONLY <1>3, PosIs
<1>5. Pos(p)[1] = 54
  <2>1. Pos(p)[1] = Pos(p)[1 - 1] + p[1].len
    BY ONLY <1>4
  <2> QED
    BY ONLY <1>2, <1>3, <1>4, <2>1
<1>6. Pos(p)[2] = 56
  <2>1. Pos(p)[2] = Pos(p)[2 - 1] + p[2].len
    BY ONLY <1>4
  <2> QED
    BY ONLY <1>2, <1>3, <1>5, <2>1
<1> QED
  BY <1>3, <1>6 DEF Span

LEMMA GuardTailIs ==
  ASSUME NEW near, NEW p, p = GuardTail(near)
  PROVE  /\ p \in Seq(Piece) /\ Len(p) = 7 /\ Span(p) <= 57
         /\ p[1] = Bytes(7) /\ p[2] = JmpAddress(near) /\ p[3] = Label(<<0, "sampling_skip">>)
         /\ p[4] = Bytes(7) /\ p[5] = NearJump(<<0, "invoke_trampoline">>)
         /\ p[6] = Bytes(6) /\ p[7] = JmpAddress(near)
<1> PICK a, b, c, d, e, f :
      /\ a = Bytes(7) /\ b = JmpAddress(near) /\ c = Label(<<0, "sampling_skip">>)
      /\ d = Bytes(7) /\ e = NearJump(<<0, "invoke_trampoline">>) /\ f = Bytes(6)
  OBVIOUS
<1>1. p = <<a, b, c, d, e, f, b>>
  BY DEF GuardTail
<1>2. PICK m \in Nat : b = Bytes(m) /\ m <= 16
  BY DEF JmpAddress
<1>3. /\ a \in Piece /\ a.len = 7 /\ b \in Piece /\ b.len = m /\ c \in Piece /\ c.len = 0
      /\ d \in Piece /\ d.len = 7 /\ e \in Piece /\ e.len = 5 /\ f \in Piece /\ f.len = 6
  <2>1. "sampling_skip" \in LabelName /\ "invoke_trampoline" \in LabelName
    BY DEF LabelName
  <2>2. /\ a \in Piece /\ a.len = 7 /\ b \in Piece /\ b.len = m
        /\ d \in Piece /\ d.len = 7 /\ f \in Piece /\ f.len = 6
    BY <1>2, BytesAre
  <2>3. c \in Piece /\ c.len = 0 /\ e \in Piece /\ e.len = 5
    BY <2>1, PiecesAre
  <2> QED
    BY <2>2, <2>3
<1>4. /\ p \in Seq(Piece) /\ Len(p) = 7
      /\ p[1] = a /\ p[2] = b /\ p[3] = c /\ p[4] = d /\ p[5] = e /\ p[6] = f /\ p[7] = b
  BY <1>1, <1>3
<1>5. Pos(p)[0] = 0 /\ \A k \in 1..7 : Pos(p)[k] = Pos(p)[k - 1] + p[k].len
  BY ONLY <1>4, PosIs
<1>6. /\ Pos(p)[1] = Pos(p)[1 - 1] + p[1].len /\ Pos(p)[2] = Pos(p)[2 - 1] + p[2].len
      /\ Pos(p)[3] = Pos(p)[3 - 1] + p[3].len /\ Pos(p)[4] = Pos(p)[4 - 1] + p[4].len
      /\ Pos(p)[5] = Pos(p)[5 - 1] + p[5].len /\ Pos(p)[6] = Pos(p)[6 - 1] + p[6].len
      /\ Pos(p)[7] = Pos(p)[7 - 1] + p[7].len
  BY ONLY <1>5
<1>7. Pos(p)[1] = 7 /\ Pos(p)[2] = 7 + m /\ Pos(p)[3] = 7 + m
  BY ONLY m \in Nat, <1>3, <1>4, <1>5, <1>6
<1>8. Pos(p)[4] = 14 + m /\ Pos(p)[5] = 19 + m /\ Pos(p)[6] = 25 + m
  BY ONLY m \in Nat, <1>3, <1>4, <1>6, <1>7
<1>9. Pos(p)[7] = 25 + m + m
  BY ONLY m \in Nat, <1>3, <1>4, <1>6, <1>8
<1>10. Span(p) <= 57
  BY <1>2, <1>4, <1>9 DEF Span
<1> QED
  BY <1>4, <1>10

\* The guard's jumps lead to labels of its own, a disp8 away at most.
LEMMA GuardIs ==
  ASSUME NEW x, NEW p, p = Guard(x)
  PROVE  Part(p, {0} \X LabelName, {}) /\ Span(p) <= 113
<1> PICK l : l = <<Label(<<0, "invoke_trampoline">>)>>
  OBVIOUS
<1>1. "sampling_skip" \in LabelName /\ "invoke_trampoline" \in LabelName
  BY DEF LabelName
<1>2. /\ l \in Seq(Piece) /\ Len(l) = 1 /\ l[1] = Label(<<0, "invoke_trampoline">>) /\ Span(l) = 0
  <2>1. PICK a : a = Label(<<0, "invoke_trampoline">>)
    OBVIOUS
  <2>2. a \in Piece /\ a.len = 0
    BY <1>1, <2>1, PiecesAre
  <2>3. l = <<a>>
    BY <2>1
  <2>4. l \in Seq(Piece) /\ Len(l) = 1 /\ l[1] = a /\ Span(l) = a.len
    BY ONLY <2>2, <2>3, SpanOne
  <2> QED
    BY <2>1, <2>2, <2>4
<1>3. /\ Label(<<0, "sampling_skip">>).op = "label"
      /\ Label(<<0, "sampling_skip">>).id = <<0, "sampling_skip">>
      /\ Label(<<0, "invoke_trampoline">>).op = "label"
      /\ Label(<<0, "invoke_trampoline">>).id = <<0, "invoke_trampoline">>
      /\ ShortJump(<<0, "sampling_skip">>).op = "jump" /\ ShortJump(<<0, "sampling_skip">>).len = 2
      /\ ShortJump(<<0, "sampling_skip">>).id = <<0, "sampling_skip">>
      /\ NearJump(<<0, "invoke_trampoline">>).op = "jump" /\ NearJump(<<0, "invoke_trampoline">>).len = 5
      /\ NearJump(<<0, "invoke_trampoline">>).id = <<0, "invoke_trampoline">>
  BY DEF Label, ShortJump, NearJump
<1>4. /\ <<0, "sampling_skip">> \in {0} \X LabelName
      /\ <<0, "invoke_trampoline">> \in {0} \X LabelName
  BY <1>1
<1>5. CASE x.fast
  <2>1. p = <<>> \o l
    BY <1>5 DEF Guard
  <2>2. p = l
    BY ONLY <1>2, <2>1
  <2>3. \A k \in 1..Len(p) : p[k] = Label(<<0, "invoke_trampoline">>)
    BY ONLY <1>2, <2>2
  <2>4. \A k \in 1..Len(p) : p[k].op = "label" /\ p[k].id = <<0, "invoke_trampoline">>
    BY ONLY <1>3, <2>3
  <2>5. p \in Seq(Piece) /\ Span(p) = 0
    BY ONLY <1>2, <2>2
  <2>6. Writable(p)
    BY ONLY <2>3, <2>4, <2>5 DEF Writable
  <2>7. Part(p, {0} \X LabelName, {})
    BY ONLY <1>4, <2>4, <2>5, <2>6, ShortPart
  <2> QED
    BY ONLY <2>5, <2>7
<1>6. CASE ~x.fast
  <2> PICK h, t, g : h = GuardHead /\ t = GuardTail("thunk" \in x.reach) /\ g = h \o t
    OBVIOUS
  <2>1. p = g \o l
    BY <1>6 DEF Guard
  <2>2. /\ h \in Seq(Piece) /\ Len(h) = 2 /\ Span(h) = 56
        /\ h[1] = Bytes(54) /\ h[2] = ShortJump(<<0, "sampling_skip">>)
    BY GuardHeadIs
  <2> PICK near : near = ("thunk" \in x.reach)
    OBVIOUS
  <2>3. t = GuardTail(near)
    OBVIOUS
  <2>4. /\ t \in Seq(Piece) /\ Len(t) = 7 /\ Span(t) <= 57
        /\ t[1] = Bytes(7) /\ t[2] = JmpAddress(near) /\ t[3] = Label(<<0, "sampling_skip">>)
        /\ t[4] = Bytes(7) /\ t[5] = NearJump(<<0, "invoke_trampoline">>)
        /\ t[6] = Bytes(6) /\ t[7] = JmpAddress(near)
    BY ONLY <2>3, GuardTailIs
  <2>5. JmpAddress(near).op = "bytes" /\ \A m : Bytes(m).op = "bytes"
    BY DEF JmpAddress, Bytes
  <2>6. /\ g \in Seq(Piece) /\ Len(g) = 9 /\ Span(g) = Span(h) + Span(t)
        /\ \A k \in 1..2 : g[k] = h[k]
        /\ \A k \in 1..7 : g[2 + k] = t[k]
    <3>1. g = h \o t
      OBVIOUS
    <3>2. h \in Seq(Piece) /\ t \in Seq(Piece)
      BY ONLY <2>2, <2>4
    <3>3. /\ g \in Seq(Piece) /\ Len(g) = Len(h) + Len(t) /\ Span(g) = Span(h) + Span(t)
          /\ \A k \in 1..Len(h) : g[k] = h[k]
          /\ \A k \in 1..Len(t) : g[Len(h) + k] = t[k]
      BY ONLY <3>1, <3>2, PosConcat
    <3>4. Len(h) = 2 /\ Len(t) = 7
      BY ONLY <2>2, <2>4
    <3>5. 2 + 7 = 9
      OBVIOUS
    <3> QED
      BY ONLY <3>3, <3>4, <3>5
  <2>7. /\ p \in Seq(Piece) /\ Len(p) = 10 /\ Span(p) = Span(g) + Span(l)
        /\ \A k \in 1..9 : p[k] = g[k]
        /\ \A k \in 1..1 : p[9 + k] = l[k]
    <3>1. l \in Seq(Piece) /\ g \in Seq(Piece)
      BY ONLY <1>2, <2>6
    <3>2. /\ p \in Seq(Piece) /\ Len(p) = Len(g) + Len(l) /\ Span(p) = Span(g) + Span(l)
          /\ \A k \in 1..Len(g) : p[k] = g[k]
          /\ \A k \in 1..Len(l) : p[Len(g) + k] = l[k]
      BY ONLY <2>1, <3>1, PosConcat
    <3>3. Len(g) = 9 /\ Len(l) = 1
      BY ONLY <1>2, <2>6
    <3>4. 9 + 1 = 10
      OBVIOUS
    <3> QED
      BY ONLY <3>2, <3>3, <3>4
  <2>8. /\ p[1] = Bytes(54) /\ p[2] = ShortJump(<<0, "sampling_skip">>)
        /\ p[3] = Bytes(7) /\ p[4] = JmpAddress(near) /\ p[5] = Label(<<0, "sampling_skip">>)
        /\ p[6] = Bytes(7) /\ p[7] = NearJump(<<0, "invoke_trampoline">>)
        /\ p[8] = Bytes(6) /\ p[9] = JmpAddress(near) /\ p[10] = Label(<<0, "invoke_trampoline">>)
    <3>1. g[1] = h[1] /\ g[2] = h[2]
      BY ONLY <2>6
    <3>2. /\ g[2 + 1] = t[1] /\ g[2 + 2] = t[2] /\ g[2 + 3] = t[3] /\ g[2 + 4] = t[4]
          /\ g[2 + 5] = t[5] /\ g[2 + 6] = t[6] /\ g[2 + 7] = t[7]
      BY ONLY <2>6
    <3>3. p[9 + 1] = l[1]
      BY ONLY <2>7
    <3>4. /\ p[1] = g[1] /\ p[2] = g[2] /\ p[3] = g[3] /\ p[4] = g[4] /\ p[5] = g[5]
          /\ p[6] = g[6] /\ p[7] = g[7] /\ p[8] = g[8] /\ p[9] = g[9]
      BY ONLY <2>7
    <3>5. /\ 2 + 1 = 3 /\ 2 + 2 = 4 /\ 2 + 3 = 5 /\ 2 + 4 = 6 /\ 2 + 5 = 7 /\ 2 + 6 = 8
          /\ 2 + 7 = 9 /\ 9 + 1 = 10
      OBVIOUS
    <3> QED
      BY ONLY <1>2, <2>2, <2>4, <3>1, <3>2, <3>3, <3>4, <3>5
  <2>9. /\ p[1].op = "bytes" /\ p[3].op = "bytes" /\ p[4].op = "bytes" /\ p[6].op = "bytes"
        /\ p[8].op = "bytes" /\ p[9].op = "bytes"
        /\ p[2].op = "jump" /\ p[2].len = 2 /\ p[2].id = <<0, "sampling_skip">>
        /\ p[7].op = "jump" /\ p[7].len = 5 /\ p[7].id = <<0, "invoke_trampoline">>
        /\ p[5].op = "label" /\ p[5].id = <<0, "sampling_skip">>
        /\ p[10].op = "label" /\ p[10].id = <<0, "invoke_trampoline">>
        /\ p[5] = Label(<<0, "sampling_skip">>) /\ p[10] = Label(<<0, "invoke_trampoline">>)
    BY ONLY <1>3, <2>5, <2>8
  <2>10. \A k \in 1..Len(p) : k \in {1, 3, 4, 6, 8, 9} \/ k = 2 \/ k = 7 \/ k \in {5, 10}
    BY ONLY <2>7
  <2>11. \A k \in 1..Len(p) :
           /\ p[k].op \in {"bytes", "label", "jump"}
           /\ p[k].op = "label" => p[k] = Label(p[k].id) /\ p[k].id \in {0} \X LabelName
           /\ p[k].op = "jump" =>
                p[k].len > 0 /\ p[k].id \in {<<0, "sampling_skip">>, <<0, "invoke_trampoline">>}
    <3> TAKE k \in 1..Len(p)
    <3>1. CASE k \in {1, 3, 4, 6, 8, 9}
      BY ONLY <2>9, <3>1
    <3>2. CASE k = 2 \/ k = 7
      BY ONLY <2>9, <3>2, SMTT(30)
    <3>3. CASE k \in {5, 10}
      BY ONLY <1>4, <2>9, <3>3
    <3> QED
      BY <2>10, <3>1, <3>2, <3>3
  <2>12. Writable(p)
    BY ONLY <2>7, <2>11 DEF Writable
  <2>13. \A j \in 1..Len(p) : p[j].op = "jump" =>
           p[j].id \in {0} \X LabelName /\ \E k \in 1..Len(p) : p[k] = Label(p[j].id)
    <3> TAKE j \in 1..Len(p)
    <3> HAVE p[j].op = "jump"
    <3>1. 5 \in 1..Len(p) /\ 10 \in 1..Len(p)
      BY ONLY <2>7
    <3>2. p[j].id = <<0, "sampling_skip">> \/ p[j].id = <<0, "invoke_trampoline">>
      BY <2>11
    <3>3. p[j].id \in {0} \X LabelName
      BY ONLY <1>4, <3>2
    <3>4. \E k \in 1..Len(p) : p[k] = Label(p[j].id)
      BY ONLY <2>9, <3>1, <3>2
    <3> QED
      BY <3>3, <3>4
  <2>14. Span(p) <= 113
    <3>1. Span(t) \in Nat
      BY ONLY <2>4, SpanIs
    <3> QED
      BY ONLY <1>2, <2>2, <2>4, <2>6, <2>7, <3>1, SMTT(30)
  <2>15. \A k \in 1..Len(p) : p[k].op = "label" => p[k].id \in {0} \X LabelName
    BY ONLY <2>11
  <2>16. Span(p) \in Nat /\ Span(p) <= 127
    BY ONLY <2>7, <2>14, SpanIs
  <2>17. Part(p, {0} \X LabelName, {})
    BY ONLY <2>12, <2>13, <2>15, <2>16, ShortPart
  <2> QED
    BY ONLY <2>14, <2>17
<1> QED
  BY <1>5, <1>6

\* The jump back is bytes.
LEMMA BackIs ==
  ASSUME NEW x, NEW p, p = Back(x)
  PROVE  /\ Part(p, {}, {}) /\ Span(p) <= 16 /\ ("function" \in x.reach => Span(p) <= 5)
         /\ \A k \in 1..Len(p) : p[k].op = "bytes"
<1>1. CASE EndsInput(x.code[x.n])
  <2>1. p = <<>>
    BY <1>1 DEF Back
  <2>2. p \in Seq(Piece) /\ Len(p) = 0
    BY ONLY <2>1
  <2>3. Span(p) = 0
    BY ONLY <2>2, PosIs DEF Span
  <2>4. Writable(p)
    BY ONLY <2>2 DEF Writable
  <2>5. Part(p, {}, {})
    BY ONLY <2>2, <2>3, <2>4, ShortPart
  <2> QED
    BY ONLY <2>2, <2>3, <2>5
<1>2. CASE ~EndsInput(x.code[x.n])
  <2>1. PICK m \in Nat : p = <<Bytes(m)>> /\ m <= 16 /\ ("function" \in x.reach => m = 5)
    BY <1>2 DEF Back, JmpAddress
  <2>2. Bytes(m) \in Piece /\ Bytes(m).op = "bytes" /\ Bytes(m).len = m
    BY BytesAre
  <2> PICK a : a = Bytes(m)
    OBVIOUS
  <2>3. a \in Piece /\ a.op = "bytes" /\ a.len = m /\ p = <<a>>
    BY <2>1, <2>2
  <2>4. p \in Seq(Piece) /\ Len(p) = 1 /\ p[1] = a /\ Span(p) = a.len
    BY ONLY <2>3, SpanOne
  <2>5. \A k \in 1..Len(p) : p[k].op = "bytes"
    BY ONLY <2>3, <2>4
  <2>6. Writable(p)
    BY ONLY <2>4, <2>5 DEF Writable
  <2>7. Span(p) = m /\ m <= 127
    BY <2>1, <2>3, <2>4
  <2>8. Part(p, {}, {})
    BY ONLY <2>5, <2>6, <2>7, ShortPart
  <2> QED
    BY <2>1, <2>5, <2>7, <2>8
<1> QED
  BY <1>1, <1>2

\* A trampoline has the labels of its n instructions, its jumps lead to labels of
\* its own, and the guard's jumps are the first.
Laid(p, n) ==
  /\ Part(p, (0..n) \X LabelName, Insns(n))
  /\ \A i \in 1..n : \E k \in 1..Len(p) : p[k] = Label(<<i, "insn">>)
  /\ \A i, j \in 1..Len(p) :
       p[i].op = "jump" /\ p[j].op = "jump" /\ i <= j /\ p[j].id[1] = 0 => p[i].id[1] = 0

\* A prologue's jumps lead to its own instructions, and are near when it is short.
LEMMA PrologueJumps ==
  ASSUME NEW code, NEW n \in Nat, NEW near, NEW r, Relocated(r, code, n, n, near)
  PROVE  /\ \A j \in 1..Len(r) : r[j].op = "jump" => r[j].id[1] # 0
         /\ Span(r) <= 127 => Part(r, (1..n) \X LabelName, {})
<1>1. /\ Part(r, (1..n) \X LabelName, Insns(n))
      /\ \A i \in 1..n : \E j \in 1..Len(r) : r[j] = Label(<<i, "insn">>)
  BY DEF Relocated
<1>2. \A id \in Insns(n) : \E i \in 1..n : id = <<i, "insn">>
  BY DEF Insns
<1>3. Insns(n) \subseteq (1..n) \X LabelName
  BY DEF Insns, LabelName
<1>4. \A j \in 1..Len(r) : r[j].op = "jump" =>
        r[j].id \in (1..n) \X LabelName /\ \E k \in 1..Len(r) : r[k] = Label(r[j].id)
  <2> TAKE j \in 1..Len(r)
  <2> HAVE r[j].op = "jump"
  <2>1. CASE r[j].id \in Insns(n)
    <3>1. PICK i \in 1..n : r[j].id = <<i, "insn">>
      BY <1>2, <2>1
    <3>2. PICK k \in 1..Len(r) : r[k] = Label(<<i, "insn">>)
      BY <1>1
    <3>3. r[k] = Label(r[j].id)
      BY <3>1, <3>2
    <3> QED
      BY <1>3, <2>1, <3>3
  <2>2. CASE r[j].id \notin Insns(n)
    BY <1>1, <2>2 DEF Part
  <2> QED
    BY <2>1, <2>2
<1>5. \A id \in (1..n) \X LabelName : id[1] # 0
  OBVIOUS
<1>6. \A j \in 1..Len(r) : r[j].op = "jump" => r[j].id[1] # 0
  BY <1>4, <1>5
<1>7. ASSUME Span(r) <= 127
      PROVE  Part(r, (1..n) \X LabelName, {})
  <2>1. Writable(r) /\ \A k \in 1..Len(r) : r[k].op = "label" => r[k].id \in (1..n) \X LabelName
    BY <1>1 DEF Part
  <2> QED
    BY ONLY <1>4, <1>7, <2>1, ShortPart
<1> QED
  BY <1>6, <1>7

\* What a front is made of.
FrontIs(x, p) ==
  LET read == SizeOf(x.code, x.n - 1) IN
  /\ Laid(p, x.n)
  /\ Span(p) <= 10 * read + 173
  /\ "function" \in x.reach => Span(p) <= 10 * read + 162
  /\ 10 * read <= 83 \/ ("target" \in x.reach /\ 5 * read <= 112)
       => Part(p, (0..x.n) \X LabelName, {})

LEMMA FrontHas ==
  ASSUME NEW x, x.code \in Seq(Insn), x.n \in 1..Len(x.code), NEW p, p = Front(x)
  PROVE  FrontIs(x, p)
<1> PICK n, near, read : /\ n = x.n /\ near = ("target" \in x.reach)
                         /\ read = SizeOf(x.code, x.n - 1)
  OBVIOUS
<1> PICK g, r, b : g = Guard(x) /\ r = WriteAll(x.code, x.n, near) /\ b = Back(x)
  OBVIOUS
<1> PICK q : q = g \o r
  OBVIOUS
<1>0. n \in Nat /\ near = ("target" \in x.reach) /\ n = x.n /\ read = SizeOf(x.code, x.n - 1)
      /\ q = g \o r /\ read \in Nat
  <2>1. n \in Nat /\ near = ("target" \in x.reach) /\ n = x.n /\ q = g \o r
        /\ read = SizeOf(x.code, x.n - 1)
    BY SizeOfIs
  <2>2. x.n - 1 \in 0..Len(x.code)
    BY SizeOfIs
  <2> QED
    BY <2>1, <2>2, SizeOfIs
<1>1. p = q \o b
  BY DEF Front
<1>2. Part(g, {0} \X LabelName, {}) /\ Span(g) <= 113
  BY ONLY g = Guard(x), GuardIs
<1>3. /\ Part(b, {}, {}) /\ Span(b) <= 16 /\ ("function" \in x.reach => Span(b) <= 5)
      /\ \A k \in 1..Len(b) : b[k].op = "bytes"
  BY ONLY b = Back(x), BackIs
<1>4. Relocated(r, x.code, n, n, near) /\ ShortAfter(r, x.code, n - 1, near)
  <2>1. PICK code \in Seq(Insn) : code = x.code
    OBVIOUS
  <2>2. n \in 1..Len(code) /\ r = WriteAll(code, n, near)
    BY <2>1
  <2>3. Relocated(r, code, n, n, near) /\ ShortAfter(r, code, n - 1, near)
    BY ONLY code \in Seq(Insn), <2>2, PrologueWritten
  <2> QED
    BY <2>1, <2>3
<1>5. /\ Part(r, (1..n) \X LabelName, Insns(n))
      /\ \A i \in 1..n : \E j \in 1..Len(r) : r[j] = Label(<<i, "insn">>)
      /\ Span(r) <= 10 * read + 44 /\ (near => Span(r) <= 5 * read + 15)
  BY <1>0, <1>4 DEF Relocated, ShortAfter
<1>6. /\ \A j \in 1..Len(r) : r[j].op = "jump" => r[j].id[1] # 0
      /\ Span(r) <= 127 => Part(r, (1..n) \X LabelName, {})
  BY ONLY <1>0, <1>4, PrologueJumps
<1>7. g \in Seq(Piece) /\ r \in Seq(Piece) /\ b \in Seq(Piece)
  BY <1>2, <1>3, <1>5, Zenon DEF Part, Writable
<1>8. /\ Len(g) \in Nat /\ Span(g) \in Nat /\ Len(r) \in Nat /\ Span(r) \in Nat
      /\ Len(b) \in Nat /\ Span(b) \in Nat
  BY ONLY <1>7, SpanIs
<1>9. /\ q \in Seq(Piece) /\ Len(q) = Len(g) + Len(r) /\ Span(q) = Span(g) + Span(r)
      /\ \A k \in 1..Len(g) : q[k] = g[k]
      /\ \A k \in 1..Len(r) : q[Len(g) + k] = r[k]
  BY ONLY <1>0, <1>7, PosConcat
<1>10. /\ p \in Seq(Piece) /\ Len(p) = Len(q) + Len(b) /\ Span(p) = Span(q) + Span(b)
       /\ \A k \in 1..Len(q) : p[k] = q[k]
       /\ \A k \in 1..Len(b) : p[Len(q) + k] = b[k]
  <2>1. q \in Seq(Piece) /\ b \in Seq(Piece)
    BY ONLY <1>7, <1>9
  <2> QED
    BY ONLY <1>1, <2>1, PosConcat
<1>11. /\ Span(p) <= 10 * read + 173
       /\ "function" \in x.reach => Span(p) <= 10 * read + 162
  <2>0. read \in Nat
    BY <1>0
  <2>1. Span(p) = Span(g) + Span(r) + Span(b)
    BY ONLY <1>9, <1>10
  <2>2. Span(g) <= 113 /\ Span(b) <= 16 /\ Span(r) <= 10 * read + 44
    BY <1>2, <1>3, <1>5
  <2>3. Span(p) <= 10 * read + 173
    BY ONLY <1>8, <2>0, <2>1, <2>2
  <2>4. Span(b) <= 5 => Span(p) <= 10 * read + 162
    BY ONLY <1>8, <2>0, <2>1, <2>2
  <2> QED
    BY <1>3, <2>3, <2>4
<1>12. ({0} \X LabelName) \cap ((1..n) \X LabelName) = {}
  BY ONLY <1>0
<1>13. /\ ({0} \X LabelName) \cup ((1..n) \X LabelName) \subseteq (0..n) \X LabelName
       /\ (({0} \X LabelName) \cup ((1..n) \X LabelName)) \cap {} = {}
       /\ (({0} \X LabelName) \cup ((1..n) \X LabelName)) \cup {} \subseteq (0..n) \X LabelName
  BY ONLY <1>0
<1>14. ASSUME NEW far, Part(r, (1..n) \X LabelName, far)
       PROVE  Part(p, (0..n) \X LabelName, far)
  <2>1. Part(g, {0} \X LabelName, far)
    BY ONLY <1>2, PartWeaker
  <2>2. Part(q, ({0} \X LabelName) \cup ((1..n) \X LabelName), far)
    BY ONLY <1>0, <1>12, <1>14, <2>1, PartConcat
  <2>3. Part(b, {}, far)
    BY ONLY <1>3, PartWeaker
  <2>4. Part(p, (({0} \X LabelName) \cup ((1..n) \X LabelName)) \cup {}, far)
    BY ONLY <1>1, <1>13, <2>2, <2>3, PartConcat
  <2> QED
    BY ONLY <1>13, <2>4, PartWeaker
<1>15. \A i \in 1..n : \E k \in 1..Len(p) : p[k] = Label(<<i, "insn">>)
  <2> TAKE i \in 1..n
  <2>1. PICK j \in 1..Len(r) : r[j] = Label(<<i, "insn">>)
    BY <1>5
  <2>2. Len(g) + j \in 1..Len(q) /\ q[Len(g) + j] = r[j]
    BY ONLY <1>8, <1>9, j \in 1..Len(r)
  <2>3. Len(g) + j \in 1..Len(p) /\ p[Len(g) + j] = r[j]
    <3>1. PICK h : h = Len(g) + j
      OBVIOUS
    <3>2. h \in 1..Len(q) /\ q[h] = r[j]
      BY <2>2, <3>1
    <3>3. h \in 1..Len(p) /\ p[h] = r[j]
      BY ONLY <1>8, <1>9, <1>10, <3>2
    <3> QED
      BY <3>1, <3>3
  <2> QED
    BY <2>1, <2>3
<1>16. \A k \in 1..Len(p) :
         \/ k <= Len(g) /\ (p[k].op = "jump" => p[k].id[1] = 0)
         \/ ~(k <= Len(g)) /\ (p[k].op = "jump" => p[k].id[1] # 0)
  <2> TAKE k \in 1..Len(p)
  <2>1. CASE k <= Len(g)
    <3>1. k \in 1..Len(g) /\ k \in 1..Len(q)
      BY ONLY k \in 1..Len(p), <1>8, <1>9, <1>10, <2>1
    <3>2. p[k] = g[k]
      BY ONLY <1>9, <1>10, <3>1
    <3>3. p[k].op = "jump" => p[k].id \in {0} \X LabelName
      BY ONLY <1>2, <3>1, <3>2 DEF Part
    <3>4. \A id \in {0} \X LabelName : id[1] = 0
      OBVIOUS
    <3> QED
      BY ONLY <2>1, <3>3, <3>4
  <2>2. CASE ~(k <= Len(g)) /\ k <= Len(q)
    <3>1. PICK j \in 1..Len(r) : k = Len(g) + j
      <4>1. k - Len(g) \in 1..Len(r) /\ k = Len(g) + (k - Len(g))
        BY ONLY k \in 1..Len(p), <1>8, <1>9, <1>10, <2>2
      <4> QED
        BY ONLY <4>1
    <3>2. k \in 1..Len(q)
      BY ONLY k \in 1..Len(p), <1>8, <1>9, <1>10, <2>2
    <3>3. p[k] = r[j]
      BY ONLY j \in 1..Len(r), <1>9, <1>10, <3>1, <3>2
    <3> QED
      BY ONLY j \in 1..Len(r), <1>6, <2>2, <3>3
  <2>3. CASE ~(k <= Len(q))
    <3>1. PICK j \in 1..Len(b) : k = Len(q) + j
      <4>1. k - Len(q) \in 1..Len(b) /\ k = Len(q) + (k - Len(q))
        BY ONLY k \in 1..Len(p), <1>8, <1>9, <1>10, <2>3
      <4> QED
        BY ONLY <4>1
    <3>2. p[k].op = "bytes"
      BY ONLY j \in 1..Len(b), <1>3, <1>10, <3>1
    <3>3. ~(k <= Len(g))
      BY ONLY k \in 1..Len(p), <1>8, <1>9, <2>3
    <3> QED
      BY ONLY <3>2, <3>3
  <2> QED
    BY <2>1, <2>2, <2>3
<1>17. \A i, j \in 1..Len(p) :
         p[i].op = "jump" /\ p[j].op = "jump" /\ i <= j /\ p[j].id[1] = 0 => p[i].id[1] = 0
  <2> TAKE i, j \in 1..Len(p)
  <2> HAVE p[i].op = "jump" /\ p[j].op = "jump" /\ i <= j /\ p[j].id[1] = 0
  <2>1. j <= Len(g)
    BY <1>16
  <2>2. i <= Len(g)
    BY <1>8, <2>1
  <2> QED
    BY <1>16, <2>2
<1>18. Laid(p, n)
  BY <1>5, <1>14, <1>15, <1>17 DEF Laid
<1>19. ASSUME 10 * read <= 83 \/ ("target" \in x.reach /\ 5 * read <= 112)
       PROVE  Part(p, (0..n) \X LabelName, {})
  <2>1. Span(r) <= 127
    <3>1. Span(r) <= 10 * read + 44 /\ (near => Span(r) <= 5 * read + 15)
      BY <1>5
    <3>2. 10 * read <= 83 => Span(r) <= 127
      BY ONLY <1>0, <1>8, <3>1
    <3>3. Span(r) <= 5 * read + 15 /\ 5 * read <= 112 => Span(r) <= 127
      BY ONLY <1>0, <1>8
    <3> QED
      BY <1>0, <1>19, <3>1, <3>2, <3>3
  <2> QED
    BY <1>6, <1>14, <2>1
<1> QED
  BY <1>0, <1>11, <1>18, <1>19 DEF FrontIs

\* The relocator reads no further than to the first instruction that makes it enough.
LEMMA EnoughRead ==
  ASSUME NEW code \in Seq(Insn), NEW redirect \in Nat \ {0}, Enough(code, redirect) # {},
         NEW n, n = Min(Enough(code, redirect))
  PROVE  n \in 1..Len(code) /\ SizeOf(code, n - 1) \in Nat /\ SizeOf(code, n - 1) < redirect
<1>1. Len(code) \in Nat /\ DOMAIN code = 1..Len(code)
  BY LenProperties
<1>2. Enough(code, redirect) \in SUBSET Nat
  BY <1>1 DEF Enough
<1>3. n \in Enough(code, redirect) /\ \A k \in Enough(code, redirect) : n <= k
  BY <1>2, LeastNumber
<1>4. n \in 1..Len(code)
  BY <1>1, <1>3 DEF Enough
<1>5. n - 1 \in 0..Len(code) /\ ~(n <= n - 1)
  BY <1>1, <1>4
<1>6. SizeOf(code, n - 1) \in Nat
  BY <1>5, SizeOfIs
<1>7. CASE n = 1
  <2>1. n - 1 = 0
    BY <1>7
  <2>2. SizeOf(code, 0) = 0
    BY SizeOfIs
  <2>3. 0 < redirect
    OBVIOUS
  <2> QED
    BY <1>4, <1>6, <2>1, <2>2, <2>3
<1>8. CASE n # 1
  <2>1. n - 1 \in 1..Len(code)
    BY <1>1, <1>4, <1>8
  <2>2. n - 1 \notin Enough(code, redirect)
    BY <1>3, <1>5
  <2>3. ~(SizeOf(code, n - 1) >= redirect)
    BY <1>1, <2>1, <2>2 DEF Enough
  <2> QED
    BY <1>4, <1>6, <2>3
<1> QED
  BY <1>7, <1>8

\* The flush changes nothing of where pieces end.
LEMMA WithFlush ==
  ASSUME NEW p \in Seq(Piece), NEW all, all = p \o <<Flush>>
  PROVE  /\ all \in Seq(Piece) /\ Len(all) = Len(p) + 1 /\ Span(all) = Span(p)
         /\ all[Len(p) + 1] = Flush
         /\ \A k \in 1..Len(p) : all[k] = p[k] /\ Pos(all)[k] = Pos(p)[k]
         /\ \A k \in 1..Len(all) : all[k].op # "flush" => k \in 1..Len(p)
<1> PICK f : f = Flush
  OBVIOUS
<1> PICK q : q = <<f>>
  OBVIOUS
<1>1. f \in Piece /\ f.op = "flush" /\ f.len = 0
  BY DEF Flush, Piece
<1>2. q \in Seq(Piece) /\ Len(q) = 1 /\ q[1] = f /\ Span(q) = f.len
  BY ONLY <1>1, q = <<f>>, SpanOne
<1>3. all = p \o q
  OBVIOUS
<1>4. /\ all \in Seq(Piece) /\ Len(all) = Len(p) + Len(q) /\ Span(all) = Span(p) + Span(q)
      /\ \A k \in 1..Len(p) : all[k] = p[k]
      /\ \A k \in 1..Len(q) : all[Len(p) + k] = q[k]
      /\ \A k \in 0..Len(p) : Pos(all)[k] = Pos(p)[k]
  <2>1. p \in Seq(Piece) /\ q \in Seq(Piece)
    BY <1>2
  <2> QED
    BY ONLY <1>3, <2>1, PosConcat
<1>5. Len(p) \in Nat /\ Span(p) \in Nat
  BY SpanIs
<1>6. all[Len(p) + 1] = f
  <2>1. 1 \in 1..Len(q)
    BY ONLY <1>2
  <2> QED
    BY ONLY <1>2, <1>4, <2>1
<1>7. \A k \in 1..Len(p) : all[k] = p[k] /\ Pos(all)[k] = Pos(p)[k]
  BY ONLY <1>4, <1>5
<1>8. Len(all) = Len(p) + 1 /\ Span(all) = Span(p)
  BY ONLY <1>1, <1>2, <1>4, <1>5
<1>9. \A k \in 1..Len(all) : all[k].op # "flush" => k \in 1..Len(p)
  <2> TAKE k \in 1..Len(all)
  <2>1. k \in 1..Len(p) \/ k = Len(p) + 1
    BY ONLY k \in 1..Len(all), <1>5, <1>8
  <2> QED
    BY ONLY <1>1, <1>6, <2>1
<1> QED
  BY <1>4, <1>6, <1>7, <1>8, <1>9

\* The ends of a context's pieces.
LEMMA EndsAre ==
  ASSUME NEW x, x.pieces \in Seq(Piece), x.base \in Nat
  PROVE  /\ \A k \in 0..Len(x.pieces) : Ends(x)[k] = x.base + Pos(x.pieces)[k]
         /\ Length(x) = Span(x.pieces)
         /\ DOMAIN x.pieces = 1..Len(x.pieces)
<1> PICK p : p = x.pieces
  OBVIOUS
<1>1. Len(p) \in Nat /\ DOMAIN p = 1..Len(p) /\ Span(p) \in Nat /\ p \in Seq(Piece)
  BY LenProperties, SpanIs
<1>2. \A k \in 0..Len(p) : Ends(x)[k] = x.base + Pos(p)[k]
  BY DEF Ends, Pos
<1>3. Ends(x)[Len(p)] = x.base + Span(p)
  <2>1. Len(p) \in 0..Len(p)
    BY <1>1
  <2> QED
    BY <1>2, <2>1 DEF Span
<1>4. Length(x) = Span(p)
  <2>1. x.base + Span(p) - x.base = Span(p)
    BY <1>1
  <2>2. Length(x) = Ends(x)[Len(p)] - x.base
    BY DEF Length
  <2>3. PICK b \in Nat, s \in Nat : b = x.base /\ s = Span(p)
    BY <1>1
  <2>4. Length(x) = b + s - b
    BY <1>3, <2>2, <2>3
  <2> QED
    BY <2>3, <2>4
<1> QED
  BY <1>1, <1>2, <1>4

-----------------------------------------------------------------------------
(* What is true of each trampoline.                                        *)

\* What is known of a trampoline from how it was written.
Built(x, b) ==
  /\ x.base = b /\ x.pieces \in Seq(Piece)
  /\ Span(x.pieces) <= 323
  /\ x.redirect = NearRedirect => Span(x.pieces) <= 202

\* Its jumps are in memory, and lead to their labels unless it is overstretched.
Led(x, mem) ==
  \A j \in Jumps(x) :
    /\ Ends(x)[j] \in DOMAIN mem
    /\ \/ \E k \in LabelsOf(x, j) : mem[Ends(x)[j]] = Ends(x)[k] - Ends(x)[j]
       \/ x.pieces[j].id[1] # 0 /\ Overstretched(x)

\* A jump of a closed part resolves, and one that is not open.
LEMMA ClosedResolves ==
  ASSUME NEW p, NEW ids, NEW far, Part(p, ids, far), NEW j \in 1..Len(p), p[j].op = "jump",
         p[j].id \notin far
  PROVE  Resolves(p, j)
<1>1. /\ \E k \in 1..Len(p) : p[k] = Label(p[j].id)
      /\ \A k \in 1..Len(p) : p[k] = Label(p[j].id) => Pos(p)[k] - Pos(p)[j] \in -127..127
  BY DEF Part
<1>2. \A d \in -127..127 : d \in -128..127
  OBVIOUS
<1>3. \A k \in 1..Len(p) : p[k] = Label(p[j].id) => Fits(p[j], Pos(p)[k] - Pos(p)[j])
  BY ONLY <1>1, <1>2, ZenonT(30) DEF Fits
<1> QED
  BY <1>1, <1>3 DEF Resolves

\* Each jump of a front leads to its label, or the trampoline is overstretched.
LEMMA FrontResolves ==
  ASSUME NEW p, NEW n \in Nat, Laid(p, n), NEW over \in BOOLEAN,
         \/ Part(p, (0..n) \X LabelName, {})
         \/ over
         \/ \A j, k \in 1..Len(p) :
              p[j].op = "jump" /\ p[k] = Label(p[j].id) => Fits(p[j], Pos(p)[k] - Pos(p)[j]),
         NEW j \in 1..Len(p), p[j].op = "jump", p[j].id[1] = 0 \/ ~over
  PROVE  \A i \in 1..j : p[i].op = "jump" => Resolves(p, i)
<1> SUFFICES ASSUME NEW i \in 1..j, p[i].op = "jump"
             PROVE  Resolves(p, i)
  OBVIOUS
<1>1. /\ Part(p, (0..n) \X LabelName, Insns(n))
      /\ \A h \in 1..n : \E k \in 1..Len(p) : p[k] = Label(<<h, "insn">>)
  BY Zenon DEF Laid
<1>2. i \in 1..Len(p) /\ i <= j
  <2>1. p \in Seq(Piece)
    BY <1>1, Zenon DEF Part, Writable
  <2>2. Len(p) \in Nat
    BY <2>1, SpanIs
  <2> QED
    BY ONLY <2>2, i \in 1..j, j \in 1..Len(p)
<1>3. CASE Part(p, (0..n) \X LabelName, {})
  <2>1. p[i].id \notin {}
    OBVIOUS
  <2> QED
    BY <1>2, <1>3, <2>1, ClosedResolves
<1>4. \A id \in Insns(n) : id[1] # 0 /\ \E h \in 1..n : id = <<h, "insn">>
  BY DEF Insns
<1>5. CASE p[j].id[1] = 0
  <2>1. p[i].id[1] = 0
    BY <1>2, <1>5 DEF Laid
  <2>2. p[i].id \notin Insns(n)
    BY <1>4, <2>1
  <2> QED
    BY <1>1, <1>2, <2>2, ClosedResolves
<1>6. CASE ~over /\ \A h, k \in 1..Len(p) :
              p[h].op = "jump" /\ p[k] = Label(p[h].id) => Fits(p[h], Pos(p)[k] - Pos(p)[h])
  <2>1. CASE p[i].id \in Insns(n)
    <3>1. PICK h \in 1..n : p[i].id = <<h, "insn">>
      BY <1>4, <2>1
    <3>2. PICK k \in 1..Len(p) : p[k] = Label(<<h, "insn">>)
      BY <1>1
    <3>3. p[k] = Label(p[i].id)
      BY <3>1, <3>2
    <3> QED
      BY <1>2, <1>6, <3>3 DEF Resolves
  <2>2. CASE p[i].id \notin Insns(n)
    BY <1>1, <1>2, <2>2, ClosedResolves
  <2> QED
    BY <2>1, <2>2
<1> QED
  BY <1>3, <1>5, <1>6

\* What is to be written where, and what becomes of it and of the memory.
Ready(x) ==
  /\ x.code \in Seq(Insn) /\ x.redirect \in {NearRedirect, FullRedirect} /\ x.base \in Nat
  /\ Enough(x.code, x.redirect) # {} /\ x.n = Min(Enough(x.code, x.redirect))
  /\ x.redirect = NearRedirect => "function" \in x.reach

Becomes(x, y) ==
  /\ y.pieces = Trampoline(x) /\ y.base = x.base /\ y.redirect = x.redirect
  /\ y.reach = x.reach

Wrote(x, mem) == PutAll(State(x.base, x.base, {}, <<>>, mem), Trampoline(x)).memory

\* _gum_interceptor_backend_create_trampoline
LEMMA TrampolineLeads ==
  ASSUME NEW x, Ready(x), NEW y, Becomes(x, y), NEW mem
  PROVE  /\ Built(y, x.base) /\ Led(y, Wrote(x, mem))
         /\ \A a \in DOMAIN mem \cap Nat :
              a <= x.base => a \in DOMAIN Wrote(x, mem) /\ Wrote(x, mem)[a] = mem[a]
<1> PICK b, m : b = x.base /\ m = Wrote(x, mem)
  OBVIOUS
<1>0. /\ x.code \in Seq(Insn) /\ x.redirect \in {NearRedirect, FullRedirect} /\ x.base \in Nat
      /\ Enough(x.code, x.redirect) # {} /\ x.n = Min(Enough(x.code, x.redirect))
      /\ x.redirect = NearRedirect => "function" \in x.reach
      /\ y.pieces = Trampoline(x) /\ y.base = x.base /\ y.redirect = x.redirect
      /\ y.reach = x.reach
      /\ b = x.base /\ m = PutAll(State(b, b, {}, <<>>, mem), Trampoline(x)).memory
  BY DEF Ready, Becomes, Wrote
<1> USE <1>0
<1> PICK p, all, n, read, over :
      /\ p = Front(x) /\ all = p \o <<Flush>> /\ n = x.n /\ read = SizeOf(x.code, x.n - 1)
      /\ over = Overstretched(y)
  OBVIOUS
<1>1. y.pieces = all
  BY TrampolineIs
<1>2. /\ n \in 1..Len(x.code) /\ n = x.n /\ read \in Nat /\ read < x.redirect
      /\ n \in Nat /\ read = SizeOf(x.code, x.n - 1)
  <2>1. PICK code \in Seq(Insn), redirect \in Nat \ {0} : code = x.code /\ redirect = x.redirect
    BY DEF NearRedirect, FullRedirect
  <2>2. n = Min(Enough(code, redirect)) /\ Enough(code, redirect) # {}
    BY <2>1
  <2>3. n \in 1..Len(code) /\ SizeOf(code, n - 1) \in Nat /\ SizeOf(code, n - 1) < redirect
    BY ONLY code \in Seq(Insn), redirect \in Nat \ {0}, <2>2, EnoughRead
  <2>4. n \in Nat
    BY ONLY code \in Seq(Insn), <2>3, SizeOfIs
  <2> QED
    BY <2>1, <2>3, <2>4
<1>3. FrontIs(x, p)
  BY <1>2, FrontHas
<1>4. /\ Laid(p, n) /\ Span(p) <= 10 * read + 173
      /\ "function" \in x.reach => Span(p) <= 10 * read + 162
      /\ 10 * read <= 83 \/ ("target" \in x.reach /\ 5 * read <= 112)
           => Part(p, (0..n) \X LabelName, {})
  BY <1>2, <1>3 DEF FrontIs
<1>5. Writable(p) /\ p \in Seq(Piece) /\ Len(p) \in Nat /\ Span(p) \in Nat
  <2>1. Writable(p) /\ p \in Seq(Piece)
    BY <1>4 DEF Laid, Part, Writable
  <2> QED
    BY <2>1, SpanIs, SMTT(30)
<1>6. /\ all \in Seq(Piece) /\ Len(all) = Len(p) + 1 /\ Span(all) = Span(p)
      /\ all[Len(p) + 1] = Flush
      /\ \A k \in 1..Len(p) : all[k] = p[k] /\ Pos(all)[k] = Pos(p)[k]
      /\ \A k \in 1..Len(all) : all[k].op # "flush" => k \in 1..Len(p)
  <2>1. all = p \o <<Flush>>
    OBVIOUS
  <2> QED
    BY ONLY <1>5, <2>1, WithFlush
<1>7. Patched(m, p, b, mem)
  <2>1. m = PutAll(State(b, b, {}, <<>>, mem), all).memory /\ b \in Nat
    BY TrampolineIs
  <2>2. \A k \in 1..Len(p) : all[k] = p[k]
    BY <1>6
  <2>3. Patched(PutAll(State(b, b, {}, <<>>, mem), all).memory, p, b, mem)
    BY ONLY <1>5, <1>6, <2>1, <2>2, PutAllPatches
  <2> QED
    BY <2>1, <2>3
<1>8. x.redirect = 5 \/ x.redirect = 16
  BY DEF NearRedirect, FullRedirect
<1>9. Built(y, b)
  <2>1. Span(all) <= 323
    BY ONLY <1>2, <1>4, <1>5, <1>6, <1>8
  <2>2. ASSUME y.redirect = NearRedirect
        PROVE  Span(all) <= 202
    <3>1. "function" \in x.reach /\ x.redirect = 5
      BY <2>2 DEF NearRedirect
    <3>2. Span(p) <= 10 * read + 162 /\ read < 5
      BY <1>2, <1>4, <3>1
    <3> QED
      BY ONLY <1>2, <1>5, <1>6, <3>2
  <2> QED
    BY <1>1, <1>6, <2>1, <2>2 DEF Built
<1>10. /\ \A k \in 1..Len(p) : /\ Ends(y)[k] = b + Pos(p)[k] /\ y.pieces[k] = p[k]
                               /\ k \in DOMAIN y.pieces /\ Pos(p)[k] \in Nat
       /\ \A k \in DOMAIN y.pieces : y.pieces[k].op # "flush" => k \in 1..Len(p)
  <2>1. y.pieces \in Seq(Piece) /\ y.base \in Nat /\ y.base = b
    BY <1>1, <1>6
  <2>2. /\ \A k \in 0..Len(y.pieces) : Ends(y)[k] = y.base + Pos(y.pieces)[k]
        /\ DOMAIN y.pieces = 1..Len(y.pieces)
    BY ONLY <2>1, EndsAre
  <2>3. \A k \in 1..Len(p) : k \in 0..Len(all) /\ k \in 1..Len(all) /\ k \in 0..Len(p)
    BY ONLY <1>5, <1>6
  <2>4. \A k \in 0..Len(p) : Pos(p)[k] \in Nat
    BY ONLY <1>5, PosIs
  <2> QED
    BY ONLY <1>1, <1>6, <2>1, <2>2, <2>3, <2>4
<1>11. /\ \A j \in Jumps(y) : j \in 1..Len(p) /\ p[j].op = "jump"
       /\ \A j \in 1..Len(p) : p[j].op = "jump" => j \in Jumps(y)
       /\ \A j, k \in 1..Len(p) : p[k] = Label(p[j].id) => k \in LabelsOf(y, j)
  <2>1. \A j \in Jumps(y) : j \in DOMAIN y.pieces /\ y.pieces[j].op = "jump"
    BY DEF Jumps
  <2>2. \A j \in Jumps(y) : j \in 1..Len(p) /\ p[j].op = "jump"
    BY ONLY <1>10, <2>1
  <2>3. \A j \in 1..Len(p) : p[j].op = "jump" => j \in Jumps(y)
    BY ONLY <1>10 DEF Jumps
  <2>4. \A j, k \in 1..Len(p) : p[k] = Label(p[j].id) => k \in LabelsOf(y, j)
    BY ONLY <1>10 DEF LabelsOf
  <2> QED
    BY <2>2, <2>3, <2>4
<1>12. /\ over \in BOOLEAN
       /\ \/ Part(p, (0..n) \X LabelName, {})
          \/ over
          \/ \A j, k \in 1..Len(p) :
               p[j].op = "jump" /\ p[k] = Label(p[j].id) => Fits(p[j], Pos(p)[k] - Pos(p)[j])
  <2>1. CASE x.redirect = 5 \/ "target" \in x.reach
    <3>1. 10 * read <= 83 \/ ("target" \in x.reach /\ 5 * read <= 112)
      <4>1. read < 5 => 10 * read <= 83
        BY ONLY <1>2
      <4>2. read < 16 => 5 * read <= 112
        BY ONLY <1>2
      <4>3. read < 5 \/ ("target" \in x.reach /\ read < 16)
        <5>1. read < x.redirect
          BY <1>2
        <5>2. read < 5 => read < 16
          BY ONLY <1>2
        <5> QED
          BY <1>8, <2>1, <5>1, <5>2
      <4> QED
        BY ONLY <4>1, <4>2, <4>3
    <3> QED
      BY <1>4, <3>1 DEF Overstretched
  <2>2. CASE x.redirect = 16 /\ "target" \notin x.reach
    <3>1. y.redirect = FullRedirect /\ "target" \notin y.reach
      BY <2>2 DEF FullRedirect
    <3>2. ASSUME ~Overstretched(y), NEW j \in 1..Len(p), NEW k \in 1..Len(p),
                 p[j].op = "jump", p[k] = Label(p[j].id)
          PROVE  Fits(p[j], Pos(p)[k] - Pos(p)[j])
      <4>1. j \in Jumps(y) /\ k \in LabelsOf(y, j)
        BY <1>11, <3>2
      <4>2. Fits(y.pieces[j], Ends(y)[k] - Ends(y)[j])
        BY <3>1, <3>2, <4>1 DEF Overstretched
      <4>3. PICK u \in Nat, v \in Nat, c \in Nat : u = Pos(p)[k] /\ v = Pos(p)[j] /\ c = b
        BY <1>10
      <4>4. Ends(y)[k] - Ends(y)[j] = u - v
        <5>1. Ends(y)[k] = c + u /\ Ends(y)[j] = c + v
          BY <1>10, <4>3
        <5>2. c + u - (c + v) = u - v
          OBVIOUS
        <5> QED
          BY ONLY <5>1, <5>2
      <4>5. y.pieces[j] = p[j]
        BY <1>10
      <4> QED
        BY ONLY <4>2, <4>3, <4>4, <4>5
    <3> QED
      BY <3>2 DEF Overstretched
  <2> QED
    BY <1>8, <2>1, <2>2
<1>13. ASSUME NEW j \in Jumps(y)
       PROVE  /\ Ends(y)[j] \in DOMAIN m
              /\ \/ \E k \in LabelsOf(y, j) : m[Ends(y)[j]] = Ends(y)[k] - Ends(y)[j]
                 \/ y.pieces[j].id[1] # 0 /\ Overstretched(y)
  <2>1. j \in 1..Len(p) /\ p[j].op = "jump" /\ y.pieces[j] = p[j] /\ Ends(y)[j] = b + Pos(p)[j]
    BY <1>10, <1>11
  <2>2. Ends(y)[j] \in DOMAIN m
    BY <1>7, <2>1 DEF Patched, MemIs
  <2>3. CASE p[j].id[1] = 0 \/ ~over
    <3>1. \A i \in 1..j : p[i].op = "jump" => Resolves(p, i)
      BY <1>2, <1>4, <1>12, <2>1, <2>3, FrontResolves
    <3>2. Leads(m, p, b, j)
      BY <1>7, <2>1, <3>1 DEF Patched
    <3>3. PICK k \in 1..Len(p) : p[k] = Label(p[j].id) /\ m[b + Pos(p)[j]] = Pos(p)[k] - Pos(p)[j]
      BY <3>2 DEF Leads
    <3>4. k \in LabelsOf(y, j)
      BY <1>11, <2>1, <3>3
    <3>5. PICK u \in Nat, v \in Nat, c \in Nat : u = Pos(p)[k] /\ v = Pos(p)[j] /\ c = b
      BY <1>10, <2>1
    <3>6. Ends(y)[k] - Ends(y)[j] = u - v
      <4>1. Ends(y)[k] = c + u /\ Ends(y)[j] = c + v
        BY <1>10, <2>1, <3>5
      <4>2. c + u - (c + v) = u - v
        OBVIOUS
      <4> QED
        BY ONLY <4>1, <4>2
    <3>7. m[Ends(y)[j]] = Ends(y)[k] - Ends(y)[j]
      BY <2>1, <3>3, <3>5, <3>6
    <3> QED
      BY <2>2, <3>4, <3>7
  <2>4. CASE ~(p[j].id[1] = 0 \/ ~over)
    BY <1>12, <2>1, <2>2, <2>4
  <2> QED
    BY <2>3, <2>4
<1>14. \A a \in DOMAIN mem \cap Nat : a <= b => a \in DOMAIN m /\ m[a] = mem[a]
  BY <1>7 DEF Patched, MemIs
<1> QED
  BY <1>9, <1>13, <1>14 DEF Led

-----------------------------------------------------------------------------
(* The invariant.                                                          *)

Context == [fast : BOOLEAN, reach : Reach, code : Code, redirect : {NearRedirect, FullRedirect},
            n : Nat, base : Nat, pieces : Seq(Piece)]

\* Each trampoline was built at a slice of its own, and its jumps lead to their
\* labels or it is overstretched: JumpsReachTheirLabels with what the memory of
\* one trampoline is kept apart from that of the next by.
Invariant ==
  /\ contexts \in Seq(Context)
  /\ \A c \in 1..Len(contexts) : Built(contexts[c], SliceOf(c)) /\ Led(contexts[c], memory)

\* What is written behind a slice leaves the trampoline there as it is.
LEMMA LedStays ==
  ASSUME NEW x, NEW c \in Nat, Built(x, SliceOf(c)), NEW mem, Led(x, mem),
         NEW b \in Nat, b >= SliceOf(c + 1),
         NEW m, \A a \in DOMAIN mem \cap Nat : a <= b => a \in DOMAIN m /\ m[a] = mem[a]
  PROVE  Led(x, m)
<1>1. /\ x.base = SliceOf(c) /\ x.base \in Nat /\ x.pieces \in Seq(Piece)
      /\ Span(x.pieces) <= 323 /\ b >= x.base + 1000
  <2>1. SliceOf(c) \in Nat /\ SliceOf(c + 1) = SliceOf(c) + 1000
    BY DEF SliceOf
  <2> QED
    BY <2>1 DEF Built
<1>2. ASSUME NEW j \in Jumps(x)
      PROVE  Ends(x)[j] \in Nat /\ Ends(x)[j] <= b
  <2> PICK p : p = x.pieces
    OBVIOUS
  <2>1. p \in Seq(Piece) /\ Len(p) \in Nat /\ Span(p) \in Nat
    BY <1>1, SpanIs
  <2>2. j \in 1..Len(p)
    BY <1>1, EndsAre DEF Jumps
  <2>3. j \in 0..Len(p) /\ Len(p) \in 0..Len(p) /\ j <= Len(p)
    BY ONLY <2>1, <2>2
  <2>4. Pos(p)[j] \in Nat /\ Pos(p)[j] <= Span(p)
    BY ONLY <2>1, <2>3, PosGrows DEF Span
  <2>5. Ends(x)[j] = x.base + Pos(p)[j]
    BY <1>1, <2>3, EndsAre
  <2>6. PICK e \in Nat, s \in Nat, z \in Nat : e = x.base /\ s = Pos(p)[j] /\ z = Span(p)
    BY <1>1, <2>1, <2>4
  <2>7. e + s \in Nat /\ e + s <= b
    BY <1>1, <2>4, <2>6
  <2> QED
    BY <2>5, <2>6, <2>7
<1>3. ASSUME NEW j \in Jumps(x)
      PROVE  Ends(x)[j] \in DOMAIN m /\ m[Ends(x)[j]] = mem[Ends(x)[j]]
  <2>1. Ends(x)[j] \in DOMAIN mem
    BY DEF Led
  <2> QED
    BY <1>2, <2>1
<1>4. ASSUME NEW j \in Jumps(x)
      PROVE  /\ Ends(x)[j] \in DOMAIN m
             /\ \/ \E k \in LabelsOf(x, j) : m[Ends(x)[j]] = Ends(x)[k] - Ends(x)[j]
                \/ x.pieces[j].id[1] # 0 /\ Overstretched(x)
  <2>1. \/ \E k \in LabelsOf(x, j) : mem[Ends(x)[j]] = Ends(x)[k] - Ends(x)[j]
        \/ x.pieces[j].id[1] # 0 /\ Overstretched(x)
    BY DEF Led
  <2> QED
    BY <1>3, <2>1
<1> QED
  BY <1>4 DEF Led

\* A trampoline more.
LEMMA CreateKeeps ==
  ASSUME NEW fast \in BOOLEAN, NEW near \in BOOLEAN, NEW reach \in Reach, NEW code \in Code,
         CreateTrampoline(fast, near, reach, code), Invariant
  PROVE  Invariant'
<1> DEFINE redirect == RedirectSize(near)
           x == [fast |-> fast, reach |-> reach, code |-> code, redirect |-> redirect,
                 n |-> Min(Enough(code, redirect)), base |-> SliceOf(Len(contexts) + 1),
                 pieces |-> <<>>]
           pieces == Trampoline(x)
           done == PutAll([writer |-> Reset(writer, x.base), memory |-> memory], pieces)
           y == [x EXCEPT !.pieces = pieces]
           l == Len(contexts)
           b == SliceOf(l + 1)
<1>1. /\ near => "function" \in reach
      /\ CanRelocate(code, redirect)
      /\ memory' = done.memory
      /\ contexts' = Append(contexts, y)
  BY DEF CreateTrampoline
<1>2. /\ contexts \in Seq(Context) /\ l \in Nat /\ b \in Nat
      /\ \A c \in 1..l : Built(contexts[c], SliceOf(c)) /\ Led(contexts[c], memory)
  <2>1. contexts \in Seq(Context)
    BY DEF Invariant
  <2>2. l \in Nat
    BY <2>1, LenProperties
  <2> QED
    BY <2>1, <2>2 DEF Invariant, SliceOf
<1>3. /\ code \in Seq(Insn) /\ redirect \in {NearRedirect, FullRedirect}
      /\ Enough(code, redirect) # {}
      /\ redirect = NearRedirect => "function" \in reach
  <2>1. code \in Seq(Insn)
    BY CodeAssumption
  <2>2. /\ redirect = IF near THEN NearRedirect ELSE FullRedirect
        /\ NearRedirect # FullRedirect
    BY DEF RedirectSize, NearRedirect, FullRedirect
  <2>3. Enough(code, redirect) # {}
    BY <1>1 DEF CanRelocate
  <2> QED
    BY <1>1, <2>1, <2>2, <2>3
<1>4. /\ x.fast = fast /\ x.reach = reach /\ x.code = code /\ x.redirect = redirect
      /\ x.n = Min(Enough(code, redirect)) /\ x.base = b
  OBVIOUS
<1>5. /\ y = [fast |-> fast, reach |-> reach, code |-> code, redirect |-> redirect,
              n |-> Min(Enough(code, redirect)), base |-> b, pieces |-> pieces]
  OBVIOUS
<1>6. [writer |-> Reset(writer, x.base), memory |-> memory] = State(b, b, {}, <<>>, memory)
  BY <1>4 DEF Reset, State
<1>7. memory' = PutAll(State(b, b, {}, <<>>, memory), Trampoline(x)).memory
  BY <1>1, <1>6
<1>8. /\ y.pieces = Trampoline(x) /\ y.base = x.base /\ y.redirect = x.redirect
      /\ y.reach = x.reach /\ y.fast = fast /\ y.code = code /\ y.n = x.n
  BY <1>4, <1>5
<1> HIDE DEF redirect, x, pieces, done, y, l, b
<1>9. /\ Built(y, b) /\ Led(y, memory')
      /\ \A a \in DOMAIN memory \cap Nat : a <= b => a \in DOMAIN memory' /\ memory'[a] = memory[a]
  <2>1. PICK m : m = memory'
    OBVIOUS
  <2>2. m = PutAll(State(b, b, {}, <<>>, memory), Trampoline(x)).memory
    BY <1>7, <2>1
  <2>3. /\ Built(y, b) /\ Led(y, m)
        /\ \A a \in DOMAIN memory \cap Nat : a <= b => a \in DOMAIN m /\ m[a] = memory[a]
    <3>1. Ready(x) /\ b = x.base
      BY <1>2, <1>3, <1>4 DEF Ready
    <3>2. Becomes(x, y)
      BY <1>8 DEF Becomes
    <3>3. m = Wrote(x, memory)
      BY <2>2, <3>1 DEF Wrote
    <3> QED
      BY ONLY <3>1, <3>2, <3>3, TrampolineLeads
  <2> QED
    BY <2>1, <2>3
<1>10. y \in Context
  <2>1. x.n \in Nat
    <3>1. redirect \in Nat \ {0}
      BY <1>3 DEF NearRedirect, FullRedirect
    <3>2. x.n \in 1..Len(code)
      BY <1>3, <1>4, <3>1, EnoughRead
    <3>3. Len(code) \in Nat
      BY <1>3, SizeOfIs
    <3> QED
      BY <3>2, <3>3
  <2>2. y.pieces \in Seq(Piece) /\ y.base = b
    BY <1>9 DEF Built
  <2>3. y = [fast |-> fast, reach |-> reach, code |-> code, redirect |-> redirect,
             n |-> x.n, base |-> b, pieces |-> y.pieces]
    BY <1>4, <1>5, <1>8 DEF pieces
  <2> QED
    BY <1>2, <1>3, <2>1, <2>2, <2>3 DEF Context
<1>11. /\ contexts' \in Seq(Context) /\ Len(contexts') = l + 1
       /\ \A c \in 1..l : contexts'[c] = contexts[c]
       /\ contexts'[l + 1] = y
  BY <1>1, <1>2, <1>10, AppendProperties DEF l
<1>12. ASSUME NEW c \in 1..Len(contexts')
       PROVE  Built(contexts'[c], SliceOf(c)) /\ Led(contexts'[c], memory')
  <2>1. CASE c = l + 1
    BY <1>9, <1>11, <2>1 DEF b
  <2>2. CASE c \in 1..l
    <3>1. contexts'[c] = contexts[c] /\ Built(contexts[c], SliceOf(c)) /\ Led(contexts[c], memory)
      BY <1>2, <1>11, <2>2
    <3>2. c \in Nat /\ b >= SliceOf(c + 1)
      BY <1>2, <2>2 DEF b, SliceOf
    <3>3. PICK z, m : z = contexts[c] /\ m = memory'
      OBVIOUS
    <3>4. Led(z, m)
      BY <1>2, <1>9, <3>1, <3>2, <3>3, LedStays
    <3> QED
      BY <3>1, <3>3, <3>4
  <2> QED
    BY <1>2, <1>11, <2>1, <2>2
<1> QED
  BY <1>11, <1>12 DEF Invariant

\* The redirect is written without labels: the flushes change no memory.
LEMMA ActivateKeeps ==
  ASSUME NEW c, NEW near \in BOOLEAN, ActivateTrampoline(c, near)
  PROVE  memory' = memory /\ contexts' = contexts
<1> DEFINE x == contexts[c]
           padding == Bytes(SizeOf(x.code, x.n) - JmpAddress(near).len)
           pieces == <<JmpAddress(near), Flush, padding, Flush>>
           s == [writer |-> Reset(writer, 0), memory |-> memory]
<1>1. memory' = PutAll(s, pieces).memory /\ contexts' = contexts
  BY DEF ActivateTrampoline
<1>2. s = State(0, 0, {}, <<>>, memory)
  BY DEF Reset, State
<1>3. /\ JmpAddress(near).op = "bytes" /\ padding.op = "bytes" /\ Flush.op = "flush"
  BY DEF JmpAddress, Bytes, Flush
<1> PICK p : p = pieces
  OBVIOUS
<1>4. /\ p \in Seq({p[1], p[2], p[3], p[4]}) /\ Len(p) = 4
      /\ p[1].op = "bytes" /\ p[2].op = "flush" /\ p[3].op = "bytes" /\ p[4].op = "flush"
  <2>1. p = <<p[1], p[2], p[3], p[4]>>
    OBVIOUS
  <2>2. Len(p) = 4 /\ p[1] = JmpAddress(near) /\ p[2] = Flush /\ p[3] = padding /\ p[4] = Flush
    OBVIOUS
  <2> HIDE DEF pieces, padding
  <2>3. <<p[1], p[2], p[3], p[4]>> \in Seq({p[1], p[2], p[3], p[4]})
    OBVIOUS
  <2>4. p \in Seq({p[1], p[2], p[3], p[4]})
    BY <2>1, <2>3
  <2> QED
    BY <1>3, <2>2, <2>4
<1> HIDE DEF pieces, s, padding, x
<1>5. PICK d : /\ d[0] = s
               /\ \A k \in 1..Len(p) : d[k] = Put(d[k - 1], p[k])
               /\ PutAll(s, p) = d[Len(p)]
  <2>1. PICK S0 : p \in Seq(S0)
    BY <1>4
  <2> QED
    BY ONLY <2>1, PutAllIs
<1> DEFINE Same(t) == \E h : t = State(0, h, {}, <<>>, memory)
<1>6. ASSUME NEW t, NEW piece, piece.op \in {"bytes", "flush"}, Same(t)
      PROVE  Same(Put(t, piece))
  <2>1. PICK h : t = State(0, h, {}, <<>>, memory)
    BY <1>6
  <2>2. PICK z : z = h + piece.len
    OBVIOUS
  <2>3. PutIs(0, h, {}, <<>>, memory, piece, z)
    BY <2>2, PutCases
  <2> QED
    BY <1>6, <2>1, <2>3 DEF PutIs
<1>7. /\ d[1] = Put(d[0], p[1]) /\ d[2] = Put(d[1], p[2])
      /\ d[3] = Put(d[2], p[3]) /\ d[4] = Put(d[3], p[4])
  <2>1. /\ d[1] = Put(d[1 - 1], p[1]) /\ d[2] = Put(d[2 - 1], p[2])
        /\ d[3] = Put(d[3 - 1], p[3]) /\ d[4] = Put(d[4 - 1], p[4])
    BY ONLY <1>4, <1>5
  <2>2. 1 - 1 = 0 /\ 2 - 1 = 1 /\ 3 - 1 = 2 /\ 4 - 1 = 3
    OBVIOUS
  <2> QED
    BY <2>1, <2>2
<1>8. Same(d[0])
  BY <1>2, <1>5
<1>9. Same(d[4])
  <2> HIDE DEF Same
  <2> QED
    BY <1>4, <1>6, <1>7, <1>8
<1>10. \A h : State(0, h, {}, <<>>, memory).memory = memory
  BY DEF State
<1>11. PutAll(s, p).memory = memory
  BY <1>4, <1>5, <1>9, <1>10
<1> QED
  BY <1>1, <1>11 DEF pieces

\* Every jump of every trampoline leads to its label in whatever order trampolines
\* are written and activated, whatever the prologues are: those of the sampling guard
\* always, those of a relocated prologue unless it is overstretched.
THEOREM TrampolineInvariance == Spec => []Invariant
<1>1. Init => Invariant
  <2>1. <<>> \in Seq(Context) /\ Len(<<>>) = 0
    OBVIOUS
  <2> QED
    BY <2>1 DEF Init, Invariant
<1>2. Invariant /\ [Next]_vars => Invariant'
  <2> SUFFICES ASSUME Invariant, [Next]_vars
               PROVE  Invariant'
    OBVIOUS
  <2>1. ASSUME NEW fast \in BOOLEAN, NEW near \in BOOLEAN, NEW reach \in Reach, NEW code \in Code,
               CreateTrampoline(fast, near, reach, code)
        PROVE  Invariant'
    BY <2>1, CreateKeeps
  <2>2. ASSUME NEW c, NEW near \in BOOLEAN, ActivateTrampoline(c, near)
        PROVE  Invariant'
    <3>1. memory' = memory /\ contexts' = contexts
      BY <2>2, ActivateKeeps
    <3> QED
      BY <3>1 DEF Invariant
  <2>3. CASE UNCHANGED vars
    BY <2>3 DEF vars, Invariant
  <2> QED
    BY <2>1, <2>2, <2>3 DEF Next
<1> QED
  BY <1>1, <1>2, PTL DEF Spec

\* The displacement that is in memory for each jump is that to its own label.
THEOREM LabelsInvariance == Spec => []JumpsReachTheirLabels
<1>1. Invariant => JumpsReachTheirLabels
  <2> SUFFICES ASSUME Invariant, NEW c \in DOMAIN contexts, NEW j \in Jumps(contexts[c])
               PROVE  \/ \E k \in LabelsOf(contexts[c], j) :
                           memory[Ends(contexts[c])[j]] = Ends(contexts[c])[k] - Ends(contexts[c])[j]
                      \/ contexts[c].pieces[j].id[1] # 0 /\ Overstretched(contexts[c])
    BY DEF JumpsReachTheirLabels
  <2>1. c \in 1..Len(contexts)
    BY LenProperties DEF Invariant
  <2> QED
    BY <2>1 DEF Invariant, Led
<1> QED
  BY <1>1, TrampolineInvariance, PTL

\* What fits a slice, for every size of one: near its function a trampoline is at most
\* 202 bytes long, sampling guard included; GUM_INTERCEPTOR_CODE_SLICE_SIZE is 256.
THEOREM NearFitInvariance ==
  ASSUME SliceSize >= 202
  PROVE  Spec => []NearTrampolinesFit
<1>1. Invariant => NearTrampolinesFit
  <2> SUFFICES ASSUME Invariant, NEW c \in DOMAIN contexts, contexts[c].redirect = NearRedirect
               PROVE  Length(contexts[c]) <= SliceSize
    BY DEF NearTrampolinesFit
  <2> PICK x : x = contexts[c]
    OBVIOUS
  <2>1. c \in 1..Len(contexts)
    BY LenProperties DEF Invariant
  <2>2. Built(x, SliceOf(c)) /\ x.base \in Nat /\ c \in Nat
    <3>1. Built(x, SliceOf(c)) /\ c \in Nat
      BY <2>1 DEF Invariant
    <3> QED
      BY <3>1 DEF Built, SliceOf
  <2>3. x.pieces \in Seq(Piece) /\ Span(x.pieces) <= 202
    BY <2>2 DEF Built
  <2>4. Length(x) = Span(x.pieces) /\ Span(x.pieces) \in Nat
    BY <2>2, <2>3, EndsAre, SpanIs
  <2> QED
    BY <2>3, <2>4, SliceSizeAssumption
<1> QED
  BY <1>1, TrampolineInvariance, PTL

\* No trampoline is longer than 323 bytes, wherever its slice is and whatever the
\* prologue is rewritten to.  GUM_INTERCEPTOR_CODE_SLICE_SIZE is 256.
TrampolinesAreBounded == \A c \in DOMAIN contexts : Length(contexts[c]) <= 323

\* How far past its slice a trampoline far from its function can be written, for
\* every prologue and any number of trampolines in any order: by 67 bytes at most,
\* where the assertion of guminterceptor-x86.c:309 wants none.
THEOREM BoundInvariance == Spec => []TrampolinesAreBounded
<1>1. Invariant => TrampolinesAreBounded
  <2> SUFFICES ASSUME Invariant, NEW c \in DOMAIN contexts
               PROVE  Length(contexts[c]) <= 323
    BY DEF TrampolinesAreBounded
  <2> PICK x : x = contexts[c]
    OBVIOUS
  <2>1. c \in 1..Len(contexts)
    BY LenProperties DEF Invariant
  <2>2. Built(x, SliceOf(c)) /\ x.base \in Nat /\ c \in Nat
    <3>1. Built(x, SliceOf(c)) /\ c \in Nat
      BY <2>1 DEF Invariant
    <3> QED
      BY <3>1 DEF Built, SliceOf
  <2>3. x.pieces \in Seq(Piece) /\ Span(x.pieces) <= 323
    BY <2>2 DEF Built
  <2>4. Length(x) = Span(x.pieces) /\ Span(x.pieces) \in Nat
    BY <2>2, <2>3, EndsAre, SpanIs
  <2> QED
    BY <2>3, <2>4
<1> QED
  BY <1>1, TrampolineInvariance, PTL

=============================================================================
