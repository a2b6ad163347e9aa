---------------------------- MODULE StackLemmas -----------------------------
(***************************************************************************)
(* Facts about sequences used as stacks.                                   *)
(***************************************************************************)
EXTENDS Integers, SequencesExt, SequenceTheorems, TLAPS

\* Two updates of a function at one place.
LEMMA ExceptTwice ==
  ASSUME NEW f, NEW n \in DOMAIN f, NEW a, NEW b
  PROVE  /\ [f EXCEPT ![n] = a][n] = a
         /\ [[f EXCEPT ![n] = a] EXCEPT ![n] = b] = [f EXCEPT ![n] = b]
  OBVIOUS

\* A function on an initial interval is a sequence.
LEMMA FunctionIsSeq ==
  ASSUME NEW S, NEW n \in Nat, NEW f \in [1..n -> S]
  PROVE  f \in Seq(S) /\ Len(f) = n
<1>1. f \in Seq(S)
  BY SeqDef
<1> QED
  BY <1>1, LenProperties

\* What is left after a pop, and what was popped.
LEMMA FrontProps ==
  ASSUME NEW S, NEW s \in Seq(S), s # <<>>
  PROVE  /\ Len(s) \in Nat \ {0}
         /\ Last(s) = s[Len(s)] /\ Last(s) \in S
         /\ Front(s) \in Seq(S)
         /\ Len(Front(s)) = Len(s) - 1
         /\ \A i \in 1..(Len(s) - 1) : Front(s)[i] = s[i]
<1>1. Len(s) \in Nat \ {0} /\ \A i \in 1..Len(s) : s[i] \in S
  BY EmptySeq, LenProperties, ElementOfSeq
<1>2. Last(s) \in S
  BY <1>1 DEF Last
<1> DEFINE n == Len(s) - 1
<1>3. n \in Int /\ \A i \in 1..n : s[i] \in S
  BY <1>1
<1> HIDE DEF n
<1>4. /\ SubSeq(s, 1, n) \in Seq(S)
      /\ Len(SubSeq(s, 1, n)) = IF 1 <= n THEN n - 1 + 1 ELSE 0
      /\ \A i \in 1..(n - 1 + 1) : SubSeq(s, 1, n)[i] = s[1 + i - 1]
  BY <1>3, SubSeqProperties
<1>5. Len(SubSeq(s, 1, n)) = n
  <2>0. \A k \in Nat \ {0} : k - 1 \in Nat
    OBVIOUS
  <2>1. n \in Nat
    BY <1>1, <2>0 DEF n
  <2>2. CASE 1 <= n
    BY <2>1, <2>2, <1>4
  <2>3. CASE ~(1 <= n)
    BY <2>1, <2>3, <1>4
  <2> QED
    BY <2>2, <2>3
<1>6. ASSUME NEW i \in 1..n
      PROVE  SubSeq(s, 1, n)[i] = s[i]
  <2>1. n - 1 + 1 = n /\ 1 + i - 1 = i
    BY <1>3
  <2> QED
    BY <1>4, <2>1
<1>7. Front(s) = SubSeq(s, 1, n)
  BY DEF Front, n
<1> QED
  BY <1>1, <1>2, <1>4, <1>5, <1>6, <1>7 DEF Last, n

\* A new element on top of a stack.
LEMMA PushProps ==
  ASSUME NEW S, NEW s \in Seq(S), NEW e \in S
  PROVE  /\ Append(s, e) \in Seq(S)
         /\ Append(s, e) # <<>>
         /\ Len(Append(s, e)) = Len(s) + 1
         /\ \A i \in 1..Len(s) : Append(s, e)[i] = s[i]
         /\ Append(s, e)[Len(s) + 1] = e
         /\ Last(Append(s, e)) = e
<1>1. Len(s) \in Nat
  BY LenProperties
<1> QED
  BY <1>1, AppendProperties DEF Last

\* The top element replaced by another.
LEMMA SetTopProps ==
  ASSUME NEW S, NEW s \in Seq(S), s # <<>>, NEW e \in S
  PROVE  /\ Append(Front(s), e) \in Seq(S)
         /\ Append(Front(s), e) # <<>>
         /\ Len(Append(Front(s), e)) = Len(s)
         /\ \A i \in 1..(Len(s) - 1) : Append(Front(s), e)[i] = s[i]
         /\ Append(Front(s), e)[Len(s)] = e
         /\ Last(Append(Front(s), e)) = e
<1>1. Front(s) \in Seq(S) /\ Len(Front(s)) = Len(s) - 1 /\ Len(s) \in Nat
  BY FrontProps
<1>2. Len(Front(s)) + 1 = Len(s)
  BY <1>1
<1> DEFINE f == Front(s)
<1>3. /\ Append(f, e) \in Seq(S)
      /\ Append(f, e) # <<>>
      /\ Len(Append(f, e)) = Len(f) + 1
      /\ \A i \in 1..Len(f) : Append(f, e)[i] = f[i]
      /\ Append(f, e)[Len(f) + 1] = e
      /\ Last(Append(f, e)) = e
  BY <1>1, PushProps
<1>4. \A i \in 1..(Len(s) - 1) : f[i] = s[i]
  BY FrontProps
<1> HIDE DEF f
<1>5. f \in Seq(S) /\ Len(f) = Len(s) - 1 /\ Len(f) + 1 = Len(s)
  BY <1>1, <1>2 DEF f
<1>6. Len(Append(f, e)) = Len(s) /\ Append(f, e)[Len(s)] = e
  BY <1>3, <1>5
<1>7. \A i \in 1..(Len(s) - 1) : Append(f, e)[i] = s[i]
  BY <1>3, <1>4, <1>5
<1> QED
  BY <1>3, <1>6, <1>7 DEF f

=============================================================================
