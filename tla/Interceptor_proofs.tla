------------------------- MODULE Interceptor_proofs -------------------------
(***************************************************************************)
(* Proofs about Interceptor: for every set of threads, controllers,        *)
(* functions and listeners, and whatever the bounds.                       *)
(***************************************************************************)
EXTENDS Interceptor, StackLemmas, FiniteSetTheorems, WellFoundedInduction

Slot == Listener \cup {NoListener}

Context ==
  [state : {"unborn", "live", "freed"}, address : Address \cup {0},
   activated : BOOLEAN, destroyed : BOOLEAN, hasLeave : BOOLEAN, usage : Int,
   arrays : Seq(Seq(Slot)), freed : SUBSET Nat, replacement : BOOLEAN,
   overwritten : Ctx \cup {0}]

Transaction ==
  [level : Nat, dirty : BOOLEAN, updates : Seq(Update), destroys : Seq(Task)]

Job == [at : {"idle", "run", "notify", "relock"}, tasks : Seq(Task)]

Invocation == [fn : Address \cup {0}, ctx : Ctx, frame : Nat, calling_replacement : BOOLEAN]

\* Element e is in sequence s.
Member(s, e) == \E i \in 1..Len(s) : s[i] = e

\* What the interceptor's data is made of.
Shape(tb, pr, cx, tx, jb) ==
  /\ tb \in [Address -> Ctx \cup {0}]
  /\ pr \in [Address -> Ctx \cup {0}]
  /\ cx \in [Ctx -> Context]
  /\ tx \in Transaction
  /\ jb \in [Controller -> Job]

\* Context number c: an unborn one is blank, an instrumented trampoline is an
\* earlier context's, what is destroyed has no clients left, and what is freed is
\* destroyed and out of the code.
ContextOK(c, x) ==
  /\ x.state = "unborn" => x = Unborn
  /\ x.state # "unborn" => x.address \in Address /\ x.arrays # <<>>
  /\ x.overwritten = 0
  /\ x.address \in Ctx => x.address < c
  /\ x.destroyed => ~x.replacement /\ \A i \in 1..Len(Entries(x)) : Entries(x)[i] = NoListener
  /\ x.state = "freed" => x.destroyed /\ ~x.activated
  /\ \A v \in x.freed : v < Len(x.arrays)

ContextsOK(cx) ==
  /\ \A c \in Ctx : ContextOK(c, cx[c])
  /\ \A c, d \in Ctx : c < d /\ cx[c].state = "unborn" => cx[d].state = "unborn"

\* The table holds exactly the contexts that are alive and not destroyed.
TableOK(tb, cx) ==
  /\ \A a \in Address : tb[a] # 0 =>
       cx[tb[a]].state = "live" /\ ~cx[tb[a]].destroyed /\ cx[tb[a]].address = a
  /\ \A c \in Ctx : cx[c].state # "unborn" /\ ~cx[c].destroyed => tb[cx[c].address] = c

\* A jump in the code is to an activated context of that address.
PrologueOK(pr, cx) ==
  \A a \in Address : pr[a] # 0 =>
    cx[pr[a]].state # "unborn" /\ cx[pr[a]].activated /\ cx[pr[a]].address = a

TaskOK(task, cx) ==
  /\ cx[task.ctx].state # "unborn"
  /\ task.kind = "context" => cx[task.ctx].destroyed
  /\ task.kind = "array" => task.version < Len(cx[task.ctx].arrays)

\* The transaction knows what it has to deactivate.
TransactionOK(tx, cx) ==
  /\ \A i \in 1..Len(tx.updates) : cx[tx.updates[i].ctx].state # "unborn"
  /\ \A c \in Ctx : cx[c].destroyed /\ cx[c].activated =>
       Member(tx.updates, [ctx |-> c, activate |-> FALSE])
  /\ \A i \in 1..Len(tx.destroys) : TaskOK(tx.destroys[i], cx)

\* A task is worked off when its context is out of the code.
JobOK(j, cx) ==
  /\ j.at = "idle" => j.tasks = <<>>
  /\ j.at \in {"notify", "relock"} => j.tasks # <<>>
  /\ \A i \in 1..Len(j.tasks) :
       /\ TaskOK(j.tasks[i], cx)
       /\ j.tasks[i].kind = "context" => ~cx[j.tasks[i].ctx].activated

DataOK(tb, pr, cx, tx, jb) ==
  /\ Shape(tb, pr, cx, tx, jb)
  /\ ContextsOK(cx)
  /\ TableOK(tb, cx)
  /\ PrologueOK(pr, cx)
  /\ TransactionOK(tx, cx)
  /\ \A k \in Controller : JobOK(jb[k], cx)

-----------------------------------------------------------------------------
Inside(fr) ==
  fr.at \in {"load", "enter", "on_enter", "finish", "leave", "leaving", "on_leave", "stray"}

Iterating(fr) == fr.at \in {"enter", "on_enter", "leaving", "on_leave", "stray"}

\* What a call's place says of it.
PlaceOK(fr) ==
  /\ fr.at \in {"guard", "begin"} => ~fr.trap /\ ~fr.notified
  /\ fr.at \in {"load", "enter", "on_enter"} => fr.notified
  /\ fr.at = "finish" => ~fr.notified
  /\ fr.at \in {"leave", "leaving", "on_leave", "replacement"} => fr.trap
  /\ fr.at # "body" \/ fr.trap => fr.ctx # 0
  /\ fr.at = "stray" => fr.notified \/ fr.trap
  /\ fr.running # NoListener => fr.early /\ Iterating(fr)
  /\ fr.next >= 1

\* A thread's calls fs: below the innermost one a call is in code that calls, and
\* above one inside the interceptor every call passes through.
CallsOK(fs) ==
  /\ \A i \in 1..Len(fs) : PlaceOK(fs[i])
  /\ \A i \in 1..Len(fs) : i < Len(fs) =>
       fs[i].at \in {"body", "replacement", "on_enter", "on_leave"}
  /\ \A i, j \in 1..Len(fs) : i < j /\ Inside(fs[i]) =>
       ~fs[j].trap /\ fs[j].at \in {"guard", "begin", "invoke", "body", "undefined"}

\* Its invocation stack st and its guard key g.
GuardOK(fs, g) == g <=> \E i \in 1..Len(fs) : Inside(fs[i])

EntriesOK(fs, st) ==
  /\ \A j \in 1..Len(st) :
       /\ st[j].frame \in 1..Len(fs)
       /\ HasInvocation(fs[st[j].frame])
       /\ st[j].ctx = fs[st[j].frame].ctx
  /\ \A i \in 1..Len(fs) : HasInvocation(fs[i]) => \E j \in 1..Len(st) : st[j].frame = i
  /\ \A i, j \in 1..Len(st) : i < j => st[i].frame < st[j].frame

ThreadOK(fs, st, g) ==
  /\ Len(fs) <= MaxDepth
  /\ CallsOK(fs)
  /\ fs = <<>> \/ fs[Len(fs)].at # "undefined" => GuardOK(fs, g) /\ EntriesOK(fs, st)

\* A call and its context x.  One that was counted after the context was
\* destroyed finds the last, empty, array.
FrameIn(fr, x) ==
  /\ x.state # "unborn"
  /\ Iterating(fr) => fr.version \in 1..Len(x.arrays)
  /\ Counted(fr) /\ fr.early => x.state = "live" /\ (Iterating(fr) => fr.version \notin x.freed)
  /\ Counted(fr) /\ ~fr.early => x.destroyed /\ (Iterating(fr) => fr.version = Len(x.arrays))

\* What a call still needs of a task's context once the task was found due.
Spares(task, fr) ==
  fr.ctx = task.ctx =>
    task.kind # "context" /\ (task.kind = "array" /\ Iterating(fr) => fr.version # task.version)

\* The tasks that are not under way.
Waiting(j, task) ==
  \E i \in 1..Len(j.tasks) : j.tasks[i] = task /\ (j.at \in {"notify", "relock"} => i # 1)

ListenerTask(c, l) == [kind |-> "listener", ctx |-> c, listener |-> l]

\* Listener l of context c is attached, or the task that will let go of it waits.
Held(c, l, cx, tx, jb) ==
  \/ ~cx[c].destroyed /\ Member(Entries(cx[c]), l)
  \/ Member(tx.destroys, ListenerTask(c, l))
  \/ \E k \in Controller : Waiting(jb[k], ListenerTask(c, l))

Uses(fr, l, x) == fr.running = l \/ Member(x.arrays[fr.version], l)

\* A call that was counted in time is spared by the tasks under way, and the
\* listeners it may call are held.
FrameOK(fr, cx, tx, jb) ==
  fr.ctx # 0 =>
    /\ FrameIn(fr, cx[fr.ctx])
    /\ Counted(fr) /\ fr.early =>
         /\ \A k \in Controller : jb[k].at = "notify" => Spares(jb[k].tasks[1], fr)
         /\ Iterating(fr) => \A l \in Listener : Uses(fr, l, cx[fr.ctx]) => Held(fr.ctx, l, cx, tx, jb)

CountOK ==
  \A c \in Ctx :
    /\ ctx[c].usage \in Nat
    /\ IsFiniteSet(CallsOf(c))
    /\ ctx[c].state = "live" => ctx[c].usage = Cardinality(CallsOf(c))

\* The inductive invariant.
IInv ==
  /\ DataOK(table, prologue, ctx, txn, job)
  /\ lock \in SUBSET Controller
  /\ frames \in [Thread -> Seq(Frame)]
  /\ stack \in [Thread -> Seq(Invocation)]
  /\ guardKey \in [Thread -> BOOLEAN]
  /\ \A t \in Thread : ThreadOK(frames[t], stack[t], guardKey[t])
  /\ \A t \in Thread : \A i \in 1..Len(frames[t]) : FrameOK(frames[t][i], ctx, txn, job)
  /\ CountOK

-----------------------------------------------------------------------------
\* Induction along an interval.
LEMMA UpTo ==
  ASSUME NEW m \in Nat, NEW N \in Nat, NEW S, m \in S,
         \A n \in m..(N - 1) : n \in S => n + 1 \in S
  PROVE  \A n \in m..N : n \in S
<1> SUFFICES ASSUME NEW z \in m..N, z \notin S
             PROVE  FALSE
  OBVIOUS
<1> DEFINE B == {n \in m..N : n \notin S}
<1>1. B \in SUBSET Nat /\ B # {}
  OBVIOUS
<1>2. PICK x \in B : \A y \in B : ~(<<y, x>> \in OpToRel(<, Nat))
  BY <1>1, NatLessThanWellFounded, WFMin
<1>3. x \in m..N /\ x \notin S /\ x # m
  BY <1>2
<1>4. x - 1 \in m..(N - 1) /\ x - 1 \in Nat /\ x \in Nat /\ x - 1 < x /\ x - 1 + 1 = x
  BY <1>3
<1>5. x - 1 \notin S
  BY <1>3, <1>4
<1>6. x - 1 \in B
  BY <1>4, <1>5
<1>7. <<x - 1, x>> \in OpToRel(<, Nat)
  BY <1>4 DEF OpToRel
<1> QED
  BY <1>2, <1>6, <1>7

\* A recursion of N steps from e by the functions G.
Recursion(N, T, e, G, g) ==
  g \in [0..N -> T] /\ g[0] = e /\ \A n \in 1..N : g[n] = G[n][g[n - 1]]

\* It has a solution.
LEMMA RecursionExists ==
  ASSUME NEW N \in Nat, NEW T, NEW e \in T, NEW G \in [1..N -> [T -> T]]
  PROVE  \E g : Recursion(N, T, e, G, g)
<1> DEFINE Good(m, g) == g \in [0..m -> T] /\ g[0] = e /\ \A n \in 1..m : g[n] = G[n][g[n - 1]]
           S == {m \in 0..N : \E g : Good(m, g)}
<1>1. 0 \in S
  <2>1. PICK h : h = [n \in 0..0 |-> e]
    OBVIOUS
  <2>2. h \in [0..0 -> T] /\ h[0] = e /\ \A n \in 1..0 : h[n] = G[n][h[n - 1]]
    BY <2>1
  <2>3. 0 \in 0..N
    OBVIOUS
  <2> QED
    BY <2>2, <2>3
<1>2. ASSUME NEW m \in 0..(N - 1), m \in S
      PROVE  m + 1 \in S
  <2>1. PICK g : Good(m, g)
    BY <1>2
  <2>2. m + 1 \in 1..N /\ g[m] \in T
    BY <2>1
  <2>3. G[m + 1][g[m]] \in T
    BY <2>2
  <2>4. PICK h : h = [n \in 0..(m + 1) |-> IF n = m + 1 THEN G[m + 1][g[m]] ELSE g[n]]
    OBVIOUS
  <2>5. h \in [0..(m + 1) -> T] /\ h[0] = e
    BY <2>1, <2>3, <2>4
  <2>6. ASSUME NEW n \in 1..(m + 1)
        PROVE  h[n] = G[n][h[n - 1]]
    <3>1. n - 1 \in 0..(m + 1) /\ n - 1 # m + 1 /\ n \in 0..(m + 1)
      OBVIOUS
    <3>2. h[n - 1] = g[n - 1]
      BY <2>4, <3>1
    <3>3. CASE n = m + 1
      <4>1. n - 1 = m
        BY <3>3
      <4> QED
        BY <2>4, <3>1, <3>2, <3>3, <4>1
    <3>4. CASE n # m + 1
      <4>1. n \in 1..m
        BY <3>4
      <4> QED
        BY <2>1, <2>4, <3>1, <3>2, <3>4, <4>1
    <3> QED
      BY <3>3, <3>4
  <2>7. Good(m + 1, h)
    BY <2>5, <2>6
  <2> QED
    BY <2>2, <2>7
<1> HIDE DEF S
<1>3. \A n \in 0..N : n \in S
  BY <1>1, <1>2, UpTo
<1> QED
  BY <1>3 DEF S, Recursion

\* The elements of two sequences put together.
LEMMA ConcatMembers ==
  ASSUME NEW T, NEW s \in Seq(T), NEW r \in Seq(T)
  PROVE  /\ s \o r \in Seq(T)
         /\ Len(s \o r) = Len(s) + Len(r)
         /\ \A i \in 1..Len(s) : (s \o r)[i] = s[i]
         /\ \A e : Member(s \o r, e) <=> Member(s, e) \/ Member(r, e)
<1>1. /\ s \o r \in Seq(T)
      /\ Len(s \o r) = Len(s) + Len(r)
      /\ \A i \in 1..(Len(s) + Len(r)) : (s \o r)[i] = IF i <= Len(s) THEN s[i] ELSE r[i - Len(s)]
  BY ConcatProperties
<1>2. Len(s) \in Nat /\ Len(r) \in Nat
  BY LenProperties
<1>3. \A i \in 1..Len(s) : (s \o r)[i] = s[i]
  BY <1>1, <1>2
<1>4. \A i \in 1..Len(r) : Len(s) + i \in 1..(Len(s) + Len(r)) /\ (s \o r)[Len(s) + i] = r[i]
  <2> TAKE i \in 1..Len(r)
  <2>1. Len(s) + i \in 1..(Len(s) + Len(r)) /\ ~(Len(s) + i <= Len(s)) /\ Len(s) + i - Len(s) = i
    BY <1>2
  <2> QED
    BY <1>1, <2>1
<1>5. ASSUME NEW e, Member(s \o r, e)
      PROVE  Member(s, e) \/ Member(r, e)
  <2>1. PICK i \in 1..(Len(s) + Len(r)) : (s \o r)[i] = e
    BY <1>1, <1>5 DEF Member
  <2>2. CASE i <= Len(s)
    <3>1. i \in 1..Len(s)
      BY <1>2, <2>2
    <3> QED
      BY <1>3, <2>1, <3>1 DEF Member
  <2>3. CASE ~(i <= Len(s))
    <3>1. i - Len(s) \in 1..Len(r)
      BY <1>2, <2>3
    <3> QED
      BY <1>1, <2>1, <2>3, <3>1 DEF Member
  <2> QED
    BY <2>2, <2>3
<1>6. ASSUME NEW e, Member(s, e) \/ Member(r, e)
      PROVE  Member(s \o r, e)
  <2>1. ASSUME NEW i \in 1..Len(s), s[i] = e
        PROVE  Member(s \o r, e)
    <3>1. i \in 1..Len(s \o r)
      BY <1>1, <1>2
    <3> QED
      BY <1>3, <2>1, <3>1 DEF Member
  <2>2. ASSUME NEW i \in 1..Len(r), r[i] = e
        PROVE  Member(s \o r, e)
    <3>1. Len(s) + i \in 1..Len(s \o r)
      BY <1>1, <1>4
    <3> QED
      BY <1>4, <2>2, <3>1 DEF Member
  <2> QED
    BY <1>6, <2>1, <2>2 DEF Member
<1> QED
  BY <1>1, <1>3, <1>5, <1>6

\* The elements of a sequence with one more, and of one without its first.
LEMMA AppendMembers ==
  ASSUME NEW T, NEW s \in Seq(T), NEW x \in T
  PROVE  /\ Append(s, x) \in Seq(T)
         /\ Len(Append(s, x)) = Len(s) + 1
         /\ \A i \in 1..Len(s) : Append(s, x)[i] = s[i]
         /\ Append(s, x)[Len(s) + 1] = x
         /\ \A e : Member(Append(s, x), e) <=> Member(s, e) \/ e = x
<1>1. /\ Append(s, x) \in Seq(T)
      /\ Len(Append(s, x)) = Len(s) + 1
      /\ \A i \in 1..Len(s) : Append(s, x)[i] = s[i]
      /\ Append(s, x)[Len(s) + 1] = x
  BY PushProps
<1>2. Len(s) \in Nat
  BY LenProperties
<1>3. 1..(Len(s) + 1) = 1..Len(s) \cup {Len(s) + 1}
  BY <1>2
<1> QED
  BY <1>1, <1>3 DEF Member

\* The elements of a sequence without its first.
LEMMA TailMembers ==
  ASSUME NEW T, NEW s \in Seq(T), s # <<>>
  PROVE  /\ Tail(s) \in Seq(T) /\ Len(s) \in Nat \ {0} /\ Len(Tail(s)) = Len(s) - 1
         /\ Head(s) = s[1] /\ s[1] \in T
         /\ \A i \in 1..Len(Tail(s)) : Tail(s)[i] = s[i + 1] /\ i + 1 \in 1..Len(s) /\ i + 1 # 1
         /\ \A i \in 1..Len(s) : i # 1 => i - 1 \in 1..Len(Tail(s)) /\ Tail(s)[i - 1] = s[i]
<1>1. Len(s) \in Nat \ {0} /\ s[1] \in T
  BY EmptySeq, LenProperties, ElementOfSeq
<1>2. /\ Tail(s) \in Seq(T) /\ Len(Tail(s)) = Len(s) - 1 /\ Head(s) = s[1]
      /\ \A i \in 1..Len(Tail(s)) : Tail(s)[i] = s[i + 1]
  BY HeadTailProperties
<1>3. \A i \in 1..Len(Tail(s)) : i + 1 \in 1..Len(s) /\ i + 1 # 1
  BY <1>1, <1>2
<1>4. \A i \in 1..Len(s) : i # 1 => i - 1 \in 1..Len(Tail(s)) /\ i - 1 + 1 = i
  BY <1>1, <1>2
<1> QED
  BY <1>1, <1>2, <1>3, <1>4

\* The elements of a finite set in some order.
LEMMA SetToSeqMembers ==
  ASSUME NEW S, IsFiniteSet(S)
  PROVE  SetToSeq(S) \in Seq(S) /\ \A e \in S : Member(SetToSeq(S), e)
<1> PICK n : n = Cardinality(S)
  OBVIOUS
<1>1. n \in Nat /\ ExistsBijection(1..n, S)
  BY FS_CardinalityType
<1>2. PICK b : b \in Bijection(1..n, S)
  BY <1>1 DEF ExistsBijection
<1>3. b \in [1..n -> S] /\ IsInjective(b)
  BY <1>2 DEF Bijection, Injection, IsInjective
<1> PICK f : f = SetToSeq(S)
  OBVIOUS
<1>4. f \in [1..n -> S] /\ IsInjective(f)
  BY <1>3 DEF SetToSeq
<1>5. f \in Injection(1..n, S)
  BY <1>4 DEF Injection, IsInjective
<1>6. Cardinality(1..n) = n
  BY <1>1, FS_Interval
<1>7. f \in Surjection(1..n, S)
  BY <1>5, <1>6, FS_Injection
<1>8. f \in Seq(S) /\ Len(f) = n
  BY <1>1, <1>4, FunctionIsSeq
<1>9. \A e \in S : \E i \in 1..n : f[i] = e
  BY <1>7 DEF Surjection
<1> QED
  BY <1>8, <1>9 DEF Member

Flattening(ss) ==
  CHOOSE flatten : flatten = [i \in 1..Len(ss) |-> IF i = 1 THEN ss[i] ELSE flatten[i - 1] \o ss[i]]

\* The elements of a sequence of sequences.
LEMMA FlattenMembers ==
  ASSUME NEW T, NEW ss \in Seq(Seq(T))
  PROVE  /\ FlattenSeq(ss) \in Seq(T)
         /\ \A e \in T : Member(FlattenSeq(ss), e) <=> \E i \in 1..Len(ss) : Member(ss[i], e)
<1> PICK N : N = Len(ss)
  OBVIOUS
<1>1. N \in Nat /\ \A i \in 1..N : ss[i] \in Seq(T)
  BY LenProperties, ElementOfSeq
<1>2. CASE N = 0
  <2>1. ss = <<>>
    BY <1>2, EmptySeq
  <2>2. FlattenSeq(ss) = ss
    BY <1>2 DEF FlattenSeq
  <2>3. FlattenSeq(ss) = <<>>
    BY <2>1, <2>2
  <2>4. <<>> \in Seq(T) /\ Len(<<>>) = 0
    BY EmptySeq
  <2> QED
    BY <1>2, <2>3, <2>4 DEF Member
<1>3. CASE N # 0
  <2> DEFINE W(at) == [i \in 1..N |-> IF i = 1 THEN ss[i] ELSE at[i - 1] \o ss[i]]
             F == Flattening(ss)
  <2>1. \E g : g = W(g)
    <3>1. PICK G : G = [n \in 1..N |-> [s \in Seq(T) |-> s \o ss[n]]]
      OBVIOUS
    <3>2. \A n \in 1..N : \A s \in Seq(T) : s \o ss[n] \in Seq(T)
      BY <1>1, ConcatMembers
    <3>3. G \in [1..N -> [Seq(T) -> Seq(T)]]
      BY <3>1, <3>2
    <3>4. <<>> \in Seq(T)
      BY EmptySeq
    <3>5. PICK g \in [0..N -> Seq(T)] : g[0] = <<>> /\ \A n \in 1..N : g[n] = G[n][g[n - 1]]
      <4>1. PICK U, e : U = Seq(T) /\ e = <<>>
        OBVIOUS
      <4>2. e \in U /\ G \in [1..N -> [U -> U]]
        BY <3>3, <3>4, <4>1
      <4>3. PICK g : Recursion(N, U, e, G, g)
        BY <1>1, <4>2, RecursionExists
      <4> QED
        BY <4>1, <4>3 DEF Recursion
    <3>6. PICK h : h = [i \in 1..N |-> g[i]]
      OBVIOUS
    <3>7. ASSUME NEW i \in 1..N
          PROVE  h[i] = IF i = 1 THEN ss[i] ELSE h[i - 1] \o ss[i]
      <4>1. i - 1 \in 0..N /\ i \in 0..N
        BY <1>1
      <4>2. h[i] = g[i - 1] \o ss[i]
        BY <3>1, <3>5, <3>6, <4>1
      <4>3. CASE i = 1
        <5>1. g[i - 1] = <<>>
          BY <3>5, <4>3
        <5>2. <<>> \o ss[i] = ss[i]
          BY <1>1, ConcatEmptySeq
        <5> QED
          BY <4>2, <4>3, <5>1, <5>2
      <4>4. CASE i # 1
        <5>1. i - 1 \in 1..N
          BY <1>1, <4>4
        <5> QED
          BY <3>6, <4>2, <4>4, <5>1
      <4> QED
        BY <4>3, <4>4
    <3>8. h = W(h)
      BY <3>6, <3>7
    <3> QED
      BY <3>8
  <2>2. F = W(F)
    BY <2>1 DEF Flattening
  <2>3. FlattenSeq(ss) = F[N]
    BY <1>3 DEF FlattenSeq, Flattening
  <2> HIDE DEF F
  <2> DEFINE Q == {i \in 1..N : /\ F[i] \in Seq(T)
                                /\ \A e \in T : Member(F[i], e) <=> \E j \in 1..i : Member(ss[j], e)}
  <2>4. 1 \in Q
    <3>1. 1 \in 1..N /\ F[1] = ss[1] /\ 1..1 = {1}
      BY <1>1, <1>3, <2>2
    <3> QED
      BY <1>1, <3>1
  <2>5. ASSUME NEW i \in 1..(N - 1), i \in Q
        PROVE  i + 1 \in Q
    <3>1. i + 1 \in 1..N /\ i + 1 # 1 /\ i + 1 - 1 = i /\ 1..(i + 1) = 1..i \cup {i + 1}
      BY <1>1
    <3>2. F[i + 1] = F[i] \o ss[i + 1]
      <4>1. PICK n : n = i + 1
        OBVIOUS
      <4>2. n \in 1..N /\ n # 1 /\ n - 1 = i
        BY <3>1, <4>1
      <4>3. F[n] = IF n = 1 THEN ss[n] ELSE F[n - 1] \o ss[n]
        BY <2>2, <4>2
      <4>4. F[n] = F[i] \o ss[n]
        BY <4>2, <4>3
      <4> QED
        BY <4>1, <4>4
    <3>3. F[i] \in Seq(T) /\ ss[i + 1] \in Seq(T)
      BY <1>1, <2>5, <3>1
    <3>4. /\ F[i + 1] \in Seq(T)
          /\ \A e : Member(F[i + 1], e) <=> Member(F[i], e) \/ Member(ss[i + 1], e)
      BY <3>2, <3>3, ConcatMembers
    <3>5. \A e \in T : Member(F[i + 1], e) <=> \E j \in 1..(i + 1) : Member(ss[j], e)
      BY <2>5, <3>1, <3>4
    <3> QED
      BY <3>1, <3>4, <3>5
  <2> HIDE DEF Q
  <2>6. \A n \in 1..N : n \in Q
    BY <1>1, <2>4, <2>5, UpTo
  <2>7. N \in 1..N
    BY <1>1, <1>3
  <2> QED
    BY <2>3, <2>6, <2>7 DEF Q
<1> QED
  BY <1>2, <1>3

Compaction(s) ==
  CHOOSE kept : kept = [n \in 0..Len(s) |->
    IF n = 0 THEN <<>>
    ELSE IF s[n] = NoListener THEN kept[n - 1] ELSE Append(kept[n - 1], s[n])]

\* An array without its empty slots has the same listeners.
LEMMA CompactMembers ==
  ASSUME NEW s \in Seq(Slot)
  PROVE  /\ Compact(s) \in Seq(Slot)
         /\ \A e \in Slot : Member(Compact(s), e) <=> Member(s, e) /\ e # NoListener
<1> PICK N : N = Len(s)
  OBVIOUS
<1>1. N \in Nat /\ \A i \in 1..N : s[i] \in Slot
  BY LenProperties, ElementOfSeq
<1> DEFINE W(at) == [n \in 0..N |-> IF n = 0 THEN <<>>
                        ELSE IF s[n] = NoListener THEN at[n - 1] ELSE Append(at[n - 1], s[n])]
           F == Compaction(s)
<1>2. PICK U, e : U = Seq(Slot) /\ e = <<>>
  OBVIOUS
<1>3. e \in U
  BY <1>2, EmptySeq
<1>4. \E g : g = W(g)
  <2>1. PICK G : G = [n \in 1..N |-> [r \in U |-> IF s[n] = NoListener THEN r ELSE Append(r, s[n])]]
    OBVIOUS
  <2>2. \A n \in 1..N : \A r \in U : Append(r, s[n]) \in U
    BY <1>1, <1>2, AppendMembers
  <2>3. G \in [1..N -> [U -> U]]
    BY <2>1, <2>2
  <2>4. PICK g \in [0..N -> U] : g[0] = e /\ \A n \in 1..N : g[n] = G[n][g[n - 1]]
    <3>1. PICK g : Recursion(N, U, e, G, g)
      BY <1>1, <1>3, <2>3, RecursionExists
    <3> QED
      BY <3>1 DEF Recursion
  <2>5. ASSUME NEW n \in 0..N
        PROVE  g[n] = IF n = 0 THEN <<>>
                        ELSE IF s[n] = NoListener THEN g[n - 1] ELSE Append(g[n - 1], s[n])
    <3>1. CASE n = 0
      BY <1>2, <2>4, <3>1
    <3>2. CASE n # 0
      <4>1. n \in 1..N /\ n - 1 \in 0..N
        BY <1>1, <3>2
      <4>2. g[n - 1] \in U
        BY <2>4, <4>1
      <4> QED
        BY <2>1, <2>4, <3>2, <4>1, <4>2
    <3> QED
      BY <3>1, <3>2
  <2>6. g = W(g)
    BY <2>4, <2>5
  <2> QED
    BY <2>6
<1>5. F = W(F)
  BY <1>4 DEF Compaction
<1>6. Compact(s) = F[N]
  BY DEF Compact, Compaction
<1> HIDE DEF F
<1> DEFINE Q == {n \in 0..N : /\ F[n] \in Seq(Slot)
                              /\ \A x \in Slot : Member(F[n], x) <=>
                                   x # NoListener /\ \E i \in 1..n : s[i] = x}
<1>7. 0 \in Q
  <2>1. F[0] = <<>> /\ <<>> \in Seq(Slot) /\ Len(<<>>) = 0 /\ 0 \in 0..N /\ 1..0 = {}
    BY <1>1, <1>5, EmptySeq
  <2> QED
    BY <2>1 DEF Member
<1>8. ASSUME NEW i \in 0..(N - 1), i \in Q
      PROVE  i + 1 \in Q
  <2>1. PICK n : n = i + 1
    OBVIOUS
  <2>2. n \in 0..N /\ n # 0 /\ n - 1 = i /\ n \in 1..N /\ 1..n = 1..i \cup {n}
    BY <1>1, <2>1
  <2>3. F[n] = IF n = 0 THEN <<>>
               ELSE IF s[n] = NoListener THEN F[n - 1] ELSE Append(F[n - 1], s[n])
    BY <1>5, <2>2
  <2>4. F[n] = IF s[n] = NoListener THEN F[i] ELSE Append(F[i], s[n])
    BY <2>2, <2>3
  <2>5. s[n] \in Slot /\ F[i] \in Seq(Slot)
    BY <1>1, <1>8, <2>2
  <2>6. \A x \in Slot : Member(F[i], x) <=> x # NoListener /\ \E j \in 1..i : s[j] = x
    BY <1>8
  <2>7. CASE s[n] = NoListener
    BY <2>1, <2>2, <2>4, <2>5, <2>6, <2>7
  <2>8. CASE s[n] # NoListener
    <3>1. /\ F[n] \in Seq(Slot)
          /\ \A x : Member(F[n], x) <=> Member(F[i], x) \/ x = s[n]
      BY <2>4, <2>5, <2>8, AppendMembers
    <3> QED
      BY <2>1, <2>2, <2>6, <2>8, <3>1
  <2> QED
    BY <2>7, <2>8
<1> HIDE DEF Q
<1>9. \A n \in 0..N : n \in Q
  BY <1>1, <1>7, <1>8, UpTo
<1>10. N \in 0..N
  BY <1>1
<1> QED
  BY <1>6, <1>9, <1>10 DEF Q, Member

-----------------------------------------------------------------------------
(* Counting the calls that use a context.                                  *)

CountsAt(fs, i, c) == i \in DOMAIN fs /\ fs[i].ctx = c /\ Counted(fs[i])

Bit(b) == IF b THEN 1 ELSE 0

\* A step of thread t that touches its call number n only.
LEMMA CallsChange ==
  ASSUME NEW c \in Ctx, NEW t \in Thread, NEW n \in 1..MaxDepth,
         \A u \in Thread : u # t => frames'[u] = frames[u],
         \A i \in 1..MaxDepth : i # n => (CountsAt(frames'[t], i, c) <=> CountsAt(frames[t], i, c))
  PROVE  /\ CountsAt(frames'[t], n, c) => CallsOf(c)' = CallsOf(c) \cup {<<t, n>>}
         /\ ~CountsAt(frames'[t], n, c) => CallsOf(c)' = CallsOf(c) \ {<<t, n>>}
         /\ <<t, n>> \in CallsOf(c) <=> CountsAt(frames[t], n, c)
<1>1. CallsOf(c) = {p \in Thread \X (1..MaxDepth) : CountsAt(frames[p[1]], p[2], c)}
  BY DEF CallsOf, CountsAt
<1>2. CallsOf(c)' = {p \in Thread \X (1..MaxDepth) : CountsAt(frames'[p[1]], p[2], c)}
  BY DEF CallsOf, CountsAt
<1> DEFINE q == <<t, n>>
<1>3. q \in Thread \X (1..MaxDepth) /\ q[1] = t /\ q[2] = n
  OBVIOUS
<1>4. ASSUME NEW p \in Thread \X (1..MaxDepth), p # q
      PROVE  CountsAt(frames'[p[1]], p[2], c) <=> CountsAt(frames[p[1]], p[2], c)
  <2>1. p[1] \in Thread /\ p[2] \in 1..MaxDepth /\ p = <<p[1], p[2]>>
    OBVIOUS
  <2>2. CASE p[1] # t
    <3>1. frames'[p[1]] = frames[p[1]]
      BY <2>1, <2>2
    <3> QED
      BY <3>1
  <2>3. CASE p[1] = t
    <3>1. p[2] # n
      BY <1>4, <2>1, <2>3
    <3> QED
      BY <2>1, <2>3, <3>1
  <2> QED
    BY <2>2, <2>3
<1> HIDE DEF q
<1>5. q \in CallsOf(c) <=> CountsAt(frames[t], n, c)
  BY <1>1, <1>3
<1>6. q \in CallsOf(c)' <=> CountsAt(frames'[t], n, c)
  BY <1>2, <1>3
<1>7. \A p : p # q => (p \in CallsOf(c)' <=> p \in CallsOf(c))
  BY <1>1, <1>2, <1>4
<1>8. CountsAt(frames'[t], n, c) => CallsOf(c)' = CallsOf(c) \cup {q}
  BY <1>6, <1>7
<1>9. ~CountsAt(frames'[t], n, c) => CallsOf(c)' = CallsOf(c) \ {q}
  BY <1>6, <1>7
<1> QED
  BY <1>5, <1>8, <1>9 DEF q

\* The counters follow the calls.
LEMMA CountStep ==
  ASSUME CountOK, NEW t \in Thread, NEW n \in 1..MaxDepth,
         \A u \in Thread : u # t => frames'[u] = frames[u],
         \A c \in Ctx : \A i \in 1..MaxDepth :
           i # n => (CountsAt(frames'[t], i, c) <=> CountsAt(frames[t], i, c)),
         \A c \in Ctx :
           /\ ctx'[c].state = ctx[c].state
           /\ ctx[c].state # "live" => ctx'[c].usage = ctx[c].usage
           /\ ctx[c].state = "live" =>
                ctx'[c].usage = ctx[c].usage + Bit(CountsAt(frames'[t], n, c))
                                             - Bit(CountsAt(frames[t], n, c))
  PROVE  CountOK'
<1> SUFFICES ASSUME NEW c \in Ctx
             PROVE  /\ ctx'[c].usage \in Nat
                    /\ IsFiniteSet(CallsOf(c)')
                    /\ ctx'[c].state = "live" => ctx'[c].usage = Cardinality(CallsOf(c)')
  BY DEF CountOK
<1> PICK S, S2, q : S = CallsOf(c) /\ S2 = CallsOf(c)' /\ q = <<t, n>>
  OBVIOUS
<1> DEFINE b == CountsAt(frames[t], n, c)
           b2 == CountsAt(frames'[t], n, c)
<1>1. /\ b2 => S2 = S \cup {q}
      /\ ~b2 => S2 = S \ {q}
      /\ q \in S <=> b
  BY CallsChange
<1>2. ctx[c].usage \in Nat /\ IsFiniteSet(S) /\ (ctx[c].state = "live" => ctx[c].usage = Cardinality(S))
  BY DEF CountOK
<1>3. /\ IsFiniteSet(S \cup {q}) /\ IsFiniteSet(S \ {q}) /\ Cardinality(S) \in Nat
      /\ Cardinality(S \cup {q}) = IF q \in S THEN Cardinality(S) ELSE Cardinality(S) + 1
      /\ Cardinality(S \ {q}) = IF q \in S THEN Cardinality(S) - 1 ELSE Cardinality(S)
      /\ Cardinality(S \ {q}) \in Nat
  BY <1>2, FS_AddElement, FS_RemoveElement, FS_CardinalityType
<1>4. /\ ctx'[c].state = ctx[c].state
      /\ ctx[c].state # "live" => ctx'[c].usage = ctx[c].usage
      /\ ctx[c].state = "live" => ctx'[c].usage = ctx[c].usage + Bit(b2) - Bit(b)
  OBVIOUS
<1> HIDE DEF b, b2
<1>5. IsFiniteSet(S2)
  BY <1>1, <1>3
<1>6. ctx[c].state = "live" => ctx'[c].usage = Cardinality(S2) /\ Cardinality(S2) \in Nat
  <2> HAVE ctx[c].state = "live"
  <2> PICK u, v, K : u = ctx[c].usage /\ v = ctx'[c].usage /\ K = Cardinality(S)
    OBVIOUS
  <2>1. u = K /\ K \in Nat /\ v = u + Bit(b2) - Bit(b)
    BY <1>2, <1>3, <1>4
  <2>2. CASE b2 /\ b
    <3>1. Cardinality(S2) = K /\ Bit(b2) = 1 /\ Bit(b) = 1
      BY <1>1, <1>3, <2>2 DEF Bit
    <3> QED
      BY <2>1, <3>1
  <2>3. CASE b2 /\ ~b
    <3>1. Cardinality(S2) = K + 1 /\ Bit(b2) = 1 /\ Bit(b) = 0
      BY <1>1, <1>3, <2>3 DEF Bit
    <3> QED
      BY <2>1, <3>1
  <2>4. CASE ~b2 /\ b
    <3>1. Cardinality(S2) = K - 1 /\ Cardinality(S2) \in Nat /\ Bit(b2) = 0 /\ Bit(b) = 1
      BY <1>1, <1>3, <2>4 DEF Bit
    <3> QED
      BY <2>1, <3>1
  <2>5. CASE ~b2 /\ ~b
    <3>1. Cardinality(S2) = K /\ Bit(b2) = 0 /\ Bit(b) = 0
      BY <1>1, <1>3, <2>5 DEF Bit
    <3> QED
      BY <2>1, <3>1
  <2> QED
    BY <2>2, <2>3, <2>4, <2>5
<1> QED
  BY <1>2, <1>4, <1>5, <1>6

-----------------------------------------------------------------------------
(* A thread's calls and its invocation stack.                              *)

\* Sequence gs is fs with another top, with one more on top, without its top.
Replaced(fs, gs, e) ==
  /\ Len(fs) \in Nat \ {0} /\ Len(gs) = Len(fs)
  /\ \A i \in 1..Len(fs) : gs[i] = IF i = Len(fs) THEN e ELSE fs[i]

Grown(fs, gs, e) ==
  /\ Len(fs) \in Nat /\ Len(gs) = Len(fs) + 1
  /\ \A i \in 1..(Len(fs) + 1) : gs[i] = IF i = Len(fs) + 1 THEN e ELSE fs[i]

Popped(fs, gs) ==
  /\ Len(fs) \in Nat \ {0} /\ Len(gs) = Len(fs) - 1
  /\ \A i \in 1..(Len(fs) - 1) : gs[i] = fs[i]

\* A sequence with one more element, with another last element, and without
\* its last.
LEMMA StackForms ==
  ASSUME NEW S, NEW s \in Seq(S), NEW e \in S
  PROVE  /\ Append(s, e) \in Seq(S) /\ Grown(s, Append(s, e), e)
         /\ s # <<>> =>
              /\ Append(Front(s), e) \in Seq(S) /\ Replaced(s, Append(Front(s), e), e)
              /\ Front(s) \in Seq(S) /\ Popped(s, Front(s))
              /\ Last(s) = s[Len(s)] /\ s[Len(s)] \in S /\ Len(s) \in Nat \ {0}
<1>0. Len(s) \in Nat
  BY LenProperties
<1>1. Append(s, e) \in Seq(S) /\ Grown(s, Append(s, e), e)
  <2>1. /\ Append(s, e) \in Seq(S) /\ Len(Append(s, e)) = Len(s) + 1
        /\ \A i \in 1..Len(s) : Append(s, e)[i] = s[i]
        /\ Append(s, e)[Len(s) + 1] = e
    BY PushProps
  <2>2. \A i \in 1..(Len(s) + 1) : i # Len(s) + 1 => i \in 1..Len(s)
    BY <1>0
  <2> QED
    BY <1>0, <2>1, <2>2 DEF Grown
<1>2. ASSUME s # <<>>
      PROVE  /\ Append(Front(s), e) \in Seq(S) /\ Replaced(s, Append(Front(s), e), e)
             /\ Front(s) \in Seq(S) /\ Popped(s, Front(s))
             /\ Last(s) = s[Len(s)] /\ s[Len(s)] \in S /\ Len(s) \in Nat \ {0}
  <2>1. /\ Append(Front(s), e) \in Seq(S) /\ Len(Append(Front(s), e)) = Len(s)
        /\ \A i \in 1..(Len(s) - 1) : Append(Front(s), e)[i] = s[i]
        /\ Append(Front(s), e)[Len(s)] = e
    BY <1>2, SetTopProps
  <2>2. /\ Len(s) \in Nat \ {0} /\ Last(s) = s[Len(s)] /\ Last(s) \in S
        /\ Front(s) \in Seq(S) /\ Len(Front(s)) = Len(s) - 1
        /\ \A i \in 1..(Len(s) - 1) : Front(s)[i] = s[i]
    BY <1>2, FrontProps
  <2>3. \A i \in 1..Len(s) : i # Len(s) => i \in 1..(Len(s) - 1)
    BY <1>0
  <2>4. Replaced(s, Append(Front(s), e), e)
    BY <2>1, <2>2, <2>3 DEF Replaced
  <2> QED
    BY <2>1, <2>2, <2>4 DEF Popped
<1> QED
  BY <1>1, <1>2

Above == {"guard", "begin", "invoke", "body", "undefined"}

\* Somewhere below the innermost call the thread is inside the interceptor.
InsideBelow(fs) == \E i \in 1..Len(fs) : i < Len(fs) /\ Inside(fs[i])

\* The innermost call moves to another place.
LEMMA ReplaceCalls ==
  ASSUME NEW fs, NEW gs, NEW fr, Replaced(fs, gs, fr), CallsOK(fs), PlaceOK(fr),
         InsideBelow(fs) => ~fr.trap /\ fr.at \in Above
  PROVE  CallsOK(gs)
<1> PICK n : n = Len(fs)
  OBVIOUS
<1>1. n \in Nat \ {0} /\ Len(gs) = n /\ \A i \in 1..n : gs[i] = IF i = n THEN fr ELSE fs[i]
  BY DEF Replaced
<1>2. \A i \in 1..n : PlaceOK(gs[i])
  BY <1>1 DEF CallsOK
<1>3. \A i \in 1..n : i < n => gs[i].at \in {"body", "replacement", "on_enter", "on_leave"}
  BY <1>1 DEF CallsOK
<1>4. ASSUME NEW i \in 1..n, NEW j \in 1..n, i < j, Inside(gs[i])
      PROVE  ~gs[j].trap /\ gs[j].at \in Above
  <2>1. i # n /\ i < n /\ gs[i] = fs[i]
    BY <1>1, <1>4
  <2>2. CASE j = n
    <3>1. gs[j] = fr
      BY <1>1, <2>2
    <3>2. InsideBelow(fs)
      BY <1>4, <2>1 DEF InsideBelow
    <3> QED
      BY <3>1, <3>2
  <2>3. CASE j # n
    BY <1>1, <1>4, <2>1, <2>3 DEF CallsOK, Above
  <2> QED
    BY <2>2, <2>3
<1> QED
  BY <1>1, <1>2, <1>3, <1>4 DEF CallsOK, Above

\* A call begins inside code that calls.
LEMMA GrowCalls ==
  ASSUME NEW fs, NEW gs, NEW fr, Grown(fs, gs, fr), CallsOK(fs), PlaceOK(fr),
         fs # <<>> => fs[Len(fs)].at \in {"body", "replacement", "on_enter", "on_leave"},
         Len(fs) = 0 => fs = <<>>,
         ~fr.trap /\ fr.at \in Above
  PROVE  CallsOK(gs)
<1> PICK n : n = Len(fs)
  OBVIOUS
<1>1. n \in Nat /\ Len(gs) = n + 1 /\ \A i \in 1..(n + 1) : gs[i] = IF i = n + 1 THEN fr ELSE fs[i]
  BY DEF Grown
<1>2. \A i \in 1..(n + 1) : PlaceOK(gs[i])
  BY <1>1 DEF CallsOK
<1>3. ASSUME NEW i \in 1..(n + 1), i < n + 1
      PROVE  gs[i].at \in {"body", "replacement", "on_enter", "on_leave"}
  <2>1. i \in 1..n /\ i # n + 1
    BY <1>1, <1>3
  <2>2. gs[i] = fs[i]
    BY <1>1, <2>1
  <2>3. CASE i = n
    BY <2>1, <2>2, <2>3
  <2>4. CASE i < n
    BY <2>1, <2>2, <2>4 DEF CallsOK
  <2> QED
    BY <1>1, <2>1, <2>3, <2>4
<1>4. ASSUME NEW i \in 1..(n + 1), NEW j \in 1..(n + 1), i < j, Inside(gs[i])
      PROVE  ~gs[j].trap /\ gs[j].at \in Above
  <2>1. i \in 1..n /\ gs[i] = fs[i]
    BY <1>1, <1>4
  <2>2. CASE j = n + 1
    BY <1>1, <2>2
  <2>3. CASE j # n + 1
    <3>1. j \in 1..n /\ gs[j] = fs[j]
      BY <1>1, <2>3
    <3> QED
      BY <1>4, <2>1, <3>1 DEF CallsOK, Above
  <2> QED
    BY <2>2, <2>3
<1> QED
  BY <1>1, <1>2, <1>3, <1>4 DEF CallsOK, Above

\* The innermost call ends.
LEMMA PopCalls ==
  ASSUME NEW fs, NEW gs, Popped(fs, gs), CallsOK(fs)
  PROVE  CallsOK(gs)
<1> PICK n : n = Len(fs)
  OBVIOUS
<1>1. n \in Nat \ {0} /\ Len(gs) = n - 1 /\ \A i \in 1..(n - 1) : gs[i] = fs[i] /\ i \in 1..n /\ i < n
  BY DEF Popped
<1> QED
  BY <1>1 DEF CallsOK

\* The guard key and the innermost call.
LEMMA GuardTop ==
  ASSUME NEW fs, NEW g, Len(fs) \in Nat \ {0}
  PROVE  GuardOK(fs, g) <=> (g <=> InsideBelow(fs) \/ Inside(fs[Len(fs)]))
<1> PICK n : n = Len(fs)
  OBVIOUS
<1>1. \A i \in 1..n : i = n \/ i < n
  OBVIOUS
<1>2. n \in 1..n
  OBVIOUS
<1> QED
  BY <1>1, <1>2 DEF GuardOK, InsideBelow

\* The guard key when the innermost call moves to another place.
LEMMA GuardReplaced ==
  ASSUME NEW fs, NEW gs, NEW fr, Replaced(fs, gs, fr), NEW g,
         g <=> InsideBelow(fs) \/ Inside(fr)
  PROVE  GuardOK(gs, g)
<1>1. Len(gs) \in Nat \ {0} /\ Len(gs) = Len(fs) /\ gs[Len(gs)] = fr
  BY DEF Replaced
<1>2. \A i \in 1..Len(fs) : i < Len(fs) => gs[i] = fs[i]
  BY DEF Replaced
<1>3. InsideBelow(gs) <=> InsideBelow(fs)
  BY <1>1, <1>2 DEF InsideBelow
<1> QED
  BY <1>1, <1>3, GuardTop

\* The guard key when a call begins.
LEMMA GuardGrown ==
  ASSUME NEW fs, NEW gs, NEW fr, Grown(fs, gs, fr), ~Inside(fr), NEW g, GuardOK(fs, g)
  PROVE  GuardOK(gs, g)
<1> PICK n : n = Len(fs)
  OBVIOUS
<1>1. n \in Nat /\ Len(gs) = n + 1 /\ gs[n + 1] = fr
  BY DEF Grown
<1>2. \A i \in 1..n : i \in 1..(n + 1) /\ gs[i] = fs[i]
  BY DEF Grown
<1>3. \A i \in 1..(n + 1) : i = n + 1 \/ i \in 1..n
  BY <1>1
<1> QED
  BY <1>1, <1>2, <1>3 DEF GuardOK

\* The guard key when the innermost call ends.
LEMMA GuardPopped ==
  ASSUME NEW fs, NEW gs, Popped(fs, gs), NEW g, g <=> InsideBelow(fs)
  PROVE  GuardOK(gs, g)
<1> PICK n : n = Len(fs)
  OBVIOUS
<1>1. n \in Nat \ {0} /\ Len(gs) = n - 1 /\ \A i \in 1..(n - 1) : gs[i] = fs[i]
  BY DEF Popped
<1>2. \A i \in Int : i \in 1..(n - 1) <=> i \in 1..n /\ i < n
  BY <1>1
<1> QED
  BY <1>1, <1>2 DEF GuardOK, InsideBelow

\* A call inside the interceptor, or whose return is trapped, has none below it
\* that is inside.
LEMMA NoneBelow ==
  ASSUME NEW fs, Len(fs) \in Nat \ {0}, CallsOK(fs), InsideBelow(fs)
  PROVE  ~fs[Len(fs)].trap /\ fs[Len(fs)].at \in Above /\ ~Inside(fs[Len(fs)])
<1>1. PICK i \in 1..Len(fs) : i < Len(fs) /\ Inside(fs[i])
  BY DEF InsideBelow
<1>2. Len(fs) \in 1..Len(fs)
  OBVIOUS
<1>3. ~fs[Len(fs)].trap /\ fs[Len(fs)].at \in Above
  BY <1>1, <1>2 DEF CallsOK, Above
<1> QED
  BY <1>3 DEF Above, Inside

-----------------------------------------------------------------------------
\* The invocation stack when the innermost call keeps its invocation or has
\* none.
LEMMA EntriesKept ==
  ASSUME NEW fs, NEW gs, NEW fr, Replaced(fs, gs, fr), NEW st, EntriesOK(fs, st),
         HasInvocation(fr) <=> HasInvocation(fs[Len(fs)]), fr.ctx = fs[Len(fs)].ctx
  PROVE  EntriesOK(gs, st)
<1>1. \A i \in 1..Len(fs) : /\ HasInvocation(gs[i]) <=> HasInvocation(fs[i])
                            /\ gs[i].ctx = fs[i].ctx
  BY DEF Replaced
<1>2. Len(gs) = Len(fs)
  BY DEF Replaced
<1> QED
  BY <1>1, <1>2 DEF EntriesOK

\* The innermost call's entry is the top one.
LEMMA EntriesTop ==
  ASSUME NEW fs, NEW st \in Seq(Invocation), Len(fs) \in Nat \ {0},
         EntriesOK(fs, st), HasInvocation(fs[Len(fs)])
  PROVE  /\ st # <<>> /\ Len(st) \in Nat \ {0}
         /\ st[Len(st)].frame = Len(fs) /\ st[Len(st)].ctx = fs[Len(fs)].ctx
<1>1. Len(fs) \in 1..Len(fs) /\ Len(st) \in Nat
  BY LenProperties
<1>2. PICK j \in 1..Len(st) : st[j].frame = Len(fs)
  BY <1>1 DEF EntriesOK
<1>3. Len(st) \in 1..Len(st)
  BY <1>1, <1>2
<1>4. st[Len(st)].frame \in 1..Len(fs)
  BY <1>3 DEF EntriesOK
<1>5. j = Len(st)
  <2> SUFFICES ASSUME j < Len(st)
               PROVE  FALSE
    BY <1>1, <1>2
  <2>1. st[j].frame < st[Len(st)].frame
    BY <1>2, <1>3 DEF EntriesOK
  <2> QED
    BY <1>1, <1>2, <1>4, <2>1
<1>6. st[Len(st)].ctx = fs[Len(fs)].ctx
  BY <1>2, <1>3, <1>5 DEF EntriesOK
<1>7. st # <<>>
  BY <1>1, <1>3, EmptySeq
<1> QED
  BY <1>1, <1>2, <1>3, <1>5, <1>6, <1>7

\* The invocation stack when only the mark of its top entry changes.
LEMMA EntriesMarked ==
  ASSUME NEW fs, NEW st, NEW su, NEW e, EntriesOK(fs, st), Replaced(st, su, e),
         e.frame = st[Len(st)].frame, e.ctx = st[Len(st)].ctx
  PROVE  EntriesOK(fs, su)
<1>1. \A i \in 1..Len(st) : su[i].frame = st[i].frame /\ su[i].ctx = st[i].ctx
  BY DEF Replaced
<1>2. Len(su) = Len(st)
  BY DEF Replaced
<1> QED
  BY <1>1, <1>2, ZenonT(30) DEF EntriesOK

\* The frames of the entries when the innermost call has none.
LEMMA EntriesBelow ==
  ASSUME NEW fs, NEW st, Len(fs) \in Nat \ {0}, EntriesOK(fs, st), ~HasInvocation(fs[Len(fs)])
  PROVE  \A j \in 1..Len(st) : st[j].frame \in 1..(Len(fs) - 1) /\ st[j].frame < Len(fs)
<1>1. \A j \in 1..Len(st) : st[j].frame \in 1..Len(fs) /\ st[j].frame # Len(fs)
  BY DEF EntriesOK
<1> QED
  BY <1>1

\* The invocation stack when begin_invocation pushes.
LEMMA EntriesPush ==
  ASSUME NEW fs, NEW gs, NEW fr, Replaced(fs, gs, fr), NEW st, NEW su, NEW e, Grown(st, su, e),
         EntriesOK(fs, st), ~HasInvocation(fs[Len(fs)]), HasInvocation(fr),
         e.frame = Len(fs), e.ctx = fr.ctx
  PROVE  EntriesOK(gs, su)
<1> PICK n, m : n = Len(fs) /\ m = Len(st)
  OBVIOUS
<1>1. n \in Nat \ {0} /\ Len(gs) = n /\ n \in 1..n /\ gs[n] = fr
  BY DEF Replaced
<1>2. \A i \in 1..n : i # n => gs[i] = fs[i]
  BY DEF Replaced
<1>3. m \in Nat /\ Len(su) = m + 1 /\ su[m + 1] = e /\ m + 1 \in 1..(m + 1)
  BY DEF Grown
<1>4. \A j \in 1..m : j \in 1..(m + 1) /\ su[j] = st[j]
  BY DEF Grown
<1>5. \A j \in 1..m : st[j].frame \in 1..(n - 1) /\ st[j].frame < n
  BY <1>1, EntriesBelow
<1>6. \A j \in 1..m : st[j].frame \in 1..n /\ st[j].frame # n
  BY <1>1, <1>5
<1>7. ASSUME NEW j \in 1..(m + 1)
      PROVE  su[j].frame \in 1..n /\ HasInvocation(gs[su[j].frame]) /\ su[j].ctx = gs[su[j].frame].ctx
  <2>1. CASE j = m + 1
    BY <1>1, <1>3, <2>1
  <2>2. CASE j # m + 1
    <3>1. j \in 1..m
      BY <1>3, <2>2
    <3> QED
      BY <1>2, <1>4, <1>6, <3>1 DEF EntriesOK
  <2> QED
    BY <2>1, <2>2
<1>8. ASSUME NEW i \in 1..n, HasInvocation(gs[i])
      PROVE  \E j \in 1..(m + 1) : su[j].frame = i
  <2>1. CASE i = n
    BY <1>3, <2>1
  <2>2. CASE i # n
    <3>1. PICK j \in 1..m : st[j].frame = i
      BY <1>2, <1>8, <2>2 DEF EntriesOK
    <3> QED
      BY <1>4, <3>1
  <2> QED
    BY <2>1, <2>2
<1>9. ASSUME NEW i \in 1..(m + 1), NEW j \in 1..(m + 1), i < j
      PROVE  su[i].frame < su[j].frame
  <2>1. i \in 1..m
    BY <1>3, <1>9
  <2>2. CASE j = m + 1
    BY <1>3, <1>4, <1>5, <2>1, <2>2
  <2>3. CASE j # m + 1
    <3>1. j \in 1..m
      BY <1>3, <2>3
    <3> QED
      BY <1>4, <1>9, <2>1, <3>1 DEF EntriesOK
  <2> QED
    BY <2>2, <2>3
<1> QED
  BY <1>1, <1>3, <1>7, <1>8, <1>9 DEF EntriesOK

\* The calls of gs are those of fs below the top, and only those have entries.
LEMMA EntriesPop ==
  ASSUME NEW fs, NEW gs, Len(fs) \in Nat \ {0},
         Len(gs) \in {Len(fs), Len(fs) - 1},
         \A i \in 1..(Len(fs) - 1) : gs[i] = fs[i],
         Len(gs) = Len(fs) => ~HasInvocation(gs[Len(fs)]),
         NEW st \in Seq(Invocation), NEW su, Popped(st, su), EntriesOK(fs, st), HasInvocation(fs[Len(fs)])
  PROVE  EntriesOK(gs, su)
<1> PICK n, m : n = Len(fs) /\ m = Len(st)
  OBVIOUS
<1>1. m \in Nat \ {0} /\ Len(su) = m - 1 /\ \A j \in 1..(m - 1) : su[j] = st[j] /\ j \in 1..m /\ j < m
  BY DEF Popped
<1>2. st[m].frame = n /\ m \in 1..m
  BY <1>1, EntriesTop
<1>3. ASSUME NEW j \in 1..(m - 1)
      PROVE  su[j].frame \in 1..(n - 1)
  <2>1. st[j].frame < st[m].frame /\ st[j].frame \in 1..n
    BY <1>1, <1>2 DEF EntriesOK
  <2> QED
    BY <1>1, <1>2, <2>1
<1>4. \A i \in 1..(n - 1) : i \in 1..n /\ i \in 1..Len(gs)
  OBVIOUS
<1>5. ASSUME NEW j \in 1..(m - 1)
      PROVE  /\ su[j].frame \in 1..Len(gs)
             /\ HasInvocation(gs[su[j].frame]) /\ su[j].ctx = gs[su[j].frame].ctx
  <2> PICK f : f = su[j].frame
    OBVIOUS
  <2>1. f \in 1..(n - 1) /\ f \in 1..Len(gs) /\ gs[f] = fs[f]
    BY <1>3, <1>4
  <2>2. su[j] = st[j] /\ j \in 1..m
    BY <1>1
  <2>3. HasInvocation(fs[f]) /\ su[j].ctx = fs[f].ctx
    BY <2>2 DEF EntriesOK
  <2> QED
    BY <2>1, <2>3
<1>6. ASSUME NEW i \in 1..Len(gs), HasInvocation(gs[i])
      PROVE  \E j \in 1..(m - 1) : su[j].frame = i
  <2>1. i \in 1..(n - 1)
    BY <1>6
  <2>2. gs[i] = fs[i] /\ i \in 1..n /\ i # n
    BY <2>1
  <2>3. PICK j \in 1..m : st[j].frame = i
    BY <1>6, <2>2 DEF EntriesOK
  <2>4. j \in 1..(m - 1)
    BY <1>1, <1>2, <2>2, <2>3
  <2> QED
    BY <1>1, <2>3, <2>4
<1>7. \A i, j \in 1..(m - 1) : i < j => su[i].frame < su[j].frame
  BY <1>1 DEF EntriesOK
<1> QED
  BY <1>1, <1>5, <1>6, <1>7 DEF EntriesOK

\* The invocation stack when a call without an invocation ends.
LEMMA EntriesFramePopped ==
  ASSUME NEW fs, NEW gs, Popped(fs, gs), NEW st, EntriesOK(fs, st), ~HasInvocation(fs[Len(fs)])
  PROVE  EntriesOK(gs, st)
<1> PICK n : n = Len(fs)
  OBVIOUS
<1>1. n \in Nat \ {0} /\ Len(gs) = n - 1 /\ \A i \in 1..(n - 1) : gs[i] = fs[i] /\ i \in 1..n
  BY DEF Popped
<1>2. \A j \in 1..Len(st) : st[j].frame \in 1..(n - 1)
  BY <1>1, EntriesBelow
<1> QED
  BY <1>1, <1>2 DEF EntriesOK

\* The invocation stack when a call begins.
LEMMA EntriesFrameGrown ==
  ASSUME NEW fs, NEW gs, NEW fr, Grown(fs, gs, fr), NEW st, EntriesOK(fs, st), ~HasInvocation(fr)
  PROVE  EntriesOK(gs, st)
<1> PICK n : n = Len(fs)
  OBVIOUS
<1>1. n \in Nat /\ Len(gs) = n + 1 /\ gs[n + 1] = fr
  BY DEF Grown
<1>2. \A i \in 1..n : i \in 1..(n + 1) /\ gs[i] = fs[i]
  BY DEF Grown
<1>3. \A i \in 1..(n + 1) : i = n + 1 \/ i \in 1..n
  BY <1>1
<1> QED
  BY <1>1, <1>2, <1>3 DEF EntriesOK

-----------------------------------------------------------------------------
(* Steps that change a usage counter at most.                              *)

SameContext(x, y) ==
  /\ x.state = "unborn" => y = x
  /\ y.state = x.state /\ y.address = x.address /\ y.activated = x.activated
  /\ y.destroyed = x.destroyed /\ y.arrays = x.arrays /\ y.freed = x.freed
  /\ y.replacement = x.replacement /\ y.overwritten = x.overwritten

SameButUsage(cx, cy) ==
  cy \in [Ctx -> Context] /\ \A c \in Ctx : SameContext(cx[c], cy[c])

WithUsage(cx, c, k) == [cx EXCEPT ![c].usage = @ + k]

\* What counting a call up or down changes.
LEMMA AddUsageProps ==
  ASSUME NEW cx \in [Ctx -> Context], NEW c \in Ctx, cx[c].state = "live", NEW k \in Int,
         NEW cy, cy = WithUsage(cx, c, k)
  PROVE  /\ SameButUsage(cx, cy) /\ cy[c].usage = cx[c].usage + k
         /\ \A d \in Ctx : d # c => cy[d] = cx[d]
<1> PICK x : x = cx[c]
  OBVIOUS
<1> PICK y : y = [x EXCEPT !.usage = @ + k]
  OBVIOUS
<1>1. x \in Context /\ x.usage \in Int /\ x.usage + k \in Int
  BY DEF Context
<1>2. y \in Context
  BY <1>1 DEF Context
<1>3. y.usage = x.usage + k /\ SameContext(x, y)
  BY <1>1 DEF Context, SameContext
<1>4. cy = [cx EXCEPT ![c] = y]
  BY DEF WithUsage
<1>5. cy[c] = y /\ \A d \in Ctx : d # c => cy[d] = cx[d]
  BY <1>4
<1>6. cy \in [Ctx -> Context]
  BY <1>2, <1>4
<1>7. ASSUME NEW d \in Ctx
      PROVE  SameContext(cx[d], cy[d])
  <2>1. CASE d = c
    BY <1>3, <1>5, <2>1
  <2>2. CASE d # c
    <3>1. cy[d] = cx[d]
      BY <1>5, <2>2
    <3> QED
      BY <3>1 DEF SameContext
  <2> QED
    BY <2>1, <2>2
<1> QED
  BY <1>3, <1>5, <1>6, <1>7 DEF SameButUsage

\* The updates and tasks of a transaction are updates and tasks of contexts.
LEMMA TransactionTypes ==
  ASSUME NEW tx \in Transaction
  PROVE  /\ tx.updates \in Seq(Update) /\ tx.destroys \in Seq(Task)
         /\ \A i \in 1..Len(tx.updates) : tx.updates[i] \in Update /\ tx.updates[i].ctx \in Ctx
         /\ \A i \in 1..Len(tx.destroys) : tx.destroys[i] \in Task
<1>1. tx.updates \in Seq(Update) /\ tx.destroys \in Seq(Task)
  BY DEF Transaction
<1>2. \A i \in 1..Len(tx.updates) : tx.updates[i] \in Update
  BY <1>1, ElementOfSeq
<1>3. \A i \in 1..Len(tx.destroys) : tx.destroys[i] \in Task
  BY <1>1, ElementOfSeq
<1>4. \A u \in Update : u.ctx \in Ctx
  BY DEF Update
<1> QED
  BY <1>1, <1>2, <1>3, <1>4

\* Counting does not touch what the interceptor's data is required to be.
LEMMA UsageData ==
  ASSUME NEW tb, NEW pr, NEW cx, NEW cy, NEW tx, NEW jb,
         DataOK(tb, pr, cx, tx, jb), SameButUsage(cx, cy)
  PROVE  DataOK(tb, pr, cy, tx, jb)
<1>1. Shape(tb, pr, cx, tx, jb) /\ cy \in [Ctx -> Context]
  BY DEF DataOK, SameButUsage
<1>2. \A c \in Ctx : SameContext(cx[c], cy[c])
  BY DEF SameButUsage
<1>3. Shape(tb, pr, cy, tx, jb)
  BY <1>1 DEF Shape
<1>4. ContextsOK(cy)
  <2>1. ASSUME NEW c \in Ctx
        PROVE  ContextOK(c, cy[c])
    <3>1. ContextOK(c, cx[c]) /\ SameContext(cx[c], cy[c])
      BY <1>2 DEF DataOK, ContextsOK
    <3> QED
      BY <3>1 DEF ContextOK, SameContext, Entries
  <2>2. \A c \in Ctx : cy[c].state = cx[c].state
    BY <1>2 DEF SameContext
  <2> QED
    BY <2>1, <2>2 DEF DataOK, ContextsOK
<1>5. TableOK(tb, cy)
  BY <1>1, <1>2 DEF DataOK, TableOK, SameContext, Shape
<1>6. PrologueOK(pr, cy)
  BY <1>1, <1>2 DEF DataOK, PrologueOK, SameContext, Shape
<1>7. ASSUME NEW task \in Task
      PROVE  task.ctx \in Ctx /\ (TaskOK(task, cx) => TaskOK(task, cy))
  <2>1. task.ctx \in Ctx
    BY DEF Task
  <2> QED
    BY <1>2, <2>1 DEF TaskOK, SameContext
<1>8. TransactionOK(tx, cy)
  <2>1. tx \in Transaction
    BY <1>1 DEF Shape
  <2>2. \A i \in 1..Len(tx.updates) : tx.updates[i].ctx \in Ctx
    BY <2>1, TransactionTypes
  <2>3. \A i \in 1..Len(tx.destroys) : tx.destroys[i] \in Task
    BY <2>1, TransactionTypes
  <2>4. TransactionOK(tx, cx)
    BY DEF DataOK
  <2>5. \A i \in 1..Len(tx.updates) : cy[tx.updates[i].ctx].state # "unborn"
    BY <1>2, <2>2, <2>4 DEF TransactionOK, SameContext
  <2>6. \A c \in Ctx : cy[c].destroyed /\ cy[c].activated =>
          Member(tx.updates, [ctx |-> c, activate |-> FALSE])
    BY <1>2, <2>4 DEF TransactionOK, SameContext
  <2>7. \A i \in 1..Len(tx.destroys) : TaskOK(tx.destroys[i], cy)
    BY <1>7, <2>3, <2>4 DEF TransactionOK
  <2> QED
    BY <2>5, <2>6, <2>7 DEF TransactionOK
<1>9. ASSUME NEW k \in Controller
      PROVE  JobOK(jb[k], cy)
  <2>1. jb[k].tasks \in Seq(Task)
    BY <1>1 DEF Shape, Job
  <2>2. \A i \in 1..Len(jb[k].tasks) : jb[k].tasks[i] \in Task
    BY <2>1, ElementOfSeq
  <2>3. JobOK(jb[k], cx)
    BY DEF DataOK
  <2>4. ASSUME NEW i \in 1..Len(jb[k].tasks)
        PROVE  /\ TaskOK(jb[k].tasks[i], cy)
               /\ jb[k].tasks[i].kind = "context" => ~cy[jb[k].tasks[i].ctx].activated
    <3>1. TaskOK(jb[k].tasks[i], cy) /\ jb[k].tasks[i].ctx \in Ctx
      BY <1>7, <2>2, <2>3 DEF JobOK
    <3> QED
      BY <1>2, <2>3, <3>1 DEF JobOK, SameContext
  <2> QED
    BY <2>3, <2>4 DEF JobOK
<1> QED
  BY <1>3, <1>4, <1>5, <1>6, <1>8, <1>9 DEF DataOK

\* Counting does not touch what a call requires of its context.
LEMMA UsageFrame ==
  ASSUME NEW fr \in Frame, NEW cx, NEW cy, NEW tx, NEW jb,
         FrameOK(fr, cx, tx, jb), SameButUsage(cx, cy)
  PROVE  FrameOK(fr, cy, tx, jb)
<1> SUFFICES ASSUME fr.ctx # 0
             PROVE  /\ FrameIn(fr, cy[fr.ctx])
                    /\ Counted(fr) /\ fr.early =>
                         /\ \A k \in Controller : jb[k].at = "notify" => Spares(jb[k].tasks[1], fr)
                         /\ Iterating(fr) => \A l \in Listener : Uses(fr, l, cy[fr.ctx]) => Held(fr.ctx, l, cy, tx, jb)
  BY DEF FrameOK
<1>1. fr.ctx \in Ctx
  BY DEF Frame
<1>2. SameContext(cx[fr.ctx], cy[fr.ctx])
  BY <1>1 DEF SameButUsage
<1>3. FrameIn(fr, cy[fr.ctx])
  BY <1>2 DEF FrameOK, FrameIn, SameContext
<1>4. \A l \in Listener : Uses(fr, l, cy[fr.ctx]) => Uses(fr, l, cx[fr.ctx])
  BY <1>2 DEF Uses, SameContext
<1>5. \A l \in Listener : Held(fr.ctx, l, cx, tx, jb) => Held(fr.ctx, l, cy, tx, jb)
  BY <1>2 DEF Held, SameContext, Entries
<1> QED
  BY <1>3, <1>4, <1>5 DEF FrameOK

-----------------------------------------------------------------------------
(* A step of a thread.                                                     *)

\* What happens to the counter of context c when one of its calls that was (or
\* was not) counted is (or is not) counted afterwards.
UsageStep(c, was, is) ==
  \/ ctx' = ctx /\ ((is <=> was) \/ ~Live(c))
  \/ Live(c) /\ is /\ ~was /\ ctx' = WithUsage(ctx, c, 1)
  \/ Live(c) /\ ~is /\ was /\ ctx' = WithUsage(ctx, c, (-1))

\* Contexts whose counters do not change.
LEMMA SameUsage ==
  ASSUME NEW cx \in [Ctx -> Context]
  PROVE  SameButUsage(cx, cx)
  BY DEF SameButUsage, SameContext

\* The contexts after a step that counts, or does not count, a call.
LEMMA UsageStepProps ==
  ASSUME ctx \in [Ctx -> Context], NEW c, NEW was, NEW is, UsageStep(c, was, is)
  PROVE  /\ SameButUsage(ctx, ctx')
         /\ \A d \in Ctx :
              /\ ctx'[d].state = ctx[d].state
              /\ ctx[d].state # "live" => ctx'[d].usage = ctx[d].usage
              /\ ctx[d].state = "live" =>
                   ctx'[d].usage = ctx[d].usage + Bit(d = c /\ is) - Bit(d = c /\ was)
<1>0. \A d \in Ctx : ctx[d].usage \in Int
  BY DEF Context
<1>1. CASE ctx' = ctx /\ ((is <=> was) \/ ~Live(c))
  <2>1. SameButUsage(ctx, ctx')
    BY <1>1, SameUsage
  <2>2. ASSUME NEW d \in Ctx, ctx[d].state = "live"
        PROVE  Bit(d = c /\ is) = Bit(d = c /\ was) /\ Bit(d = c /\ was) \in Int
    BY <1>1, <2>2 DEF Bit, Live
  <2> QED
    BY <1>0, <1>1, <2>1, <2>2
<1>2. CASE Live(c) /\ is /\ ~was /\ ctx' = WithUsage(ctx, c, 1)
  <2>1. c \in Ctx /\ ctx[c].state = "live" /\ 1 \in Int
    BY <1>2 DEF Live
  <2>2. /\ SameButUsage(ctx, ctx') /\ ctx'[c].usage = ctx[c].usage + 1
        /\ \A d \in Ctx : d # c => ctx'[d] = ctx[d]
    BY <1>2, <2>1, AddUsageProps
  <2>3. Bit(c = c /\ is) = 1 /\ Bit(c = c /\ was) = 0
    BY <1>2 DEF Bit
  <2>4. \A d \in Ctx : d # c => Bit(d = c /\ is) = 0 /\ Bit(d = c /\ was) = 0
    BY DEF Bit
  <2>5. \A d \in Ctx : ctx'[d].state = ctx[d].state
    BY <2>2 DEF SameButUsage, SameContext
  <2> QED
    BY <1>0, <2>1, <2>2, <2>3, <2>4, <2>5
<1>3. CASE Live(c) /\ ~is /\ was /\ ctx' = WithUsage(ctx, c, (-1))
  <2>1. c \in Ctx /\ ctx[c].state = "live" /\ -1 \in Int
    BY <1>3 DEF Live
  <2>2. /\ SameButUsage(ctx, ctx') /\ ctx'[c].usage = ctx[c].usage + (-1)
        /\ \A d \in Ctx : d # c => ctx'[d] = ctx[d]
    BY <1>3, <2>1, AddUsageProps
  <2>3. Bit(c = c /\ is) = 0 /\ Bit(c = c /\ was) = 1
    BY <1>3 DEF Bit
  <2>4. \A d \in Ctx : d # c => Bit(d = c /\ is) = 0 /\ Bit(d = c /\ was) = 0
    BY DEF Bit
  <2>5. \A d \in Ctx : ctx'[d].state = ctx[d].state
    BY <2>2 DEF SameButUsage, SameContext
  <2> QED
    BY <1>0, <2>1, <2>2, <2>3, <2>4, <2>5
<1> QED
  BY <1>1, <1>2, <1>3 DEF UsageStep

\* A step of one thread keeps the invariant when its own calls, its stack and
\* the counters are right.
LEMMA ThreadStep ==
  ASSUME IInv, NEW t \in Thread,
         NEW gs \in Seq(Frame), NEW su \in Seq(Invocation), NEW h \in BOOLEAN,
         frames' = [frames EXCEPT ![t] = gs], stack' = [stack EXCEPT ![t] = su],
         guardKey' = [guardKey EXCEPT ![t] = h], UNCHANGED <<table, prologue, txn, lock, job>>,
         ThreadOK(gs, su, h), SameButUsage(ctx, ctx'), CountOK',
         \A i \in 1..Len(gs) : FrameOK(gs[i], ctx, txn, job)
  PROVE  IInv'
<1>1. /\ frames \in [Thread -> Seq(Frame)] /\ stack \in [Thread -> Seq(Invocation)]
      /\ guardKey \in [Thread -> BOOLEAN]
  BY DEF IInv
<1>2. /\ frames' \in [Thread -> Seq(Frame)] /\ stack' \in [Thread -> Seq(Invocation)]
      /\ guardKey' \in [Thread -> BOOLEAN]
  BY <1>1
<1>3. DataOK(table, prologue, ctx', txn, job)
  BY UsageData DEF IInv
<1>4. \A u \in Thread : ThreadOK(frames'[u], stack'[u], guardKey'[u])
  BY <1>1 DEF IInv
<1>5. ASSUME NEW u \in Thread, NEW i \in 1..Len(frames'[u])
      PROVE  FrameOK(frames'[u][i], ctx', txn, job)
  <2>1. frames'[u][i] \in Frame
    BY <1>2, ElementOfSeq
  <2>2. FrameOK(frames'[u][i], ctx, txn, job)
    BY <1>1 DEF IInv
  <2> QED
    BY <2>1, <2>2, UsageFrame
<1> QED
  BY <1>2, <1>3, <1>4, <1>5 DEF IInv

\* The facts about a thread and its innermost call.
LEMMA TopFacts ==
  ASSUME IInv, NEW t \in Thread, frames[t] # <<>>
  PROVE  /\ frames[t] \in Seq(Frame) /\ stack[t] \in Seq(Invocation) /\ guardKey[t] \in BOOLEAN
         /\ Len(frames[t]) \in 1..MaxDepth /\ Len(frames[t]) \in Nat \ {0}
         /\ Top(t) = frames[t][Len(frames[t])] /\ Top(t) \in Frame /\ At(t) = Top(t).at
         /\ CallsOK(frames[t]) /\ PlaceOK(Top(t))
         /\ FrameOK(Top(t), ctx, txn, job)
         /\ At(t) # "undefined" => /\ GuardOK(frames[t], guardKey[t])
                                   /\ EntriesOK(frames[t], stack[t])
         /\ DOMAIN frames[t] = 1..Len(frames[t])
         /\ \A i \in 1..Len(frames[t]) : FrameOK(frames[t][i], ctx, txn, job)
<1>1. /\ frames[t] \in Seq(Frame) /\ stack[t] \in Seq(Invocation) /\ guardKey[t] \in BOOLEAN
      /\ ThreadOK(frames[t], stack[t], guardKey[t])
      /\ \A i \in 1..Len(frames[t]) : FrameOK(frames[t][i], ctx, txn, job)
  BY DEF IInv
<1>2. Len(frames[t]) \in Nat \ {0} /\ Last(frames[t]) = frames[t][Len(frames[t])] /\ Last(frames[t]) \in Frame
  BY <1>1, FrontProps
<1>3. Len(frames[t]) <= MaxDepth /\ CallsOK(frames[t])
  BY <1>1 DEF ThreadOK
<1>4. Len(frames[t]) \in 1..MaxDepth /\ Len(frames[t]) \in 1..Len(frames[t])
  BY <1>2, <1>3, BoundsAssumption
<1>5. Top(t) = frames[t][Len(frames[t])] /\ At(t) = Top(t).at
  BY <1>2 DEF Top, At
<1>6. PlaceOK(Top(t)) /\ FrameOK(Top(t), ctx, txn, job)
  BY <1>1, <1>3, <1>4, <1>5 DEF CallsOK
<1>7. At(t) # "undefined" => GuardOK(frames[t], guardKey[t]) /\ EntriesOK(frames[t], stack[t])
  BY <1>1, <1>5 DEF ThreadOK
<1>8. DOMAIN frames[t] = 1..Len(frames[t])
  BY <1>1, LenProperties
<1>9. Top(t) \in Frame
  BY <1>2 DEF Top
<1> QED
  BY <1>1, <1>2, <1>3, <1>4, <1>5, <1>6, <1>7, <1>8, <1>9

\* The innermost call moves on.
LEMMA TopStep ==
  ASSUME IInv, NEW t \in Thread, frames[t] # <<>>,
         NEW fr \in Frame, NEW gs \in Seq(Frame), Replaced(frames[t], gs, fr),
         frames' = [frames EXCEPT ![t] = gs],
         NEW su \in Seq(Invocation), stack' = [stack EXCEPT ![t] = su],
         NEW h \in BOOLEAN, guardKey' = [guardKey EXCEPT ![t] = h],
         UNCHANGED <<table, prologue, txn, lock, job>>,
         fr.ctx = Top(t).ctx, UsageStep(Top(t).ctx, Counted(Top(t)), Counted(fr)),
         PlaceOK(fr), InsideBelow(frames[t]) => ~fr.trap /\ fr.at \in Above,
         fr.at # "undefined" => GuardOK(gs, h) /\ EntriesOK(gs, su),
         FrameOK(fr, ctx, txn, job)
  PROVE  IInv'
<1> PICK fs, n, tp : fs = frames[t] /\ n = Len(frames[t]) /\ tp = Top(t)
  OBVIOUS
<1>1. /\ n \in 1..MaxDepth /\ n \in Nat \ {0} /\ CallsOK(fs) /\ DOMAIN fs = 1..n
      /\ tp = fs[n] /\ \A i \in 1..n : FrameOK(fs[i], ctx, txn, job)
  BY TopFacts
<1>2. Len(gs) = n /\ gs[n] = fr /\ \A i \in 1..n : i # n => gs[i] = fs[i]
  BY DEF Replaced
<1>3. DOMAIN gs = 1..n
  BY <1>2, LenProperties
<1>4. CallsOK(gs)
  BY <1>1, ReplaceCalls
<1>5. n <= MaxDepth
  BY <1>1
<1>6. ThreadOK(gs, su, h)
  <2>1. gs # <<>>
    BY <1>1, <1>2, EmptySeq
  <2> QED
    BY <1>2, <1>4, <1>5, <2>1 DEF ThreadOK
<1>7. ctx \in [Ctx -> Context] /\ CountOK /\ frames \in [Thread -> Seq(Frame)]
  BY DEF IInv, DataOK, Shape
<1>8. /\ SameButUsage(ctx, ctx')
      /\ \A d \in Ctx :
           /\ ctx'[d].state = ctx[d].state
           /\ ctx[d].state # "live" => ctx'[d].usage = ctx[d].usage
           /\ ctx[d].state = "live" =>
                ctx'[d].usage = ctx[d].usage + Bit(d = tp.ctx /\ Counted(fr)) - Bit(d = tp.ctx /\ Counted(tp))
  BY <1>7, UsageStepProps
<1>9. frames'[t] = gs /\ \A u \in Thread : u # t => frames'[u] = frames[u]
  BY <1>7
<1>10. ASSUME NEW c \in Ctx
       PROVE  /\ \A i \in 1..MaxDepth : i # n => (CountsAt(frames'[t], i, c) <=> CountsAt(frames[t], i, c))
              /\ Bit(CountsAt(frames'[t], n, c)) = Bit(c = tp.ctx /\ Counted(fr))
              /\ Bit(CountsAt(frames[t], n, c)) = Bit(c = tp.ctx /\ Counted(tp))
  <2>1. \A i \in 1..MaxDepth : i # n => (CountsAt(gs, i, c) <=> CountsAt(fs, i, c))
    BY <1>1, <1>2, <1>3 DEF CountsAt
  <2>2. CountsAt(gs, n, c) <=> c = tp.ctx /\ Counted(fr)
    BY <1>1, <1>2, <1>3 DEF CountsAt
  <2>3. CountsAt(fs, n, c) <=> c = tp.ctx /\ Counted(tp)
    BY <1>1, <1>2, <1>3 DEF CountsAt
  <2> QED
    BY <1>9, <2>1, <2>2, <2>3 DEF Bit
<1>11. CountOK'
  BY <1>1, <1>7, <1>8, <1>9, <1>10, CountStep
<1>12. \A i \in 1..Len(gs) : FrameOK(gs[i], ctx, txn, job)
  BY <1>1, <1>2
<1> QED
  BY <1>6, <1>8, <1>11, <1>12, ThreadStep

\* A listener that a call is about to call is one it could call before.
KeepsUses(tp, fr, x) ==
  \A l \in Listener : Iterating(fr) /\ fr.running = l => Uses(tp, l, x)

\* A call that moves on, counted and going over an array only if it was before.
LEMMA MovedFrame ==
  ASSUME NEW tp, NEW fr, NEW cx, NEW tx, NEW jb, FrameOK(tp, cx, tx, jb),
         fr.ctx = tp.ctx, fr.early = tp.early, fr.version = tp.version,
         Counted(fr) => Counted(tp), Iterating(fr) => Iterating(tp),
         KeepsUses(tp, fr, cx[tp.ctx])
  PROVE  FrameOK(fr, cx, tx, jb)
<1> SUFFICES ASSUME fr.ctx # 0
             PROVE  /\ FrameIn(fr, cx[fr.ctx])
                    /\ Counted(fr) /\ fr.early =>
                         /\ \A k \in Controller : jb[k].at = "notify" => Spares(jb[k].tasks[1], fr)
                         /\ Iterating(fr) => \A l \in Listener : Uses(fr, l, cx[fr.ctx]) => Held(fr.ctx, l, cx, tx, jb)
  BY DEF FrameOK
<1>1. /\ FrameIn(tp, cx[tp.ctx])
      /\ Counted(tp) /\ tp.early =>
           /\ \A k \in Controller : jb[k].at = "notify" => Spares(jb[k].tasks[1], tp)
           /\ Iterating(tp) => \A l \in Listener : Uses(tp, l, cx[tp.ctx]) => Held(tp.ctx, l, cx, tx, jb)
  BY DEF FrameOK
<1>2. FrameIn(fr, cx[fr.ctx])
  BY <1>1 DEF FrameIn
<1>3. \A task : Spares(task, tp) => Spares(task, fr)
  BY DEF Spares
<1>4. Iterating(fr) => \A l \in Listener : Uses(fr, l, cx[fr.ctx]) => Uses(tp, l, cx[tp.ctx])
  BY DEF Uses, KeepsUses
<1> QED
  BY <1>1, <1>2, <1>3, <1>4

\* The innermost call moves on without touching the invocation stack.
LEMMA QuietStep ==
  ASSUME IInv, NEW t \in Thread, frames[t] # <<>>, At(t) # "undefined",
         NEW fr \in Frame, SetTop(t, fr),
         UNCHANGED <<table, prologue, txn, lock, job, stack, guardKey>>,
         fr.ctx = Top(t).ctx, fr.trap = Top(t).trap,
         UsageStep(Top(t).ctx, Counted(Top(t)), Counted(fr)),
         PlaceOK(fr), HasInvocation(fr) <=> HasInvocation(Top(t)), Inside(fr) <=> Inside(Top(t)),
         Top(t).at \in Above => fr.at \in Above,
         FrameOK(fr, ctx, txn, job)
  PROVE  IInv'
<1> PICK fs, gs : fs = frames[t] /\ gs = Append(Front(frames[t]), fr)
  OBVIOUS
<1>1. /\ fs \in Seq(Frame) /\ stack[t] \in Seq(Invocation) /\ guardKey[t] \in BOOLEAN
      /\ Len(fs) \in Nat \ {0} /\ Top(t) = fs[Len(fs)] /\ CallsOK(fs)
      /\ GuardOK(fs, guardKey[t]) /\ EntriesOK(fs, stack[t])
  BY TopFacts
<1>2. gs \in Seq(Frame) /\ Replaced(fs, gs, fr)
  BY <1>1, StackForms
<1>3. frames' = [frames EXCEPT ![t] = gs]
  BY DEF SetTop
<1>4. stack' = [stack EXCEPT ![t] = stack[t]] /\ guardKey' = [guardKey EXCEPT ![t] = guardKey[t]]
  BY DEF IInv
<1>5. InsideBelow(fs) => ~fr.trap /\ fr.at \in Above
  BY <1>1, NoneBelow
<1>6. guardKey[t] <=> InsideBelow(fs) \/ Inside(fr)
  BY <1>1, GuardTop
<1>7. GuardOK(gs, guardKey[t])
  BY <1>2, <1>6, GuardReplaced
<1>8. EntriesOK(gs, stack[t])
  BY <1>1, <1>2, EntriesKept
<1> QED
  BY <1>1, <1>2, <1>3, <1>4, <1>5, <1>7, <1>8, TopStep

\* The guard's jump to the invoke trampoline keeps the invariant.
LEMMA SkipIInv ==
  ASSUME IInv, NEW t \in Thread, Skip(t)
  PROVE  IInv'
<1> PICK tp, fr : tp = Top(t) /\ fr = [Top(t) EXCEPT !.at = "invoke"]
  OBVIOUS
<1>1. /\ At(t) = "guard" /\ SetTop(t, fr)
      /\ UNCHANGED <<table, prologue, ctx, txn, lock, job, stack, guardKey>>
  BY DEF Skip, MoveTo, intercVars
<1>2. frames[t] # <<>>
  BY <1>1 DEF At
<1>3. tp \in Frame /\ tp.at = "guard" /\ PlaceOK(tp) /\ FrameOK(tp, ctx, txn, job)
  BY <1>1, <1>2, TopFacts
<1>4. /\ fr \in Frame /\ fr.at = "invoke" /\ fr.ctx = tp.ctx /\ fr.trap = tp.trap /\ fr.early = tp.early
      /\ fr.version = tp.version /\ fr.running = tp.running /\ fr.notified = tp.notified
      /\ fr.next = tp.next
  BY <1>3 DEF Frame, InTrampoline
<1>5. ~tp.trap /\ ~tp.notified /\ PlaceOK(fr)
  BY <1>3, <1>4 DEF Iterating, PlaceOK
<1>6. ~Counted(fr) /\ ~Counted(tp) /\ ~Inside(fr) /\ ~Inside(tp) /\ ~Iterating(fr)
  BY <1>3, <1>4, <1>5 DEF Counted, Inside, Iterating
<1>7. ~HasInvocation(fr) /\ ~HasInvocation(tp) /\ fr.at \in Above
  BY <1>3, <1>4, <1>5 DEF HasInvocation, Above
<1>8. FrameOK(fr, ctx, txn, job)
  <2>1. KeepsUses(tp, fr, ctx[tp.ctx])
    BY <1>6 DEF KeepsUses
  <2> QED
    BY <1>3, <1>4, <1>6, <2>1, MovedFrame, ZenonT(30)
<1>9. UsageStep(tp.ctx, Counted(tp), Counted(fr))
  BY <1>1, <1>6 DEF UsageStep
<1> QED
  BY <1>1, <1>2, <1>4, <1>5, <1>6, <1>7, <1>8, <1>9, QuietStep

Places == InTrampoline \cup {"body", "replacement", "stray", "undefined"}

Moved(tp, w) == [tp EXCEPT !.at = w]

\* A call that moves changes its place only.
LEMMA MovedFields ==
  ASSUME NEW tp \in Frame, NEW w \in Places, NEW fr, fr = Moved(tp, w)
  PROVE  /\ fr \in Frame /\ fr.at = w /\ fr.ctx = tp.ctx /\ fr.trap = tp.trap /\ fr.early = tp.early
         /\ fr.version = tp.version /\ fr.running = tp.running /\ fr.notified = tp.notified
         /\ fr.next = tp.next
  BY DEF Frame, Places, Moved

\* A call in a live context.
LEMMA UsableFacts ==
  ASSUME IInv, NEW t \in Thread, Usable(t)
  PROVE  /\ Top(t).ctx \in Ctx /\ Live(Top(t).ctx) /\ ctx[Top(t).ctx].state = "live" /\ Top(t).ctx # 0
         /\ ctx[Top(t).ctx] \in Context /\ ContextOK(Top(t).ctx, ctx[Top(t).ctx])
         /\ ctx \in [Ctx -> Context] /\ ctx[Top(t).ctx].arrays # <<>>
<1>1. Top(t).ctx \in Ctx /\ ctx[Top(t).ctx].state = "live" /\ Live(Top(t).ctx)
  BY DEF Usable, Live
<1>2. Top(t).ctx # 0
  BY <1>1, BoundsAssumption DEF Ctx
<1>3. ctx \in [Ctx -> Context] /\ ContextsOK(ctx)
  BY DEF IInv, DataOK, Shape
<1>4. ContextOK(Top(t).ctx, ctx[Top(t).ctx])
  BY <1>1, <1>3 DEF ContextsOK
<1>5. ctx[Top(t).ctx].arrays # <<>>
  BY <1>1, <1>4 DEF ContextOK
<1> QED
  BY <1>1, <1>2, <1>3, <1>4, <1>5

\* The task a controller has found due.
LEMMA DueTask ==
  ASSUME IInv, NEW k \in Controller, job[k].at \in {"notify", "relock"}
  PROVE  /\ job[k] \in Job /\ job[k].tasks \in Seq(Task) /\ job[k].tasks # <<>>
         /\ job[k].tasks[1] \in Task /\ job[k].tasks[1].ctx \in Ctx
         /\ TaskOK(job[k].tasks[1], ctx)
         /\ job[k].tasks[1].kind = "context" => ~ctx[job[k].tasks[1].ctx].activated
<1>1. job[k] \in Job /\ JobOK(job[k], ctx)
  BY DEF IInv, DataOK, Shape
<1>2. job[k].tasks \in Seq(Task) /\ job[k].tasks # <<>>
  BY <1>1 DEF Job, JobOK
<1>3. job[k].tasks[1] \in Task /\ Len(job[k].tasks) \in Nat \ {0}
  BY <1>2, TailMembers
<1>4. 1 \in 1..Len(job[k].tasks)
  BY <1>3
<1>5. \A task \in Task : task.ctx \in Ctx
  BY DEF Task
<1> QED
  BY <1>1, <1>2, <1>3, <1>4, <1>5 DEF JobOK

\* The counting at the head of begin_invocation keeps the invariant.
LEMMA SampleIInv ==
  ASSUME IInv, NEW t \in Thread, Sample(t)
  PROVE  IInv'
<1> PICK tp, fr : tp = Top(t) /\ fr = [Top(t) EXCEPT !.at = "begin", !.early = ~ctx[Top(t).ctx].destroyed]
  OBVIOUS
<1>1. /\ At(t) = "guard" /\ SetTop(t, fr) /\ Usable(t) /\ ctx' = WithUsage(ctx, tp.ctx, 1)
      /\ UNCHANGED <<table, prologue, txn, lock, job, stack, guardKey>>
  BY DEF Sample, AddUsage, WithUsage
<1>2. frames[t] # <<>>
  BY <1>1 DEF At
<1>3. tp \in Frame /\ tp.at = "guard" /\ PlaceOK(tp) /\ FrameOK(tp, ctx, txn, job)
  BY <1>1, <1>2, TopFacts
<1> PICK x : x = ctx[tp.ctx]
  OBVIOUS
<1>4. tp.ctx \in Ctx /\ Live(tp.ctx) /\ x.state = "live" /\ tp.ctx # 0 /\ x \in Context
  BY <1>1, UsableFacts
<1>5. /\ fr \in Frame /\ fr.at = "begin" /\ fr.ctx = tp.ctx /\ fr.trap = tp.trap /\ fr.early = ~x.destroyed
      /\ fr.version = tp.version /\ fr.running = tp.running /\ fr.notified = tp.notified
      /\ fr.next = tp.next
  BY <1>3 DEF Frame, InTrampoline
<1>6. ~tp.trap /\ ~tp.notified /\ tp.running = NoListener /\ PlaceOK(fr)
  BY <1>3, <1>5 DEF Iterating, PlaceOK
<1>7. Counted(fr) /\ ~Counted(tp) /\ ~Inside(fr) /\ ~Inside(tp) /\ ~Iterating(fr)
  BY <1>3, <1>5, <1>6 DEF Counted, Inside, Iterating
<1>8. ~HasInvocation(fr) /\ ~HasInvocation(tp) /\ fr.at \in Above
  BY <1>3, <1>5, <1>6 DEF HasInvocation, Above
<1>9. FrameOK(fr, ctx, txn, job)
  <2>1. FrameIn(fr, x)
    BY <1>4, <1>5, <1>7 DEF FrameIn
  <2>2. ASSUME fr.early, NEW k \in Controller, job[k].at = "notify"
        PROVE  Spares(job[k].tasks[1], fr)
    <3>1. TaskOK(job[k].tasks[1], ctx)
      BY <2>2, DueTask
    <3>2. fr.ctx = job[k].tasks[1].ctx => job[k].tasks[1].kind # "context"
      BY <1>5, <2>2, <3>1 DEF TaskOK
    <3> QED
      BY <1>7, <3>2 DEF Spares
  <2> QED
    BY <1>5, <1>7, <2>1, <2>2 DEF FrameOK
<1>10. UsageStep(tp.ctx, Counted(tp), Counted(fr))
  BY <1>1, <1>4, <1>7 DEF UsageStep
<1> QED
  BY <1>1, <1>2, <1>5, <1>6, <1>7, <1>8, <1>9, <1>10, QuietStep

\* The bypass of begin_invocation keeps the invariant.
LEMMA BypassIInv ==
  ASSUME IInv, NEW t \in Thread, Bypass(t)
  PROVE  IInv'
<1> PICK tp, fr : tp = Top(t) /\ fr = Moved(Top(t), "invoke")
  OBVIOUS
<1>1. /\ At(t) = "begin" /\ SetTop(t, fr) /\ Usable(t) /\ ctx' = WithUsage(ctx, tp.ctx, (-1))
      /\ UNCHANGED <<table, prologue, txn, lock, job, stack, guardKey>>
  BY DEF Bypass, AddUsage, WithUsage, MoveTo, Moved
<1>2. frames[t] # <<>>
  BY <1>1 DEF At
<1>3. tp \in Frame /\ tp.at = "begin" /\ PlaceOK(tp) /\ FrameOK(tp, ctx, txn, job)
  BY <1>1, <1>2, TopFacts
<1>4. Live(tp.ctx)
  BY <1>1, UsableFacts
<1>5. /\ fr \in Frame /\ fr.at = "invoke" /\ fr.ctx = tp.ctx /\ fr.trap = tp.trap /\ fr.early = tp.early
      /\ fr.version = tp.version /\ fr.running = tp.running /\ fr.notified = tp.notified
      /\ fr.next = tp.next
  <2>1. "invoke" \in Places
    BY DEF Places, InTrampoline
  <2> QED
    BY <1>3, <2>1, MovedFields
<1>6. ~tp.trap /\ ~tp.notified /\ PlaceOK(fr)
  BY <1>3, <1>5 DEF Iterating, PlaceOK
<1>7. ~Counted(fr) /\ Counted(tp) /\ ~Inside(fr) /\ ~Inside(tp) /\ ~Iterating(fr)
  BY <1>3, <1>5, <1>6 DEF Counted, Inside, Iterating
<1>8. ~HasInvocation(fr) /\ ~HasInvocation(tp) /\ fr.at \in Above
  BY <1>3, <1>5, <1>6 DEF HasInvocation, Above
<1>9. FrameOK(fr, ctx, txn, job)
  <2>1. KeepsUses(tp, fr, ctx[tp.ctx])
    BY <1>7 DEF KeepsUses
  <2> QED
    BY <1>3, <1>5, <1>7, <2>1, MovedFrame
<1>10. UsageStep(tp.ctx, Counted(tp), Counted(fr))
  BY <1>1, <1>4, <1>7 DEF UsageStep
<1> QED
  BY <1>1, <1>2, <1>5, <1>6, <1>7, <1>8, <1>9, <1>10, QuietStep

\* Running the relocated prologue keeps the invariant.
LEMMA InvokeIInv ==
  ASSUME IInv, NEW t \in Thread, Invoke(t)
  PROVE  IInv'
<1> PICK tp, fr : tp = Top(t) /\ fr = Moved(Top(t), "body")
  OBVIOUS
<1>1. /\ At(t) = "invoke" /\ SetTop(t, fr)
      /\ UNCHANGED <<table, prologue, ctx, txn, lock, job, stack, guardKey>>
  BY DEF Invoke, MoveTo, Moved, intercVars
<1>2. frames[t] # <<>>
  BY <1>1 DEF At
<1>3. tp \in Frame /\ tp.at = "invoke" /\ PlaceOK(tp) /\ FrameOK(tp, ctx, txn, job)
  BY <1>1, <1>2, TopFacts
<1>5. /\ fr \in Frame /\ fr.at = "body" /\ fr.ctx = tp.ctx /\ fr.trap = tp.trap /\ fr.early = tp.early
      /\ fr.version = tp.version /\ fr.running = tp.running /\ fr.notified = tp.notified
      /\ fr.next = tp.next
  <2>1. "body" \in Places
    BY DEF Places
  <2> QED
    BY <1>3, <2>1, MovedFields
<1>6. PlaceOK(fr)
  BY <1>3, <1>5 DEF Iterating, PlaceOK
<1>7. /\ Counted(fr) <=> Counted(tp)
      /\ ~Inside(fr) /\ ~Inside(tp) /\ ~Iterating(fr)
  BY <1>3, <1>5, <1>6 DEF Counted, Inside, Iterating
<1>8. (HasInvocation(fr) <=> HasInvocation(tp)) /\ fr.at \in Above
  BY <1>3, <1>5, <1>6, <1>7 DEF HasInvocation, Above
<1>9. FrameOK(fr, ctx, txn, job)
  <2>1. KeepsUses(tp, fr, ctx[tp.ctx])
    BY <1>7 DEF KeepsUses
  <2> QED
    BY <1>3, <1>5, <1>7, <2>1, MovedFrame
<1>10. UsageStep(tp.ctx, Counted(tp), Counted(fr))
  BY <1>1, <1>7 DEF UsageStep
<1> QED
  BY <1>1, <1>2, <1>5, <1>6, <1>7, <1>8, <1>9, <1>10, QuietStep

\* Loading listener_entries keeps the invariant: the array that is loaded is
\* the last one.
LEMMA LoadEntriesIInv ==
  ASSUME IInv, NEW t \in Thread, LoadEntries(t)
  PROVE  IInv'
<1> PICK tp : tp = Top(t)
  OBVIOUS
<1> PICK x : x = ctx[tp.ctx]
  OBVIOUS
<1> PICK fr : fr = [tp EXCEPT !.version = Len(x.arrays), !.next = 1,
                              !.at = IF @ = "load" THEN "enter" ELSE "leaving"]
  OBVIOUS
<1>1. /\ At(t) \in {"load", "leave"} /\ SetTop(t, fr) /\ Usable(t)
      /\ UNCHANGED <<table, prologue, ctx, txn, lock, job, stack, guardKey>>
  BY DEF LoadEntries, intercVars
<1>2. frames[t] # <<>>
  BY <1>1 DEF At
<1>3. tp \in Frame /\ tp.at \in {"load", "leave"} /\ PlaceOK(tp) /\ FrameOK(tp, ctx, txn, job)
  BY <1>1, <1>2, TopFacts
<1>4. /\ tp.ctx \in Ctx /\ Live(tp.ctx) /\ x.state = "live" /\ tp.ctx # 0 /\ x \in Context
      /\ ContextOK(tp.ctx, x) /\ x.arrays # <<>>
  BY <1>1, UsableFacts
<1>5. x.arrays \in Seq(Seq(Slot))
  BY <1>4 DEF Context
<1>6. Len(x.arrays) \in Nat \ {0}
  BY <1>4, <1>5, FrontProps
<1>7. /\ fr \in Frame /\ fr.at = (IF tp.at = "load" THEN "enter" ELSE "leaving")
      /\ fr.ctx = tp.ctx /\ fr.trap = tp.trap /\ fr.early = tp.early
      /\ fr.version = Len(x.arrays) /\ fr.running = tp.running /\ fr.notified = tp.notified
      /\ fr.next = 1
  BY <1>3, <1>6 DEF Frame, InTrampoline
<1>8. tp.running = NoListener /\ PlaceOK(fr)
  BY <1>3, <1>7 DEF Iterating, PlaceOK
<1>9. Counted(fr) /\ Counted(tp) /\ Inside(fr) /\ Inside(tp) /\ tp.at \notin Above
  BY <1>3, <1>7 DEF Counted, Inside, Above
<1>10. HasInvocation(fr) <=> HasInvocation(tp)
  BY <1>3, <1>7, <1>9 DEF HasInvocation, PlaceOK
<1>11. FrameOK(fr, ctx, txn, job)
  <2>1. FrameIn(tp, x) /\ (tp.early => \A k \in Controller : job[k].at = "notify" => Spares(job[k].tasks[1], tp))
    BY <1>3, <1>4, <1>9 DEF FrameOK
  <2>2. Len(x.arrays) \in 1..Len(x.arrays) /\ Len(x.arrays) \notin x.freed
    BY <1>4, <1>6 DEF ContextOK
  <2>3. FrameIn(fr, x)
    BY <1>4, <1>7, <1>9, <2>1, <2>2 DEF FrameIn
  <2>4. ASSUME fr.early, NEW k \in Controller, job[k].at = "notify"
        PROVE  Spares(job[k].tasks[1], fr)
    <3>1. TaskOK(job[k].tasks[1], ctx)
      BY <2>4, DueTask
    <3>2. Spares(job[k].tasks[1], tp)
      BY <1>7, <2>1, <2>4
    <3>3. job[k].tasks[1].kind = "array" /\ job[k].tasks[1].ctx = fr.ctx =>
            job[k].tasks[1].version < Len(x.arrays)
      BY <1>7, <3>1 DEF TaskOK
    <3>4. job[k].tasks[1].kind = "array" /\ job[k].tasks[1].ctx = fr.ctx =>
            job[k].tasks[1].version # fr.version
      BY <1>6, <1>7, <3>3
    <3> QED
      BY <1>7, <3>2, <3>4 DEF Spares
  <2>5. ASSUME NEW l \in Listener, Uses(fr, l, x)
        PROVE  Held(fr.ctx, l, ctx, txn, job)
    <3>1. l # NoListener
      BY ListenerAssumption
    <3>2. Member(Entries(x), l)
      BY <1>7, <1>8, <2>5, <3>1 DEF Uses, Entries
    <3>3. ~x.destroyed
      BY <1>4, <3>1, <3>2 DEF ContextOK, Member
    <3> QED
      BY <1>7, <3>2, <3>3 DEF Held
  <2> QED
    BY <1>7, <2>3, <2>4, <2>5 DEF FrameOK
<1>12. UsageStep(tp.ctx, Counted(tp), Counted(fr))
  BY <1>1, <1>9 DEF UsageStep
<1> QED
  BY <1>1, <1>2, <1>3, <1>7, <1>8, <1>9, <1>10, <1>11, <1>12, QuietStep

\* The array an iterating call goes over.
LEMMA ArrayFacts ==
  ASSUME IInv, NEW t \in Thread, frames[t] # <<>>, Usable(t), Iterating(Top(t))
  PROVE  /\ Array(t) \in Seq(Slot) /\ Array(t) = ctx[Top(t).ctx].arrays[Top(t).version]
         /\ Top(t).version \in 1..Len(ctx[Top(t).ctx].arrays)
<1> PICK tp : tp = Top(t)
  OBVIOUS
<1> PICK x : x = ctx[tp.ctx]
  OBVIOUS
<1>1. tp.ctx # 0 /\ x \in Context
  BY UsableFacts
<1>2. FrameIn(tp, x)
  BY <1>1, TopFacts DEF FrameOK
<1>3. tp.version \in 1..Len(x.arrays)
  BY <1>2 DEF FrameIn
<1>4. x.arrays \in Seq(Seq(Slot))
  BY <1>1 DEF Context
<1>5. x.arrays[tp.version] \in Seq(Slot)
  BY <1>3, <1>4, ElementOfSeq
<1> QED
  BY <1>3, <1>5 DEF Array

\* A step of a call that goes over an array and goes on doing so.
LEMMA IteratingStep ==
  ASSUME IInv, NEW t \in Thread, frames[t] # <<>>, Iterating(Top(t)),
         NEW fr \in Frame, SetTop(t, fr),
         UNCHANGED <<table, prologue, ctx, txn, lock, job, stack, guardKey>>,
         fr.ctx = Top(t).ctx, fr.trap = Top(t).trap, fr.early = Top(t).early,
         fr.version = Top(t).version, fr.notified = Top(t).notified,
         Iterating(fr), PlaceOK(fr), KeepsUses(Top(t), fr, ctx[Top(t).ctx])
  PROVE  IInv'
<1> PICK tp : tp = Top(t)
  OBVIOUS
<1>1. PlaceOK(tp) /\ FrameOK(tp, ctx, txn, job) /\ At(t) = tp.at
  BY TopFacts
<1>2. /\ Counted(fr) /\ Counted(tp) /\ Inside(fr) /\ Inside(tp) /\ tp.at \notin Above
      /\ tp.at # "undefined"
  BY DEF Counted, Inside, Iterating, Above
<1>3. HasInvocation(fr) /\ HasInvocation(tp)
  BY <1>1 DEF HasInvocation, PlaceOK, Counted, Iterating
<1>4. FrameOK(fr, ctx, txn, job)
  BY <1>1, <1>2, MovedFrame
<1>5. UsageStep(tp.ctx, Counted(tp), Counted(fr))
  BY <1>2 DEF UsageStep
<1> QED
  BY <1>1, <1>2, <1>3, <1>4, <1>5, QuietStep

\* Reading a slot keeps the invariant: the listener of an entry that is read is
\* held.
LEMMA ReadEntryIInv ==
  ASSUME IInv, NEW t \in Thread, ReadEntry(t)
  PROVE  IInv'
<1> PICK tp : tp = Top(t)
  OBVIOUS
<1> PICK x, entry : x = ctx[tp.ctx] /\ entry = Array(t)[tp.next]
  OBVIOUS
<1>1. /\ At(t) \in {"enter", "leaving"} /\ Usable(t) /\ tp.next <= Len(Array(t))
      /\ tp.running = NoListener
      /\ UNCHANGED <<table, prologue, ctx, txn, lock, job, stack, guardKey>>
      /\ \/ SetTop(t, [tp EXCEPT !.next = @ + 1])
         \/ entry # NoListener /\ SetTop(t, [tp EXCEPT !.running = entry])
  BY DEF ReadEntry, intercVars
<1>2. frames[t] # <<>>
  BY <1>1 DEF At
<1>3. tp \in Frame /\ tp.at = At(t) /\ tp.at \in {"enter", "leaving"} /\ PlaceOK(tp) /\ FrameOK(tp, ctx, txn, job)
  BY <1>1, <1>2, TopFacts
<1>4. tp.ctx \in Ctx /\ x.state = "live" /\ tp.ctx # 0 /\ x \in Context /\ ContextOK(tp.ctx, x)
  BY <1>1, UsableFacts
<1>5. Iterating(tp) /\ Counted(tp)
  BY <1>3 DEF Iterating, Counted
<1>6. Array(t) \in Seq(Slot) /\ Array(t) = x.arrays[tp.version] /\ tp.version \in 1..Len(x.arrays)
  BY <1>1, <1>2, <1>5, ArrayFacts
<1>7. tp.next \in Nat /\ tp.next >= 1 /\ Len(Array(t)) \in Nat
  BY <1>3, <1>6, LenProperties DEF PlaceOK, Frame
<1>8. tp.next \in 1..Len(Array(t))
  BY <1>1, <1>7
<1>9. entry \in Slot /\ Member(x.arrays[tp.version], entry)
  BY <1>6, <1>8, ElementOfSeq DEF Member
<1>10. CASE SetTop(t, [tp EXCEPT !.next = @ + 1])
  <2> PICK fr : fr = [tp EXCEPT !.next = @ + 1]
    OBVIOUS
  <2>1. /\ fr \in Frame /\ fr.at = tp.at /\ fr.ctx = tp.ctx /\ fr.trap = tp.trap /\ fr.early = tp.early
        /\ fr.version = tp.version /\ fr.running = tp.running /\ fr.notified = tp.notified
        /\ fr.next = tp.next + 1
    BY <1>3, <1>7 DEF Frame
  <2>2. PlaceOK(fr) /\ Iterating(fr)
    BY <1>3, <1>5, <1>7, <2>1 DEF PlaceOK, Iterating
  <2>3. KeepsUses(tp, fr, ctx[tp.ctx])
    BY <2>1 DEF KeepsUses, Uses
  <2> QED
    BY <1>1, <1>2, <1>5, <1>10, <2>1, <2>2, <2>3, IteratingStep
<1>11. ASSUME entry # NoListener, SetTop(t, [tp EXCEPT !.running = entry])
       PROVE  IInv'
  <2> PICK fr : fr = [tp EXCEPT !.running = entry]
    OBVIOUS
  <2>1. /\ fr \in Frame /\ fr.at = tp.at /\ fr.ctx = tp.ctx /\ fr.trap = tp.trap /\ fr.early = tp.early
        /\ fr.version = tp.version /\ fr.running = entry /\ fr.notified = tp.notified
        /\ fr.next = tp.next
    BY <1>3, <1>9 DEF Frame, Slot
  <2>2. tp.early
    <3> SUFFICES ASSUME ~tp.early
                 PROVE  FALSE
      OBVIOUS
    <3>1. FrameIn(tp, x)
      BY <1>3, <1>4 DEF FrameOK
    <3>2. x.destroyed /\ tp.version = Len(x.arrays)
      BY <1>5, <3>1 DEF FrameIn
    <3>3. Member(Entries(x), entry)
      BY <1>9, <3>2 DEF Entries
    <3> QED
      BY <1>4, <1>11, <3>2, <3>3 DEF ContextOK, Member
  <2>3. PlaceOK(fr) /\ Iterating(fr)
    BY <1>3, <1>5, <2>1, <2>2 DEF PlaceOK, Iterating
  <2>4. KeepsUses(tp, fr, ctx[tp.ctx])
    BY <1>9, <2>1 DEF KeepsUses, Uses
  <2> QED
    BY <1>1, <1>2, <1>5, <1>11, <2>1, <2>3, <2>4, IteratingStep
<1> QED
  BY <1>1, <1>10, <1>11

\* Following an entry to its callback, or past it, keeps the invariant.
LEMMA VisitEntryIInv ==
  ASSUME IInv, NEW t \in Thread, VisitEntry(t)
  PROVE  IInv'
<1> PICK tp : tp = Top(t)
  OBVIOUS
<1>1. /\ At(t) \in {"enter", "leaving"}
      /\ UNCHANGED <<table, prologue, ctx, txn, lock, job, stack, guardKey>>
      /\ \/ SetTop(t, [tp EXCEPT !.next = @ + 1, !.running = NoListener])
         \/ SetTop(t, Moved(tp, IF At(t) = "enter" THEN "on_enter" ELSE "on_leave"))
  BY DEF VisitEntry, MoveTo, Moved, intercVars
<1>2. frames[t] # <<>>
  BY <1>1 DEF At
<1>3. tp \in Frame /\ tp.at = At(t) /\ tp.at \in {"enter", "leaving"} /\ PlaceOK(tp)
  BY <1>1, <1>2, TopFacts
<1>4. Iterating(tp) /\ tp.next \in Nat /\ tp.next >= 1
  BY <1>3 DEF Iterating, PlaceOK, Frame
<1>5. CASE SetTop(t, [tp EXCEPT !.next = @ + 1, !.running = NoListener])
  <2> PICK fr : fr = [tp EXCEPT !.next = @ + 1, !.running = NoListener]
    OBVIOUS
  <2>1. /\ fr \in Frame /\ fr.at = tp.at /\ fr.ctx = tp.ctx /\ fr.trap = tp.trap /\ fr.early = tp.early
        /\ fr.version = tp.version /\ fr.running = NoListener /\ fr.notified = tp.notified
        /\ fr.next = tp.next + 1
    <3> PICK m : m = tp.next + 1
      OBVIOUS
    <3>1. fr = [tp EXCEPT !.next = m, !.running = NoListener]
      BY <1>3 DEF Frame
    <3>2. m \in Nat
      BY <1>4
    <3> QED
      BY <1>3, <3>1, <3>2 DEF Frame
  <2>2. PlaceOK(fr) /\ Iterating(fr)
    BY <1>3, <1>4, <2>1 DEF PlaceOK, Iterating
  <2>3. KeepsUses(tp, fr, ctx[tp.ctx])
    BY <2>1, ListenerAssumption DEF KeepsUses
  <2> QED
    BY <1>1, <1>2, <1>4, <1>5, <2>1, <2>2, <2>3, IteratingStep
<1>6. CASE SetTop(t, Moved(tp, IF At(t) = "enter" THEN "on_enter" ELSE "on_leave"))
  <2> PICK w : w = IF tp.at = "enter" THEN "on_enter" ELSE "on_leave"
    OBVIOUS
  <2> PICK fr : fr = Moved(tp, w)
    OBVIOUS
  <2>1. w \in Places
    BY DEF Places, InTrampoline
  <2>2. /\ fr \in Frame /\ fr.at = w /\ fr.ctx = tp.ctx /\ fr.trap = tp.trap /\ fr.early = tp.early
        /\ fr.version = tp.version /\ fr.running = tp.running /\ fr.notified = tp.notified
        /\ fr.next = tp.next
    BY <1>3, <2>1, MovedFields
  <2>3. PlaceOK(fr) /\ Iterating(fr)
    BY <1>3, <1>4, <2>2 DEF PlaceOK, Iterating
  <2>4. KeepsUses(tp, fr, ctx[tp.ctx])
    BY <2>2 DEF KeepsUses, Uses
  <2>5. SetTop(t, fr)
    BY <1>3, <1>6
  <2> QED
    BY <1>1, <1>2, <1>4, <2>2, <2>3, <2>4, <2>5, IteratingStep
<1> QED
  BY <1>1, <1>5, <1>6

\* And so does reading an entry that is freed.
LEMMA UseFreedEntryIInv ==
  ASSUME IInv, NEW t \in Thread, UseFreedEntry(t)
  PROVE  IInv'
<1> PICK tp, fr : tp = Top(t) /\ fr = Moved(Top(t), "stray")
  OBVIOUS
<1>1. /\ At(t) \in {"enter", "on_enter", "leaving", "on_leave"} /\ SetTop(t, fr)
      /\ UNCHANGED <<table, prologue, ctx, txn, lock, job, stack, guardKey>>
  BY DEF UseFreedEntry, MoveTo, Moved, intercVars
<1>2. frames[t] # <<>>
  BY <1>1 DEF At
<1>3. tp \in Frame /\ tp.at \in {"enter", "on_enter", "leaving", "on_leave"} /\ PlaceOK(tp)
  BY <1>1, <1>2, TopFacts
<1>4. "stray" \in Places
  BY DEF Places
<1>5. /\ fr \in Frame /\ fr.at = "stray" /\ fr.ctx = tp.ctx /\ fr.trap = tp.trap /\ fr.early = tp.early
      /\ fr.version = tp.version /\ fr.running = tp.running /\ fr.notified = tp.notified
      /\ fr.next = tp.next
  BY <1>3, <1>4, MovedFields
<1>6. Iterating(tp) /\ Iterating(fr)
  BY <1>3, <1>5 DEF Iterating
<1>7. PlaceOK(fr)
  BY <1>3, <1>5, <1>6 DEF PlaceOK
<1>8. KeepsUses(tp, fr, ctx[tp.ctx])
  BY <1>5 DEF KeepsUses, Uses
<1> QED
  BY <1>1, <1>2, <1>5, <1>6, <1>7, <1>8, IteratingStep

\* The return of a callback keeps the invariant.
LEMMA CallbackReturnsIInv ==
  ASSUME IInv, NEW t \in Thread, CallbackReturns(t)
  PROVE  IInv'
<1> PICK tp : tp = Top(t)
  OBVIOUS
<1> PICK fr : fr = [tp EXCEPT !.next = @ + 1, !.running = NoListener,
                              !.at = IF @ = "on_enter" THEN "enter" ELSE "leaving"]
  OBVIOUS
<1>1. /\ At(t) \in {"on_enter", "on_leave"} /\ SetTop(t, fr)
      /\ UNCHANGED <<table, prologue, ctx, txn, lock, job, stack, guardKey>>
  BY DEF CallbackReturns, intercVars
<1>2. frames[t] # <<>>
  BY <1>1 DEF At
<1>3. tp \in Frame /\ tp.at \in {"on_enter", "on_leave"} /\ PlaceOK(tp) /\ FrameOK(tp, ctx, txn, job)
  BY <1>1, <1>2, TopFacts
<1>4. tp.next \in Nat /\ tp.next >= 1
  BY <1>3 DEF PlaceOK, Frame
<1>5. /\ fr \in Frame /\ fr.at = (IF tp.at = "on_enter" THEN "enter" ELSE "leaving")
      /\ fr.ctx = tp.ctx /\ fr.trap = tp.trap /\ fr.early = tp.early
      /\ fr.version = tp.version /\ fr.running = NoListener /\ fr.notified = tp.notified
      /\ fr.next = tp.next + 1
  <2> PICK m, w : m = tp.next + 1 /\ w = IF tp.at = "on_enter" THEN "enter" ELSE "leaving"
    OBVIOUS
  <2>1. fr = [tp EXCEPT !.next = m, !.running = NoListener, !.at = w]
    BY <1>3 DEF Frame
  <2>2. m \in Nat /\ w \in {"enter", "leaving"}
    BY <1>4
  <2> QED
    BY <1>3, <2>1, <2>2 DEF Frame, InTrampoline
<1>6. PlaceOK(fr)
  BY <1>3, <1>4, <1>5 DEF PlaceOK
<1>7. /\ Counted(fr) /\ Counted(tp) /\ Inside(fr) /\ Inside(tp) /\ tp.at \notin Above
      /\ Iterating(tp)
  BY <1>3, <1>5 DEF Counted, Inside, Above, Iterating
<1>8. HasInvocation(fr) <=> HasInvocation(tp)
  BY <1>3, <1>5, <1>7 DEF HasInvocation, PlaceOK
<1>9. FrameOK(fr, ctx, txn, job)
  <2>1. KeepsUses(tp, fr, ctx[tp.ctx])
    BY <1>5, ListenerAssumption DEF KeepsUses
  <2> QED
    BY <1>3, <1>5, <1>7, <2>1, MovedFrame, ZenonT(30)
<1>10. UsageStep(tp.ctx, Counted(tp), Counted(fr))
  BY <1>1, <1>7 DEF UsageStep
<1> QED
  BY <1>1, <1>2, <1>3, <1>5, <1>6, <1>7, <1>8, <1>9, <1>10, QuietStep

\* begin_invocation, from the values it has computed.
PushedFrame(tp, nt, tr) ==
  [tp EXCEPT !.notified = nt, !.trap = tr, !.at = IF nt THEN "load" ELSE "finish"]

\* The call after begin_invocation has decided what to do with it.
LEMMA PushedFields ==
  ASSUME NEW tp \in Frame, NEW nt \in BOOLEAN, NEW tr \in BOOLEAN, NEW fr, fr = PushedFrame(tp, nt, tr)
  PROVE  /\ fr \in Frame /\ fr.at = (IF nt THEN "load" ELSE "finish")
         /\ fr.ctx = tp.ctx /\ fr.trap = tr /\ fr.early = tp.early
         /\ fr.version = tp.version /\ fr.running = tp.running /\ fr.notified = nt
         /\ fr.next = tp.next
<1>1. PICK w : w = IF nt THEN "load" ELSE "finish"
  OBVIOUS
<1>2. fr = [tp EXCEPT !.notified = nt, !.trap = tr, !.at = w] /\ w \in InTrampoline
  BY <1>1 DEF PushedFrame, InTrampoline
<1> QED
  BY <1>1, <1>2, ZenonT(30) DEF Frame

\* The thread after that decision.
LEMMA PushStep ==
  ASSUME IInv, NEW t \in Thread, At(t) = "begin", Usable(t), ~Bypassed(t),
         NEW nt \in BOOLEAN, NEW tr \in BOOLEAN,
         NEW fr, fr = PushedFrame(Top(t), nt, tr),
         NEW e \in Invocation, e.frame = Len(frames[t]), e.ctx = Top(t).ctx,
         SetTop(t, fr), guardKey' = [guardKey EXCEPT ![t] = TRUE],
         stack' = IF tr \/ nt THEN [stack EXCEPT ![t] = Append(stack[t], e)] ELSE stack,
         UNCHANGED <<table, prologue, ctx, txn, lock, job>>
  PROVE  IInv'
<1>2. frames[t] # <<>>
  BY DEF At
<1>a. PICK tp, fs, st : tp = Top(t) /\ fs = frames[t] /\ st = stack[t]
  OBVIOUS
<1>b. PICK gs : gs = Append(Front(fs), fr)
  OBVIOUS
<1>c. PICK su : su = IF tr \/ nt THEN Append(st, e) ELSE st
  OBVIOUS
<1>3. /\ tp \in Frame /\ tp.at = "begin" /\ PlaceOK(tp) /\ FrameOK(tp, ctx, txn, job)
      /\ fs \in Seq(Frame) /\ st \in Seq(Invocation) /\ Len(fs) \in Nat \ {0} /\ tp = fs[Len(fs)]
      /\ GuardOK(fs, guardKey[t]) /\ EntriesOK(fs, st)
  BY <1>2, <1>a, TopFacts
<1>5. /\ fr \in Frame /\ fr.at = (IF nt THEN "load" ELSE "finish")
      /\ fr.ctx = tp.ctx /\ fr.trap = tr /\ fr.early = tp.early
      /\ fr.version = tp.version /\ fr.running = tp.running /\ fr.notified = nt
      /\ fr.next = tp.next
  BY <1>3, <1>a, PushedFields
<1>7. gs \in Seq(Frame) /\ Replaced(fs, gs, fr)
  BY <1>2, <1>3, <1>5, <1>a, <1>b, StackForms
<1>8. Append(st, e) \in Seq(Invocation) /\ Grown(st, Append(st, e), e)
  BY <1>3, StackForms
<1>9. su \in Seq(Invocation) /\ stack' = [stack EXCEPT ![t] = su]
  <2>0. stack \in [Thread -> Seq(Invocation)]
    BY DEF IInv
  <2>1. CASE tr \/ nt
    BY <1>8, <1>a, <1>c, <2>1
  <2>2. CASE ~(tr \/ nt)
    BY <1>3, <1>a, <1>c, <2>0, <2>2
  <2> QED
    BY <2>1, <2>2
<1>10. ~InsideBelow(fs)
  BY <1>3, GuardTop DEF Bypassed
<1>11. tp.running = NoListener /\ ~tp.trap /\ ~tp.notified
  BY <1>3 DEF Iterating, PlaceOK
<1>11a. PlaceOK(fr)
  BY <1>3, <1>5, <1>11 DEF PlaceOK
<1>12. Counted(fr) /\ Counted(tp) /\ Inside(fr) /\ ~Iterating(fr) /\ ~HasInvocation(tp)
  BY <1>3, <1>5, <1>11 DEF Counted, Inside, Iterating, HasInvocation
<1>13. GuardOK(gs, TRUE)
  BY <1>7, <1>12, GuardReplaced
<1>14. EntriesOK(gs, su)
  <2>1. CASE tr \/ nt
    <3>1. HasInvocation(fr)
      BY <1>5, <1>12, <2>1 DEF HasInvocation
    <3>2. su = Append(st, e)
      BY <1>c, <2>1
    <3>3. e.ctx = fr.ctx /\ e.frame = Len(fs)
      BY <1>5, <1>a
    <3>4. ~HasInvocation(fs[Len(fs)])
      BY <1>3, <1>12
    <3> QED
      BY <1>3, <1>7, <1>8, <3>1, <3>2, <3>3, <3>4, EntriesPush
  <2>2. CASE ~(tr \/ nt)
    <3>1. ~HasInvocation(fr) /\ su = st
      BY <1>5, <1>c, <2>2 DEF HasInvocation
    <3> QED
      BY <1>3, <1>5, <1>7, <1>12, <3>1, EntriesKept
  <2> QED
    BY <2>1, <2>2
<1>15. FrameOK(fr, ctx, txn, job)
  <2>1. KeepsUses(tp, fr, ctx[tp.ctx])
    BY <1>12 DEF KeepsUses
  <2>2. fr.ctx = tp.ctx /\ fr.early = tp.early /\ fr.version = tp.version
    BY <1>5
  <2> QED
    BY <1>3, <1>12, <2>1, <2>2, MovedFrame
<1>16. UsageStep(tp.ctx, Counted(tp), Counted(fr))
  BY <1>12 DEF UsageStep
<1>17. frames' = [frames EXCEPT ![t] = gs]
  BY <1>a, <1>b DEF SetTop
<1> QED
  BY <1>2, <1>5, <1>7, <1>9, <1>10, <1>11a, <1>13, <1>14, <1>15, <1>16, <1>17, <1>a, TopStep

\* The decision of begin_invocation keeps the invariant.
LEMMA PushIInv ==
  ASSUME IInv, NEW t \in Thread, Push(t)
  PROVE  IInv'
<1> DEFINE x == ctx[Top(t).ctx]
           nt == ignored[t] <= 0
           tr == x.replacement \/ (nt /\ x.hasLeave)
           e == [fn |-> x.address, ctx |-> Top(t).ctx, frame |-> Len(frames[t]),
                 calling_replacement |-> FALSE]
           fr == PushedFrame(Top(t), nt, tr)
<1>1. Usable(t) /\ At(t) = "begin" /\ ~Bypassed(t)
  BY DEF Push
<1>2. Top(t).ctx \in Ctx /\ x \in Context
  BY <1>1, UsableFacts
<1>3. Len(frames[t]) \in Nat
  BY <1>1, TopFacts DEF At
<1>4. e \in Invocation /\ e.frame = Len(frames[t]) /\ e.ctx = Top(t).ctx
  BY <1>2, <1>3 DEF Invocation, Context
<1>5. nt \in BOOLEAN
  OBVIOUS
<1>6. tr \in BOOLEAN
  BY <1>2, <1>5 DEF Context
<1>7. /\ SetTop(t, fr)
      /\ stack' = IF tr \/ nt THEN [stack EXCEPT ![t] = Append(@, e)] ELSE stack
  BY DEF Push, PushedFrame
<1>8. stack' = IF tr \/ nt THEN [stack EXCEPT ![t] = Append(stack[t], e)] ELSE stack
  BY <1>7
<1>9. guardKey' = [guardKey EXCEPT ![t] = TRUE] /\ UNCHANGED <<table, prologue, ctx, txn, lock, job>>
  BY DEF Push, intercVars
<1> HIDE DEF x, nt, tr, e, fr
<1> QED
  BY <1>1, <1>4, <1>5, <1>6, <1>7, <1>8, <1>9, PushStep DEF fr

\* A call whose context is gone was not counted in time: what it does to
\* itself keeps the invariant.
LEMMA UseFreedIInv ==
  ASSUME IInv, NEW t \in Thread, UseFreed(t)
  PROVE  IInv'
<1> PICK tp, fs, fr : tp = Top(t) /\ fs = frames[t] /\ fr = Moved(Top(t), "undefined")
  OBVIOUS
<1> PICK gs : gs = Append(Front(fs), fr)
  OBVIOUS
<1>1. /\ At(t) \in InTrampoline /\ ~Usable(t) /\ frames' = [frames EXCEPT ![t] = gs]
      /\ UNCHANGED <<table, prologue, ctx, txn, lock, job, stack, guardKey>>
  BY DEF UseFreed, MoveTo, SetTop, Moved, intercVars
<1>2. frames[t] # <<>> /\ At(t) # "undefined"
  BY <1>1 DEF At, InTrampoline
<1>3. /\ tp \in Frame /\ tp.at = At(t) /\ PlaceOK(tp) /\ FrameOK(tp, ctx, txn, job)
      /\ fs \in Seq(Frame) /\ stack[t] \in Seq(Invocation) /\ guardKey[t] \in BOOLEAN /\ CallsOK(fs)
      /\ Len(fs) \in Nat \ {0} /\ tp = fs[Len(fs)]
  BY <1>2, TopFacts
<1>4. /\ fr \in Frame /\ fr.at = "undefined" /\ fr.ctx = tp.ctx /\ fr.trap = tp.trap /\ fr.early = tp.early
      /\ fr.version = tp.version /\ fr.running = tp.running /\ fr.notified = tp.notified
      /\ fr.next = tp.next
  <2>1. "undefined" \in Places
    BY DEF Places
  <2> QED
    BY <1>3, <2>1, MovedFields
<1>5. ~Live(tp.ctx)
  BY <1>1 DEF Usable
<1>6. tp.ctx # 0
  BY <1>1, <1>3 DEF PlaceOK, InTrampoline
<1>7. tp.running = NoListener
  <2> SUFFICES ASSUME tp.running # NoListener
               PROVE  FALSE
    OBVIOUS
  <2>1. tp.early /\ Counted(tp)
    BY <1>3 DEF Iterating, PlaceOK, Counted
  <2>2. ctx[tp.ctx].state = "live"
    BY <1>3, <1>6, <2>1 DEF FrameOK, FrameIn
  <2>3. tp.ctx \in Ctx
    BY <1>3, <1>6 DEF Frame
  <2> QED
    BY <1>5, <2>2, <2>3 DEF Live
<1>8. PlaceOK(fr)
  BY <1>3, <1>4, <1>6, <1>7 DEF PlaceOK
<1>9. ~Counted(fr) /\ ~Iterating(fr) /\ fr.at \in Above
  BY <1>4 DEF Counted, Iterating, Above
<1>10. FrameOK(fr, ctx, txn, job)
  <2>1. KeepsUses(tp, fr, ctx[tp.ctx])
    BY <1>9 DEF KeepsUses
  <2>2. fr.ctx = tp.ctx /\ fr.early = tp.early /\ fr.version = tp.version
    BY <1>4
  <2> QED
    BY <1>3, <1>9, <2>1, <2>2, MovedFrame
<1>11. UsageStep(tp.ctx, Counted(tp), Counted(fr))
  BY <1>1, <1>5 DEF UsageStep
<1>12. gs \in Seq(Frame) /\ Replaced(fs, gs, fr)
  BY <1>2, <1>3, <1>4, StackForms
<1>13. stack' = [stack EXCEPT ![t] = stack[t]] /\ guardKey' = [guardKey EXCEPT ![t] = guardKey[t]]
  BY <1>1 DEF IInv
<1>14. InsideBelow(fs) => ~fr.trap /\ fr.at \in Above
  BY <1>3, <1>4, <1>9, NoneBelow
<1> QED
  BY <1>1, <1>2, <1>3, <1>4, <1>8, <1>10, <1>11, <1>12, <1>13, <1>14, TopStep, ZenonT(30)

\* The end of begin_invocation keeps the invariant.
LEMMA FinishEnterIInv ==
  ASSUME IInv, NEW t \in Thread, FinishEnter(t)
  PROVE  IInv'
<1>a. PICK tp, fs, st : tp = Top(t) /\ fs = frames[t] /\ st = stack[t]
  OBVIOUS
<1>b. PICK x : x = ctx[tp.ctx]
  OBVIOUS
<1> DEFINE marked == x.replacement /\ tp.trap
<1>c. PICK w : w = IF marked THEN "replacement" ELSE IF x.replacement THEN "undefined" ELSE "invoke"
  OBVIOUS
<1>d. PICK e : e = [Last(st) EXCEPT !.calling_replacement = TRUE]
  OBVIOUS
<1>e. PICK su : su = IF marked THEN Append(Front(st), e) ELSE IF PopsEntry(tp) THEN Front(st) ELSE st
  OBVIOUS
<1>f. PICK fr : fr = Moved(tp, w)
  OBVIOUS
<1>g. PICK gs : gs = Append(Front(fs), fr)
  OBVIOUS
<1>1. /\ At(t) \in {"enter", "finish"} /\ Usable(t)
      /\ guardKey' = [guardKey EXCEPT ![t] = FALSE]
      /\ IF tp.trap THEN ctx' = ctx ELSE ctx' = WithUsage(ctx, tp.ctx, (-1))
      /\ UNCHANGED <<table, prologue, txn, lock, job>>
  BY <1>a DEF FinishEnter, AddUsage, WithUsage
<1>2. frames' = [frames EXCEPT ![t] = gs] /\ stack' = [stack EXCEPT ![t] = su]
  <2>1. CASE marked
    BY <1>a, <1>b, <1>c, <1>d, <1>e, <1>f, <1>g, <2>1 DEF FinishEnter, MoveTo, SetTop, Moved
  <2>2. CASE ~marked
    BY <1>a, <1>b, <1>c, <1>d, <1>e, <1>f, <1>g, <2>2 DEF FinishEnter, MoveTo, SetTop, Moved
  <2> QED
    BY <2>1, <2>2
<1>3. frames[t] # <<>>
  BY <1>1 DEF At
<1>4. /\ tp \in Frame /\ tp.at \in {"enter", "finish"} /\ PlaceOK(tp) /\ FrameOK(tp, ctx, txn, job)
      /\ fs \in Seq(Frame) /\ st \in Seq(Invocation) /\ Len(fs) \in Nat \ {0} /\ tp = fs[Len(fs)]
      /\ CallsOK(fs) /\ EntriesOK(fs, st)
  BY <1>1, <1>3, <1>a, TopFacts
<1>5. Live(tp.ctx)
  BY <1>1, <1>a, UsableFacts
<1>5a. tp.running = NoListener
  BY <1>4, <1>a DEF FinishEnter, EndOfArray, At, PlaceOK, Iterating
<1>7. w \in {"replacement", "undefined", "invoke"} /\ (w = "replacement" => tp.trap) /\ (w = "undefined" => ~tp.trap)
  BY <1>c
<1>6. /\ fr \in Frame /\ fr.at = w /\ fr.ctx = tp.ctx /\ fr.trap = tp.trap /\ fr.early = tp.early
      /\ fr.version = tp.version /\ fr.running = tp.running /\ fr.notified = tp.notified
      /\ fr.next = tp.next
  <2>1. w \in Places
    BY <1>7 DEF Places, InTrampoline
  <2> QED
    BY <1>4, <1>f, <2>1, MovedFields
<1>8. PlaceOK(fr)
  BY <1>4, <1>5a, <1>6, <1>7 DEF Iterating, PlaceOK
<1>9. /\ Counted(tp) /\ Inside(tp) /\ ~Inside(fr) /\ ~Iterating(fr)
      /\ Counted(fr) <=> tp.trap
      /\ HasInvocation(fr) <=> tp.trap
      /\ HasInvocation(tp) <=> tp.trap \/ tp.notified
  BY <1>4, <1>6, <1>7 DEF Counted, Inside, Iterating, HasInvocation, PlaceOK
<1>10. ~InsideBelow(fs)
  BY <1>4, <1>9, NoneBelow
<1>11. gs \in Seq(Frame) /\ Replaced(fs, gs, fr)
  BY <1>3, <1>4, <1>6, <1>a, <1>g, StackForms
<1>12. GuardOK(gs, FALSE)
  BY <1>9, <1>10, <1>11, GuardReplaced
<1>13. su \in Seq(Invocation) /\ EntriesOK(gs, su)
  <2>1. CASE marked
    <3>1. HasInvocation(tp) /\ HasInvocation(fr)
      BY <1>9, <2>1
    <3>2. st # <<>>
      BY <1>4, <3>1, EntriesTop
    <3>2a. EntriesOK(gs, st)
      BY <1>4, <1>6, <1>11, <3>1, EntriesKept
    <3>3. Last(st) = st[Len(st)] /\ st[Len(st)] \in Invocation
      BY <1>4, <3>2, FrontProps
    <3>4. e \in Invocation /\ e.frame = st[Len(st)].frame /\ e.ctx = st[Len(st)].ctx
      BY <1>d, <3>3 DEF Invocation
    <3>5. su = Append(Front(st), e)
      BY <1>e, <2>1
    <3>6. su \in Seq(Invocation) /\ Replaced(st, su, e)
      BY <1>4, <3>2, <3>4, <3>5, StackForms
    <3> QED
      BY <3>2a, <3>4, <3>6, EntriesMarked
  <2>2. CASE ~marked /\ PopsEntry(tp)
    <3>1. ~tp.trap /\ tp.notified /\ su = Front(st)
      BY <1>e, <2>2 DEF PopsEntry
    <3>2. HasInvocation(tp) /\ ~HasInvocation(fr)
      BY <1>9, <3>1
    <3>3. st # <<>>
      BY <1>4, <3>2, EntriesTop
    <3>4. su \in Seq(Invocation) /\ Popped(st, su)
      <4>1. st[Len(st)] \in Invocation
        BY <1>4, <3>3, FrontProps
      <4> QED
        BY <1>4, <3>1, <3>3, <4>1, StackForms
    <3>5. Len(gs) = Len(fs) /\ gs[Len(fs)] = fr /\ \A i \in 1..(Len(fs) - 1) : gs[i] = fs[i]
      BY <1>4, <1>11 DEF Replaced
    <3> QED
      BY <1>4, <3>2, <3>4, <3>5, EntriesPop
  <2>3. CASE ~marked /\ ~PopsEntry(tp)
    <3>1. su = st
      BY <1>e, <2>3
    <3>2. tp.trap \/ ~tp.notified
      BY <2>3 DEF PopsEntry
    <3>3. HasInvocation(tp) <=> HasInvocation(fr)
      BY <1>9, <3>2
    <3> QED
      BY <1>4, <1>6, <1>11, <3>1, <3>3, EntriesKept
  <2> QED
    BY <2>1, <2>2, <2>3
<1>14. FrameOK(fr, ctx, txn, job)
  <2>1. KeepsUses(tp, fr, ctx[tp.ctx])
    BY <1>9 DEF KeepsUses
  <2>2. fr.ctx = tp.ctx /\ fr.early = tp.early /\ fr.version = tp.version
    BY <1>6
  <2> QED
    BY <1>4, <1>9, <2>1, <2>2, MovedFrame
<1>15. UsageStep(tp.ctx, Counted(tp), Counted(fr))
  BY <1>1, <1>5, <1>9 DEF UsageStep
<1> QED
  BY <1>1, <1>2, <1>3, <1>6, <1>8, <1>10, <1>11, <1>12, <1>13, <1>14, <1>15, <1>a, TopStep

\* The innermost call returns.
LEMMA PopStep ==
  ASSUME IInv, NEW t \in Thread, frames[t] # <<>>,
         NEW gs \in Seq(Frame), Popped(frames[t], gs), frames' = [frames EXCEPT ![t] = gs],
         NEW su \in Seq(Invocation), stack' = [stack EXCEPT ![t] = su],
         NEW h \in BOOLEAN, guardKey' = [guardKey EXCEPT ![t] = h],
         UNCHANGED <<table, prologue, txn, lock, job>>,
         UsageStep(Top(t).ctx, Counted(Top(t)), FALSE),
         GuardOK(gs, h), EntriesOK(gs, su)
  PROVE  IInv'
<1>a. PICK fs, n, tp : fs = frames[t] /\ n = Len(frames[t]) /\ tp = Top(t)
  OBVIOUS
<1>1. /\ n \in 1..MaxDepth /\ n \in Nat \ {0} /\ CallsOK(fs) /\ DOMAIN fs = 1..n
      /\ tp = fs[n] /\ \A i \in 1..n : FrameOK(fs[i], ctx, txn, job)
  BY <1>a, TopFacts
<1>2. Len(gs) = n - 1 /\ \A i \in 1..(n - 1) : gs[i] = fs[i] /\ i \in 1..n /\ i # n
  BY <1>a DEF Popped
<1>3. DOMAIN gs = 1..(n - 1)
  BY <1>2, LenProperties
<1>4. CallsOK(gs)
  BY <1>1, <1>a, PopCalls
<1>5. n - 1 <= MaxDepth
  BY <1>1, BoundsAssumption
<1>6. ThreadOK(gs, su, h)
  BY <1>2, <1>4, <1>5 DEF ThreadOK
<1>7. ctx \in [Ctx -> Context] /\ CountOK /\ frames \in [Thread -> Seq(Frame)]
  BY DEF IInv, DataOK, Shape
<1>c. PICK no \in BOOLEAN : no = FALSE
  OBVIOUS
<1>d. UsageStep(tp.ctx, Counted(tp), no)
  BY <1>a, <1>c DEF UsageStep
<1>8. /\ SameButUsage(ctx, ctx')
      /\ \A d \in Ctx :
           /\ ctx'[d].state = ctx[d].state
           /\ ctx[d].state # "live" => ctx'[d].usage = ctx[d].usage
           /\ ctx[d].state = "live" =>
                ctx'[d].usage = ctx[d].usage + Bit(d = tp.ctx /\ no) - Bit(d = tp.ctx /\ Counted(tp))
  BY <1>7, <1>d, UsageStepProps
<1>9. frames'[t] = gs /\ \A u \in Thread : u # t => frames'[u] = frames[u]
  BY <1>7
<1>10. ASSUME NEW c \in Ctx
       PROVE  /\ \A i \in 1..MaxDepth : i # n => (CountsAt(frames'[t], i, c) <=> CountsAt(frames[t], i, c))
              /\ Bit(CountsAt(frames'[t], n, c)) = Bit(c = tp.ctx /\ no)
              /\ Bit(CountsAt(frames[t], n, c)) = Bit(c = tp.ctx /\ Counted(tp))
  <2>0. \A i \in 1..MaxDepth : i # n => (i \in 1..(n - 1) <=> i \in 1..n)
    BY <1>1
  <2>1. \A i \in 1..MaxDepth : i # n => (CountsAt(gs, i, c) <=> CountsAt(fs, i, c))
    BY <1>1, <1>2, <1>3, <2>0 DEF CountsAt
  <2>2. ~CountsAt(gs, n, c)
    BY <1>1, <1>2, <1>3 DEF CountsAt
  <2>3. CountsAt(fs, n, c) <=> c = tp.ctx /\ Counted(tp)
    BY <1>1, <1>2, <1>3 DEF CountsAt
  <2> QED
    BY <1>9, <1>a, <1>c, <2>1, <2>2, <2>3 DEF Bit
<1>11. CountOK'
  BY <1>1, <1>7, <1>8, <1>9, <1>10, CountStep
<1>12. \A i \in 1..Len(gs) : FrameOK(gs[i], ctx, txn, job)
  BY <1>1, <1>2
<1> QED
  BY <1>6, <1>8, <1>11, <1>12, ThreadStep

\* The function returns to its caller.
LEMMA ReturnUntrapped ==
  ASSUME IInv, NEW t \in Thread, At(t) \in {"body", "replacement"}, ~Top(t).trap, PopFrame(t),
         UNCHANGED <<table, prologue, ctx, txn, lock, job, stack, guardKey>>
  PROVE  IInv'
<1>1. frames[t] # <<>> /\ At(t) # "undefined"
  BY DEF At
<1>a. PICK fs, tp, gs : fs = frames[t] /\ tp = Top(t) /\ gs = Front(frames[t])
  OBVIOUS
<1>2. /\ tp \in Frame /\ tp.at \in {"body", "replacement"} /\ PlaceOK(tp)
      /\ fs \in Seq(Frame) /\ stack[t] \in Seq(Invocation) /\ guardKey[t] \in BOOLEAN
      /\ Len(fs) \in Nat \ {0} /\ tp = fs[Len(fs)]
      /\ GuardOK(fs, guardKey[t]) /\ EntriesOK(fs, stack[t])
  BY <1>1, <1>a, TopFacts
<1>3. gs \in Seq(Frame) /\ Popped(fs, gs)
  BY <1>1, <1>2, <1>a, StackForms
<1>4. frames' = [frames EXCEPT ![t] = gs]
  BY <1>a DEF PopFrame
<1>5. stack' = [stack EXCEPT ![t] = stack[t]] /\ guardKey' = [guardKey EXCEPT ![t] = guardKey[t]]
  BY DEF IInv
<1>6. ~Counted(tp) /\ ~HasInvocation(tp) /\ ~Inside(tp)
  BY <1>2, <1>a DEF Counted, HasInvocation, Inside, PlaceOK
<1>7. guardKey[t] <=> InsideBelow(fs)
  BY <1>2, <1>6, GuardTop
<1>8. GuardOK(gs, guardKey[t])
  BY <1>3, <1>7, GuardPopped
<1>9. EntriesOK(gs, stack[t])
  BY <1>2, <1>3, <1>6, EntriesFramePopped
<1>10. UsageStep(tp.ctx, Counted(tp), FALSE)
  BY <1>6 DEF UsageStep
<1> QED
  BY <1>1, <1>2, <1>3, <1>4, <1>5, <1>8, <1>9, <1>10, <1>a, PopStep, ZenonT(30)

\* It returns to on_leave_trampoline.
LEMMA ReturnTrapped ==
  ASSUME IInv, NEW t \in Thread, At(t) \in {"body", "replacement"}, Top(t).trap, MoveTo(t, "leave"),
         guardKey' = [guardKey EXCEPT ![t] = TRUE],
         UNCHANGED <<table, prologue, ctx, txn, lock, job, stack>>
  PROVE  IInv'
<1>1. frames[t] # <<>> /\ At(t) # "undefined"
  BY DEF At
<1>a. PICK fs, tp, fr : fs = frames[t] /\ tp = Top(t) /\ fr = Moved(Top(t), "leave")
  OBVIOUS
<1>b. PICK gs : gs = Append(Front(fs), fr)
  OBVIOUS
<1>2. /\ tp \in Frame /\ tp.at \in {"body", "replacement"} /\ PlaceOK(tp) /\ CallsOK(fs)
      /\ FrameOK(tp, ctx, txn, job)
      /\ fs \in Seq(Frame) /\ stack[t] \in Seq(Invocation) /\ guardKey[t] \in BOOLEAN
      /\ Len(fs) \in Nat \ {0} /\ tp = fs[Len(fs)]
      /\ GuardOK(fs, guardKey[t]) /\ EntriesOK(fs, stack[t])
  BY <1>1, <1>a, TopFacts
<1>3. /\ fr \in Frame /\ fr.at = "leave" /\ fr.ctx = tp.ctx /\ fr.trap = tp.trap /\ fr.early = tp.early
      /\ fr.version = tp.version /\ fr.running = tp.running /\ fr.notified = tp.notified
      /\ fr.next = tp.next
  <2>1. "leave" \in Places
    BY DEF Places, InTrampoline
  <2> QED
    BY <1>2, <1>a, <2>1, MovedFields
<1>4. gs \in Seq(Frame) /\ Replaced(fs, gs, fr)
  BY <1>1, <1>2, <1>3, <1>a, <1>b, StackForms
<1>5. frames' = [frames EXCEPT ![t] = gs]
  BY <1>a, <1>b DEF MoveTo, SetTop, Moved
<1>6. stack' = [stack EXCEPT ![t] = stack[t]]
  BY DEF IInv
<1>7. /\ Counted(tp) /\ HasInvocation(tp) /\ Counted(fr) /\ HasInvocation(fr) /\ Inside(fr)
      /\ ~Iterating(fr)
  BY <1>2, <1>3, <1>a DEF Counted, HasInvocation, Inside, Iterating
<1>8. PlaceOK(fr)
  BY <1>2, <1>3, <1>a DEF Iterating, PlaceOK
<1>9. ~InsideBelow(fs)
  BY <1>2, <1>a, NoneBelow
<1>10. GuardOK(gs, TRUE)
  BY <1>4, <1>7, GuardReplaced
<1>11. EntriesOK(gs, stack[t])
  BY <1>2, <1>3, <1>4, <1>7, EntriesKept
<1>12. FrameOK(fr, ctx, txn, job)
  <2>1. KeepsUses(tp, fr, ctx[tp.ctx])
    BY <1>7 DEF KeepsUses
  <2>2. fr.ctx = tp.ctx /\ fr.early = tp.early /\ fr.version = tp.version
    BY <1>3
  <2> QED
    BY <1>2, <1>7, <2>1, <2>2, MovedFrame
<1>13. UsageStep(tp.ctx, Counted(tp), Counted(fr))
  BY <1>7 DEF UsageStep
<1> QED
  BY <1>1, <1>2, <1>3, <1>4, <1>5, <1>6, <1>8, <1>9, <1>10, <1>11, <1>12, <1>13, <1>a, TopStep

\* The return of a function, trapped or not, keeps the invariant.
LEMMA ReturnIInv ==
  ASSUME IInv, NEW t \in Thread, Return(t)
  PROVE  IInv'
<1>1. CASE Top(t).trap
  BY <1>1, ReturnTrapped DEF Return, intercVars
<1>2. CASE ~Top(t).trap
  BY <1>2, ReturnUntrapped DEF Return, intercVars
<1> QED
  BY <1>1, <1>2

\* The end of end_invocation keeps the invariant.
LEMMA FinishLeaveIInv ==
  ASSUME IInv, NEW t \in Thread, FinishLeave(t)
  PROVE  IInv'
<1>0. At(t) = "leaving" /\ Usable(t)
  BY DEF FinishLeave
<1>1. frames[t] # <<>> /\ At(t) # "undefined"
  BY <1>0 DEF At
<1>a. PICK fs, tp, gs : fs = frames[t] /\ tp = Top(t) /\ gs = Front(frames[t])
  OBVIOUS
<1>b. PICK st, su : st = stack[t] /\ su = Front(stack[t])
  OBVIOUS
<1>2. /\ tp \in Frame /\ tp.at = "leaving" /\ PlaceOK(tp) /\ CallsOK(fs)
      /\ fs \in Seq(Frame) /\ st \in Seq(Invocation)
      /\ Len(fs) \in Nat \ {0} /\ tp = fs[Len(fs)]
      /\ EntriesOK(fs, st)
  BY <1>0, <1>1, <1>a, <1>b, TopFacts
<1>3. gs \in Seq(Frame) /\ Popped(fs, gs)
  BY <1>1, <1>2, <1>a, StackForms
<1>4. /\ frames' = [frames EXCEPT ![t] = gs] /\ stack' = [stack EXCEPT ![t] = su]
      /\ guardKey' = [guardKey EXCEPT ![t] = FALSE] /\ ctx' = WithUsage(ctx, tp.ctx, (-1))
      /\ UNCHANGED <<table, prologue, txn, lock, job>>
  BY <1>a, <1>b DEF FinishLeave, PopFrame, AddUsage, WithUsage
<1>5. Counted(tp) /\ HasInvocation(tp) /\ Inside(tp)
  BY <1>2 DEF Counted, HasInvocation, Inside, PlaceOK
<1>6. st # <<>>
  BY <1>2, <1>5, EntriesTop
<1>7. su \in Seq(Invocation) /\ Popped(st, su)
  <2>1. st[Len(st)] \in Invocation
    BY <1>2, <1>6, FrontProps
  <2> QED
    BY <1>2, <1>6, <1>b, <2>1, StackForms
<1>8. ~InsideBelow(fs)
  BY <1>2, <1>5, NoneBelow
<1>9. GuardOK(gs, FALSE)
  BY <1>3, <1>8, GuardPopped
<1>10. EntriesOK(gs, su)
  <2>1. /\ Len(gs) = Len(fs) - 1 /\ Len(gs) # Len(fs)
        /\ \A i \in 1..(Len(fs) - 1) : gs[i] = fs[i]
    BY <1>2, <1>3 DEF Popped
  <2>2. HasInvocation(fs[Len(fs)])
    BY <1>2, <1>5
  <2> QED
    BY <1>2, <1>7, <2>1, <2>2, EntriesPop
<1>11. UsageStep(tp.ctx, Counted(tp), FALSE)
  <2>1. Live(tp.ctx)
    BY <1>0, <1>a, UsableFacts
  <2> QED
    BY <1>4, <1>5, <2>1 DEF UsageStep
<1> QED
  BY <1>1, <1>3, <1>4, <1>7, <1>9, <1>10, <1>11, <1>a, PopStep

\* The fields of a call that begins.
LEMMA NewFrameFields ==
  ASSUME NEW f \in Function, NEW c \in Ctx \cup {0}, NEW fr, fr = NewFrame(f, c)
  PROVE  /\ fr \in Frame /\ fr.ctx = c /\ fr.at = (IF c = 0 THEN "body" ELSE "guard") /\ ~fr.trap /\ ~fr.notified
         /\ fr.running = NoListener /\ fr.next = 1
  BY DEF Frame, NewFrame, InTrampoline

\* The beginning of a call keeps the invariant.
LEMMA CallIInv ==
  ASSUME IInv, NEW t \in Thread, NEW f \in Function, Call(t, f)
  PROVE  IInv'
<1>a. PICK fs, fr : fs = frames[t] /\ fr = NewFrame(f, prologue[f])
  OBVIOUS
<1>b. PICK gs, n : gs = Append(fs, fr) /\ n = Len(fs) + 1
  OBVIOUS
<1>0. /\ ctx \in [Ctx -> Context] /\ CountOK /\ frames \in [Thread -> Seq(Frame)]
      /\ prologue \in [Address -> Ctx \cup {0}] /\ PrologueOK(prologue, ctx)
      /\ stack \in [Thread -> Seq(Invocation)] /\ guardKey \in [Thread -> BOOLEAN]
  BY DEF IInv, DataOK, Shape
<1>1. /\ Len(fs) < MaxDepth /\ At(t) \in {"out", "body", "replacement", "on_enter", "on_leave"}
      /\ frames' = [frames EXCEPT ![t] = gs]
      /\ UNCHANGED <<table, prologue, ctx, txn, lock, job, stack, guardKey>>
  BY <1>a, <1>b DEF Call, intercVars
<1>2. fs \in Seq(Frame) /\ Len(fs) \in Nat /\ DOMAIN fs = 1..Len(fs)
  BY <1>0, <1>a, LenProperties
<1>3. f \in Address /\ prologue[f] \in Ctx \cup {0}
  BY <1>0 DEF Address
<1>4. /\ fr \in Frame /\ fr.ctx = prologue[f] /\ fr.at = (IF fr.ctx = 0 THEN "body" ELSE "guard")
      /\ ~fr.trap /\ ~fr.notified /\ fr.running = NoListener /\ fr.next = 1
  BY <1>3, <1>a, NewFrameFields
<1>5. gs \in Seq(Frame) /\ Grown(fs, gs, fr)
  BY <1>2, <1>4, <1>b, StackForms
<1>6. /\ ThreadOK(fs, stack[t], guardKey[t])
      /\ \A i \in 1..Len(fs) : FrameOK(fs[i], ctx, txn, job)
  BY <1>a DEF IInv
<1>7. PlaceOK(fr) /\ ~Counted(fr) /\ ~Inside(fr) /\ ~Iterating(fr) /\ ~HasInvocation(fr) /\ fr.at \in Above
  BY <1>4 DEF PlaceOK, Counted, Inside, Iterating, HasInvocation, Above
<1>8. fs # <<>> => fs[Len(fs)].at \in {"body", "replacement", "on_enter", "on_leave"}
  <2> HAVE fs # <<>>
  <2>1. At(t) = fs[Len(fs)].at
    BY <1>2, <1>a, TopFacts
  <2>2. fs[Len(fs)] \in Frame
    BY <1>2, FrontProps
  <2>3. fs[Len(fs)].at # "out"
    BY <2>2 DEF Frame, InTrampoline
  <2> QED
    BY <1>1, <2>1, <2>3
<1>9. fs = <<>> \/ fs[Len(fs)].at # "undefined"
  BY <1>8
<1>10. CallsOK(fs) /\ GuardOK(fs, guardKey[t]) /\ EntriesOK(fs, stack[t])
  BY <1>6, <1>9 DEF ThreadOK
<1>11. CallsOK(gs)
  <2>1. Len(fs) = 0 => fs = <<>>
    BY <1>2, EmptySeq
  <2> QED
    BY <1>4, <1>5, <1>7, <1>8, <1>10, <2>1, GrowCalls
<1>12. GuardOK(gs, guardKey[t])
  BY <1>5, <1>7, <1>10, GuardGrown
<1>13. EntriesOK(gs, stack[t])
  BY <1>5, <1>7, <1>10, EntriesFrameGrown
<1>14. n \in 1..MaxDepth /\ n \in Nat /\ Len(gs) = n /\ n <= MaxDepth
  BY <1>1, <1>2, <1>5, <1>b, BoundsAssumption DEF Grown
<1>15. ThreadOK(gs, stack[t], guardKey[t])
  BY <1>11, <1>12, <1>13, <1>14 DEF ThreadOK
<1>16. gs[n] = fr /\ \A i \in 1..Len(fs) : gs[i] = fs[i]
  BY <1>2, <1>5, <1>b DEF Grown
<1>17. FrameOK(fr, ctx, txn, job)
  <2>1. fr.ctx # 0 => ctx[fr.ctx].state # "unborn"
    BY <1>0, <1>3, <1>4 DEF PrologueOK
  <2> QED
    BY <1>7, <2>1 DEF FrameOK, FrameIn
<1>18. \A i \in 1..Len(gs) : FrameOK(gs[i], ctx, txn, job)
  <2>1. \A i \in 1..Len(gs) : i = n \/ i \in 1..Len(fs)
    BY <1>2, <1>14, <1>b
  <2> QED
    BY <1>6, <1>16, <1>17, <2>1
<1>19. DOMAIN gs = 1..n
  BY <1>5, <1>14, LenProperties
<1>20. frames'[t] = gs /\ \A u \in Thread : u # t => frames'[u] = frames[u]
  BY <1>0, <1>1
<1>21. ASSUME NEW c \in Ctx
       PROVE  /\ \A i \in 1..MaxDepth : i # n => (CountsAt(frames'[t], i, c) <=> CountsAt(frames[t], i, c))
              /\ Bit(CountsAt(frames'[t], n, c)) = 0
              /\ Bit(CountsAt(frames[t], n, c)) = 0
  <2>0. \A i \in 1..MaxDepth : i # n => (i \in 1..n <=> i \in 1..Len(fs))
    BY <1>2, <1>b
  <2>1. \A i \in 1..MaxDepth : i # n => (CountsAt(gs, i, c) <=> CountsAt(fs, i, c))
    BY <1>2, <1>16, <1>19, <2>0 DEF CountsAt
  <2>2. ~CountsAt(gs, n, c)
    BY <1>7, <1>16 DEF CountsAt
  <2>3. ~CountsAt(fs, n, c)
    BY <1>2, <1>b DEF CountsAt
  <2> QED
    BY <1>20, <1>a, <2>1, <2>2, <2>3 DEF Bit
<1>22. \A c \in Ctx : /\ ctx'[c].state = ctx[c].state
                      /\ ctx[c].state # "live" => ctx'[c].usage = ctx[c].usage
                      /\ ctx[c].state = "live" =>
                           ctx'[c].usage = ctx[c].usage + Bit(CountsAt(frames'[t], n, c))
                                                        - Bit(CountsAt(frames[t], n, c))
  <2>1. \A c \in Ctx : ctx[c].usage \in Int
    BY <1>0 DEF Context
  <2> QED
    BY <1>1, <1>21, <2>1
<1>23. CountOK'
  BY <1>0, <1>14, <1>20, <1>21, <1>22, CountStep
<1>24. stack' = [stack EXCEPT ![t] = stack[t]] /\ guardKey' = [guardKey EXCEPT ![t] = guardKey[t]]
  BY <1>0, <1>1
<1>25. SameButUsage(ctx, ctx')
  BY <1>0, <1>1, SameUsage
<1>26. PICK su \in Seq(Invocation), h \in BOOLEAN : su = stack[t] /\ h = guardKey[t]
  BY <1>0
<1>27. ThreadOK(gs, su, h) /\ stack' = [stack EXCEPT ![t] = su] /\ guardKey' = [guardKey EXCEPT ![t] = h]
  BY <1>15, <1>24, <1>26
<1>28. UNCHANGED <<table, prologue, txn, lock, job>> /\ frames' = [frames EXCEPT ![t] = gs]
  BY <1>1
<1>29. gs \in Seq(Frame)
  BY <1>5
<1> QED
  BY <1>18, <1>23, <1>25, <1>26, <1>27, <1>28, <1>29, ThreadStep

\* A step of a controller.
LEMMA ControllerStep ==
  ASSUME IInv, UNCHANGED <<frames, stack, guardKey>>, lock' \in SUBSET Controller,
         DataOK(table', prologue', ctx', txn', job'),
         \A t \in Thread : \A i \in 1..Len(frames[t]) : FrameOK(frames[t][i], ctx', txn', job'),
         CountOK'
  PROVE  IInv'
<1>1. \A t \in Thread : ThreadOK(frames'[t], stack'[t], guardKey'[t])
  BY DEF IInv
<1>2. \A t \in Thread : \A i \in 1..Len(frames'[t]) : FrameOK(frames'[t][i], ctx', txn', job')
  OBVIOUS
<1>3. /\ frames' \in [Thread -> Seq(Frame)] /\ stack' \in [Thread -> Seq(Invocation)]
      /\ guardKey' \in [Thread -> BOOLEAN]
  BY DEF IInv
<1> QED
  BY <1>1, <1>2, <1>3 DEF IInv

\* The counters when no thread takes a step: what is born is not counted yet.
LEMMA CountKept ==
  ASSUME IInv, UNCHANGED frames,
         \A c \in Ctx : \/ ctx'[c].usage = ctx[c].usage /\ (ctx'[c].state = "live" => ctx[c].state = "live")
                        \/ ctx[c].state = "unborn" /\ ctx'[c].usage = 0
  PROVE  CountOK'
<1>1. \A c \in Ctx : CallsOf(c)' = CallsOf(c)
  BY DEF CallsOf
<1>2. ASSUME NEW c \in Ctx
      PROVE  /\ ctx'[c].usage \in Nat
             /\ IsFiniteSet(CallsOf(c))
             /\ ctx'[c].state = "live" => ctx'[c].usage = Cardinality(CallsOf(c))
  <2>1. /\ ctx[c].usage \in Nat /\ IsFiniteSet(CallsOf(c))
        /\ ctx[c].state = "live" => ctx[c].usage = Cardinality(CallsOf(c))
    BY DEF IInv, CountOK
  <2>2. CASE ctx'[c].usage = ctx[c].usage /\ (ctx'[c].state = "live" => ctx[c].state = "live")
    BY <2>1, <2>2
  <2>3. CASE ctx[c].state = "unborn" /\ ctx'[c].usage = 0
    <3>1. ASSUME NEW p \in CallsOf(c)
          PROVE  FALSE
      <4>1. p[1] \in Thread /\ p[2] \in DOMAIN frames[p[1]] /\ frames[p[1]][p[2]].ctx = c
        BY DEF CallsOf
      <4>2. frames[p[1]] \in Seq(Frame)
        BY <4>1 DEF IInv
      <4>3. p[2] \in 1..Len(frames[p[1]])
        BY <4>1, <4>2, LenProperties
      <4>4. FrameOK(frames[p[1]][p[2]], ctx, txn, job)
        BY <4>1, <4>3 DEF IInv
      <4>5. c # 0
        BY BoundsAssumption DEF Ctx
      <4> QED
        BY <2>3, <4>1, <4>4, <4>5 DEF FrameOK, FrameIn
    <3>2. CallsOf(c) = {}
      BY <3>1
    <3> QED
      BY <2>1, <2>3, <3>2, FS_EmptySet
  <2> QED
    BY <2>2, <2>3
<1> QED
  BY <1>1, <1>2 DEF CountOK

\* A step that changes nothing the invariant is about.
LEMMA OtherIInv ==
  ASSUME IInv, UNCHANGED <<table, prologue, ctx, txn, lock, job, frames, stack, guardKey>>
  PROVE  IInv'
<1>1. CountOK'
  BY CountKept
<1> QED
  BY <1>1, ControllerStep DEF IInv

-----------------------------------------------------------------------------
(* Steps of the controllers.                                               *)

\* A context that was created stays what the calls in it need.
LaterContext(x, y) ==
  /\ y.state = x.state
  /\ y.freed = x.freed
  /\ Len(x.arrays) <= Len(y.arrays)
  /\ x.destroyed => y.destroyed /\ Len(y.arrays) = Len(x.arrays)
  /\ \A v \in 1..Len(x.arrays) : \A l \in Listener : Member(y.arrays[v], l) => Member(x.arrays[v], l)

LaterContexts(cx, cy) ==
  /\ cx \in [Ctx -> Context] /\ cy \in [Ctx -> Context]
  /\ \A c \in Ctx : cx[c].state # "unborn" => LaterContext(cx[c], cy[c])

\* What was held of the listeners still is.
HeldLater(cx, tx, jb, cy, ty, jc) ==
  \A c \in Ctx : \A l \in Listener :
    cx[c].state # "unborn" /\ Held(c, l, cx, tx, jb) => Held(c, l, cy, ty, jc)

\* No other task is under way.
DueLater(jb, jc) ==
  \A k \in Controller : jc[k].at = "notify" => jb[k].at = "notify" /\ jc[k].tasks[1] = jb[k].tasks[1]

\* The listener arrays of a context.
LEMMA ArrayLengths ==
  ASSUME NEW x \in Context
  PROVE  /\ x.arrays \in Seq(Seq(Slot)) /\ Len(x.arrays) \in Nat
         /\ \A v \in 1..Len(x.arrays) : x.arrays[v] \in Seq(Slot)
         /\ x.arrays # <<>> => /\ Len(x.arrays) \in Nat \ {0} /\ Len(x.arrays) \in 1..Len(x.arrays)
                               /\ Entries(x) \in Seq(Slot)
<1>1. x.arrays \in Seq(Seq(Slot))
  BY DEF Context
<1>2. Len(x.arrays) \in Nat /\ \A v \in 1..Len(x.arrays) : x.arrays[v] \in Seq(Slot)
  BY <1>1, LenProperties, ElementOfSeq
<1>3. x.arrays # <<>> => Len(x.arrays) # 0
  BY <1>1, EmptySeq
<1>4. x.arrays # <<>> => Len(x.arrays) \in Nat \ {0} /\ Len(x.arrays) \in 1..Len(x.arrays)
  BY <1>2, <1>3
<1> QED
  BY <1>1, <1>2, <1>4 DEF Entries

\* A call that was right is right in the contexts that come after.
LEMMA LaterFrame ==
  ASSUME NEW fr \in Frame, NEW cx, NEW tx, NEW jb, NEW cy, NEW ty, NEW jc,
         FrameOK(fr, cx, tx, jb), LaterContexts(cx, cy), HeldLater(cx, tx, jb, cy, ty, jc), DueLater(jb, jc)
  PROVE  FrameOK(fr, cy, ty, jc)
<1>1. CASE fr.ctx = 0
  BY <1>1 DEF FrameOK
<1>2. CASE fr.ctx # 0
  <2>a. PICK c, x, y : c = fr.ctx /\ x = cx[c] /\ y = cy[c]
    OBVIOUS
  <2>1. c \in Ctx
    BY <1>2, <2>a DEF Frame
  <2>2. /\ FrameIn(fr, x)
        /\ Counted(fr) /\ fr.early =>
             /\ \A k \in Controller : jb[k].at = "notify" => Spares(jb[k].tasks[1], fr)
             /\ Iterating(fr) => \A l \in Listener : Uses(fr, l, x) => Held(c, l, cx, tx, jb)
    BY <1>2, <2>a DEF FrameOK
  <2>3. x.state # "unborn" /\ x \in Context /\ y \in Context /\ LaterContext(x, y)
    BY <2>1, <2>2, <2>a DEF LaterContexts, FrameIn
  <2>4. Len(x.arrays) \in Nat /\ Len(y.arrays) \in Nat
    BY <2>3, ArrayLengths
  <2>5. fr.version \in 1..Len(x.arrays) => fr.version \in 1..Len(y.arrays)
    BY <2>3, <2>4 DEF LaterContext
  <2>6. FrameIn(fr, y)
    BY <2>2, <2>3, <2>5 DEF FrameIn, LaterContext
  <2>7. Counted(fr) /\ fr.early => \A k \in Controller : jc[k].at = "notify" => Spares(jc[k].tasks[1], fr)
    BY <2>2 DEF DueLater
  <2>8. ASSUME Counted(fr) /\ fr.early, Iterating(fr), NEW l \in Listener, Uses(fr, l, y)
        PROVE  Held(c, l, cy, ty, jc)
    <3>1. fr.version \in 1..Len(x.arrays)
      BY <2>2, <2>8 DEF FrameIn
    <3>2. Uses(fr, l, x)
      BY <2>3, <2>8, <3>1 DEF Uses, LaterContext
    <3>3. Held(c, l, cx, tx, jb)
      BY <2>2, <2>8, <3>2
    <3> QED
      BY <2>1, <2>3, <2>a, <3>3 DEF HeldLater
  <2> QED
    BY <2>6, <2>7, <2>8, <2>a DEF FrameOK
<1> QED
  BY <1>1, <1>2

\* All the calls of all the threads.
FramesOK(cx, tx, jb) ==
  \A t \in Thread : \A i \in 1..Len(frames[t]) : FrameOK(frames[t][i], cx, tx, jb)

\* The calls of a thread have the shape of calls.
LEMMA FrameTypes ==
  ASSUME frames \in [Thread -> Seq(Frame)]
  PROVE  \A t \in Thread : \A i \in 1..Len(frames[t]) : frames[t][i] \in Frame
  BY ElementOfSeq

\* All calls that were right are right in the contexts that come after.
LEMMA LaterFrames ==
  ASSUME frames \in [Thread -> Seq(Frame)], NEW cx, NEW tx, NEW jb, NEW cy, NEW ty, NEW jc,
         FramesOK(cx, tx, jb), LaterContexts(cx, cy), HeldLater(cx, tx, jb, cy, ty, jc), DueLater(jb, jc)
  PROVE  FramesOK(cy, ty, jc)
<1> SUFFICES ASSUME NEW t \in Thread, NEW i \in 1..Len(frames[t])
             PROVE  FrameOK(frames[t][i], cy, ty, jc)
  BY DEF FramesOK
<1>1. frames[t][i] \in Frame /\ FrameOK(frames[t][i], cx, tx, jb)
  BY FrameTypes DEF FramesOK
<1> QED
  BY <1>1, LaterFrame

\* The counters of contexts cy against those of cx.
CountsKept(cx, cy) ==
  \A c \in Ctx : \/ cy[c].usage = cx[c].usage /\ (cy[c].state = "live" => cx[c].state = "live")
                 \/ cx[c].state = "unborn" /\ cy[c].usage = 0

\* A transaction with more to do.
GrowsTo(tx, ty, cy) ==
  /\ ty \in Transaction
  /\ \A u : Member(tx.updates, u) => Member(ty.updates, u)
  /\ \A i \in 1..Len(ty.updates) :
       Member(tx.updates, ty.updates[i]) \/ cy[ty.updates[i].ctx].state # "unborn"
  /\ \A task : Member(tx.destroys, task) => Member(ty.destroys, task)
  /\ \A i \in 1..Len(ty.destroys) :
       Member(tx.destroys, ty.destroys[i]) \/ TaskOK(ty.destroys[i], cy)

\* Contexts that the clients have changed.
Edited(cx, cy) ==
  /\ LaterContexts(cx, cy)
  /\ \A c \in Ctx : cx[c].state # "unborn" =>
       cy[c].address = cx[c].address /\ cy[c].activated = cx[c].activated /\ cy[c].usage = cx[c].usage
  /\ \A c \in Ctx : cx[c].state = "unborn" => ~cy[c].destroyed /\ cy[c].usage = 0

\* What was destroyed just now is to be deactivated.
DeactivatesNew(cx, cy, ty) ==
  \A c \in Ctx : cy[c].destroyed /\ cy[c].activated /\ ~cx[c].destroyed =>
    Member(ty.updates, [ctx |-> c, activate |-> FALSE])

\* A task that was right is right in the contexts that come after.
LEMMA TaskLater ==
  ASSUME NEW cx, NEW cy, LaterContexts(cx, cy), NEW task \in Task, TaskOK(task, cx)
  PROVE  TaskOK(task, cy)
<1>1. task.ctx \in Ctx
  BY DEF Task
<1>2. cx[task.ctx] \in Context /\ cy[task.ctx] \in Context /\ LaterContext(cx[task.ctx], cy[task.ctx])
  BY <1>1 DEF LaterContexts, TaskOK
<1>3. Len(cx[task.ctx].arrays) \in Nat /\ Len(cy[task.ctx].arrays) \in Nat
  BY <1>2, ArrayLengths
<1>4. task.kind = "array" => task.version \in Nat
  BY DEF Task
<1> QED
  BY <1>2, <1>3, <1>4 DEF TaskOK, LaterContext

\* The state of the interceptor in the middle of an API call.
Midway(tb, cx, tx) ==
  /\ DataOK(tb, prologue, cx, tx, job)
  /\ FramesOK(cx, tx, job)
  /\ CountsKept(ctx, cx)

\* What an API call has to establish before its transaction ends.
LEMMA EditedIsMidway ==
  ASSUME IInv, NEW tb \in [Address -> Ctx \cup {0}], NEW cy, NEW ty,
         Edited(ctx, cy), GrowsTo(txn, ty, cy), ContextsOK(cy), TableOK(tb, cy),
         DeactivatesNew(ctx, cy, ty), HeldLater(ctx, txn, job, cy, ty, job)
  PROVE  Midway(tb, cy, ty)
<1>1. Shape(table, prologue, ctx, txn, job) /\ DataOK(table, prologue, ctx, txn, job)
  BY DEF IInv, DataOK
<1>2. LaterContexts(ctx, cy) /\ ty \in Transaction /\ cy \in [Ctx -> Context]
  BY DEF Edited, LaterContexts, GrowsTo
<1>3. Shape(tb, prologue, cy, ty, job)
  BY <1>1, <1>2 DEF Shape
<1>4. PrologueOK(prologue, cy)
  <2> SUFFICES ASSUME NEW a \in Address, prologue[a] # 0
               PROVE  cy[prologue[a]].state # "unborn" /\ cy[prologue[a]].activated /\ cy[prologue[a]].address = a
    BY DEF PrologueOK
  <2>1. prologue[a] \in Ctx
    BY <1>1 DEF Shape
  <2>2. ctx[prologue[a]].state # "unborn" /\ ctx[prologue[a]].activated /\ ctx[prologue[a]].address = a
    BY <1>1 DEF DataOK, PrologueOK
  <2> QED
    BY <1>2, <2>1, <2>2 DEF Edited, LaterContexts, LaterContext
<1>5. TransactionOK(txn, ctx) /\ txn \in Transaction
  BY <1>1 DEF DataOK, Shape
<1>6. ASSUME NEW i \in 1..Len(ty.updates)
      PROVE  cy[ty.updates[i].ctx].state # "unborn"
  <2>1. CASE Member(txn.updates, ty.updates[i])
    <3>1. PICK j \in 1..Len(txn.updates) : txn.updates[j] = ty.updates[i]
      BY <2>1 DEF Member
    <3>2. txn.updates[j].ctx \in Ctx
      BY <1>5, TransactionTypes
    <3>3. ctx[ty.updates[i].ctx].state # "unborn" /\ ty.updates[i].ctx \in Ctx
      BY <1>5, <3>1, <3>2 DEF TransactionOK
    <3> QED
      BY <1>2, <3>3 DEF LaterContexts, LaterContext
  <2> QED
    BY <2>1 DEF GrowsTo
<1>7. ASSUME NEW i \in 1..Len(ty.destroys)
      PROVE  TaskOK(ty.destroys[i], cy)
  <2>1. CASE Member(txn.destroys, ty.destroys[i])
    <3>1. PICK j \in 1..Len(txn.destroys) : txn.destroys[j] = ty.destroys[i]
      BY <2>1 DEF Member
    <3>2. ty.destroys[i] \in Task /\ TaskOK(ty.destroys[i], ctx)
      BY <1>5, <3>1, TransactionTypes DEF TransactionOK
    <3> QED
      BY <1>2, <3>2, TaskLater
  <2> QED
    BY <2>1 DEF GrowsTo
<1>8. ASSUME NEW c \in Ctx, cy[c].destroyed /\ cy[c].activated
      PROVE  Member(ty.updates, [ctx |-> c, activate |-> FALSE])
  <2>1. CASE ctx[c].destroyed
    <3>0. ctx[c].state # "unborn"
      BY <1>8 DEF Edited
    <3>1. ctx[c].activated
      BY <1>8, <3>0 DEF Edited
    <3> QED
      BY <1>5, <2>1, <3>1 DEF TransactionOK, GrowsTo
  <2> QED
    BY <1>8, <2>1 DEF DeactivatesNew
<1>9. TransactionOK(ty, cy)
  BY <1>6, <1>7, <1>8 DEF TransactionOK
<1>10. ASSUME NEW k \in Controller
       PROVE  JobOK(job[k], cy)
  <2>1. JobOK(job[k], ctx) /\ job[k].tasks \in Seq(Task)
    BY <1>1 DEF DataOK, Shape, Job
  <2>2. ASSUME NEW i \in 1..Len(job[k].tasks)
        PROVE  /\ TaskOK(job[k].tasks[i], cy)
               /\ job[k].tasks[i].kind = "context" => ~cy[job[k].tasks[i].ctx].activated
    <3>1. /\ job[k].tasks[i] \in Task /\ TaskOK(job[k].tasks[i], ctx)
          /\ job[k].tasks[i].kind = "context" => ~ctx[job[k].tasks[i].ctx].activated
      BY <2>1, ElementOfSeq DEF JobOK
    <3>2. job[k].tasks[i].ctx \in Ctx /\ ctx[job[k].tasks[i].ctx].state # "unborn"
      BY <3>1 DEF Task, TaskOK
    <3>3. cy[job[k].tasks[i].ctx].activated = ctx[job[k].tasks[i].ctx].activated
      BY <3>2 DEF Edited
    <3> QED
      BY <1>2, <3>1, <3>3, TaskLater
  <2> QED
    BY <2>1, <2>2 DEF JobOK
<1>11. DataOK(tb, prologue, cy, ty, job)
  BY <1>3, <1>4, <1>9, <1>10 DEF DataOK
<1>12. FramesOK(cy, ty, job)
  <2>1. DueLater(job, job)
    BY DEF DueLater
  <2>2. frames \in [Thread -> Seq(Frame)] /\ FramesOK(ctx, txn, job)
    BY DEF IInv, FramesOK
  <2> QED
    BY <1>2, <2>1, <2>2, LaterFrames
<1>13. CountsKept(ctx, cy)
  BY DEF CountsKept, Edited, LaterContexts, LaterContext
<1> QED
  BY <1>11, <1>12, <1>13 DEF Midway

\* The last of some indices.
LEMMA LastIndex ==
  ASSUME NEW n \in Nat, NEW S, S \subseteq 1..n, S # {}
  PROVE  \E i \in S : \A j \in S : j <= i
<1> DEFINE B == {m \in Nat : n - m \in S}
<1>1. B \in SUBSET Nat /\ B # {}
  <2>1. PICK i : i \in S
    OBVIOUS
  <2>2. n - i \in Nat /\ n - (n - i) = i
    BY <2>1
  <2> QED
    BY <2>1, <2>2
<1>2. PICK x \in B : \A y \in B : ~(<<y, x>> \in OpToRel(<, Nat))
  BY <1>1, NatLessThanWellFounded, WFMin
<1>3. x \in Nat /\ n - x \in S
  BY <1>2
<1>4. ASSUME NEW j \in S
      PROVE  j <= n - x
  <2>1. j \in 1..n /\ n - j \in Nat /\ n - (n - j) = j
    OBVIOUS
  <2>2. n - j \in B
    BY <2>1
  <2>3. ~(n - j < x)
    BY <1>2, <1>3, <2>1, <2>2 DEF OpToRel
  <2> QED
    BY <1>3, <2>1, <2>3
<1> QED
  BY <1>3, <1>4

\* What the transaction's end writes at an address.
LEMMA PatchedForms ==
  ASSUME NEW tx \in Transaction, NEW cx, NEW a
  PROVE  \/ Effective(tx, cx, a) = {} /\ Patched(tx, cx, a) = prologue[a]
         \/ \E i \in 1..Len(tx.updates) :
              LET u == tx.updates[i] IN
              /\ cx[u.ctx].address = a
              /\ \/ u.activate /\ ~cx[u.ctx].destroyed /\ Patched(tx, cx, a) = u.ctx
                 \/ ~u.activate /\ Patched(tx, cx, a) = cx[u.ctx].overwritten
<1>a. PICK es : es = Effective(tx, cx, a)
  OBVIOUS
<1>0. DOMAIN tx.updates = 1..Len(tx.updates) /\ Len(tx.updates) \in Nat
  BY TransactionTypes, LenProperties
<1>1. CASE es = {}
  BY <1>1, <1>a DEF Patched
<1>2. CASE es # {}
  <2>1. es \subseteq 1..Len(tx.updates)
    BY <1>0, <1>a DEF Effective
  <2>2. \E i \in es : \A j \in es : j <= i
    BY <1>0, <1>2, <2>1, LastIndex
  <2>b. PICK m : m = CHOOSE i \in es : \A j \in es : j <= i
    OBVIOUS
  <2>3. m \in es
    BY <2>2, <2>b
  <2>c. PICK u : u = tx.updates[m]
    OBVIOUS
  <2>4. m \in 1..Len(tx.updates) /\ cx[u.ctx].address = a /\ (u.activate => ~cx[u.ctx].destroyed)
    BY <2>1, <2>3, <2>c, <1>a DEF Effective
  <2>5. Patched(tx, cx, a) = IF u.activate THEN u.ctx ELSE cx[u.ctx].overwritten
    BY <1>2, <1>a, <2>b, <2>c DEF Patched
  <2> QED
    BY <2>4, <2>5, <2>c
<1> QED
  BY <1>1, <1>2

\* The contexts after the updates of tx.
Refreshed(tx, cx) == [c \in Ctx |-> [cx[c] EXCEPT !.activated = Activated(tx, cx, c)]]

SameButActivated(x, y) ==
  /\ y.state = x.state /\ y.address = x.address /\ y.destroyed = x.destroyed
  /\ y.arrays = x.arrays /\ y.freed = x.freed /\ y.replacement = x.replacement
  /\ y.overwritten = x.overwritten /\ y.usage = x.usage

\* The end of a transaction changes nothing of a context but whether it is
\* activated.
LEMMA RefreshedProps ==
  ASSUME NEW cx \in [Ctx -> Context], NEW tx, NEW cy, cy = Refreshed(tx, cx)
  PROVE  /\ cy \in [Ctx -> Context]
         /\ \A c \in Ctx : SameButActivated(cx[c], cy[c])
         /\ \A c \in Ctx : cy[c].activated = Activated(tx, cx, c) /\ Activated(tx, cx, c) \in BOOLEAN
<1>1. \A c \in Ctx : Activated(tx, cx, c) \in BOOLEAN
  BY DEF Activated, Context
<1>2. ASSUME NEW c \in Ctx
      PROVE  /\ cy[c] \in Context /\ SameButActivated(cx[c], cy[c]) /\ cy[c].activated = Activated(tx, cx, c)
  <2>1. PICK b \in BOOLEAN : b = Activated(tx, cx, c)
    BY <1>1
  <2>2. cy[c] = [cx[c] EXCEPT !.activated = b] /\ cx[c] \in Context
    BY <2>1 DEF Refreshed
  <2> QED
    BY <2>1, <2>2 DEF Context, SameButActivated
<1>3. cy \in [Ctx -> Context]
  BY <1>2 DEF Refreshed
<1> QED
  BY <1>1, <1>2, <1>3

\* The updates as a set.
LEMMA UpdatesRange ==
  ASSUME NEW tx \in Transaction, NEW u
  PROVE  u \in Range(tx.updates) <=> Member(tx.updates, u)
<1>1. DOMAIN tx.updates = 1..Len(tx.updates)
  BY TransactionTypes, LenProperties
<1> QED
  BY <1>1 DEF Range, Member

\* Once the updates are made nothing destroyed is active, nor anything unborn.
LEMMA RefreshedActivation ==
  ASSUME NEW tx \in Transaction, NEW cx \in [Ctx -> Context], TransactionOK(tx, cx), NEW c \in Ctx
  PROVE  /\ cx[c].destroyed => ~Activated(tx, cx, c)
         /\ cx[c].state = "unborn" /\ ~cx[c].activated => ~Activated(tx, cx, c)
<1>1. cx[c].destroyed => ~Activated(tx, cx, c)
  BY UpdatesRange DEF Activated, TransactionOK
<1>2. cx[c].state = "unborn" => ~Member(tx.updates, [ctx |-> c, activate |-> TRUE])
  BY DEF TransactionOK, Member
<1>3. cx[c].state = "unborn" /\ ~cx[c].activated => ~Activated(tx, cx, c)
  BY <1>2, UpdatesRange DEF Activated
<1> QED
  BY <1>1, <1>3

\* The contexts and the code at the end of a transaction.
LEMMA FlushedContexts ==
  ASSUME NEW tb, NEW cx, NEW tx, DataOK(tb, prologue, cx, tx, job), NEW cy, cy = Refreshed(tx, cx)
  PROVE  /\ cy \in [Ctx -> Context] /\ ContextsOK(cy) /\ TableOK(tb, cy)
         /\ \A c \in Ctx : cy[c].destroyed => ~cy[c].activated
         /\ [a \in Address |-> Patched(tx, cx, a)] \in [Address -> Ctx \cup {0}]
         /\ PrologueOK([a \in Address |-> Patched(tx, cx, a)], cy)
<1>1. /\ cx \in [Ctx -> Context] /\ tx \in Transaction /\ TransactionOK(tx, cx) /\ ContextsOK(cx)
      /\ TableOK(tb, cx) /\ PrologueOK(prologue, cx) /\ prologue \in [Address -> Ctx \cup {0}]
      /\ tb \in [Address -> Ctx \cup {0}]
  BY DEF DataOK, Shape
<1>2. /\ cy \in [Ctx -> Context]
      /\ \A c \in Ctx : SameButActivated(cx[c], cy[c])
      /\ \A c \in Ctx : cy[c].activated = Activated(tx, cx, c)
  BY <1>1, RefreshedProps
<1>3. \A c \in Ctx : cy[c].destroyed => ~cy[c].activated
  BY <1>1, <1>2, RefreshedActivation DEF SameButActivated
<1>4. ASSUME NEW c \in Ctx
      PROVE  ContextOK(c, cy[c])
  <2>1. ContextOK(c, cx[c]) /\ SameButActivated(cx[c], cy[c])
    BY <1>1, <1>2 DEF ContextsOK
  <2>2. cx[c].state = "unborn" => cy[c] = Unborn
    <3> HAVE cx[c].state = "unborn"
    <3>1. cx[c] = Unborn
      BY <2>1 DEF ContextOK
    <3>2. ~cx[c].activated
      BY <3>1 DEF Unborn
    <3>3. ~Activated(tx, cx, c) /\ Activated(tx, cx, c) \in BOOLEAN
      BY <1>1, <3>2, RefreshedActivation, RefreshedProps
    <3>4. cy[c] = [cx[c] EXCEPT !.activated = Activated(tx, cx, c)]
      BY DEF Refreshed
    <3>5. cy[c] = [Unborn EXCEPT !.activated = FALSE]
      BY <3>1, <3>3, <3>4
    <3> QED
      BY <3>5 DEF Unborn
  <2>3. cy[c].state = "freed" => cy[c].destroyed /\ ~cy[c].activated
    BY <1>3, <2>1 DEF ContextOK, SameButActivated
  <2> QED
    BY <2>1, <2>2, <2>3 DEF ContextOK, SameButActivated, Entries
<1>5. ContextsOK(cy)
  <2>1. \A c \in Ctx : cy[c].state = cx[c].state
    BY <1>2 DEF SameButActivated
  <2> QED
    BY <1>1, <1>4, <2>1 DEF ContextsOK
<1>6. TableOK(tb, cy)
  BY <1>1, <1>2 DEF TableOK, SameButActivated
<1>7. ASSUME NEW a \in Address
      PROVE  /\ Patched(tx, cx, a) \in Ctx \cup {0}
             /\ Patched(tx, cx, a) # 0 =>
                  /\ cy[Patched(tx, cx, a)].state # "unborn" /\ cy[Patched(tx, cx, a)].activated
                  /\ cy[Patched(tx, cx, a)].address = a
  <2>1. CASE Effective(tx, cx, a) = {} /\ Patched(tx, cx, a) = prologue[a]
    <3>a. PICK c : c = prologue[a]
      OBVIOUS
    <3>1. c \in Ctx \cup {0}
      BY <1>1, <3>a
    <3>2. ASSUME c # 0
          PROVE  cy[c].state # "unborn" /\ cy[c].activated /\ cy[c].address = a
      <4>1. c \in Ctx /\ cx[c].state # "unborn" /\ cx[c].activated /\ cx[c].address = a
        BY <1>1, <3>1, <3>2, <3>a DEF PrologueOK
      <4>2. ~Member(tx.updates, [ctx |-> c, activate |-> FALSE])
        <5> SUFFICES ASSUME NEW i \in 1..Len(tx.updates), tx.updates[i] = [ctx |-> c, activate |-> FALSE]
                     PROVE  FALSE
          BY DEF Member
        <5>1. i \in DOMAIN tx.updates
          BY <1>1, TransactionTypes, LenProperties
        <5>2. i \in Effective(tx, cx, a)
          BY <4>1, <5>1 DEF Effective
        <5> QED
          BY <2>1, <5>2
      <4>3. Activated(tx, cx, c)
        BY <1>1, <4>1, <4>2, UpdatesRange DEF Activated
      <4> QED
        BY <1>2, <4>1, <4>3 DEF SameButActivated
    <3> QED
      BY <2>1, <3>1, <3>2, <3>a
  <2>2. ASSUME NEW i \in 1..Len(tx.updates), NEW u, u = tx.updates[i], cx[u.ctx].address = a,
               u.activate, ~cx[u.ctx].destroyed, Patched(tx, cx, a) = u.ctx
        PROVE  /\ u.ctx \in Ctx
               /\ cy[u.ctx].state # "unborn" /\ cy[u.ctx].activated /\ cy[u.ctx].address = a
    <3>1. u \in Update /\ u.ctx \in Ctx
      BY <1>1, <2>2, TransactionTypes
    <3>2. u = [ctx |-> u.ctx, activate |-> TRUE]
      BY <2>2, <3>1 DEF Update
    <3>3. Member(tx.updates, [ctx |-> u.ctx, activate |-> TRUE])
      BY <2>2, <3>2 DEF Member
    <3>4. Activated(tx, cx, u.ctx)
      BY <1>1, <2>2, <3>3, UpdatesRange DEF Activated
    <3>5. cx[u.ctx].state # "unborn"
      BY <1>1, <2>2 DEF TransactionOK
    <3> QED
      BY <1>2, <2>2, <3>1, <3>4, <3>5 DEF SameButActivated
  <2>3. ASSUME NEW i \in 1..Len(tx.updates), NEW u, u = tx.updates[i],
               Patched(tx, cx, a) = cx[u.ctx].overwritten
        PROVE  Patched(tx, cx, a) = 0
    <3>1. u.ctx \in Ctx
      BY <1>1, <2>3, TransactionTypes
    <3> QED
      BY <1>1, <2>3, <3>1 DEF ContextsOK, ContextOK
  <2> QED
    BY <1>1, <2>1, <2>2, <2>3, PatchedForms
<1>8. PICK pr : pr = [a \in Address |-> Patched(tx, cx, a)]
  OBVIOUS
<1>9. pr \in [Address -> Ctx \cup {0}] /\ PrologueOK(pr, cy)
  BY <1>7, <1>8 DEF PrologueOK
<1> QED
  BY <1>2, <1>3, <1>5, <1>6, <1>8, <1>9

SameTasks(tx, ty) ==
  ty \in Transaction /\ ty.updates = tx.updates /\ ty.destroys = tx.destroys

\* The nesting level and the dirty flag are nothing the invariant speaks of.
LEMMA SameTasksMidway ==
  ASSUME NEW tb, NEW cx, NEW tx, NEW ty, Midway(tb, cx, tx), SameTasks(tx, ty)
  PROVE  Midway(tb, cx, ty)
<1>1. DataOK(tb, prologue, cx, ty, job)
  BY DEF Midway, DataOK, Shape, TransactionOK, SameTasks
<1>2. \A c, l : Held(c, l, cx, ty, job) <=> Held(c, l, cx, tx, job)
  BY DEF Held, SameTasks
<1>3. FramesOK(cx, ty, job)
  BY <1>2 DEF Midway, FramesOK, FrameOK
<1> QED
  BY <1>1, <1>3 DEF Midway

\* Before an API call has done anything.
LEMMA InvIsMidway ==
  ASSUME IInv
  PROVE  Midway(table, ctx, txn)
  BY DEF IInv, Midway, FramesOK, CountsKept

\* An API call that ends without running anything.
LEMMA MidwayIsEnd ==
  ASSUME IInv, Midway(table', ctx', txn'), UNCHANGED <<prologue, job, lock, frames, stack, guardKey>>
  PROVE  IInv'
<1>1. CountOK'
  BY CountKept DEF Midway, CountsKept
<1>2. DataOK(table', prologue', ctx', txn', job')
  BY DEF Midway
<1>3. \A t \in Thread : \A i \in 1..Len(frames[t]) : FrameOK(frames[t][i], ctx', txn', job')
  BY DEF Midway, FramesOK
<1>4. lock' \in SUBSET Controller
  BY DEF IInv
<1> QED
  BY <1>1, <1>2, <1>3, <1>4, ControllerStep

\* Running the tasks of a transaction.
Working(jb, k, ts) == [jb EXCEPT ![k] = [at |-> "run", tasks |-> ts]]

\* The tasks that the end of a transaction hands to a controller are right,
\* and every listener that was held still is.
LEMMA FlushedJobs ==
  ASSUME NEW tb, NEW cx, NEW tx, Midway(tb, cx, tx), frames \in [Thread -> Seq(Frame)],
         NEW k \in Controller, job[k] = Idle,
         NEW cy, cy = Refreshed(tx, cx), NEW jc, jc = Working(job, k, tx.destroys)
  PROVE  /\ jc \in [Controller -> Job]
         /\ \A j \in Controller : JobOK(jc[j], cy)
         /\ FramesOK(cy, EmptyTransaction, jc)
<1>1. /\ cx \in [Ctx -> Context] /\ tx \in Transaction /\ TransactionOK(tx, cx) /\ job \in [Controller -> Job]
      /\ \A j \in Controller : JobOK(job[j], cx)
      /\ FramesOK(cx, tx, job) /\ DataOK(tb, prologue, cx, tx, job)
  BY DEF Midway, DataOK, Shape
<1>2. cy \in [Ctx -> Context] /\ \A c \in Ctx : SameButActivated(cx[c], cy[c])
  BY <1>1, RefreshedProps
<1>3. \A c \in Ctx : cy[c].destroyed => ~cy[c].activated
  BY <1>1, FlushedContexts
<1>4. tx.destroys \in Seq(Task)
  BY <1>1, TransactionTypes
<1>5. PICK jk : jk = [at |-> "run", tasks |-> tx.destroys]
  OBVIOUS
<1>6. jk \in Job /\ jk.at = "run" /\ jk.tasks = tx.destroys
  BY <1>4, <1>5 DEF Job
<1>7. jc = [job EXCEPT ![k] = jk]
  BY <1>5 DEF Working
<1>8. jc \in [Controller -> Job] /\ jc[k] = jk /\ \A j \in Controller : j # k => jc[j] = job[j]
  BY <1>1, <1>6, <1>7
<1>9. ASSUME NEW c \in Ctx
      PROVE  LaterContext(cx[c], cy[c])
  <2>1. Len(cx[c].arrays) \in Nat
    BY <1>1, ArrayLengths
  <2> QED
    BY <1>2, <2>1 DEF SameButActivated, LaterContext
<1>10. LaterContexts(cx, cy)
  BY <1>1, <1>2, <1>9 DEF LaterContexts
<1>11. ASSUME NEW task \in Task, TaskOK(task, cx)
       PROVE  TaskOK(task, cy) /\ (task.kind = "context" => ~cy[task.ctx].activated)
  <2>1. task.ctx \in Ctx
    BY DEF Task
  <2>2. TaskOK(task, cy)
    BY <1>10, <1>11, TaskLater
  <2> QED
    BY <1>3, <2>1, <2>2 DEF TaskOK
<1>12. ASSUME NEW j \in Controller
       PROVE  JobOK(jc[j], cy)
  <2>1. CASE j = k
    <3>1. \A i \in 1..Len(tx.destroys) : tx.destroys[i] \in Task /\ TaskOK(tx.destroys[i], cx)
      BY <1>1, TransactionTypes DEF TransactionOK
    <3> QED
      BY <1>6, <1>8, <1>11, <2>1, <3>1 DEF JobOK
  <2>2. CASE j # k
    <3>1. jc[j] = job[j] /\ JobOK(job[j], cx) /\ job[j].tasks \in Seq(Task)
      BY <1>1, <1>8, <2>2 DEF Job
    <3>2. \A i \in 1..Len(job[j].tasks) : job[j].tasks[i] \in Task /\ TaskOK(job[j].tasks[i], cx)
      BY <3>1, ElementOfSeq DEF JobOK
    <3> QED
      BY <1>11, <3>1, <3>2 DEF JobOK
  <2> QED
    BY <2>1, <2>2
<1>13. HeldLater(cx, tx, job, cy, EmptyTransaction, jc)
  <2> SUFFICES ASSUME NEW c \in Ctx, NEW l \in Listener, Held(c, l, cx, tx, job)
               PROVE  Held(c, l, cy, EmptyTransaction, jc)
    BY DEF HeldLater
  <2>1. CASE ~cx[c].destroyed /\ Member(Entries(cx[c]), l)
    BY <1>2, <2>1 DEF Held, SameButActivated, Entries
  <2>2. CASE Member(tx.destroys, ListenerTask(c, l))
    <3>1. Waiting(jk, ListenerTask(c, l))
      BY <1>6, <2>2 DEF Member, Waiting
    <3> QED
      BY <1>8, <3>1 DEF Held
  <2>3. ASSUME NEW j \in Controller, Waiting(job[j], ListenerTask(c, l))
        PROVE  Held(c, l, cy, EmptyTransaction, jc)
    <3>1. j # k
      <4> SUFFICES ASSUME j = k
                   PROVE  FALSE
        OBVIOUS
      <4>1. job[j].tasks = <<>>
        BY DEF Idle
      <4>2. Len(<<>>) = 0 /\ 1..0 = {}
        BY EmptySeq
      <4> QED
        BY <2>3, <4>1, <4>2 DEF Waiting
    <3>2. Waiting(jc[j], ListenerTask(c, l))
      BY <1>8, <2>3, <3>1
    <3> QED
      BY <3>2 DEF Held
  <2> QED
    BY <2>1, <2>2, <2>3 DEF Held
<1>14. DueLater(job, jc)
  BY <1>6, <1>8 DEF DueLater
<1>15. FramesOK(cy, EmptyTransaction, jc)
  BY <1>1, <1>10, <1>13, <1>14, LaterFrames
<1> QED
  BY <1>8, <1>12, <1>15

\* After the end of a transaction no destroyed context is activated, so the
\* next one begins with nothing to do.
LEMMA EmptyTransactionOK ==
  ASSUME NEW cy, \A c \in Ctx : cy[c].destroyed => ~cy[c].activated
  PROVE  EmptyTransaction \in Transaction /\ TransactionOK(EmptyTransaction, cy)
<1>1. PICK e : e = EmptyTransaction
  OBVIOUS
<1>2. <<>> \in Seq(Update) /\ <<>> \in Seq(Task) /\ Len(<<>>) = 0
  BY EmptySeq
<1>3. e \in Transaction /\ e.updates = <<>> /\ e.destroys = <<>>
  BY <1>1, <1>2 DEF EmptyTransaction, Transaction
<1>4. TransactionOK(e, cy)
  BY <1>2, <1>3 DEF TransactionOK
<1> QED
  BY <1>1, <1>3, <1>4

\* gum_interceptor_transaction_end keeps the invariant, whatever was done
\* before it.
LEMMA TransactionEndIInv ==
  ASSUME IInv, NEW k \in Controller, job[k] = Idle, UNCHANGED <<frames, stack, guardKey>>,
         NEW cx, NEW tx, TransactionEnd(k, cx, tx), Midway(table', cx, tx), tx.level >= 1
  PROVE  IInv'
<1>1. tx \in Transaction /\ DataOK(table', prologue, cx, tx, job)
  BY DEF Midway, DataOK, Shape
<1>2. tx.level - 1 \in Nat
  BY <1>1 DEF Transaction
<1>a. PICK m : m = tx.level - 1
  OBVIOUS
<1>b. PICK outer : outer = [tx EXCEPT !.level = m]
  OBVIOUS
<1>3. SameTasks(tx, outer) /\ outer.level = m /\ SameTasks(tx, [outer EXCEPT !.dirty = FALSE])
  BY <1>1, <1>2, <1>a, <1>b DEF SameTasks, Transaction
<1>4. CASE \/ txn' = outer /\ ctx' = cx /\ UNCHANGED <<prologue, lock, job>>
           \/ txn' = [outer EXCEPT !.dirty = FALSE] /\ ctx' = cx /\ UNCHANGED <<prologue, lock, job>>
  <2>1. SameTasks(tx, txn')
    BY <1>3, <1>4
  <2>2. Midway(table', ctx', txn')
    BY <1>4, <2>1, SameTasksMidway
  <2>3. UNCHANGED <<prologue, job, lock, frames, stack, guardKey>>
    BY <1>4
  <2> QED
    BY <2>2, <2>3, MidwayIsEnd
<1>5. CASE /\ txn' = EmptyTransaction /\ prologue' = [a \in Address |-> Patched(tx, cx, a)]
           /\ ctx' = Refreshed(tx, cx) /\ lock' = {k} /\ job' = Working(job, k, tx.destroys)
  <2>0. frames \in [Thread -> Seq(Frame)]
    BY DEF IInv
  <2>1. /\ ctx' \in [Ctx -> Context] /\ ContextsOK(ctx') /\ TableOK(table', ctx')
        /\ \A c \in Ctx : ctx'[c].destroyed => ~ctx'[c].activated
        /\ prologue' \in [Address -> Ctx \cup {0}]
        /\ PrologueOK(prologue', ctx')
    BY <1>1, <1>5, FlushedContexts
  <2>2. /\ job' \in [Controller -> Job]
        /\ \A j \in Controller : JobOK(job'[j], ctx')
        /\ FramesOK(ctx', EmptyTransaction, job')
    BY <1>5, <2>0, FlushedJobs
  <2>3. txn' \in Transaction /\ TransactionOK(txn', ctx')
    BY <1>5, <2>1, EmptyTransactionOK
  <2>4. table' \in [Address -> Ctx \cup {0}]
    BY <1>1 DEF DataOK, Shape
  <2>5. DataOK(table', prologue', ctx', txn', job')
    BY <2>1, <2>2, <2>3, <2>4 DEF DataOK, Shape
  <2>6. \A t \in Thread : \A i \in 1..Len(frames[t]) : FrameOK(frames[t][i], ctx', txn', job')
    BY <1>5, <2>2 DEF FramesOK
  <2>7. CountOK'
    <3>1. cx \in [Ctx -> Context]
      BY <1>1 DEF DataOK, Shape
    <3>2. \A c \in Ctx : ctx'[c].usage = cx[c].usage /\ ctx'[c].state = cx[c].state
      BY <1>5, <3>1, RefreshedProps DEF SameButActivated
    <3>3. \A c \in Ctx : \/ cx[c].usage = ctx[c].usage /\ (cx[c].state = "live" => ctx[c].state = "live")
                         \/ ctx[c].state = "unborn" /\ cx[c].usage = 0
      BY DEF Midway, CountsKept
    <3> QED
      BY <3>2, <3>3, CountKept
  <2>8. lock' \in SUBSET Controller
    BY <1>5
  <2> QED
    BY <2>5, <2>6, <2>7, <2>8, ControllerStep
<1>6. [tx EXCEPT !.level = @ - 1] = outer
  BY <1>a, <1>b
<1> QED
  BY <1>4, <1>5, <1>6 DEF TransactionEnd, Refreshed, Working

\* The data when a job changes.
LEMMA JobData ==
  ASSUME IInv, NEW jc \in [Controller -> Job], \A k \in Controller : JobOK(jc[k], ctx)
  PROVE  DataOK(table, prologue, ctx, txn, jc)
  BY DEF IInv, DataOK, Shape

\* One job changes.
WithJob(jb, k, j) == [jb EXCEPT ![k] = j]

\* A controller's job is replaced.
LEMMA OneJob ==
  ASSUME IInv, NEW k \in Controller, NEW j \in Job, JobOK(j, ctx), NEW jc, jc = WithJob(job, k, j)
  PROVE  /\ jc \in [Controller -> Job] /\ jc[k] = j /\ \A i \in Controller : i # k => jc[i] = job[i]
         /\ DataOK(table, prologue, ctx, txn, jc)
<1>1. job \in [Controller -> Job] /\ \A i \in Controller : JobOK(job[i], ctx)
  BY DEF IInv, DataOK, Shape
<1>2. jc \in [Controller -> Job] /\ jc[k] = j /\ \A i \in Controller : i # k => jc[i] = job[i]
  BY <1>1 DEF WithJob
<1>3. \A i \in Controller : JobOK(jc[i], ctx)
  BY <1>1, <1>2
<1> QED
  BY <1>2, <1>3, JobData

\* What a job is made of.
LEMMA JobFacts ==
  ASSUME IInv, NEW k \in Controller
  PROVE  /\ job[k] \in Job /\ job[k].tasks \in Seq(Task) /\ JobOK(job[k], ctx)
         /\ job \in [Controller -> Job] /\ job[k] = [at |-> job[k].at, tasks |-> job[k].tasks]
<1>1. job[k] \in Job /\ JobOK(job[k], ctx) /\ job \in [Controller -> Job]
  BY DEF IInv, DataOK, Shape
<1> QED
  BY <1>1 DEF Job

\* A counted call shows in its context's counter.
LEMMA CountedShows ==
  ASSUME IInv, NEW t \in Thread, NEW i \in 1..Len(frames[t]), NEW c \in Ctx,
         frames[t][i].ctx = c, Counted(frames[t][i]), ctx[c].state = "live"
  PROVE  ctx[c].usage # 0
<1>1. frames[t] \in Seq(Frame) /\ Len(frames[t]) <= MaxDepth
  BY DEF IInv, ThreadOK
<1>2. DOMAIN frames[t] = 1..Len(frames[t]) /\ Len(frames[t]) \in Nat
  BY <1>1, LenProperties
<1>3. i \in 1..MaxDepth
  BY <1>1, <1>2, BoundsAssumption
<1>a. PICK p : p = <<t, i>>
  OBVIOUS
<1>4. p \in Thread \X (1..MaxDepth) /\ p[1] = t /\ p[2] = i
  BY <1>3, <1>a
<1>5. p \in CallsOf(c)
  BY <1>2, <1>4 DEF CallsOf
<1>6. IsFiniteSet(CallsOf(c)) /\ ctx[c].usage = Cardinality(CallsOf(c))
  BY DEF IInv, CountOK
<1>7. Cardinality(CallsOf(c)) # 0
  BY <1>5, <1>6, FS_EmptySet
<1> QED
  BY <1>6, <1>7

\* Releasing the lock for a task that is due keeps the invariant: no call
\* that was counted in time needs what the task takes.
LEMMA TakeTaskIInv ==
  ASSUME IInv, NEW k \in Controller, TakeTask(k)
  PROVE  IInv'
<1>a. PICK ts, task : ts = job[k].tasks /\ task = Head(job[k].tasks)
  OBVIOUS
<1>b. PICK j : j = [at |-> "notify", tasks |-> ts]
  OBVIOUS
<1>1. /\ job[k].at = "run" /\ ts # <<>> /\ SeenUnused(task.ctx)
      /\ job' = [job EXCEPT ![k].at = "notify"] /\ lock' = {}
      /\ UNCHANGED <<table, prologue, ctx, txn, frames, stack, guardKey>>
  BY <1>a DEF TakeTask, threadVars
<1>2. job[k] \in Job /\ ts \in Seq(Task) /\ JobOK(job[k], ctx) /\ job[k] = [at |-> job[k].at, tasks |-> ts]
  BY <1>a, JobFacts
<1>3. job' = WithJob(job, k, j)
  <2>1. [job[k] EXCEPT !.at = "notify"] = j
    BY <1>2, <1>b
  <2> QED
    BY <1>1, <2>1 DEF WithJob
<1>4. j \in Job /\ j.at = "notify" /\ j.tasks = ts
  BY <1>2, <1>b DEF Job
<1>5. JobOK(j, ctx)
  BY <1>1, <1>2, <1>4, <1>a DEF JobOK
<1>6. /\ job'[k] = j /\ \A i \in Controller : i # k => job'[i] = job[i]
      /\ DataOK(table, prologue, ctx, txn, job')
  BY <1>3, <1>4, <1>5, OneJob
<1>7. task = ts[1] /\ task \in Task /\ task.ctx \in Ctx
  <2>1. task = ts[1] /\ task \in Task
    BY <1>1, <1>2, <1>a, TailMembers
  <2> QED
    BY <2>1 DEF Task
<1>8. ASSUME NEW t \in Thread, NEW i \in 1..Len(frames[t])
      PROVE  FrameOK(frames[t][i], ctx, txn, job')
  <2>a. PICK fr : fr = frames[t][i]
    OBVIOUS
  <2>1. fr \in Frame /\ FrameOK(fr, ctx, txn, job)
    BY <2>a, FrameTypes DEF IInv
  <2>2. CASE fr.ctx = 0
    BY <2>2, <2>a DEF FrameOK
  <2>3. CASE fr.ctx # 0
    <3>0. /\ FrameIn(fr, ctx[fr.ctx])
          /\ Counted(fr) /\ fr.early =>
               /\ \A n \in Controller : job[n].at = "notify" => Spares(job[n].tasks[1], fr)
               /\ Iterating(fr) => \A l \in Listener : Uses(fr, l, ctx[fr.ctx]) => Held(fr.ctx, l, ctx, txn, job)
      BY <2>1, <2>3 DEF FrameOK
    <3>1. Counted(fr) /\ fr.early => fr.ctx # task.ctx
      <4> SUFFICES ASSUME Counted(fr), fr.early, fr.ctx = task.ctx
                   PROVE  FALSE
        OBVIOUS
      <4>1. ctx[task.ctx].state = "live"
        BY <3>0 DEF FrameIn
      <4>2. ctx[task.ctx].usage # 0
        BY <1>7, <2>a, <4>1, CountedShows
      <4> QED
        BY <1>1, <1>7, <4>1, <4>2 DEF SeenUnused, Live
    <3>2. Counted(fr) /\ fr.early => \A n \in Controller : job'[n].at = "notify" => Spares(job'[n].tasks[1], fr)
      <4> SUFFICES ASSUME Counted(fr), fr.early, NEW n \in Controller, job'[n].at = "notify"
                   PROVE  Spares(job'[n].tasks[1], fr)
        OBVIOUS
      <4>1. CASE n = k
        BY <1>4, <1>6, <1>7, <3>1, <4>1 DEF Spares
      <4>2. CASE n # k
        BY <1>6, <3>0, <4>2
      <4> QED
        BY <4>1, <4>2
    <3>3. ASSUME fr.ctx # task.ctx, NEW l \in Listener, Held(fr.ctx, l, ctx, txn, job)
          PROVE  Held(fr.ctx, l, ctx, txn, job')
      <4>1. ASSUME NEW n \in Controller, Waiting(job[n], ListenerTask(fr.ctx, l))
            PROVE  Waiting(job'[n], ListenerTask(fr.ctx, l))
        <5>1. CASE n # k
          BY <1>6, <4>1, <5>1
        <5>2. CASE n = k
          <6>1. PICK m \in 1..Len(ts) : ts[m] = ListenerTask(fr.ctx, l)
            BY <1>a, <4>1, <5>2 DEF Waiting
          <6>2. ListenerTask(fr.ctx, l).ctx = fr.ctx
            BY DEF ListenerTask
          <6>3. m # 1
            BY <1>7, <3>3, <6>1, <6>2
          <6> QED
            BY <1>4, <1>6, <5>2, <6>1, <6>3 DEF Waiting
        <5> QED
          BY <5>1, <5>2
      <4> QED
        BY <3>3, <4>1 DEF Held
    <3> QED
      BY <2>a, <3>0, <3>1, <3>2, <3>3 DEF FrameOK
  <2> QED
    BY <2>2, <2>3
<1>9. CountOK'
  BY <1>1, CountKept
<1>10. lock' \in SUBSET Controller
  BY <1>1
<1> QED
  BY <1>1, <1>6, <1>8, <1>9, <1>10, ControllerStep

\* Contexts that do not change.
LEMMA SameContextsLater ==
  ASSUME NEW cx \in [Ctx -> Context]
  PROVE  LaterContexts(cx, cx)
<1>1. \A c \in Ctx : Len(cx[c].arrays) \in Nat
  BY ArrayLengths
<1> QED
  BY <1>1 DEF LaterContexts, LaterContext

\* A step that changes jobs and the transaction only.
LEMMA JobStep ==
  ASSUME IInv, UNCHANGED <<table, prologue, ctx, frames, stack, guardKey>>, lock' \in SUBSET Controller,
         DataOK(table, prologue, ctx, txn', job'), HeldLater(ctx, txn, job, ctx, txn', job'), DueLater(job, job')
  PROVE  IInv'
<1>1. CountOK'
  BY CountKept
<1>2. LaterContexts(ctx, ctx) /\ frames \in [Thread -> Seq(Frame)] /\ FramesOK(ctx, txn, job)
  BY SameContextsLater DEF IInv, DataOK, Shape, FramesOK
<1>3. FramesOK(ctx, txn', job')
  BY <1>2, LaterFrames
<1>4. DataOK(table', prologue', ctx', txn', job')
  OBVIOUS
<1>5. \A t \in Thread : \A i \in 1..Len(frames[t]) : FrameOK(frames[t][i], ctx', txn', job')
  BY <1>3 DEF FramesOK
<1> QED
  BY <1>1, <1>4, <1>5, ControllerStep

\* Taking the lock again after a task keeps the invariant.
LEMMA RelockIInv ==
  ASSUME IInv, NEW k \in Controller, Relock(k)
  PROVE  IInv'
<1>a. PICK ts : ts = job[k].tasks
  OBVIOUS
<1>b. PICK j : j = [at |-> "run", tasks |-> Tail(ts)]
  OBVIOUS
<1>1. /\ job[k].at = "relock" /\ job' = WithJob(job, k, j) /\ lock' = {k}
      /\ UNCHANGED <<table, prologue, ctx, txn, frames, stack, guardKey>>
  BY <1>a, <1>b DEF Relock, threadVars, WithJob
<1>2. ts \in Seq(Task) /\ JobOK(job[k], ctx)
  BY <1>a, JobFacts
<1>3. ts # <<>>
  BY <1>1, <1>2, <1>a DEF JobOK
<1>4. /\ Tail(ts) \in Seq(Task)
      /\ \A i \in 1..Len(Tail(ts)) : Tail(ts)[i] = ts[i + 1] /\ i + 1 \in 1..Len(ts)
      /\ \A i \in 1..Len(ts) : i # 1 => i - 1 \in 1..Len(Tail(ts)) /\ Tail(ts)[i - 1] = ts[i]
  BY <1>2, <1>3, TailMembers
<1>5. j \in Job /\ j.at = "run" /\ j.tasks = Tail(ts)
  BY <1>4, <1>b DEF Job
<1>6. JobOK(j, ctx)
  BY <1>2, <1>4, <1>5, <1>a DEF JobOK
<1>7. /\ job'[k] = j /\ \A i \in Controller : i # k => job'[i] = job[i]
      /\ DataOK(table, prologue, ctx, txn, job')
  BY <1>1, <1>5, <1>6, OneJob
<1>8. ASSUME NEW n \in Controller, NEW task, Waiting(job[n], task)
      PROVE  Waiting(job'[n], task)
  <2>1. CASE n # k
    BY <1>7, <1>8, <2>1
  <2>2. CASE n = k
    <3>1. PICK m \in 1..Len(ts) : ts[m] = task /\ m # 1
      BY <1>1, <1>8, <1>a, <2>2 DEF Waiting
    <3>2. m - 1 \in 1..Len(Tail(ts)) /\ Tail(ts)[m - 1] = task
      BY <1>4, <3>1
    <3> QED
      BY <1>5, <1>7, <2>2, <3>2 DEF Waiting
  <2> QED
    BY <2>1, <2>2
<1>9. HeldLater(ctx, txn, job, ctx, txn', job')
  BY <1>1, <1>8 DEF HeldLater, Held
<1>10. DueLater(job, job')
  BY <1>5, <1>7 DEF DueLater
<1>11. lock' \in SUBSET Controller
  BY <1>1
<1>12. DataOK(table, prologue, ctx, txn', job')
  BY <1>1, <1>7
<1> QED
  BY <1>1, <1>9, <1>10, <1>11, <1>12, JobStep

\* The end of the last task keeps the invariant.
LEMMA UnlockIInv ==
  ASSUME IInv, NEW k \in Controller, Unlock(k)
  PROVE  IInv'
<1>1. /\ job[k].at = "run" /\ job[k].tasks = <<>> /\ job' = WithJob(job, k, Idle) /\ lock' = {}
      /\ UNCHANGED <<table, prologue, ctx, txn, frames, stack, guardKey>>
  BY DEF Unlock, threadVars, WithJob
<1>2. <<>> \in Seq(Task) /\ Len(<<>>) = 0 /\ 1..0 = {}
  BY EmptySeq
<1>3. Idle \in Job /\ Idle.at = "idle" /\ Idle.tasks = <<>>
  BY <1>2 DEF Job, Idle
<1>4. JobOK(Idle, ctx)
  BY <1>2, <1>3 DEF JobOK
<1>5. /\ job'[k] = Idle /\ \A i \in Controller : i # k => job'[i] = job[i]
      /\ DataOK(table, prologue, ctx, txn, job')
  BY <1>1, <1>3, <1>4, OneJob
<1>6. ASSUME NEW n \in Controller, NEW task, Waiting(job[n], task)
      PROVE  Waiting(job'[n], task)
  <2>1. n # k
    BY <1>1, <1>2, <1>6 DEF Waiting
  <2> QED
    BY <1>5, <1>6, <2>1
<1>7. HeldLater(ctx, txn, job, ctx, txn', job')
  BY <1>1, <1>6 DEF HeldLater, Held
<1>8. DueLater(job, job')
  BY <1>3, <1>5 DEF DueLater
<1>9. lock' \in SUBSET Controller
  BY <1>1
<1>10. DataOK(table, prologue, ctx, txn', job')
  BY <1>1, <1>5
<1> QED
  BY <1>1, <1>7, <1>8, <1>9, <1>10, JobStep

\* Putting a task off keeps the invariant: what it holds is held by the next
\* transaction.
LEMMA RequeueTaskIInv ==
  ASSUME IInv, NEW k \in Controller, RequeueTask(k)
  PROVE  IInv'
<1>a. PICK ts, task : ts = job[k].tasks /\ task = Head(job[k].tasks)
  OBVIOUS
<1>b. PICK j : j = [at |-> "run", tasks |-> Tail(ts)]
  OBVIOUS
<1>c. PICK ds : ds = Append(txn.destroys, task)
  OBVIOUS
<1>1. /\ job[k].at = "run" /\ ts # <<>> /\ job' = [job EXCEPT ![k].tasks = Tail(@)]
      /\ txn' = [txn EXCEPT !.dirty = TRUE, !.destroys = ds]
      /\ UNCHANGED <<table, prologue, ctx, lock, frames, stack, guardKey>>
  BY <1>a, <1>c DEF RequeueTask, threadVars
<1>2. job[k] \in Job /\ ts \in Seq(Task) /\ JobOK(job[k], ctx) /\ job[k] = [at |-> job[k].at, tasks |-> ts]
  BY <1>a, JobFacts
<1>3. job' = WithJob(job, k, j)
  <2>0. PICK tl : tl = Tail(ts)
    OBVIOUS
  <2>0a. job[k] = [at |-> "run", tasks |-> ts]
    BY <1>1, <1>2
  <2>0b. [[at |-> "run", tasks |-> ts] EXCEPT !.tasks = tl] = [at |-> "run", tasks |-> tl]
    OBVIOUS
  <2>1. [job[k] EXCEPT !.tasks = tl] = j
    BY <1>b, <2>0, <2>0a, <2>0b, Zenon
  <2>2. job' = [job EXCEPT ![k] = [job[k] EXCEPT !.tasks = tl]]
    BY <1>1, <1>a, <2>0
  <2> QED
    BY <2>1, <2>2 DEF WithJob
<1>4. /\ Tail(ts) \in Seq(Task) /\ task = ts[1] /\ task \in Task /\ 1 \in 1..Len(ts)
      /\ \A i \in 1..Len(Tail(ts)) : Tail(ts)[i] = ts[i + 1] /\ i + 1 \in 1..Len(ts)
      /\ \A i \in 1..Len(ts) : i # 1 => i - 1 \in 1..Len(Tail(ts)) /\ Tail(ts)[i - 1] = ts[i]
  BY <1>1, <1>2, <1>a, TailMembers
<1>5. j \in Job /\ j.at = "run" /\ j.tasks = Tail(ts)
  BY <1>4, <1>b DEF Job
<1>6. JobOK(j, ctx)
  BY <1>2, <1>4, <1>5, <1>a DEF JobOK
<1>7. /\ job'[k] = j /\ \A i \in Controller : i # k => job'[i] = job[i]
      /\ DataOK(table, prologue, ctx, txn, job')
  BY <1>3, <1>5, <1>6, OneJob
<1>8. txn \in Transaction /\ TransactionOK(txn, ctx) /\ txn.destroys \in Seq(Task)
  BY TransactionTypes DEF IInv, DataOK, Shape
<1>9. /\ ds \in Seq(Task) /\ Len(ds) = Len(txn.destroys) + 1
      /\ \A e : Member(ds, e) <=> Member(txn.destroys, e) \/ e = task
  BY <1>4, <1>8, <1>c, AppendMembers
<1>10. txn' \in Transaction /\ txn'.updates = txn.updates /\ txn'.destroys = ds
  BY <1>1, <1>8, <1>9 DEF Transaction
<1>11. TransactionOK(txn', ctx)
  <2>1. TaskOK(task, ctx)
    BY <1>2, <1>4, <1>a DEF JobOK
  <2>2. ASSUME NEW i \in 1..Len(ds)
        PROVE  TaskOK(ds[i], ctx)
    <3>1. Member(ds, ds[i])
      BY DEF Member
    <3>2. Member(txn.destroys, ds[i]) \/ ds[i] = task
      BY <1>9, <3>1
    <3> QED
      BY <1>8, <2>1, <3>2 DEF TransactionOK, Member
  <2> QED
    BY <1>8, <1>10, <2>2 DEF TransactionOK
<1>12. DataOK(table, prologue, ctx, txn', job')
  BY <1>7, <1>10, <1>11 DEF DataOK, Shape
<1>13. ASSUME NEW n \in Controller, NEW e, Waiting(job[n], e)
       PROVE  Waiting(job'[n], e) \/ Member(ds, e)
  <2>1. CASE n # k
    BY <1>7, <1>13, <2>1
  <2>2. CASE n = k
    <3>1. PICK m \in 1..Len(ts) : ts[m] = e
      BY <1>13, <1>a, <2>2 DEF Waiting
    <3>2. CASE m = 1
      BY <1>4, <1>9, <3>1, <3>2
    <3>3. CASE m # 1
      <4>1. m - 1 \in 1..Len(Tail(ts)) /\ Tail(ts)[m - 1] = e
        BY <1>4, <3>1, <3>3
      <4> QED
        BY <1>5, <1>7, <2>2, <4>1 DEF Waiting
    <3> QED
      BY <3>2, <3>3
  <2> QED
    BY <2>1, <2>2
<1>14. HeldLater(ctx, txn, job, ctx, txn', job')
  BY <1>9, <1>10, <1>13 DEF HeldLater, Held
<1>15. DueLater(job, job')
  BY <1>5, <1>7 DEF DueLater
<1>16. lock' \in SUBSET Controller
  BY <1>1 DEF IInv
<1> QED
  BY <1>1, <1>12, <1>14, <1>15, <1>16, JobStep

\* What perform_destroy or the freeing of an array leaves of a context.
Released(x, y) ==
  /\ y.address = x.address /\ y.activated = x.activated /\ y.destroyed = x.destroyed
  /\ y.arrays = x.arrays /\ y.replacement = x.replacement /\ y.overwritten = x.overwritten
  /\ y.usage = x.usage /\ x.state # "unborn" /\ y.state # "unborn"
  /\ \/ y.state = x.state /\ \A v \in y.freed \ x.freed : v < Len(x.arrays)
     \/ y.state = "freed" /\ x.destroyed /\ ~x.activated /\ y.freed = x.freed

WithContext(cx, c, y) == [cx EXCEPT ![c] = y]

\* The interceptor's data after something of a context is freed.
LEMMA ReleasedData ==
  ASSUME IInv, NEW c \in Ctx, NEW y \in Context, Released(ctx[c], y),
         NEW cy, cy = WithContext(ctx, c, y)
  PROVE  DataOK(table, prologue, cy, txn, job) /\ cy[c] = y /\ \A d \in Ctx : d # c => cy[d] = ctx[d]
<1>1. /\ DataOK(table, prologue, ctx, txn, job) /\ Shape(table, prologue, ctx, txn, job)
      /\ ctx \in [Ctx -> Context]
  BY DEF IInv, DataOK, Shape
<1>2. cy \in [Ctx -> Context] /\ cy[c] = y /\ \A d \in Ctx : d # c => cy[d] = ctx[d]
  BY <1>1 DEF WithContext
<1>a. PICK x : x = ctx[c]
  OBVIOUS
<1>3. ContextOK(c, x)
  BY <1>1, <1>a DEF DataOK, ContextsOK
<1>4. ContextOK(c, y)
  <2>1. y.address \in Address /\ y.arrays # <<>> /\ y.overwritten = 0 /\ (y.address \in Ctx => y.address < c)
    BY <1>3, <1>a DEF ContextOK, Released
  <2>2. y.destroyed => ~y.replacement /\ \A i \in 1..Len(Entries(y)) : Entries(y)[i] = NoListener
    BY <1>3, <1>a DEF ContextOK, Released, Entries
  <2>3. y.state = "freed" => y.destroyed /\ ~y.activated
    BY <1>3, <1>a DEF ContextOK, Released
  <2>4. \A v \in y.freed : v < Len(y.arrays)
    BY <1>3, <1>a DEF ContextOK, Released
  <2> QED
    BY <1>a, <2>1, <2>2, <2>3, <2>4 DEF ContextOK, Released
<1>5. ContextsOK(cy)
  <2>1. \A d \in Ctx : cy[d].state = "unborn" <=> ctx[d].state = "unborn"
    BY <1>2 DEF Released
  <2> QED
    BY <1>1, <1>2, <1>4, <2>1 DEF DataOK, ContextsOK
<1>6. \A d \in Ctx : /\ cy[d].destroyed = ctx[d].destroyed /\ cy[d].activated = ctx[d].activated
                     /\ cy[d].address = ctx[d].address /\ cy[d].arrays = ctx[d].arrays
                     /\ cy[d].state = "unborn" <=> ctx[d].state = "unborn"
                     /\ ~ctx[d].destroyed => cy[d].state = ctx[d].state
  BY <1>2 DEF Released
<1>7. TableOK(table, cy)
  <2>1. TableOK(table, ctx) /\ \A a \in Address : table[a] # 0 => table[a] \in Ctx
    BY <1>1 DEF DataOK, Shape
  <2> QED
    BY <1>6, <2>1 DEF TableOK
<1>8. PrologueOK(prologue, cy)
  <2>1. PrologueOK(prologue, ctx) /\ \A a \in Address : prologue[a] # 0 => prologue[a] \in Ctx
    BY <1>1 DEF DataOK, Shape
  <2> QED
    BY <1>6, <2>1 DEF PrologueOK
<1>9. ASSUME NEW task \in Task, TaskOK(task, ctx)
      PROVE  TaskOK(task, cy)
  <2>1. task.ctx \in Ctx
    BY DEF Task
  <2> QED
    BY <1>6, <1>9, <2>1 DEF TaskOK
<1>10. TransactionOK(txn, cy)
  <2>1. TransactionOK(txn, ctx) /\ txn \in Transaction
    BY <1>1 DEF DataOK, Shape
  <2>2. \A i \in 1..Len(txn.updates) : txn.updates[i].ctx \in Ctx
    BY <2>1, TransactionTypes
  <2>3. \A i \in 1..Len(txn.destroys) : txn.destroys[i] \in Task
    BY <2>1, TransactionTypes
  <2>4. \A i \in 1..Len(txn.updates) : cy[txn.updates[i].ctx].state # "unborn"
    BY <1>6, <2>1, <2>2 DEF TransactionOK
  <2>5. \A i \in 1..Len(txn.destroys) : TaskOK(txn.destroys[i], cy)
    BY <1>9, <2>1, <2>3 DEF TransactionOK
  <2>6. \A d \in Ctx : cy[d].destroyed /\ cy[d].activated => Member(txn.updates, [ctx |-> d, activate |-> FALSE])
    BY <1>6, <2>1 DEF TransactionOK
  <2> QED
    BY <2>4, <2>5, <2>6 DEF TransactionOK
<1>11. ASSUME NEW k \in Controller
       PROVE  JobOK(job[k], cy)
  <2>1. JobOK(job[k], ctx) /\ job[k].tasks \in Seq(Task)
    BY <1>1 DEF DataOK, Shape, Job
  <2>2. ASSUME NEW i \in 1..Len(job[k].tasks)
        PROVE  /\ TaskOK(job[k].tasks[i], cy)
               /\ job[k].tasks[i].kind = "context" => ~cy[job[k].tasks[i].ctx].activated
    <3>1. job[k].tasks[i] \in Task /\ job[k].tasks[i].ctx \in Ctx
      <4>1. job[k].tasks[i] \in Task
        BY <2>1, ElementOfSeq
      <4> QED
        BY <4>1 DEF Task
    <3> QED
      BY <1>6, <1>9, <2>1, <3>1 DEF JobOK
  <2> QED
    BY <2>1, <2>2 DEF JobOK
<1>12. Shape(table, prologue, cy, txn, job)
  BY <1>1, <1>2 DEF Shape
<1> QED
  BY <1>2, <1>5, <1>7, <1>8, <1>10, <1>11, <1>12 DEF DataOK

\* task->notify on context x.
Notified(task, x, y) ==
  \/ task.kind = "listener" /\ y = x
  \/ task.kind = "array" /\ y = [x EXCEPT !.freed = @ \cup {task.version}]
  \/ task.kind = "context" /\ y = [x EXCEPT !.state = "freed"]

\* What the three kinds of task free.
LEMMA NotifiedReleased ==
  ASSUME IInv, NEW task \in Task, TaskOK(task, ctx),
         task.kind = "context" => ~ctx[task.ctx].activated,
         NEW y, Notified(task, ctx[task.ctx], y)
  PROVE  /\ task.ctx \in Ctx /\ y \in Context /\ Released(ctx[task.ctx], y)
         /\ y.state # ctx[task.ctx].state => task.kind = "context"
         /\ \A v \in y.freed : v \in ctx[task.ctx].freed \/ (task.kind = "array" /\ v = task.version)
<1>a. PICK x : x = ctx[task.ctx]
  OBVIOUS
<1>1. task.ctx \in Ctx /\ ctx \in [Ctx -> Context]
  BY DEF Task, IInv, DataOK, Shape
<1>2. x \in Context /\ x.state # "unborn"
  BY <1>1, <1>a DEF TaskOK
<1>3. CASE task.kind = "listener" /\ y = x
  BY <1>1, <1>2, <1>3, <1>a DEF Released
<1>4. CASE task.kind = "array" /\ y = [x EXCEPT !.freed = @ \cup {task.version}]
  <2>1. task.version \in Nat /\ task.version < Len(x.arrays)
    BY <1>4, <1>a DEF Task, TaskOK
  <2>2. PICK fd : fd = x.freed \cup {task.version}
    OBVIOUS
  <2>3. y = [x EXCEPT !.freed = fd] /\ fd \in SUBSET Nat
    BY <1>2, <1>4, <2>1, <2>2 DEF Context
  <2>4. /\ y \in Context /\ y.freed = fd /\ y.state = x.state
        /\ y.address = x.address /\ y.activated = x.activated /\ y.destroyed = x.destroyed
        /\ y.arrays = x.arrays /\ y.replacement = x.replacement /\ y.overwritten = x.overwritten
        /\ y.usage = x.usage
    BY <1>2, <2>3 DEF Context
  <2>5. \A v \in fd \ x.freed : v < Len(x.arrays)
    BY <2>1, <2>2
  <2>6. Released(x, y)
    BY <1>2, <2>4, <2>5 DEF Released
  <2> QED
    BY <1>1, <1>4, <1>a, <2>2, <2>4, <2>6
<1>5. CASE task.kind = "context" /\ y = [x EXCEPT !.state = "freed"]
  <2>1. x.destroyed /\ ~x.activated
    BY <1>5, <1>a DEF TaskOK
  <2>2. /\ y \in Context /\ y.freed = x.freed /\ y.state = "freed"
        /\ y.address = x.address /\ y.activated = x.activated /\ y.destroyed = x.destroyed
        /\ y.arrays = x.arrays /\ y.replacement = x.replacement /\ y.overwritten = x.overwritten
        /\ y.usage = x.usage
    BY <1>2, <1>5 DEF Context
  <2>3. Released(x, y)
    BY <1>2, <2>1, <2>2 DEF Released
  <2> QED
    BY <1>1, <1>5, <1>a, <2>2, <2>3
<1> QED
  BY <1>3, <1>4, <1>5, <1>a DEF Notified

\* A call that the task spares.
LEMMA NotifiedFrame ==
  ASSUME NEW fr, NEW c, NEW x, NEW y, FrameIn(fr, x), Released(x, y), fr.ctx = c,
         NEW task, task.ctx = c, Counted(fr) /\ fr.early => Spares(task, fr),
         y.state # x.state => task.kind = "context",
         \A v \in y.freed : v \in x.freed \/ (task.kind = "array" /\ v = task.version)
  PROVE  FrameIn(fr, y)
<1>1. Counted(fr) /\ fr.early => y.state = "live"
  BY DEF FrameIn, Spares
<1>2. Counted(fr) /\ fr.early /\ Iterating(fr) => fr.version \notin y.freed
  BY DEF FrameIn, Spares
<1> QED
  BY <1>1, <1>2 DEF FrameIn, Released

\* Running a task keeps the invariant.
LEMMA NotifyIInv ==
  ASSUME IInv, NEW k \in Controller, Notify(k)
  PROVE  IInv'
<1>a. PICK ts, task : ts = job[k].tasks /\ task = Head(job[k].tasks)
  OBVIOUS
<1>b. PICK j : j = [at |-> "relock", tasks |-> ts]
  OBVIOUS
<1>c. PICK c : c = task.ctx
  OBVIOUS
<1>1. /\ job[k].at = "notify" /\ job' = [job EXCEPT ![k].at = "relock"]
      /\ UNCHANGED <<table, prologue, txn, lock, frames, stack, guardKey>>
  BY DEF Notify, threadVars
<1>2. job[k] \in Job /\ ts \in Seq(Task) /\ JobOK(job[k], ctx) /\ job[k] = [at |-> job[k].at, tasks |-> ts]
  BY <1>a, JobFacts
<1>3. /\ ts # <<>> /\ ts[1] \in Task /\ TaskOK(ts[1], ctx)
      /\ ts[1].kind = "context" => ~ctx[ts[1].ctx].activated
  BY <1>1, <1>a, DueTask
<1>4. task = ts[1]
  BY <1>2, <1>3, <1>a, TailMembers
<1>5. job' = WithJob(job, k, j)
  <2>1. [job[k] EXCEPT !.at = "relock"] = j
    BY <1>2, <1>b
  <2> QED
    BY <1>1, <2>1 DEF WithJob
<1>6. j \in Job /\ j.at = "relock" /\ j.tasks = ts
  BY <1>2, <1>b DEF Job
<1>7. ctx \in [Ctx -> Context] /\ c \in Ctx
  BY <1>3, <1>4, <1>c DEF IInv, DataOK, Shape, Task
<1>8. \E y : Notified(task, ctx[c], y) /\ ctx' = WithContext(ctx, c, y)
  <2>0. ctx' = CASE task.kind = "listener" -> ctx
                 [] task.kind = "array" -> [ctx EXCEPT ![c].freed = @ \cup {task.version}]
                 [] task.kind = "context" -> [ctx EXCEPT ![c].state = "freed"]
    BY <1>a, <1>c DEF Notify
  <2>1. CASE task.kind = "listener"
    <3>1. ctx' = WithContext(ctx, c, ctx[c])
      BY <1>7, <2>0, <2>1 DEF WithContext
    <3> QED
      BY <2>1, <3>1 DEF Notified
  <2>2. CASE task.kind = "array"
    <3>1. ctx' = WithContext(ctx, c, [ctx[c] EXCEPT !.freed = @ \cup {task.version}])
      BY <2>0, <2>2 DEF WithContext
    <3> QED
      BY <2>2, <3>1 DEF Notified
  <2>3. CASE task.kind = "context"
    <3>1. ctx' = WithContext(ctx, c, [ctx[c] EXCEPT !.state = "freed"])
      BY <2>0, <2>3 DEF WithContext
    <3> QED
      BY <2>3, <3>1 DEF Notified
  <2>4. task.kind \in {"listener", "array", "context"}
    BY <1>3, <1>4 DEF Task
  <2> QED
    BY <2>1, <2>2, <2>3, <2>4, SMTT(30)
<1>9. PICK y : Notified(task, ctx[c], y) /\ ctx' = WithContext(ctx, c, y)
  BY <1>8
<1>d. PICK x : x = ctx[c]
  OBVIOUS
<1>10. /\ y \in Context /\ Released(x, y) /\ (y.state # x.state => task.kind = "context")
       /\ \A v \in y.freed : v \in x.freed \/ (task.kind = "array" /\ v = task.version)
  BY <1>3, <1>4, <1>9, <1>c, <1>d, NotifiedReleased
<1>11. /\ DataOK(table, prologue, ctx', txn, job) /\ ctx'[c] = y
       /\ \A d \in Ctx : d # c => ctx'[d] = ctx[d]
  BY <1>7, <1>9, <1>10, <1>d, ReleasedData
<1>12. job \in [Controller -> Job] /\ \A i \in Controller : JobOK(job[i], ctx')
  BY <1>11 DEF DataOK, Shape
<1>13. job' \in [Controller -> Job] /\ job'[k] = j /\ \A i \in Controller : i # k => job'[i] = job[i]
  BY <1>5, <1>6, <1>12 DEF WithJob
<1>14. JobOK(j, ctx')
  <2>1. JobOK(job[k], ctx')
    BY <1>12
  <2> QED
    BY <1>1, <1>6, <1>a, <2>1 DEF JobOK
<1>15. DataOK(table, prologue, ctx', txn, job')
  BY <1>11, <1>12, <1>13, <1>14 DEF DataOK, Shape
<1>16. \A n \in Controller : \A e : Waiting(job[n], e) => Waiting(job'[n], e)
  BY <1>1, <1>6, <1>13, <1>a DEF Waiting
<1>17. \A d \in Ctx : \A l : Held(d, l, ctx, txn, job) => Held(d, l, ctx', txn, job')
  <2>1. \A d \in Ctx : ctx'[d].destroyed = ctx[d].destroyed /\ ctx'[d].arrays = ctx[d].arrays
    BY <1>10, <1>11, <1>d DEF Released
  <2> QED
    BY <1>16, <2>1 DEF Held, Entries
<1>18. ASSUME NEW t \in Thread, NEW i \in 1..Len(frames[t])
       PROVE  FrameOK(frames[t][i], ctx', txn, job')
  <2>a. PICK fr : fr = frames[t][i]
    OBVIOUS
  <2>1. fr \in Frame /\ FrameOK(fr, ctx, txn, job)
    BY <2>a, FrameTypes DEF IInv
  <2>2. CASE fr.ctx = 0
    BY <2>2, <2>a DEF FrameOK
  <2>3. CASE fr.ctx # 0
    <3>0. /\ FrameIn(fr, ctx[fr.ctx])
          /\ Counted(fr) /\ fr.early =>
               /\ \A n \in Controller : job[n].at = "notify" => Spares(job[n].tasks[1], fr)
               /\ Iterating(fr) => \A l \in Listener : Uses(fr, l, ctx[fr.ctx]) => Held(fr.ctx, l, ctx, txn, job)
      BY <2>1, <2>3 DEF FrameOK
    <3>1. fr.ctx \in Ctx
      BY <2>1, <2>3 DEF Frame
    <3>2. FrameIn(fr, ctx'[fr.ctx])
      <4>1. CASE fr.ctx # c
        BY <1>11, <3>0, <3>1, <4>1
      <4>2. CASE fr.ctx = c
        <5>1. Counted(fr) /\ fr.early => Spares(task, fr)
          BY <1>1, <1>4, <1>a, <3>0
        <5>2. FrameIn(fr, x) /\ task.ctx = c
          BY <1>c, <1>d, <3>0, <4>2
        <5>3. FrameIn(fr, y)
          BY <1>10, <4>2, <5>1, <5>2, NotifiedFrame
        <5> QED
          BY <1>11, <4>2, <5>3
      <4> QED
        BY <4>1, <4>2
    <3>3. Counted(fr) /\ fr.early => \A n \in Controller : job'[n].at = "notify" => Spares(job'[n].tasks[1], fr)
      BY <1>6, <1>13, <3>0
    <3>4. ctx'[fr.ctx].arrays = ctx[fr.ctx].arrays
      BY <1>10, <1>11, <1>d, <3>1 DEF Released
    <3>5. \A l \in Listener : Uses(fr, l, ctx'[fr.ctx]) => Uses(fr, l, ctx[fr.ctx])
      BY <3>4 DEF Uses
    <3> QED
      BY <1>17, <2>a, <3>0, <3>1, <3>2, <3>3, <3>5 DEF FrameOK
  <2> QED
    BY <2>2, <2>3
<1>19. CountOK'
  <2>1. \A d \in Ctx : ctx'[d].usage = ctx[d].usage /\ (ctx'[d].state = "live" => ctx[d].state = "live")
    BY <1>10, <1>11, <1>d DEF Released
  <2> QED
    BY <1>1, <2>1, CountKept
<1>20. lock' \in SUBSET Controller
  BY <1>1 DEF IInv
<1> QED
  BY <1>1, <1>15, <1>18, <1>19, <1>20, ControllerStep

-----------------------------------------------------------------------------
(* Following redirections.                                                 *)

Hop(a) == IF table[a] = 0 /\ prologue[a] # 0 THEN prologue[a] ELSE a

Along(f) ==
  CHOOSE along : along = [n \in 0..MaxContexts |-> IF n = 0 THEN f ELSE Hop(along[n - 1])]

\* An address that does not lead elsewhere.
Stays(a) == table[a] # 0 \/ prologue[a] = 0

Created(a) == a \in Address /\ (a \in Ctx => ctx[a].state # "unborn")

\* A redirection leads from an address to a context created later.
LEMMA HopProps ==
  ASSUME IInv, NEW a, Created(a)
  PROVE  /\ Created(Hop(a)) /\ Hop(a) \in Address
         /\ Stays(a) => Hop(a) = a
         /\ ~Stays(a) => Hop(a) \in Ctx /\ (a \in Ctx => a < Hop(a))
<1>1. CASE Stays(a)
  BY <1>1 DEF Stays, Hop, Created
<1>2. CASE ~Stays(a)
  <2>a. PICK c : c = prologue[a]
    OBVIOUS
  <2>1. Hop(a) = c /\ c # 0 /\ a \in Address
    BY <1>2, <2>a DEF Stays, Hop, Created
  <2>2. /\ prologue \in [Address -> Ctx \cup {0}] /\ PrologueOK(prologue, ctx) /\ ContextsOK(ctx)
    BY DEF IInv, DataOK, Shape
  <2>3. c \in Ctx /\ ctx[c].state # "unborn" /\ ctx[c].address = a
    BY <2>1, <2>2, <2>a DEF PrologueOK
  <2>4. ContextOK(c, ctx[c])
    BY <2>2, <2>3 DEF ContextsOK
  <2>5. a \in Ctx => a < c
    BY <2>3, <2>4 DEF ContextOK
  <2>6. c \in Address
    BY <2>3 DEF Address
  <2> QED
    BY <1>2, <2>1, <2>3, <2>5, <2>6 DEF Created
<1> QED
  BY <1>1, <1>2

\* A function is an address that can be instrumented.
LEMMA FunctionIsCreated ==
  ASSUME NEW f \in Function
  PROVE  Created(f) /\ f \notin Ctx
<1>1. f \notin Ctx
  BY FunctionAssumption, BoundsAssumption DEF Ctx
<1> QED
  BY <1>1 DEF Created, Address

\* The recursion of gum_interceptor_resolve has a solution.
LEMMA AlongExists ==
  ASSUME IInv, NEW f \in Function
  PROVE  Along(f) = [n \in 0..MaxContexts |-> IF n = 0 THEN f ELSE Hop(Along(f)[n - 1])]
<1>a. PICK N, T : N = MaxContexts /\ T = {a \in Address : Created(a)}
  OBVIOUS
<1>1. N \in Nat /\ f \in T
  BY <1>a, BoundsAssumption, FunctionIsCreated DEF Created
<1>2. PICK G : G = [n \in 1..N |-> [a \in T |-> Hop(a)]]
  OBVIOUS
<1>3. \A a \in T : Hop(a) \in T
  BY <1>a, HopProps
<1>4. G \in [1..N -> [T -> T]]
  BY <1>2, <1>3
<1>5. PICK g : Recursion(N, T, f, G, g)
  BY <1>1, <1>4, RecursionExists
<1>6. g \in [0..N -> T] /\ g[0] = f /\ \A n \in 1..N : g[n] = G[n][g[n - 1]]
  BY <1>5 DEF Recursion
<1>7. ASSUME NEW n \in 0..N
      PROVE  g[n] = IF n = 0 THEN f ELSE Hop(g[n - 1])
  <2>1. CASE n = 0
    BY <1>6, <2>1
  <2>2. CASE n # 0
    <3>1. n \in 1..N /\ n - 1 \in 0..N
      BY <1>1, <2>2
    <3>2. g[n - 1] \in T
      BY <1>6, <3>1
    <3> QED
      BY <1>2, <1>6, <2>2, <3>1, <3>2
  <2> QED
    BY <2>1, <2>2
<1>8. g = [n \in 0..MaxContexts |-> IF n = 0 THEN f ELSE Hop(g[n - 1])]
  BY <1>6, <1>7, <1>a
<1> QED
  BY <1>8 DEF Along

\* gum_interceptor_resolve ends at an address that does not lead elsewhere: it
\* cannot follow more redirections than there are contexts.
LEMMA ResolveProps ==
  ASSUME IInv, NEW f \in Function
  PROVE  Created(Resolve(f)) /\ Resolve(f) \in Address /\ Stays(Resolve(f))
<1>a. PICK N, F : N = MaxContexts /\ F = Along(f)
  OBVIOUS
<1>1. N \in Nat
  BY <1>a, BoundsAssumption
<1>2. \A n \in 0..N : F[n] = IF n = 0 THEN f ELSE Hop(F[n - 1])
  <2>1. F = [n \in 0..N |-> IF n = 0 THEN f ELSE Hop(F[n - 1])]
    BY <1>a, AlongExists
  <2> QED
    BY <2>1
<1>3. Resolve(f) = F[N]
  BY <1>a DEF Resolve, Along, Hop
<1> DEFINE Far(a, n) == (a \in Ctx /\ a >= n) \/ (a \notin Ctx /\ n = 0)
           Q == {n \in 0..N : Created(F[n]) /\ (Stays(F[n]) \/ Far(F[n], n))}
<1>4. 0 \in Q
  <2>1. F[0] = f /\ 0 \in 0..N
    BY <1>1, <1>2
  <2> QED
    BY <2>1, FunctionIsCreated
<1>5. ASSUME NEW n \in 0..(N - 1), n \in Q
      PROVE  n + 1 \in Q
  <2>0. n + 1 \in 0..N /\ n + 1 # 0 /\ n + 1 - 1 = n /\ n \in Nat
    BY <1>1
  <2>a. PICK a, b : a = F[n] /\ b = F[n + 1]
    OBVIOUS
  <2>1. b = Hop(a)
    BY <1>2, <2>0, <2>a
  <2>2. Created(a) /\ (Stays(a) \/ Far(a, n))
    BY <1>5, <2>a
  <2>3. /\ Created(b) /\ (Stays(a) => b = a)
        /\ ~Stays(a) => b \in Ctx /\ (a \in Ctx => a < b)
    BY <2>1, <2>2, HopProps
  <2>4. CASE Stays(a)
    BY <2>0, <2>3, <2>4, <2>a
  <2>5. CASE ~Stays(a)
    <3>1. b \in Int /\ b >= 1 /\ (a \in Ctx => a \in Int)
      BY <2>3, <2>5, BoundsAssumption DEF Ctx
    <3>2. Far(b, n + 1)
      BY <2>0, <2>2, <2>3, <2>5, <3>1
    <3> QED
      BY <2>0, <2>3, <2>a, <3>2
  <2> QED
    BY <2>4, <2>5
<1> HIDE DEF Q
<1>6. \A n \in 0..N : n \in Q
  BY <1>1, <1>4, <1>5, UpTo
<1>7. N \in 0..N
  BY <1>1
<1>8. Created(F[N]) /\ (Stays(F[N]) \/ Far(F[N], N))
  BY <1>6, <1>7 DEF Q
<1>9. Stays(F[N])
  <2> SUFFICES ASSUME ~Stays(F[N])
               PROVE  FALSE
    OBVIOUS
  <2>1. Hop(F[N]) \in Ctx /\ (F[N] \in Ctx => F[N] < Hop(F[N]))
    BY <1>8, HopProps
  <2>2. Hop(F[N]) \in Int /\ 1 <= Hop(F[N]) /\ Hop(F[N]) <= N /\ (F[N] \in Ctx => F[N] \in Int)
    BY <1>1, <1>a, <2>1 DEF Ctx
  <2> QED
    BY <1>1, <1>8, <2>1, <2>2
<1> QED
  BY <1>3, <1>8, <1>9 DEF Created

-----------------------------------------------------------------------------
(* Attaching and replacing.                                                *)

\* ty is the transaction that an API call has opened, with the updates us and
\* the tasks ds it adds.
Extends(ty, us, ds) ==
  /\ ty \in Transaction /\ ty.level = txn.level + 1 /\ ty.dirty
  /\ ty.updates = txn.updates \o us /\ ty.destroys = txn.destroys \o ds

\* The transactions that the API calls build.
LEMMA ExtendedForms ==
  ASSUME txn \in Transaction, NEW us \in Seq(Update), NEW ds \in Seq(Task)
  PROVE  /\ Extends(Opened, <<>>, <<>>)
         /\ Extends([Opened EXCEPT !.updates = @ \o us], us, <<>>)
         /\ Extends([Opened EXCEPT !.updates = @ \o us, !.destroys = @ \o ds], us, ds)
         /\ \A task \in Task :
              Extends([Opened EXCEPT !.updates = @ \o us, !.destroys = Append(@, task)], us, <<task>>)
<1>a. PICK o : o = Opened
  OBVIOUS
<1>1. txn.updates \in Seq(Update) /\ txn.destroys \in Seq(Task) /\ txn.level \in Nat
  BY DEF Transaction
<1>2. /\ o \in Transaction /\ o.level = txn.level + 1 /\ o.dirty
      /\ o.updates = txn.updates /\ o.destroys = txn.destroys
  <2>b. PICK lv \in Nat : lv = txn.level + 1
    BY <1>1
  <2>c. PICK yes \in BOOLEAN : yes = TRUE
    OBVIOUS
  <2>a. lv = txn.level + 1 /\ yes = TRUE
    BY <2>b, <2>c
  <2>1. o = [txn EXCEPT !.level = lv, !.dirty = yes]
    BY <1>a, <2>a DEF Opened
  <2>2. o \in Transaction
    BY <2>1 DEF Transaction
  <2>3. o.level = lv /\ o.dirty = yes /\ o.updates = txn.updates /\ o.destroys = txn.destroys
    BY <2>1 DEF Transaction
  <2> QED
    BY <2>2, <2>3, <2>a
<1>3. txn.updates \o <<>> = txn.updates /\ txn.destroys \o <<>> = txn.destroys
  BY <1>1, ConcatEmptySeq
<1>4. Extends(o, <<>>, <<>>)
  BY <1>2, <1>3 DEF Extends
<1>b. PICK up : up = txn.updates \o us
  OBVIOUS
<1>5. up \in Seq(Update)
  BY <1>1, <1>b, ConcatMembers
<1>6. Extends([o EXCEPT !.updates = @ \o us], us, <<>>)
  <2>1. [o EXCEPT !.updates = @ \o us] = [o EXCEPT !.updates = up]
    BY <1>2, <1>b
  <2>a. PICK ty : ty = [o EXCEPT !.updates = up]
    OBVIOUS
  <2>2. ty \in Transaction /\ ty.level = o.level /\ ty.dirty = o.dirty /\ ty.updates = up /\ ty.destroys = o.destroys
    BY <1>2, <1>5, <2>a DEF Transaction
  <2>3. Extends(ty, us, <<>>)
    BY <1>2, <1>3, <1>b, <2>2 DEF Extends
  <2> QED
    BY <2>1, <2>a, <2>3
<1>7. ASSUME NEW dd \in Seq(Task), NEW e, dd = txn.destroys \o e
      PROVE  Extends([o EXCEPT !.updates = up, !.destroys = dd], us, e)
  <2>a. PICK ty : ty = [o EXCEPT !.updates = up, !.destroys = dd]
    OBVIOUS
  <2>2. ty \in Transaction /\ ty.level = o.level /\ ty.dirty = o.dirty /\ ty.updates = up /\ ty.destroys = dd
    BY <1>2, <1>5, <2>a DEF Transaction
  <2>3. Extends(ty, us, e)
    BY <1>2, <1>7, <1>b, <2>2 DEF Extends
  <2> QED
    BY <2>a, <2>3
<1>8. Extends([o EXCEPT !.updates = @ \o us, !.destroys = @ \o ds], us, ds)
  <2>1. txn.destroys \o ds \in Seq(Task)
    BY <1>1, ConcatMembers
  <2>2. [o EXCEPT !.updates = @ \o us, !.destroys = @ \o ds] = [o EXCEPT !.updates = up, !.destroys = txn.destroys \o ds]
    BY <1>2, <1>b
  <2> QED
    BY <1>7, <2>1, <2>2
<1>9. ASSUME NEW task \in Task
      PROVE  Extends([o EXCEPT !.updates = @ \o us, !.destroys = Append(@, task)], us, <<task>>)
  <2>0. <<task>> \in Seq(Task) /\ Append(txn.destroys, task) = txn.destroys \o <<task>>
    BY <1>1, AppendIsConcat
  <2>1. txn.destroys \o <<task>> \in Seq(Task)
    BY <1>1, <2>0, ConcatMembers
  <2>2. [o EXCEPT !.updates = @ \o us, !.destroys = Append(@, task)] = [o EXCEPT !.updates = up, !.destroys = txn.destroys \o <<task>>]
    BY <1>2, <1>b, <2>0
  <2> QED
    BY <1>7, <2>1, <2>2
<1> QED
  BY <1>a, <1>4, <1>6, <1>8, <1>9

\* They only add updates of contexts that exist and tasks that are right.
LEMMA ExtendedGrows ==
  ASSUME txn \in Transaction, NEW us \in Seq(Update), NEW ds \in Seq(Task), NEW cy,
         \A i \in 1..Len(us) : cy[us[i].ctx].state # "unborn",
         \A i \in 1..Len(ds) : TaskOK(ds[i], cy),
         NEW ty, Extends(ty, us, ds)
  PROVE  /\ GrowsTo(txn, ty, cy) /\ ty.level >= 1
         /\ \A u : Member(us, u) => Member(ty.updates, u)
         /\ \A task : Member(ds, task) => Member(ty.destroys, task)
<1>1. txn.updates \in Seq(Update) /\ txn.destroys \in Seq(Task) /\ txn.level \in Nat
  BY DEF Transaction
<1>a. PICK up, de : up = txn.updates \o us /\ de = txn.destroys \o ds
  OBVIOUS
<1>2. up \in Seq(Update) /\ \A u : Member(up, u) <=> Member(txn.updates, u) \/ Member(us, u)
  BY <1>1, <1>a, ConcatMembers
<1>3. de \in Seq(Task) /\ \A u : Member(de, u) <=> Member(txn.destroys, u) \/ Member(ds, u)
  BY <1>1, <1>a, ConcatMembers
<1>4. /\ ty.updates = up /\ ty.destroys = de /\ ty.level = txn.level + 1
      /\ ty \in Transaction
  BY <1>1, <1>2, <1>3, <1>a DEF Extends
<1>5. ASSUME NEW i \in 1..Len(up)
      PROVE  Member(txn.updates, up[i]) \/ cy[up[i].ctx].state # "unborn"
  <2>1. Member(up, up[i])
    BY DEF Member
  <2> QED
    BY <1>2, <2>1 DEF Member
<1>6. ASSUME NEW i \in 1..Len(de)
      PROVE  Member(txn.destroys, de[i]) \/ TaskOK(de[i], cy)
  <2>1. Member(de, de[i])
    BY DEF Member
  <2> QED
    BY <1>3, <2>1 DEF Member
<1>7. GrowsTo(txn, ty, cy)
  BY <1>2, <1>3, <1>4, <1>5, <1>6 DEF GrowsTo
<1>8. ty.level >= 1
  BY <1>1, <1>4
<1> QED
  BY <1>2, <1>3, <1>4, <1>7, <1>8

\* The context that gum_interceptor_instrument finds or creates.
LEMMA FreshContext ==
  ASSUME IInv, NEW d \in Ctx, ctx[d].state = "unborn"
  PROVE  \E c \in Ctx : ctx[c].state = "unborn" /\ \A e \in Ctx : ctx[e].state = "unborn" => c <= e
<1> DEFINE B == {c \in Ctx : ctx[c].state = "unborn"}
<1>1. B \in SUBSET Nat /\ B # {} /\ \A c \in Ctx : c \in Nat
  BY BoundsAssumption DEF Ctx
<1>2. PICK x \in B : \A y \in B : ~(<<y, x>> \in OpToRel(<, Nat))
  BY <1>1, NatLessThanWellFounded, WFMin
<1>3. ASSUME NEW e \in Ctx, ctx[e].state = "unborn"
      PROVE  x <= e
  <2>1. ~(e < x) /\ e \in Nat /\ x \in Nat
    BY <1>1, <1>2, <1>3 DEF OpToRel
  <2> QED
    BY <2>1
<1> QED
  BY <1>2, <1>3

\* gum_interceptor_instrument finds the context in the table, or makes a new
\* one of an address that is as compiled.
LEMMA InstrumentProps ==
  ASSUME IInv, NEW a, Created(a), Stays(a), CanInstrument(a), Instrument(a) # 0, NEW c, c = Instrument(a)
  PROVE  /\ c \in Ctx /\ a \in Address
         /\ table[a] # 0 => c = table[a]
         /\ table[a] = 0 =>
              /\ ctx[c].state = "unborn" /\ prologue[a] = 0
              /\ \A d \in Ctx : d < c => ctx[d].state # "unborn"
              /\ a \in Ctx => a < c
<1>0. a \in Address /\ table \in [Address -> Ctx \cup {0}] /\ ContextsOK(ctx)
  BY DEF Created, IInv, DataOK, Shape
<1>1. CASE table[a] # 0
  BY <1>0, <1>1 DEF Instrument
<1>2. CASE table[a] = 0
  <2>1. a \notin Function \ Relocatable
    BY <1>2 DEF Instrument
  <2>2. \E d \in Ctx : ctx[d].state = "unborn"
    BY <1>2, <2>1 DEF CanInstrument
  <2>3. c = CHOOSE e \in Ctx : ctx[e].state = "unborn" /\ \A d \in Ctx : ctx[d].state = "unborn" => e <= d
    BY <1>2, <2>1 DEF Instrument
  <2>4. \E e \in Ctx : ctx[e].state = "unborn" /\ \A d \in Ctx : ctx[d].state = "unborn" => e <= d
    BY <2>2, FreshContext
  <2>5. c \in Ctx /\ ctx[c].state = "unborn" /\ \A d \in Ctx : ctx[d].state = "unborn" => c <= d
    BY <2>3, <2>4
  <2>6. \A d \in Ctx : d \in Int
    BY BoundsAssumption DEF Ctx
  <2>7. \A d \in Ctx : d < c => ctx[d].state # "unborn"
    BY <2>5, <2>6
  <2>8. a \in Ctx => a < c
    <3> HAVE a \in Ctx
    <3>1. ctx[a].state # "unborn" /\ a # c
      BY <2>5 DEF Created
    <3>2. ~(c < a)
      BY <1>0, <2>5, <3>1 DEF ContextsOK
    <3> QED
      BY <2>5, <2>6, <3>1, <3>2
  <2> QED
    BY <1>0, <1>2, <2>5, <2>7, <2>8 DEF Stays
<1> QED
  BY <1>1, <1>2

\* What attach, detach, replace and revert do to a context in the table.
Altered(x, y) ==
  /\ x.state = "live" /\ ~x.destroyed /\ y.state = "live"
  /\ y.address = x.address /\ y.activated = x.activated /\ y.usage = x.usage
  /\ y.freed = x.freed /\ y.overwritten = x.overwritten
  /\ Len(x.arrays) <= Len(y.arrays)
  /\ \A v \in 1..Len(x.arrays) : \A l \in Listener : Member(y.arrays[v], l) => Member(x.arrays[v], l)
  /\ y.destroyed => ~y.replacement /\ \A i \in 1..Len(Entries(y)) : Entries(y)[i] = NoListener

\* The table without the contexts that are destroyed.
WithoutDestroyed(tb, cy) == [a \in Address |-> IF tb[a] # 0 /\ cy[tb[a]].destroyed THEN 0 ELSE tb[a]]

\* A context that is altered is right and serves the calls in it.
LEMMA AlteredContext ==
  ASSUME NEW c \in Ctx, NEW x \in Context, NEW y \in Context, ContextOK(c, x), Altered(x, y)
  PROVE  ContextOK(c, y) /\ LaterContext(x, y)
<1>1. Len(x.arrays) \in Nat /\ Len(y.arrays) \in Nat
  BY ArrayLengths
<1>2. x.arrays # <<>> /\ Len(x.arrays) # 0
  BY ArrayLengths DEF ContextOK, Altered
<1>3. y.arrays # <<>>
  <2>1. Len(y.arrays) # 0
    BY <1>1, <1>2 DEF Altered
  <2>2. Len(<<>>) = 0
    BY EmptySeq
  <2> QED
    BY <2>1, <2>2
<1>4. \A v \in y.freed : v < Len(y.arrays)
  <2>1. y.freed \in SUBSET Nat
    BY DEF Context
  <2> QED
    BY <1>1, <2>1 DEF ContextOK, Altered
<1>5. ContextOK(c, y)
  BY <1>3, <1>4 DEF ContextOK, Altered
<1>6. LaterContext(x, y)
  BY DEF LaterContext, Altered
<1> QED
  BY <1>5, <1>6

\* Contexts in the table may be altered, and leave the table when they are
\* destroyed.
LEMMA AlteredIsMidway ==
  ASSUME IInv, NEW cy \in [Ctx -> Context], NEW ty,
         \A c \in Ctx : cy[c] = ctx[c] \/ Altered(ctx[c], cy[c]),
         GrowsTo(txn, ty, cy), DeactivatesNew(ctx, cy, ty), HeldLater(ctx, txn, job, cy, ty, job),
         NEW tb, tb = WithoutDestroyed(table, cy)
  PROVE  Midway(tb, cy, ty)
<1>1. /\ ctx \in [Ctx -> Context] /\ ContextsOK(ctx) /\ TableOK(table, ctx)
      /\ table \in [Address -> Ctx \cup {0}]
  BY DEF IInv, DataOK, Shape
<1>2. ASSUME NEW c \in Ctx
      PROVE  /\ ContextOK(c, cy[c]) /\ cy[c].address = ctx[c].address
             /\ ctx[c].state # "unborn" => LaterContext(ctx[c], cy[c])
             /\ cy[c].state = ctx[c].state /\ cy[c].activated = ctx[c].activated /\ cy[c].usage = ctx[c].usage
             /\ ctx[c].destroyed => cy[c].destroyed
  <2>1. ContextOK(c, ctx[c]) /\ ctx[c] \in Context /\ cy[c] \in Context
    BY <1>1 DEF ContextsOK
  <2>2. CASE cy[c] = ctx[c]
    <3>1. LaterContext(ctx[c], ctx[c])
      BY <2>1, ArrayLengths DEF LaterContext
    <3> QED
      BY <2>1, <2>2, <3>1
  <2>3. CASE Altered(ctx[c], cy[c])
    <3>1. ContextOK(c, cy[c]) /\ LaterContext(ctx[c], cy[c])
      BY <2>1, <2>3, AlteredContext
    <3> QED
      BY <2>3, <3>1 DEF Altered
  <2> QED
    BY <2>2, <2>3
<1>3. ContextsOK(cy)
  BY <1>1, <1>2 DEF ContextsOK
<1>4. tb \in [Address -> Ctx \cup {0}]
  BY <1>1 DEF WithoutDestroyed
<1>5. ASSUME NEW a \in Address, tb[a] # 0
      PROVE  cy[tb[a]].state = "live" /\ ~cy[tb[a]].destroyed /\ cy[tb[a]].address = a
  <2>1. tb[a] = table[a] /\ table[a] # 0 /\ ~cy[table[a]].destroyed
    BY <1>5 DEF WithoutDestroyed
  <2>2. table[a] \in Ctx /\ ctx[table[a]].state = "live" /\ ctx[table[a]].address = a
    BY <1>1, <2>1 DEF TableOK
  <2> QED
    BY <1>2, <2>1, <2>2
<1>6. ASSUME NEW c \in Ctx, cy[c].state # "unborn", ~cy[c].destroyed
      PROVE  tb[cy[c].address] = c
  <2>1. ctx[c].state # "unborn" /\ ~ctx[c].destroyed /\ cy[c].address = ctx[c].address
    BY <1>2, <1>6
  <2>2. table[ctx[c].address] = c /\ ctx[c].address \in Address
    BY <1>1, <2>1 DEF TableOK, ContextsOK, ContextOK
  <2> QED
    BY <1>6, <2>1, <2>2 DEF WithoutDestroyed
<1>7. TableOK(tb, cy)
  BY <1>5, <1>6 DEF TableOK
<1>8. Edited(ctx, cy)
  <2>1. LaterContexts(ctx, cy)
    BY <1>1, <1>2 DEF LaterContexts
  <2>2. ASSUME NEW c \in Ctx, ctx[c].state = "unborn"
        PROVE  ~cy[c].destroyed /\ cy[c].usage = 0
    <3>1. cy[c] = ctx[c] /\ ctx[c] = Unborn
      BY <1>1, <2>2 DEF Altered, ContextsOK, ContextOK
    <3> QED
      BY <3>1 DEF Unborn
  <2> QED
    BY <1>2, <2>1, <2>2 DEF Edited
<1> QED
  BY <1>3, <1>4, <1>7, <1>8, EditedIsMidway

\* A context that gum_interceptor_instrument has just created at address a.
Fresh(y, a) ==
  /\ y.state = "live" /\ y.address = a /\ ~y.activated /\ ~y.destroyed /\ y.usage = 0
  /\ y.freed = {} /\ y.overwritten = 0 /\ y.arrays # <<>>

\* What was held in contexts that are not touched is held still.
LEMMA UntouchedHeld ==
  ASSUME NEW cx, NEW cy, NEW tx, NEW ty, NEW c \in Ctx, NEW l,
         cy[c] = cx[c], \A task : Member(tx.destroys, task) => Member(ty.destroys, task),
         Held(c, l, cx, tx, job)
  PROVE  Held(c, l, cy, ty, job)
  BY DEF Held

\* A new context may enter the table at an address that has none.
LEMMA FreshIsMidway ==
  ASSUME IInv, NEW a, Created(a), table[a] = 0, NEW c \in Ctx, ctx[c].state = "unborn",
         \A d \in Ctx : d < c => ctx[d].state # "unborn", a \in Ctx => a < c,
         NEW y \in Context, Fresh(y, a), NEW cy, cy = WithContext(ctx, c, y),
         NEW ty, GrowsTo(txn, ty, cy), NEW tb, tb = [table EXCEPT ![a] = c]
  PROVE  Midway(tb, cy, ty)
<1>1. /\ ctx \in [Ctx -> Context] /\ ContextsOK(ctx) /\ TableOK(table, ctx)
      /\ table \in [Address -> Ctx \cup {0}] /\ a \in Address
  BY DEF IInv, DataOK, Shape, Created
<1>2. cy \in [Ctx -> Context] /\ cy[c] = y /\ \A d \in Ctx : d # c => cy[d] = ctx[d]
  BY <1>1 DEF WithContext
<1>3. tb \in [Address -> Ctx \cup {0}] /\ tb[a] = c /\ \A b \in Address : b # a => tb[b] = table[b]
  BY <1>1
<1>4. ContextOK(c, y)
  BY DEF ContextOK, Fresh, Created
<1>5. ContextsOK(cy)
  <2>1. \A d \in Ctx : ContextOK(d, cy[d])
    BY <1>1, <1>2, <1>4 DEF ContextsOK
  <2>2. ASSUME NEW d \in Ctx, NEW e \in Ctx, d < e, cy[d].state = "unborn"
        PROVE  cy[e].state = "unborn"
    <3>1. d # c /\ ctx[d].state = "unborn"
      BY <1>2, <2>2 DEF Fresh
    <3>2. ctx[e].state = "unborn"
      BY <1>1, <2>2, <3>1 DEF ContextsOK
    <3>3. e # c
      BY <2>2, <3>1
    <3> QED
      BY <1>2, <3>2, <3>3
  <2> QED
    BY <2>1, <2>2 DEF ContextsOK
<1>6. ASSUME NEW b \in Address, tb[b] # 0
      PROVE  cy[tb[b]].state = "live" /\ ~cy[tb[b]].destroyed /\ cy[tb[b]].address = b
  <2>1. CASE b = a
    BY <1>2, <1>3, <2>1 DEF Fresh
  <2>2. CASE b # a
    <3>1. tb[b] = table[b] /\ table[b] \in Ctx
      BY <1>1, <1>3, <1>6, <2>2
    <3>2. ctx[table[b]].state = "live" /\ ~ctx[table[b]].destroyed /\ ctx[table[b]].address = b
      BY <1>1, <1>6, <3>1 DEF TableOK
    <3> QED
      BY <1>2, <3>1, <3>2
  <2> QED
    BY <2>1, <2>2
<1>7. ASSUME NEW d \in Ctx, cy[d].state # "unborn", ~cy[d].destroyed
      PROVE  tb[cy[d].address] = d
  <2>1. CASE d = c
    BY <1>2, <1>3, <2>1 DEF Fresh
  <2>2. CASE d # c
    <3>1. cy[d] = ctx[d] /\ table[ctx[d].address] = d /\ ctx[d].address \in Address
      BY <1>1, <1>2, <1>7, <2>2 DEF TableOK, ContextsOK, ContextOK
    <3>2. d # 0
      BY BoundsAssumption DEF Ctx
    <3> QED
      BY <1>3, <3>1, <3>2
  <2> QED
    BY <2>1, <2>2
<1>8. TableOK(tb, cy)
  BY <1>6, <1>7 DEF TableOK
<1>9. \A d \in Ctx : ctx[d].state # "unborn" => LaterContext(ctx[d], cy[d])
  <2> SUFFICES ASSUME NEW d \in Ctx, ctx[d].state # "unborn"
               PROVE  LaterContext(ctx[d], cy[d])
    OBVIOUS
  <2>1. cy[d] = ctx[d] /\ ctx[d] \in Context
    BY <1>1, <1>2
  <2> QED
    BY <2>1, ArrayLengths DEF LaterContext
<1>10. Edited(ctx, cy)
  <2>1. LaterContexts(ctx, cy)
    BY <1>1, <1>2, <1>9 DEF LaterContexts
  <2>2. ASSUME NEW d \in Ctx, ctx[d].state = "unborn"
        PROVE  ~cy[d].destroyed /\ cy[d].usage = 0
    <3>1. CASE d = c
      BY <1>2, <3>1 DEF Fresh
    <3>2. CASE d # c
      <4>1. cy[d] = Unborn
        BY <1>1, <1>2, <2>2, <3>2 DEF ContextsOK, ContextOK
      <4> QED
        BY <4>1 DEF Unborn
    <3> QED
      BY <3>1, <3>2
  <2> QED
    BY <1>2, <2>1, <2>2 DEF Edited
<1>11. DeactivatesNew(ctx, cy, ty)
  BY <1>2 DEF DeactivatesNew, Fresh
<1>12. HeldLater(ctx, txn, job, cy, ty, job)
  <2> SUFFICES ASSUME NEW d \in Ctx, NEW l \in Listener, ctx[d].state # "unborn", Held(d, l, ctx, txn, job)
               PROVE  Held(d, l, cy, ty, job)
    BY DEF HeldLater
  <2>1. cy[d] = ctx[d] /\ \A task : Member(txn.destroys, task) => Member(ty.destroys, task)
    BY <1>2 DEF GrowsTo
  <2> QED
    BY <2>1, UntouchedHeld
<1> QED
  BY <1>3, <1>5, <1>8, <1>10, <1>11, <1>12, EditedIsMidway

\* What attach and replace do to a context.
Enlarged(x, y) ==
  /\ y.state = x.state /\ y.address = x.address /\ y.activated = x.activated /\ y.usage = x.usage
  /\ y.freed = x.freed /\ y.overwritten = x.overwritten /\ y.destroyed = x.destroyed
  /\ Len(x.arrays) <= Len(y.arrays)
  /\ \A v \in 1..Len(x.arrays) : y.arrays[v] = x.arrays[v]
  /\ \A l \in Listener : Member(Entries(x), l) => Member(Entries(y), l)

\* gum_function_context_new.
LEMMA NewContextProps ==
  ASSUME NEW a \in Address, prologue[a] = 0
  PROVE  /\ NewContext(a) \in Context /\ Fresh(NewContext(a), a)
         /\ Len(NewContext(a).arrays) = 1 /\ ~NewContext(a).replacement
<1>a. PICK ar : ar = << <<>> >>
  OBVIOUS
<1>1. ar \in Seq(Seq(Slot)) /\ Len(ar) = 1 /\ ar # <<>>
  <2>1. <<>> \in Seq(Slot)
    BY EmptySeq
  <2> QED
    BY <1>a, <2>1
<1>b. PICK y : y = NewContext(a)
  OBVIOUS
<1>2. y = [state |-> "live", address |-> a, activated |-> FALSE, destroyed |-> FALSE,
           hasLeave |-> FALSE, usage |-> 0, arrays |-> ar, freed |-> {},
           replacement |-> FALSE, overwritten |-> 0]
  BY <1>a, <1>b DEF NewContext
<1>3. y \in Context
  BY <1>1, <1>2 DEF Context
<1>4. /\ y.state = "live" /\ y.address = a /\ ~y.activated /\ ~y.destroyed /\ y.usage = 0
      /\ y.freed = {} /\ y.overwritten = 0 /\ y.arrays = ar /\ ~y.replacement
  BY <1>2
<1> QED
  BY <1>b, <1>1, <1>3, <1>4 DEF Fresh

\* gum_function_context_add_listener.
LEMMA AddListenerProps ==
  ASSUME NEW x \in Context, x.arrays # <<>>, NEW l \in Listener, NEW y, y = AddListener(x, l)
  PROVE  /\ y \in Context /\ Enlarged(x, y) /\ Len(y.arrays) = Len(x.arrays) + 1
<1>1. /\ x.arrays \in Seq(Seq(Slot)) /\ Len(x.arrays) \in Nat /\ Entries(x) \in Seq(Slot)
      /\ \A v \in 1..Len(x.arrays) : x.arrays[v] \in Seq(Slot)
  BY ArrayLengths
<1>a. PICK e : e = Append(Compact(Entries(x)), l)
  OBVIOUS
<1>2. e \in Seq(Slot) /\ \A m \in Listener : Member(Entries(x), m) => Member(e, m)
  <2>1. /\ Compact(Entries(x)) \in Seq(Slot)
        /\ \A m \in Slot : Member(Compact(Entries(x)), m) <=> Member(Entries(x), m) /\ m # NoListener
    BY <1>1, CompactMembers
  <2>2. l \in Slot /\ \A m \in Listener : m \in Slot /\ m # NoListener
    BY ListenerAssumption DEF Slot
  <2>3. e \in Seq(Slot) /\ \A m : Member(e, m) <=> Member(Compact(Entries(x)), m) \/ m = l
    BY <1>a, <2>1, <2>2, AppendMembers
  <2> QED
    BY <2>1, <2>2, <2>3
<1>b. PICK ar : ar = Append(x.arrays, e)
  OBVIOUS
<1>3. /\ ar \in Seq(Seq(Slot)) /\ Len(ar) = Len(x.arrays) + 1 /\ ar[Len(x.arrays) + 1] = e
      /\ \A v \in 1..Len(x.arrays) : ar[v] = x.arrays[v]
  BY <1>1, <1>2, <1>b, AppendMembers
<1>c. PICK h \in BOOLEAN : h = (x.hasLeave \/ l \in LeaveListener)
  OBVIOUS
<1>4. y = [x EXCEPT !.arrays = ar, !.hasLeave = h]
  BY <1>a, <1>b, <1>c DEF AddListener
<1>5. y \in Context
  BY <1>3, <1>4 DEF Context
<1>6. /\ y.state = x.state /\ y.address = x.address /\ y.activated = x.activated /\ y.usage = x.usage
      /\ y.freed = x.freed /\ y.overwritten = x.overwritten /\ y.destroyed = x.destroyed /\ y.arrays = ar
  BY <1>4 DEF Context
<1>7. Entries(y) = e
  BY <1>3, <1>6 DEF Entries
<1>8. Len(x.arrays) <= Len(ar)
  BY <1>1, <1>3
<1> QED
  BY <1>2, <1>3, <1>5, <1>6, <1>7, <1>8 DEF Enlarged

\* Setting a replacement.
LEMMA ReplacementProps ==
  ASSUME NEW x \in Context, x.arrays # <<>>, NEW y, y = [x EXCEPT !.replacement = TRUE]
  PROVE  y \in Context /\ Enlarged(x, y)
<1>a. PICK yes \in BOOLEAN : yes = TRUE
  OBVIOUS
<1>1. y = [x EXCEPT !.replacement = yes]
  BY <1>a
<1>2. y \in Context
  BY <1>1 DEF Context
<1>3. /\ y.state = x.state /\ y.address = x.address /\ y.activated = x.activated /\ y.usage = x.usage
      /\ y.freed = x.freed /\ y.overwritten = x.overwritten /\ y.destroyed = x.destroyed /\ y.arrays = x.arrays
  BY <1>1 DEF Context
<1>4. Entries(y) = Entries(x) /\ Len(x.arrays) \in Nat
  BY <1>3, ArrayLengths DEF Entries
<1>5. Len(x.arrays) <= Len(y.arrays)
  BY <1>3, <1>4
<1>6. Enlarged(x, y)
  BY <1>3, <1>4, <1>5 DEF Enlarged
<1> QED
  BY <1>2, <1>6

\* The updates of an instrumentation.
Activation(a, c) == IF table[a] # 0 THEN <<>> ELSE << [ctx |-> c, activate |-> TRUE] >>

\* An instrumentation activates the context it is about.
LEMMA ActivationProps ==
  ASSUME NEW a, NEW c \in Ctx
  PROVE  Activation(a, c) \in Seq(Update) /\ \A i \in 1..Len(Activation(a, c)) : Activation(a, c)[i].ctx = c
<1>1. CASE table[a] # 0
  <2>1. Activation(a, c) = <<>>
    BY <1>1 DEF Activation
  <2>2. <<>> \in Seq(Update) /\ Len(<<>>) = 0
    BY EmptySeq
  <2> QED
    BY <2>1, <2>2
<1>2. CASE table[a] = 0
  <2>a. PICK u : u = [ctx |-> c, activate |-> TRUE]
    OBVIOUS
  <2>1. u \in Update /\ u.ctx = c
    BY <2>a DEF Update
  <2>2. Activation(a, c) = <<u>>
    BY <1>2, <2>a DEF Activation
  <2> QED
    BY <2>1, <2>2
<1> QED
  BY <1>1, <1>2

\* An address with a context in the table, or without one.
LEMMA InstalledOld ==
  ASSUME IInv, NEW a \in Address, NEW c, c = table[a], c # 0,
         NEW y \in Context, Enlarged(ctx[c], y), NEW cy, cy = WithContext(ctx, c, y),
         NEW ty, GrowsTo(txn, ty, cy)
  PROVE  Midway([table EXCEPT ![a] = c], cy, ty)
<1>1. /\ ctx \in [Ctx -> Context] /\ TableOK(table, ctx) /\ table \in [Address -> Ctx \cup {0}]
  BY DEF IInv, DataOK, Shape
<1>2. c \in Ctx /\ ctx[c].state = "live" /\ ~ctx[c].destroyed
  BY <1>1 DEF TableOK
<1>3. cy \in [Ctx -> Context] /\ cy[c] = y /\ \A d \in Ctx : d # c => cy[d] = ctx[d]
  BY <1>1, <1>2 DEF WithContext
<1>4. ~y.destroyed /\ Altered(ctx[c], y)
  BY <1>2 DEF Enlarged, Altered
<1>5. \A d \in Ctx : cy[d] = ctx[d] \/ Altered(ctx[d], cy[d])
  BY <1>3, <1>4
<1>6. DeactivatesNew(ctx, cy, ty)
  BY <1>3, <1>4 DEF DeactivatesNew
<1>7. HeldLater(ctx, txn, job, cy, ty, job)
  <2> SUFFICES ASSUME NEW d \in Ctx, NEW l \in Listener, Held(d, l, ctx, txn, job)
               PROVE  Held(d, l, cy, ty, job)
    BY DEF HeldLater
  <2>1. \A task : Member(txn.destroys, task) => Member(ty.destroys, task)
    BY DEF GrowsTo
  <2>2. CASE d # c
    BY <1>3, <2>1, <2>2, UntouchedHeld
  <2>3. CASE d = c
    <3>1. Member(Entries(ctx[c]), l) => Member(Entries(cy[c]), l)
      BY <1>3 DEF Enlarged
    <3> QED
      BY <1>3, <1>4, <2>1, <2>3, <3>1 DEF Held
  <2> QED
    BY <2>2, <2>3
<1>8. [table EXCEPT ![a] = c] = WithoutDestroyed(table, cy)
  <2>1. [table EXCEPT ![a] = c] = table
    BY <1>1
  <2>2. ASSUME NEW b \in Address
        PROVE  ~(table[b] # 0 /\ cy[table[b]].destroyed)
    <3>1. table[b] # 0 => table[b] \in Ctx /\ ~ctx[table[b]].destroyed
      BY <1>1 DEF TableOK
    <3> QED
      BY <1>3, <1>4, <3>1
  <2> QED
    BY <1>1, <2>1, <2>2 DEF WithoutDestroyed
<1> QED
  BY <1>3, <1>5, <1>6, <1>7, <1>8, AlteredIsMidway

\* A new context, with its first listener or its replacement.
LEMMA InstalledNew ==
  ASSUME IInv, NEW a, Created(a), table[a] = 0, NEW c \in Ctx, ctx[c].state = "unborn",
         \A d \in Ctx : d < c => ctx[d].state # "unborn", a \in Ctx => a < c, prologue[a] = 0,
         NEW y \in Context, Enlarged(NewContext(a), y), NEW cy, cy = WithContext(ctx, c, y),
         NEW ty, GrowsTo(txn, ty, cy)
  PROVE  Midway([table EXCEPT ![a] = c], cy, ty)
<1>1. a \in Address
  BY DEF Created
<1>a. PICK x : x = NewContext(a)
  OBVIOUS
<1>2. Fresh(x, a) /\ Len(x.arrays) = 1 /\ Enlarged(x, y)
  BY <1>1, <1>a, NewContextProps
<1>3. Len(y.arrays) \in Nat /\ Len(y.arrays) >= 1
  BY <1>2, ArrayLengths DEF Enlarged
<1>4. y.arrays # <<>>
  <2>1. Len(<<>>) = 0
    BY EmptySeq
  <2> QED
    BY <1>3, <2>1
<1>5. Fresh(y, a)
  BY <1>2, <1>4 DEF Enlarged, Fresh
<1> QED
  BY <1>5, FreshIsMidway

\* Either way the API call may end its transaction.
LEMMA Installed ==
  ASSUME IInv, NEW a, Created(a), Stays(a), CanInstrument(a), NEW c, c = Instrument(a), c # 0,
         NEW x, x = IF table[a] # 0 THEN ctx[c] ELSE NewContext(a),
         NEW y \in Context, Enlarged(x, y), NEW cy, cy = WithContext(ctx, c, y),
         NEW ds \in Seq(Task), \A i \in 1..Len(ds) : TaskOK(ds[i], cy),
         NEW ty, Extends(ty, Activation(a, c), ds)
  PROVE  Midway([table EXCEPT ![a] = c], cy, ty) /\ ty.level >= 1
<1>1. /\ ctx \in [Ctx -> Context] /\ TableOK(table, ctx) /\ table \in [Address -> Ctx \cup {0}]
      /\ txn \in Transaction
  BY DEF IInv, DataOK, Shape
<1>2. /\ c \in Ctx /\ a \in Address
      /\ table[a] # 0 => c = table[a]
      /\ table[a] = 0 =>
           /\ ctx[c].state = "unborn" /\ prologue[a] = 0
           /\ \A d \in Ctx : d < c => ctx[d].state # "unborn"
           /\ a \in Ctx => a < c
  BY InstrumentProps
<1>3. cy \in [Ctx -> Context] /\ cy[c] = y
  BY <1>1, <1>2 DEF WithContext
<1>4. y.state # "unborn"
  <2>1. CASE table[a] # 0
    BY <1>1, <1>2, <2>1 DEF TableOK, Enlarged
  <2>2. CASE table[a] = 0
    <3>1. Fresh(x, a)
      BY <1>2, <2>2, NewContextProps
    <3> QED
      BY <3>1 DEF Fresh, Enlarged
  <2> QED
    BY <2>1, <2>2
<1>a. PICK us : us = Activation(a, c)
  OBVIOUS
<1>5. us \in Seq(Update) /\ \A i \in 1..Len(us) : us[i].ctx = c
  BY <1>2, <1>a, ActivationProps
<1>6. \A i \in 1..Len(us) : cy[us[i].ctx].state # "unborn"
  BY <1>3, <1>4, <1>5
<1>7. Extends(ty, us, ds)
  BY <1>a
<1>8. GrowsTo(txn, ty, cy) /\ ty.level >= 1
  BY <1>1, <1>5, <1>6, <1>7, ExtendedGrows
<1>9. CASE table[a] # 0
  <2>1. x = ctx[c] /\ c = table[a]
    BY <1>2, <1>9
  <2> QED
    BY <1>2, <1>8, <2>1, InstalledOld
<1>10. CASE table[a] = 0
  <2>1. x = NewContext(a)
    BY <1>10
  <2>2. Enlarged(NewContext(a), y)
    BY <2>1
  <2>3. Midway([table EXCEPT ![a] = c], cy, ty)
    BY <1>2, <1>8, <1>10, <2>2, InstalledNew
  <2> QED
    BY <1>8, <2>3
<1> QED
  BY <1>9, <1>10

\* A call that finds nothing to do.
LEMMA OpenedMidway ==
  ASSUME IInv
  PROVE  Midway(table, ctx, Opened) /\ Opened.level >= 1
<1>1. txn \in Transaction /\ txn.level \in Nat
  BY DEF IInv, DataOK, Shape, Transaction
<1>a. PICK o : o = Opened
  OBVIOUS
<1>2. <<>> \in Seq(Update) /\ <<>> \in Seq(Task)
  BY EmptySeq
<1>3. Extends(o, <<>>, <<>>)
  BY <1>1, <1>2, <1>a, ExtendedForms
<1>4. txn.updates \in Seq(Update) /\ txn.destroys \in Seq(Task)
  BY <1>1 DEF Transaction
<1>5. txn.updates \o <<>> = txn.updates /\ txn.destroys \o <<>> = txn.destroys
  BY <1>4, ConcatEmptySeq
<1>6. SameTasks(txn, o)
  BY <1>3, <1>5 DEF SameTasks, Extends
<1>7. Midway(table, ctx, o)
  BY <1>6, InvIsMidway, SameTasksMidway
<1>8. o.level >= 1
  BY <1>1, <1>3 DEF Extends
<1> QED
  BY <1>7, <1>8, <1>a

\* It keeps the invariant.
LEMMA OpenedIInv ==
  ASSUME IInv, NEW k \in Controller, job[k] = Idle, UNCHANGED <<table, frames, stack, guardKey>>,
         TransactionEnd(k, ctx, Opened)
  PROVE  IInv'
<1>a. PICK o : o = Opened
  OBVIOUS
<1>1. Midway(table', ctx, o) /\ o.level >= 1 /\ TransactionEnd(k, ctx, o)
  BY <1>a, OpenedMidway
<1>2. UNCHANGED <<frames, stack, guardKey>>
  OBVIOUS
<1> QED
  BY <1>1, <1>2, TransactionEndIInv

\* The values of an attach that goes through.
Attaching(f, l, a, c, x, y, us, task, cy, ty) ==
  /\ CanInstrument(a)
  /\ c # 0
  /\ a = Resolve(f)
  /\ c = Instrument(a)
  /\ x = IF table[a] # 0 THEN ctx[c] ELSE NewContext(a)
  /\ us = Activation(a, c)
  /\ task = [kind |-> "array", ctx |-> c, version |-> Len(x.arrays)]
  /\ y = AddListener(x, l)
  /\ cy = WithContext(ctx, c, y)
  /\ ty = [Opened EXCEPT !.updates = @ \o us, !.destroys = Append(@, task)]

\* What gum_interceptor_attach has done when its transaction ends.
LEMMA AttachMidway ==
  ASSUME IInv, NEW f \in Function, NEW l \in Listener, NEW a, NEW c, NEW x, NEW y, NEW us, NEW task, NEW cy, NEW ty,
         Attaching(f, l, a, c, x, y, us, task, cy, ty)
  PROVE  /\ Midway([table EXCEPT ![a] = c], cy, ty) /\ ty.level >= 1
         /\ x \in Context /\ x.arrays # <<>> /\ y \in Context /\ Enlarged(x, y)
         /\ ty.dirty /\ ty.level = txn.level + 1 /\ ty.updates = txn.updates \o us
<1>q1. CanInstrument(a)
  BY DEF Attaching
<1>q5. c # 0
  BY DEF Attaching
<1>qa. a = Resolve(f)
  BY DEF Attaching
<1>qb. c = Instrument(a)
  BY DEF Attaching
<1>qc. x = IF table[a] # 0 THEN ctx[c] ELSE NewContext(a)
  BY DEF Attaching
<1>qd. us = Activation(a, c)
  BY DEF Attaching
<1>qe. task = [kind |-> "array", ctx |-> c, version |-> Len(x.arrays)]
  BY DEF Attaching
<1>qf. y = AddListener(x, l)
  BY DEF Attaching
<1>a. cy = WithContext(ctx, c, y)
  BY DEF Attaching
<1>b. ty = [Opened EXCEPT !.updates = @ \o us, !.destroys = Append(@, task)]
  BY DEF Attaching
<1>q2. Created(a) /\ a \in Address /\ Stays(a)
  BY <1>qa, ResolveProps
<1>0. /\ txn \in Transaction /\ ctx \in [Ctx -> Context] /\ table \in [Address -> Ctx \cup {0}]
      /\ ContextsOK(ctx) /\ TableOK(table, ctx)
  BY DEF IInv, DataOK, Shape
<1>1. /\ c \in Ctx
      /\ table[a] # 0 => c = table[a]
      /\ table[a] = 0 => prologue[a] = 0
  BY <1>q1, <1>q2, <1>q5, <1>qb, InstrumentProps
<1>2. x \in Context /\ x.arrays # <<>> /\ x.state # "unborn"
  <2>1. CASE table[a] # 0
    <3>1. x = ctx[c] /\ ctx[c].state = "live" /\ ContextOK(c, ctx[c])
      BY <1>q2, <1>qc, <1>0, <1>1, <2>1 DEF TableOK, ContextsOK
    <3> QED
      BY <1>0, <1>1, <3>1 DEF ContextOK
  <2>2. CASE table[a] = 0
    <3>1. x = NewContext(a)
      BY <1>qc, <2>2
    <3>2. x \in Context /\ Fresh(x, a)
      BY <1>q2, <1>1, <2>2, <3>1, NewContextProps
    <3> QED
      BY <3>2 DEF Fresh
  <2> QED
    BY <2>1, <2>2
<1>3. y \in Context /\ Enlarged(x, y) /\ Len(y.arrays) = Len(x.arrays) + 1
  BY <1>qf, <1>2, AddListenerProps
<1>4. Len(x.arrays) \in Nat
  BY <1>2, ArrayLengths
<1>5. task \in Task /\ task.ctx = c /\ task.kind = "array" /\ task.version = Len(x.arrays)
  BY <1>qe, <1>1, <1>4 DEF Task
<1>6. cy[c] = y
  BY <1>0, <1>1, <1>a DEF WithContext
<1>7. TaskOK(task, cy)
  BY <1>2, <1>3, <1>4, <1>5, <1>6 DEF TaskOK, Enlarged
<1>c. PICK ds : ds = <<task>>
  OBVIOUS
<1>8. ds \in Seq(Task) /\ \A i \in 1..Len(ds) : TaskOK(ds[i], cy)
  BY <1>5, <1>7, <1>c
<1>9. us \in Seq(Update)
  BY <1>qd, <1>1, ActivationProps
<1>10. Extends(ty, us, ds)
  BY <1>0, <1>5, <1>8, <1>9, <1>b, <1>c, ExtendedForms
<1>11. Extends(ty, Activation(a, c), ds)
  BY <1>qd, <1>10
<1>12. Midway([table EXCEPT ![a] = c], cy, ty) /\ ty.level >= 1
  BY <1>q1, <1>q2, <1>q5, <1>qb, <1>qc, <1>3, <1>8, <1>11, <1>a, Installed
<1> QED
  BY <1>2, <1>3, <1>10, <1>12 DEF Extends

\* gum_interceptor_attach keeps the invariant.
LEMMA AttachIInv ==
  ASSUME IInv, NEW k \in Controller, NEW f \in Function, NEW l \in Listener, Attach(k, f, l)
  PROVE  IInv'
<1>a. PICK a : a = Resolve(f)
  OBVIOUS
<1>b. PICK c : c = Instrument(a)
  OBVIOUS
<1>c. PICK x : x = IF table[a] # 0 THEN ctx[c] ELSE NewContext(a)
  OBVIOUS
<1>d. PICK us : us = Activation(a, c)
  OBVIOUS
<1>e. PICK task : task = [kind |-> "array", ctx |-> c, version |-> Len(x.arrays)]
  OBVIOUS
<1>f. PICK y : y = AddListener(x, l)
  OBVIOUS
<1>1. job[k] = Idle /\ UNCHANGED <<frames, stack, guardKey>> /\ CanInstrument(a)
  BY <1>a DEF Attach, CountOp, BeginOp, threadVars
<1>3. \/ TransactionEnd(k, ctx, Opened) /\ UNCHANGED table
      \/ /\ c # 0 /\ table' = [table EXCEPT ![a] = c]
         /\ TransactionEnd(k, WithContext(ctx, c, y),
               [Opened EXCEPT !.updates = @ \o us, !.destroys = Append(@, task)])
  BY <1>a, <1>b, <1>c, <1>d, <1>e, <1>f DEF Attach, Activation, WithContext
<1>4. CASE TransactionEnd(k, ctx, Opened) /\ UNCHANGED table
  BY <1>1, <1>4, OpenedIInv
<1>5. ASSUME c # 0, table' = [table EXCEPT ![a] = c],
             TransactionEnd(k, WithContext(ctx, c, y),
               [Opened EXCEPT !.updates = @ \o us, !.destroys = Append(@, task)])
      PROVE  IInv'
  <2>a. PICK cy, ty : cy = WithContext(ctx, c, y) /\ ty = [Opened EXCEPT !.updates = @ \o us, !.destroys = Append(@, task)]
    OBVIOUS
  <2>0. Attaching(f, l, a, c, x, y, us, task, cy, ty)
    BY <1>1, <1>5, <1>a, <1>b, <1>c, <1>d, <1>e, <1>f, <2>a DEF Attaching
  <2>1. Midway([table EXCEPT ![a] = c], cy, ty) /\ ty.level >= 1
    BY <2>0, AttachMidway
  <2>2. Midway(table', cy, ty) /\ TransactionEnd(k, cy, ty)
    BY <1>5, <2>1, <2>a
  <2> QED
    BY <1>1, <2>1, <2>2, TransactionEndIInv
<1> QED
  BY <1>3, <1>4, <1>5

\* The values of a replace that goes through.
Replacing(f, a, c, x, y, us, cy, ty) ==
  /\ CanInstrument(a)
  /\ c # 0
  /\ a = Resolve(f)
  /\ c = Instrument(a)
  /\ x = IF table[a] # 0 THEN ctx[c] ELSE NewContext(a)
  /\ us = Activation(a, c)
  /\ y = [x EXCEPT !.replacement = TRUE]
  /\ cy = WithContext(ctx, c, y)
  /\ ty = [Opened EXCEPT !.updates = @ \o us]

\* What gum_interceptor_replace has done when its transaction ends.
LEMMA ReplaceMidway ==
  ASSUME IInv, NEW f \in Function, NEW a, NEW c, NEW x, NEW y, NEW us, NEW cy, NEW ty,
         Replacing(f, a, c, x, y, us, cy, ty)
  PROVE  /\ Midway([table EXCEPT ![a] = c], cy, ty) /\ ty.level >= 1
         /\ x \in Context /\ x.arrays # <<>> /\ y \in Context /\ Enlarged(x, y)
         /\ ty.dirty /\ ty.level = txn.level + 1 /\ ty.updates = txn.updates \o us
<1>q1. CanInstrument(a)
  BY DEF Replacing
<1>q5. c # 0
  BY DEF Replacing
<1>qa. a = Resolve(f)
  BY DEF Replacing
<1>qb. c = Instrument(a)
  BY DEF Replacing
<1>qc. x = IF table[a] # 0 THEN ctx[c] ELSE NewContext(a)
  BY DEF Replacing
<1>qd. us = Activation(a, c)
  BY DEF Replacing
<1>qf. y = [x EXCEPT !.replacement = TRUE]
  BY DEF Replacing
<1>a. cy = WithContext(ctx, c, y)
  BY DEF Replacing
<1>b. ty = [Opened EXCEPT !.updates = @ \o us]
  BY DEF Replacing
<1>q2. Created(a) /\ a \in Address /\ Stays(a)
  BY <1>qa, ResolveProps
<1>0. /\ txn \in Transaction /\ ctx \in [Ctx -> Context] /\ table \in [Address -> Ctx \cup {0}]
      /\ ContextsOK(ctx) /\ TableOK(table, ctx)
  BY DEF IInv, DataOK, Shape
<1>1. /\ c \in Ctx
      /\ table[a] # 0 => c = table[a]
      /\ table[a] = 0 => prologue[a] = 0
  BY <1>q1, <1>q2, <1>q5, <1>qb, InstrumentProps
<1>2. x \in Context /\ x.arrays # <<>>
  <2>1. CASE table[a] # 0
    <3>1. x = ctx[c] /\ ctx[c].state = "live" /\ ContextOK(c, ctx[c])
      BY <1>q2, <1>qc, <1>0, <1>1, <2>1 DEF TableOK, ContextsOK
    <3> QED
      BY <1>0, <1>1, <3>1 DEF ContextOK
  <2>2. CASE table[a] = 0
    <3>1. x = NewContext(a)
      BY <1>qc, <2>2
    <3>2. x \in Context /\ Fresh(x, a)
      BY <1>q2, <1>1, <2>2, <3>1, NewContextProps
    <3> QED
      BY <3>2 DEF Fresh
  <2> QED
    BY <2>1, <2>2
<1>3. y \in Context /\ Enlarged(x, y)
  BY <1>qf, <1>2, ReplacementProps
<1>c. PICK ds : ds = <<>>
  OBVIOUS
<1>8. ds \in Seq(Task) /\ \A i \in 1..Len(ds) : TaskOK(ds[i], cy)
  BY <1>c, EmptySeq
<1>9. us \in Seq(Update)
  BY <1>qd, <1>1, ActivationProps
<1>10. Extends(ty, us, ds)
  BY <1>0, <1>8, <1>9, <1>b, <1>c, ExtendedForms
<1>11. Extends(ty, Activation(a, c), ds)
  BY <1>qd, <1>10
<1>12. Midway([table EXCEPT ![a] = c], cy, ty) /\ ty.level >= 1
  BY <1>q1, <1>q2, <1>q5, <1>qb, <1>qc, <1>3, <1>8, <1>11, <1>a, Installed
<1> QED
  BY <1>2, <1>3, <1>10, <1>12 DEF Extends

\* gum_interceptor_replace keeps the invariant.
LEMMA ReplaceIInv ==
  ASSUME IInv, NEW k \in Controller, NEW f \in Function, Replace(k, f)
  PROVE  IInv'
<1>a. PICK a : a = Resolve(f)
  OBVIOUS
<1>b. PICK c : c = Instrument(a)
  OBVIOUS
<1>c. PICK x : x = IF table[a] # 0 THEN ctx[c] ELSE NewContext(a)
  OBVIOUS
<1>d. PICK us : us = Activation(a, c)
  OBVIOUS
<1>f. PICK y : y = [x EXCEPT !.replacement = TRUE]
  OBVIOUS
<1>1. job[k] = Idle /\ UNCHANGED <<frames, stack, guardKey>> /\ CanInstrument(a)
  BY <1>a DEF Replace, CountOp, BeginOp, threadVars
<1>3. \/ TransactionEnd(k, ctx, Opened) /\ UNCHANGED table
      \/ /\ c # 0 /\ table' = [table EXCEPT ![a] = c]
         /\ TransactionEnd(k, WithContext(ctx, c, y), [Opened EXCEPT !.updates = @ \o us])
  BY <1>a, <1>b, <1>c, <1>d, <1>f DEF Replace, Activation, WithContext
<1>4. CASE TransactionEnd(k, ctx, Opened) /\ UNCHANGED table
  BY <1>1, <1>4, OpenedIInv
<1>5. ASSUME c # 0, table' = [table EXCEPT ![a] = c],
             TransactionEnd(k, WithContext(ctx, c, y), [Opened EXCEPT !.updates = @ \o us])
      PROVE  IInv'
  <2>a. PICK cy, ty : cy = WithContext(ctx, c, y) /\ ty = [Opened EXCEPT !.updates = @ \o us]
    OBVIOUS
  <2>0. Replacing(f, a, c, x, y, us, cy, ty)
    BY <1>1, <1>5, <1>a, <1>b, <1>c, <1>d, <1>f, <2>a DEF Replacing
  <2>1. Midway([table EXCEPT ![a] = c], cy, ty) /\ ty.level >= 1
    BY <2>0, ReplaceMidway
  <2>2. Midway(table', cy, ty) /\ TransactionEnd(k, cy, ty)
    BY <1>5, <2>1, <2>a
  <2> QED
    BY <1>1, <2>1, <2>2, TransactionEndIInv
<1> QED
  BY <1>3, <1>4, <1>5

-----------------------------------------------------------------------------
(* Detaching and reverting.                                                *)

\* The contexts that are destroyed while active are to be deactivated.
LEMMA DeactivationsProps ==
  ASSUME NEW cs, cs \subseteq Ctx, NEW us, us = DeactivationsOf(cs)
  PROVE  /\ us \in Seq(Update)
         /\ \A i \in 1..Len(us) : us[i].ctx \in cs /\ ~us[i].activate
         /\ \A c \in cs : ctx[c].activated => Member(us, [ctx |-> c, activate |-> FALSE])
<1>a. PICK D : D = {d \in cs : ctx[d].activated}
  OBVIOUS
<1>b. PICK S : S = {[ctx |-> c, activate |-> FALSE] : c \in D}
  OBVIOUS
<1>1. IsFiniteSet(Ctx)
  BY BoundsAssumption, FS_Interval DEF Ctx
<1>2. IsFiniteSet(D)
  BY <1>1, <1>a, FS_Subset
<1>3. IsFiniteSet(S)
  <2>a. PICK g : g = [c \in D |-> [ctx |-> c, activate |-> FALSE]]
    OBVIOUS
  <2>1. g \in [D -> S] /\ \A u \in S : \E c \in D : g[c] = u
    BY <1>b, <2>a
  <2>2. g \in Surjection(D, S)
    BY <2>1 DEF Surjection
  <2> QED
    BY <1>2, <2>2, FS_Surjection
<1>4. us = SetToSeq(S)
  BY <1>a, <1>b DEF DeactivationsOf
<1>5. us \in Seq(S) /\ \A e \in S : Member(us, e)
  BY <1>3, <1>4, SetToSeqMembers
<1>6. \A u \in S : u \in Update /\ u.ctx \in cs /\ ~u.activate
  <2> SUFFICES ASSUME NEW u \in S
               PROVE  u \in Update /\ u.ctx \in cs /\ ~u.activate
    OBVIOUS
  <2>1. PICK c \in D : u = [ctx |-> c, activate |-> FALSE]
    BY <1>b
  <2>2. c \in cs /\ c \in Ctx
    BY <1>a
  <2>b. PICK no \in BOOLEAN : no = FALSE
    OBVIOUS
  <2>3. u = [ctx |-> c, activate |-> no]
    BY <2>1, <2>b
  <2> QED
    BY <2>2, <2>3, <2>b DEF Update
<1>7. Len(us) \in Nat /\ \A i \in 1..Len(us) : us[i] \in S
  BY <1>5, LenProperties, ElementOfSeq
<1>8. us \in Seq(Update)
  <2>1. \A i \in 1..Len(us) : us[i] \in Update
    BY <1>6, <1>7
  <2>2. us \in [1..Len(us) -> Update]
    BY <1>5, <2>1, LenProperties
  <2> QED
    BY <1>7, <2>2, FunctionIsSeq
<1>9. \A c \in cs : ctx[c].activated => [ctx |-> c, activate |-> FALSE] \in S
  BY <1>a, <1>b
<1> QED
  BY <1>5, <1>6, <1>7, <1>8, <1>9

\* A context without clients has only empty slots.
LEMMA EmptyEntries ==
  ASSUME NEW x \in Context, x.arrays # <<>>, IsEmpty(x)
  PROVE  ~x.replacement /\ \A i \in 1..Len(Entries(x)) : Entries(x)[i] = NoListener
<1>1. Entries(x) \in Seq(Slot)
  BY ArrayLengths
<1>2. DOMAIN Entries(x) = 1..Len(Entries(x))
  BY <1>1, LenProperties
<1> QED
  BY <1>2 DEF IsEmpty, Taken

\* Removing a listener.
LEMMA RemoveListenerProps ==
  ASSUME NEW x \in Context, x.arrays # <<>>, NEW l \in Listener, NEW z, z = RemoveListener(x, l)
  PROVE  /\ z \in Context /\ z.arrays # <<>> /\ Len(z.arrays) = Len(x.arrays)
         /\ z.state = x.state /\ z.address = x.address /\ z.activated = x.activated /\ z.usage = x.usage
         /\ z.freed = x.freed /\ z.overwritten = x.overwritten /\ z.destroyed = x.destroyed
         /\ \A v \in 1..Len(x.arrays) : \A m \in Listener : Member(z.arrays[v], m) => Member(x.arrays[v], m)
         /\ \A m \in Listener : m # l /\ Member(Entries(x), m) => Member(Entries(z), m)
<1>1. /\ x.arrays \in Seq(Seq(Slot)) /\ Len(x.arrays) \in Nat \ {0} /\ Entries(x) \in Seq(Slot)
      /\ Len(x.arrays) \in 1..Len(x.arrays)
      /\ \A v \in 1..Len(x.arrays) : x.arrays[v] \in Seq(Slot)
  BY ArrayLengths
<1>a. PICK e, n, N : e = Entries(x) /\ n = Len(x.arrays) /\ N = Len(Entries(x))
  OBVIOUS
<1>b. PICK kept : kept = [i \in DOMAIN e |-> IF e[i] = l THEN NoListener ELSE e[i]]
  OBVIOUS
<1>2. N \in Nat /\ DOMAIN e = 1..N /\ \A i \in 1..N : e[i] \in Slot
  BY <1>1, <1>a, LenProperties, ElementOfSeq
<1>3. kept \in [1..N -> Slot] /\ \A i \in 1..N : kept[i] = IF e[i] = l THEN NoListener ELSE e[i]
  BY <1>2, <1>b DEF Slot
<1>4. kept \in Seq(Slot) /\ Len(kept) = N
  BY <1>2, <1>3, FunctionIsSeq
<1>5. \A m \in Listener : /\ Member(kept, m) => Member(e, m)
                          /\ m # l /\ Member(e, m) => Member(kept, m)
  <2>1. NoListener \notin Listener
    BY ListenerAssumption
  <2>2. Len(e) = N
    BY <1>a
  <2> QED
    BY <1>3, <1>4, <2>1, <2>2 DEF Member
<1>c. PICK ar : ar = [x.arrays EXCEPT ![n] = kept]
  OBVIOUS
<1>6. DOMAIN x.arrays = 1..n /\ n \in 1..n /\ n \in Nat
  BY <1>1, <1>a, LenProperties
<1>7. /\ ar \in [1..n -> Seq(Slot)] /\ ar[n] = kept
      /\ \A v \in 1..n : v # n => ar[v] = x.arrays[v]
  BY <1>1, <1>4, <1>6, <1>a, <1>c
<1>8. ar \in Seq(Seq(Slot)) /\ Len(ar) = n
  BY <1>6, <1>7, FunctionIsSeq
<1>d. PICK h \in BOOLEAN : h = ((Taken(x) \ {l}) \cap LeaveListener # {})
  OBVIOUS
<1>9. z = [x EXCEPT !.arrays = ar, !.hasLeave = h]
  BY <1>a, <1>b, <1>c, <1>d DEF RemoveListener
<1>10. z \in Context
  BY <1>8, <1>9 DEF Context
<1>11. /\ z.state = x.state /\ z.address = x.address /\ z.activated = x.activated /\ z.usage = x.usage
       /\ z.freed = x.freed /\ z.overwritten = x.overwritten /\ z.destroyed = x.destroyed /\ z.arrays = ar
  BY <1>9 DEF Context
<1>12. Entries(z) = kept
  BY <1>7, <1>8, <1>11 DEF Entries
<1>13. x.arrays[n] = e
  BY <1>a DEF Entries
<1>14. \A v \in 1..n : \A m \in Listener : Member(ar[v], m) => Member(x.arrays[v], m)
  BY <1>5, <1>7, <1>13
<1>15. ar # <<>>
  <2>1. Len(<<>>) = 0 /\ n # 0
    BY <1>1, <1>a, EmptySeq
  <2> QED
    BY <1>8, <2>1
<1> QED
  BY <1>5, <1>8, <1>10, <1>11, <1>12, <1>14, <1>15, <1>a

\* What gum_interceptor_revert does to a context.
Stripped(w, y) ==
  /\ y.state = w.state /\ y.address = w.address /\ y.activated = w.activated /\ y.usage = w.usage
  /\ y.freed = w.freed /\ y.overwritten = w.overwritten /\ y.arrays = w.arrays
  /\ y.destroyed => ~y.replacement /\ \A i \in 1..Len(Entries(y)) : Entries(y)[i] = NoListener

\* Clearing the replacement, and destroying the context when nothing is left
\* of it.
LEMMA StrippedForms ==
  ASSUME NEW w \in Context, w.arrays # <<>>, NEW b \in BOOLEAN,
         NEW x, x = [w EXCEPT !.replacement = FALSE], b => IsEmpty(x),
         NEW y, y = [x EXCEPT !.destroyed = b]
  PROVE  y \in Context /\ Stripped(w, y) /\ y.destroyed = b
<1>b. PICK no \in BOOLEAN : no = FALSE
  OBVIOUS
<1>4. x = [w EXCEPT !.replacement = no]
  BY <1>b
<1>5. x \in Context /\ x.arrays = w.arrays
  BY <1>4 DEF Context
<1>6. /\ x.state = w.state /\ x.address = w.address /\ x.activated = w.activated /\ x.usage = w.usage
      /\ x.freed = w.freed /\ x.overwritten = w.overwritten
  BY <1>4 DEF Context
<1>8. y \in Context /\ y.arrays = w.arrays /\ y.replacement = x.replacement /\ y.destroyed = b
  BY <1>5 DEF Context
<1>9. /\ y.state = w.state /\ y.address = w.address /\ y.activated = w.activated /\ y.usage = w.usage
      /\ y.freed = w.freed /\ y.overwritten = w.overwritten
  BY <1>5, <1>6 DEF Context
<1>11. b => ~x.replacement /\ \A i \in 1..Len(Entries(x)) : Entries(x)[i] = NoListener
  BY <1>5, EmptyEntries
<1>12. Entries(y) = Entries(x)
  BY <1>5, <1>8 DEF Entries
<1> QED
  BY <1>8, <1>9, <1>11, <1>12 DEF Stripped

\* The updates us and the tasks ds it adds to the transaction.
Reversal(c, y, us, ds) ==
  /\ us \in Seq(Update) /\ \A i \in 1..Len(us) : us[i].ctx = c
  /\ y.destroyed /\ ctx[c].activated => Member(us, [ctx |-> c, activate |-> FALSE])
  /\ ds \in Seq(Task) /\ \A i \in 1..Len(ds) : ds[i] = [kind |-> "context", ctx |-> c] /\ y.destroyed

\* gum_interceptor_revert changes one context, which it destroys when b holds.
LEMMA RevertedMidway ==
  ASSUME IInv, NEW a \in Address, NEW c, c = table[a], c # 0,
         NEW y \in Context, Stripped(ctx[c], y),
         NEW us, NEW ds, Reversal(c, y, us, ds),
         NEW cy, cy = WithContext(ctx, c, y), NEW ty, Extends(ty, us, ds)
  PROVE  /\ Midway(WithoutDestroyed(table, cy), cy, ty) /\ ty.level >= 1
         /\ ~y.destroyed => WithoutDestroyed(table, cy) = table
         /\ y.destroyed => WithoutDestroyed(table, cy) = [table EXCEPT ![a] = 0]
<1>0. /\ us \in Seq(Update) /\ \A i \in 1..Len(us) : us[i].ctx = c
      /\ y.destroyed /\ ctx[c].activated => Member(us, [ctx |-> c, activate |-> FALSE])
      /\ ds \in Seq(Task) /\ \A i \in 1..Len(ds) : ds[i] = [kind |-> "context", ctx |-> c] /\ y.destroyed
  BY DEF Reversal
<1>1. /\ ctx \in [Ctx -> Context] /\ TableOK(table, ctx) /\ table \in [Address -> Ctx \cup {0}]
      /\ txn \in Transaction /\ ContextsOK(ctx)
  BY DEF IInv, DataOK, Shape
<1>2. c \in Ctx /\ ctx[c].state = "live" /\ ~ctx[c].destroyed /\ ctx[c].address = a
  BY <1>1 DEF TableOK
<1>a. PICK w : w = ctx[c]
  OBVIOUS
<1>3. w \in Context /\ Stripped(w, y) /\ w.state = "live" /\ ~w.destroyed
  BY <1>1, <1>2, <1>a
<1>12. Entries(y) = Entries(w) /\ Len(w.arrays) \in Nat
  BY <1>3, ArrayLengths DEF Entries, Stripped
<1>13. Altered(w, y)
  <2>2. Len(w.arrays) <= Len(y.arrays)
    BY <1>3, <1>12 DEF Stripped
  <2> QED
    BY <1>3, <2>2 DEF Altered, Stripped
<1>14. cy \in [Ctx -> Context] /\ cy[c] = y /\ \A d \in Ctx : d # c => cy[d] = ctx[d]
  BY <1>1, <1>2 DEF WithContext
<1>15. \A d \in Ctx : cy[d] = ctx[d] \/ Altered(ctx[d], cy[d])
  BY <1>13, <1>14, <1>a
<1>16. cy[c].state # "unborn"
  BY <1>3, <1>14 DEF Stripped
<1>18. \A i \in 1..Len(us) : cy[us[i].ctx].state # "unborn"
  BY <1>0, <1>16
<1>19. ASSUME NEW i \in 1..Len(ds)
       PROVE  TaskOK(ds[i], cy)
  <2>1. ds[i].kind = "context" /\ ds[i].ctx = c /\ y.destroyed
    BY <1>0
  <2> QED
    BY <1>14, <1>16, <2>1 DEF TaskOK
<1>20. /\ GrowsTo(txn, ty, cy) /\ ty.level >= 1
       /\ \A u : Member(us, u) => Member(ty.updates, u)
  BY <1>0, <1>1, <1>18, <1>19, ExtendedGrows
<1>21. DeactivatesNew(ctx, cy, ty)
  <2> SUFFICES ASSUME NEW d \in Ctx, cy[d].destroyed, cy[d].activated, ~ctx[d].destroyed
               PROVE  Member(ty.updates, [ctx |-> d, activate |-> FALSE])
    BY DEF DeactivatesNew
  <2>1. d = c
    BY <1>14
  <2>2. y.destroyed /\ ctx[c].activated
    BY <1>14, <2>1 DEF Stripped
  <2> QED
    BY <1>0, <1>20, <2>1, <2>2
<1>22. HeldLater(ctx, txn, job, cy, ty, job)
  <2> SUFFICES ASSUME NEW d \in Ctx, NEW l \in Listener, Held(d, l, ctx, txn, job)
               PROVE  Held(d, l, cy, ty, job)
    BY DEF HeldLater
  <2>1. \A task : Member(txn.destroys, task) => Member(ty.destroys, task)
    BY <1>20 DEF GrowsTo
  <2>2. CASE d # c
    BY <1>14, <2>1, <2>2, UntouchedHeld
  <2>3. CASE d = c
    <3>1. Member(Entries(w), l) => ~y.destroyed
      BY <1>12, ListenerAssumption DEF Member, Stripped
    <3>2. Member(Entries(ctx[c]), l) => ~cy[c].destroyed /\ Member(Entries(cy[c]), l)
      BY <1>12, <1>14, <1>a, <3>1
    <3> QED
      BY <2>1, <2>3, <3>2 DEF Held
  <2> QED
    BY <2>2, <2>3
<1>d. PICK tb : tb = WithoutDestroyed(table, cy)
  OBVIOUS
<1>23. Midway(tb, cy, ty)
  BY <1>14, <1>15, <1>20, <1>21, <1>22, <1>d, AlteredIsMidway
<1>24. ASSUME NEW e \in Address, e # a, table[e] # 0
       PROVE  ~cy[table[e]].destroyed
  <2>1. table[e] \in Ctx /\ ~ctx[table[e]].destroyed /\ ctx[table[e]].address = e
    BY <1>1, <1>24 DEF TableOK
  <2>2. table[e] # c
    BY <1>2, <1>24, <2>1
  <2> QED
    BY <1>14, <2>1, <2>2
<1>25. tb \in [Address -> Ctx \cup {0}] /\ \A e \in Address : e # a => tb[e] = table[e]
  BY <1>1, <1>24, <1>d DEF WithoutDestroyed
<1>26. tb[a] = IF y.destroyed THEN 0 ELSE c
  BY <1>14, <1>d DEF WithoutDestroyed
<1>27. ~y.destroyed => tb = table
  BY <1>1, <1>25, <1>26
<1>28. y.destroyed => tb = [table EXCEPT ![a] = 0]
  BY <1>1, <1>25, <1>26
<1> QED
  BY <1>20, <1>23, <1>27, <1>28, <1>d

\* The values of a revert that goes through.
Reverting(f, a, c, x, empty, y, us, task, cy, tx, tb) ==
  /\ a = Resolve(f)
  /\ c = table[a]
  /\ x = [ctx[c] EXCEPT !.replacement = FALSE]
  /\ empty = IF IsEmpty(x) THEN {c} ELSE {}
  /\ y = [x EXCEPT !.destroyed = c \in empty]
  /\ us = DeactivationsOf(empty)
  /\ task = [kind |-> "context", ctx |-> c]
  /\ c # 0
  /\ cy = WithContext(ctx, c, y)
  /\ tx = [Opened EXCEPT !.updates = @ \o us, !.destroys = IF empty = {} THEN @ ELSE Append(@, task)]
  /\ tb = IF empty = {} THEN table ELSE [table EXCEPT ![a] = 0]

\* What gum_interceptor_revert has done when its transaction ends.
LEMMA RevertMidway ==
  ASSUME IInv, NEW f \in Function, NEW a, NEW c, NEW x, NEW empty, NEW y, NEW us, NEW task, NEW cy, NEW tx, NEW tb,
         Reverting(f, a, c, x, empty, y, us, task, cy, tx, tb)
  PROVE  /\ Midway(tb, cy, tx) /\ tx.level >= 1
         /\ y \in Context /\ Stripped(ctx[c], y) /\ (y.destroyed <=> empty # {})
         /\ tx.dirty /\ tx.level = txn.level + 1 /\ tx.updates = txn.updates \o us
<1>qa. a = Resolve(f)
  BY DEF Reverting
<1>qb. c = table[a]
  BY DEF Reverting
<1>qc. x = [ctx[c] EXCEPT !.replacement = FALSE]
  BY DEF Reverting
<1>qd. empty = IF IsEmpty(x) THEN {c} ELSE {}
  BY DEF Reverting
<1>qe. y = [x EXCEPT !.destroyed = c \in empty]
  BY DEF Reverting
<1>qf. us = DeactivationsOf(empty)
  BY DEF Reverting
<1>qg. task = [kind |-> "context", ctx |-> c]
  BY DEF Reverting
<1>q5. c # 0 /\ tb = IF empty = {} THEN table ELSE [table EXCEPT ![a] = 0]
  BY DEF Reverting
<1>a. cy = WithContext(ctx, c, y)
  BY DEF Reverting
<1>e. tx = [Opened EXCEPT !.updates = @ \o us, !.destroys = IF empty = {} THEN @ ELSE Append(@, task)]
  BY DEF Reverting
<1>q2. a \in Address
  BY <1>qa, ResolveProps
<1>0. /\ txn \in Transaction /\ ctx \in [Ctx -> Context] /\ table \in [Address -> Ctx \cup {0}]
      /\ ContextsOK(ctx) /\ TableOK(table, ctx)
  BY DEF IInv, DataOK, Shape
<1>1. c \in Ctx /\ ctx[c].state = "live"
  BY <1>q2, <1>q5, <1>qb, <1>0 DEF TableOK
<1>2. ctx[c] \in Context /\ ctx[c].arrays # <<>>
  BY <1>0, <1>1 DEF ContextsOK, ContextOK
<1>3. y \in Context /\ Stripped(ctx[c], y) /\ (y.destroyed <=> empty # {})
  <2> DEFINE b == c \in empty
  <2>0. b \in BOOLEAN
    BY SMT
  <2>1. b => IsEmpty(x)
    BY <1>qd
  <2>2. y = [x EXCEPT !.destroyed = b]
    BY <1>qe
  <2>4. b <=> empty # {}
    BY <1>qd
  <2> HIDE DEF b
  <2>3. y \in Context /\ Stripped(ctx[c], y) /\ y.destroyed = b
    BY <1>qc, <1>2, <2>0, <2>1, <2>2, StrippedForms
  <2> QED
    BY <2>3, <2>4
<1>4. empty \subseteq Ctx /\ (empty = {} \/ empty = {c})
  BY <1>qd, <1>1
<1>5. /\ us \in Seq(Update) /\ \A i \in 1..Len(us) : us[i].ctx \in empty /\ ~us[i].activate
      /\ \A d \in empty : ctx[d].activated => Member(us, [ctx |-> d, activate |-> FALSE])
  BY <1>qf, <1>4, DeactivationsProps
<1>6. \A i \in 1..Len(us) : us[i].ctx = c
  BY <1>4, <1>5
<1>7. y.destroyed /\ ctx[c].activated => Member(us, [ctx |-> c, activate |-> FALSE])
  BY <1>3, <1>4, <1>5
<1>8. task \in Task
  BY <1>qg, <1>1 DEF Task
<1>b. c = table[a] /\ c # 0
  BY <1>q5, <1>qb
<1>c. y \in Context /\ Stripped(ctx[c], y)
  BY <1>3
<1>d. us \in Seq(Update)
  BY <1>5
<1>9. CASE empty = {}
  <2>a. PICK ds : ds = <<>>
    OBVIOUS
  <2>b. PICK ty : ty = [Opened EXCEPT !.updates = @ \o us]
    OBVIOUS
  <2>1. ds \in Seq(Task) /\ Len(ds) = 0
    BY <2>a, EmptySeq
  <2>2. Extends(ty, us, ds)
    BY <1>0, <1>5, <2>1, <2>a, <2>b, ExtendedForms
  <2>3. /\ Midway(WithoutDestroyed(table, cy), cy, ty) /\ ty.level >= 1
        /\ ~y.destroyed => WithoutDestroyed(table, cy) = table
    <3>1. Reversal(c, y, us, ds)
      BY <1>d, <1>6, <1>7, <2>1 DEF Reversal
    <3> QED
      BY <1>q2, <1>b, <1>c, <1>a, <2>2, <3>1, RevertedMidway
  <2>4. Midway(tb, cy, ty)
    BY <1>q5, <1>3, <1>9, <2>3
  <2>5. [Opened EXCEPT !.updates = @ \o us, !.destroys = IF empty = {} THEN @ ELSE Append(@, task)] = ty
    <3>a. PICK o : o = Opened
      OBVIOUS
    <3>1. o \in Transaction
      BY <1>0, <2>1, <2>a, <1>5, <3>a, ExtendedForms DEF Extends
    <3>2. [o EXCEPT !.updates = @ \o us, !.destroys = @] = [o EXCEPT !.updates = @ \o us]
      BY <3>1 DEF Transaction
    <3> QED
      BY <1>9, <2>b, <3>a, <3>2
  <2>6. tx = ty
    BY <1>e, <2>5
  <2> QED
    BY <1>3, <2>2, <2>3, <2>4, <2>6 DEF Extends
<1>10. CASE empty # {}
  <2>a. PICK ds : ds = <<task>>
    OBVIOUS
  <2>b. PICK ty : ty = [Opened EXCEPT !.updates = @ \o us, !.destroys = Append(@, task)]
    OBVIOUS
  <2>1. ds \in Seq(Task) /\ \A i \in 1..Len(ds) : ds[i] = task
    BY <1>8, <2>a
  <2>2. Extends(ty, us, ds)
    BY <1>0, <1>5, <1>8, <2>1, <2>a, <2>b, ExtendedForms
  <2>3. \A i \in 1..Len(ds) : ds[i] = [kind |-> "context", ctx |-> c] /\ y.destroyed
    BY <1>qg, <1>3, <1>10, <2>1
  <2>4. /\ Midway(WithoutDestroyed(table, cy), cy, ty) /\ ty.level >= 1
        /\ y.destroyed => WithoutDestroyed(table, cy) = [table EXCEPT ![a] = 0]
    <3>1. Reversal(c, y, us, ds)
      BY <1>d, <1>6, <1>7, <2>1, <2>3 DEF Reversal
    <3> QED
      BY <1>q2, <1>b, <1>c, <1>a, <2>2, <3>1, RevertedMidway
  <2>5. Midway(tb, cy, ty)
    BY <1>q5, <1>3, <1>10, <2>4
  <2>6. [Opened EXCEPT !.updates = @ \o us, !.destroys = IF empty = {} THEN @ ELSE Append(@, task)] = ty
    BY <1>10, <2>b
  <2>7. tx = ty
    BY <1>e, <2>6
  <2> QED
    BY <1>3, <2>2, <2>4, <2>5, <2>7 DEF Extends
<1> QED
  BY <1>9, <1>10

\* gum_interceptor_revert keeps the invariant.
LEMMA RevertIInv ==
  ASSUME IInv, NEW k \in Controller, NEW f \in Function, Revert(k, f)
  PROVE  IInv'
<1>a. PICK a : a = Resolve(f)
  OBVIOUS
<1>b. PICK c : c = table[a]
  OBVIOUS
<1>c. PICK x : x = [ctx[c] EXCEPT !.replacement = FALSE]
  OBVIOUS
<1>d. PICK empty : empty = IF IsEmpty(x) THEN {c} ELSE {}
  OBVIOUS
<1>e. PICK y : y = [x EXCEPT !.destroyed = c \in empty]
  OBVIOUS
<1>f. PICK us : us = DeactivationsOf(empty)
  OBVIOUS
<1>g. PICK task : task = [kind |-> "context", ctx |-> c]
  OBVIOUS
<1>1. job[k] = Idle /\ UNCHANGED <<frames, stack, guardKey>>
  BY DEF Revert, CountOp, BeginOp, threadVars
<1>3. \/ TransactionEnd(k, ctx, Opened) /\ UNCHANGED table
      \/ /\ c # 0 /\ table' = IF empty = {} THEN table ELSE [table EXCEPT ![a] = 0]
         /\ TransactionEnd(k, WithContext(ctx, c, y),
               [Opened EXCEPT !.updates = @ \o us, !.destroys = IF empty = {} THEN @ ELSE Append(@, task)])
  BY <1>a, <1>b, <1>c, <1>d, <1>e, <1>f, <1>g DEF Revert, WithContext
<1>4. CASE TransactionEnd(k, ctx, Opened) /\ UNCHANGED table
  BY <1>1, <1>4, OpenedIInv
<1>5. ASSUME c # 0, table' = IF empty = {} THEN table ELSE [table EXCEPT ![a] = 0],
             TransactionEnd(k, WithContext(ctx, c, y),
               [Opened EXCEPT !.updates = @ \o us, !.destroys = IF empty = {} THEN @ ELSE Append(@, task)])
      PROVE  IInv'
  <2>a. PICK cy, tx :
          /\ cy = WithContext(ctx, c, y)
          /\ tx = [Opened EXCEPT !.updates = @ \o us, !.destroys = IF empty = {} THEN @ ELSE Append(@, task)]
    OBVIOUS
  <2>0. Reverting(f, a, c, x, empty, y, us, task, cy, tx, table')
    BY <1>5, <1>a, <1>b, <1>c, <1>d, <1>e, <1>f, <1>g, <2>a DEF Reverting
  <2>1. Midway(table', cy, tx) /\ tx.level >= 1
    BY <2>0, RevertMidway
  <2>2. TransactionEnd(k, cy, tx)
    BY <1>5, <2>a
  <2> QED
    BY <1>1, <2>1, <2>2, TransactionEndIInv
<1> QED
  BY <1>3, <1>4, <1>5

\* gum_interceptor_begin_transaction keeps the invariant.
LEMMA BeginTransactionIInv ==
  ASSUME IInv, NEW k \in Controller, BeginTransaction(k)
  PROVE  IInv'
<1>1. /\ txn' = [txn EXCEPT !.level = @ + 1]
      /\ UNCHANGED <<table, prologue, ctx, lock, job, frames, stack, guardKey>>
  BY DEF BeginTransaction, CountOp, BeginOp, threadVars
<1>2. txn \in Transaction /\ txn.level \in Nat
  BY DEF IInv, DataOK, Shape, Transaction
<1>3. SameTasks(txn, txn')
  BY <1>1, <1>2 DEF SameTasks, Transaction
<1>4. Midway(table, ctx, txn')
  BY <1>3, InvIsMidway, SameTasksMidway
<1>5. Midway(table', ctx', txn')
  BY <1>1, <1>4
<1> QED
  BY <1>1, <1>5, MidwayIsEnd

\* gum_interceptor_end_transaction keeps the invariant.
LEMMA EndTransactionIInv ==
  ASSUME IInv, NEW k \in Controller, EndTransaction(k)
  PROVE  IInv'
<1>1. /\ job[k] = Idle /\ UNCHANGED <<table, frames, stack, guardKey>> /\ txn.level > 0
      /\ TransactionEnd(k, ctx, txn)
  BY DEF EndTransaction, BeginOp, threadVars
<1>2. txn.level \in Nat
  BY DEF IInv, DataOK, Shape, Transaction
<1>3. Midway(table', ctx, txn) /\ txn.level >= 1
  BY <1>1, <1>2, InvIsMidway
<1> QED
  BY <1>1, <1>3, TransactionEndIInv

\* gum_interceptor_flush keeps the invariant.
LEMMA FlushIInv ==
  ASSUME IInv, NEW k \in Controller, Flush(k)
  PROVE  IInv'
<1>a. PICK ty : ty = [txn EXCEPT !.level = 1]
  OBVIOUS
<1>1. /\ job[k] = Idle /\ UNCHANGED <<table, frames, stack, guardKey>>
      /\ TransactionEnd(k, ctx, ty)
  BY <1>a DEF Flush, BeginOp, threadVars
<1>2. txn \in Transaction
  BY DEF IInv, DataOK, Shape
<1>3. SameTasks(txn, ty) /\ ty.level = 1
  BY <1>2, <1>a DEF SameTasks, Transaction
<1>4. Midway(table, ctx, ty)
  BY <1>3, InvIsMidway, SameTasksMidway
<1>5. Midway(table', ctx, ty) /\ ty.level >= 1
  BY <1>1, <1>3, <1>4
<1> QED
  BY <1>1, <1>5, TransactionEndIInv

\* What detaching listener l does to a context, which is destroyed when b holds.
LEMMA RemovedProps ==
  ASSUME NEW x \in Context, x.arrays # <<>>, x.state = "live", ~x.destroyed, NEW l \in Listener,
         NEW b \in BOOLEAN, b => IsEmpty(RemoveListener(x, l)),
         NEW y, y = [RemoveListener(x, l) EXCEPT !.destroyed = b]
  PROVE  /\ y \in Context /\ Altered(x, y) /\ y.destroyed = b
         /\ \A m \in Listener : m # l /\ Member(Entries(x), m) => Member(Entries(y), m) /\ ~b
<1>a. PICK z : z = RemoveListener(x, l)
  OBVIOUS
<1>1. /\ z \in Context /\ z.arrays # <<>> /\ Len(z.arrays) = Len(x.arrays)
      /\ z.state = x.state /\ z.address = x.address /\ z.activated = x.activated /\ z.usage = x.usage
      /\ z.freed = x.freed /\ z.overwritten = x.overwritten /\ z.destroyed = x.destroyed
      /\ \A v \in 1..Len(x.arrays) : \A m \in Listener : Member(z.arrays[v], m) => Member(x.arrays[v], m)
      /\ \A m \in Listener : m # l /\ Member(Entries(x), m) => Member(Entries(z), m)
  BY <1>a, RemoveListenerProps
<1>2. y = [z EXCEPT !.destroyed = b] /\ z \in Context
  BY <1>1, <1>a
<1>3. y \in Context /\ y.destroyed = b /\ y.arrays = z.arrays /\ y.replacement = z.replacement
  BY <1>2 DEF Context
<1>4. /\ y.state = z.state /\ y.address = z.address /\ y.activated = z.activated /\ y.usage = z.usage
      /\ y.freed = z.freed /\ y.overwritten = z.overwritten
  BY <1>2 DEF Context
<1>5. Entries(y) = Entries(z)
  BY <1>3 DEF Entries
<1>6. b => ~z.replacement /\ \A i \in 1..Len(Entries(z)) : Entries(z)[i] = NoListener
  BY <1>1, <1>a, EmptyEntries
<1>7. \A m \in Listener : Member(Entries(z), m) => ~b
  BY <1>6, ListenerAssumption DEF Member
<1>8. Len(x.arrays) <= Len(y.arrays)
  BY <1>1, <1>3, ArrayLengths
<1>9. Altered(x, y)
  <2>1. y.destroyed => ~y.replacement /\ \A i \in 1..Len(Entries(y)) : Entries(y)[i] = NoListener
    BY <1>3, <1>5, <1>6
  <2>2. \A v \in 1..Len(x.arrays) : \A m \in Listener : Member(y.arrays[v], m) => Member(x.arrays[v], m)
    BY <1>1, <1>3
  <2>3. /\ y.state = "live" /\ y.address = x.address /\ y.activated = x.activated /\ y.usage = x.usage
        /\ y.freed = x.freed /\ y.overwritten = x.overwritten
    BY <1>1, <1>4
  <2> QED
    BY <1>8, <2>1, <2>2, <2>3 DEF Altered
<1> QED
  BY <1>1, <1>3, <1>5, <1>7, <1>9

\* The parts of gum_interceptor_detach.
Hit(l) == {c \in Ctx : (\E a \in Address : table[a] = c) /\ l \in Taken(ctx[c])}
Emptied(l) == {c \in Hit(l) : IsEmpty(RemoveListener(ctx[c], l))}
WithoutListener(l) ==
  [c \in Ctx |-> IF c \in Hit(l) THEN [RemoveListener(ctx[c], l) EXCEPT !.destroyed = c \in Emptied(l)]
                 ELSE ctx[c]]
DetachTasks(c, l, empty) ==
  << [kind |-> "listener", ctx |-> c, listener |-> l] >>
    \o (IF c \in empty THEN << [kind |-> "context", ctx |-> c] >> ELSE <<>>)
DetachOrder(l, order) == [i \in DOMAIN order |-> DetachTasks(order[i], l, Emptied(l))]
AllTasks(l) == FlattenSeq(DetachOrder(l, SetToSeq(Hit(l))))

\* The tasks of one context: the listener's reference, then the context if it
\* is empty.
LEMMA DetachTasksProps ==
  ASSUME NEW c \in Ctx, NEW l \in Listener, NEW empty, NEW ts, ts = DetachTasks(c, l, empty)
  PROVE  /\ ts \in Seq(Task) /\ Member(ts, ListenerTask(c, l))
         /\ \A e : Member(ts, e) => e = ListenerTask(c, l) \/ (c \in empty /\ e = [kind |-> "context", ctx |-> c])
<1>a. PICK t1, t2 : t1 = ListenerTask(c, l) /\ t2 = [kind |-> "context", ctx |-> c]
  OBVIOUS
<1>1. t1 \in Task
  BY <1>a DEF Task, ListenerTask
<1>2. t2 \in Task
  BY <1>a DEF Task
<1>3. ts = << t1 >> \o (IF c \in empty THEN << t2 >> ELSE <<>>)
  BY <1>a DEF DetachTasks, ListenerTask
<1>b. PICK s1, s2 : s1 = <<t1>> /\ s2 = <<t2>>
  OBVIOUS
<1>4. /\ s1 \in Seq(Task) /\ s2 \in Seq(Task) /\ <<>> \in Seq(Task)
      /\ Len(s1) = 1 /\ Len(s2) = 1 /\ s1[1] = t1 /\ s2[1] = t2
  BY <1>1, <1>2, <1>b
<1>5. /\ \A e : Member(s1, e) <=> e = t1
      /\ \A e : Member(s2, e) <=> e = t2
  BY <1>4 DEF Member
<1>6. CASE c \in empty
  <2>1. ts = s1 \o s2
    BY <1>3, <1>6, <1>b
  <2>2. ts \in Seq(Task) /\ \A e : Member(ts, e) <=> Member(s1, e) \/ Member(s2, e)
    BY <1>4, <2>1, ConcatMembers
  <2> QED
    BY <1>5, <1>6, <1>a, <2>2
<1>7. CASE c \notin empty
  <2>1. ts = s1
    BY <1>3, <1>4, <1>7, <1>b, ConcatEmptySeq
  <2> QED
    BY <1>4, <1>5, <1>a, <2>1
<1> QED
  BY <1>6, <1>7

\* The tasks of all contexts the listener was attached to.
LEMMA AllTasksProps ==
  ASSUME NEW l \in Listener, NEW ds, ds = AllTasks(l)
  PROVE  /\ ds \in Seq(Task)
         /\ \A c \in Hit(l) : Member(ds, ListenerTask(c, l))
         /\ \A i \in 1..Len(ds) : \E c \in Hit(l) :
              ds[i] = ListenerTask(c, l) \/ (c \in Emptied(l) /\ ds[i] = [kind |-> "context", ctx |-> c])
<1>a. PICK H, E, order : H = Hit(l) /\ E = Emptied(l) /\ order = SetToSeq(Hit(l))
  OBVIOUS
<1>1. H \subseteq Ctx
  BY <1>a DEF Hit
<1>2. IsFiniteSet(H)
  <2>1. IsFiniteSet(Ctx)
    BY BoundsAssumption, FS_Interval DEF Ctx
  <2> QED
    BY <1>1, <2>1, FS_Subset
<1>3. order \in Seq(H) /\ \A c \in H : Member(order, c)
  BY <1>2, <1>a, SetToSeqMembers
<1>b. PICK N : N = Len(order)
  OBVIOUS
<1>4. N \in Nat /\ DOMAIN order = 1..N /\ \A i \in 1..N : order[i] \in H
  BY <1>3, <1>b, LenProperties, ElementOfSeq
<1>c. PICK ss : ss = [i \in 1..N |-> DetachTasks(order[i], l, E)]
  OBVIOUS
<1>5. ds = FlattenSeq(ss)
  BY <1>4, <1>a, <1>c DEF AllTasks, DetachOrder
<1>6. ASSUME NEW i \in 1..N
      PROVE  /\ ss[i] \in Seq(Task) /\ Member(ss[i], ListenerTask(order[i], l))
             /\ \A e : Member(ss[i], e) =>
                  e = ListenerTask(order[i], l) \/ (order[i] \in E /\ e = [kind |-> "context", ctx |-> order[i]])
  <2>1. ss[i] = DetachTasks(order[i], l, E) /\ order[i] \in Ctx
    BY <1>1, <1>4, <1>c
  <2> QED
    BY <2>1, DetachTasksProps
<1>7. ss \in [1..N -> Seq(Task)]
  BY <1>6, <1>c
<1>8. ss \in Seq(Seq(Task)) /\ Len(ss) = N
  BY <1>4, <1>7, FunctionIsSeq
<1>9. ds \in Seq(Task) /\ \A e \in Task : Member(ds, e) <=> \E i \in 1..N : Member(ss[i], e)
  BY <1>5, <1>8, FlattenMembers
<1>10. ASSUME NEW c \in H
       PROVE  Member(ds, ListenerTask(c, l))
  <2>1. PICK i \in 1..N : order[i] = c
    BY <1>3, <1>b DEF Member
  <2>2. Member(ss[i], ListenerTask(c, l))
    BY <1>6, <2>1
  <2>3. ListenerTask(c, l) \in Task
    BY <1>1 DEF ListenerTask, Task
  <2> QED
    BY <1>9, <2>2, <2>3
<1>11. ASSUME NEW j \in 1..Len(ds)
       PROVE  \E c \in H : ds[j] = ListenerTask(c, l) \/ (c \in E /\ ds[j] = [kind |-> "context", ctx |-> c])
  <2>1. ds[j] \in Task /\ Member(ds, ds[j])
    BY <1>9, ElementOfSeq DEF Member
  <2>2. PICK i \in 1..N : Member(ss[i], ds[j])
    BY <1>9, <2>1
  <2>3. order[i] \in H
    BY <1>4
  <2> QED
    BY <1>6, <2>2, <2>3
<1> QED
  BY <1>9, <1>10, <1>11, <1>a

\* The contexts after the listener is gone.
LEMMA WithoutListenerProps ==
  ASSUME IInv, NEW l \in Listener, NEW cy, cy = WithoutListener(l)
  PROVE  /\ cy \in [Ctx -> Context] /\ Hit(l) \subseteq Ctx /\ Emptied(l) \subseteq Hit(l)
         /\ \A c \in Ctx : c \notin Hit(l) => cy[c] = ctx[c]
         /\ \A c \in Hit(l) :
              /\ Altered(ctx[c], cy[c]) /\ (cy[c].destroyed <=> c \in Emptied(l))
              /\ \A m \in Listener : m # l /\ Member(Entries(ctx[c]), m) =>
                   Member(Entries(cy[c]), m) /\ ~cy[c].destroyed
<1>1. /\ ctx \in [Ctx -> Context] /\ TableOK(table, ctx) /\ ContextsOK(ctx)
      /\ table \in [Address -> Ctx \cup {0}]
  BY DEF IInv, DataOK, Shape
<1>2. Hit(l) \subseteq Ctx /\ Emptied(l) \subseteq Hit(l)
  BY DEF Hit, Emptied
<1>3. ASSUME NEW c \in Hit(l)
      PROVE  /\ cy[c] \in Context
             /\ Altered(ctx[c], cy[c]) /\ (cy[c].destroyed <=> c \in Emptied(l))
             /\ \A m \in Listener : m # l /\ Member(Entries(ctx[c]), m) =>
                  Member(Entries(cy[c]), m) /\ ~cy[c].destroyed
  <2>a. PICK x, y : x = ctx[c] /\ y = cy[c]
    OBVIOUS
  <2>1. c \in Ctx /\ \E a \in Address : table[a] = c
    BY DEF Hit
  <2>2. c # 0
    BY <2>1, BoundsAssumption DEF Ctx
  <2>3. x.state = "live" /\ ~x.destroyed
    BY <1>1, <2>1, <2>2, <2>a DEF TableOK
  <2>4. x \in Context /\ x.arrays # <<>>
    BY <1>1, <2>1, <2>3, <2>a DEF ContextsOK, ContextOK
  <2> DEFINE b == c \in Emptied(l)
  <2>5. b \in BOOLEAN
    BY SMT
  <2>6. y = [RemoveListener(x, l) EXCEPT !.destroyed = b]
    BY <2>1, <2>a DEF WithoutListener
  <2>7. b => IsEmpty(RemoveListener(x, l))
    BY <2>a DEF Emptied
  <2>8. b <=> c \in Emptied(l)
    OBVIOUS
  <2> HIDE DEF b
  <2>9. /\ y \in Context /\ Altered(x, y) /\ y.destroyed = b
        /\ \A m \in Listener : m # l /\ Member(Entries(x), m) => Member(Entries(y), m) /\ ~b
    BY <2>3, <2>4, <2>5, <2>6, <2>7, RemovedProps
  <2> QED
    BY <2>8, <2>9, <2>a
<1>4. \A c \in Ctx : c \notin Hit(l) => cy[c] = ctx[c]
  BY DEF WithoutListener
<1>5. DOMAIN cy = Ctx /\ cy = [c \in Ctx |-> cy[c]]
  BY DEF WithoutListener
<1>6. cy \in [Ctx -> Context]
  BY <1>1, <1>3, <1>4, <1>5
<1> QED
  BY <1>2, <1>3, <1>4, <1>6

\* Every listener that a call may be running is attached or held by its task
\* when the transaction ends.
LEMMA DetachedMidway ==
  ASSUME IInv, NEW l \in Listener, NEW cy, cy = WithoutListener(l),
         NEW us, us = DeactivationsOf(Emptied(l)), NEW ds, ds = AllTasks(l),
         NEW ty, Extends(ty, us, ds)
  PROVE  /\ Midway(WithoutDestroyed(table, cy), cy, ty) /\ ty.level >= 1
         /\ WithoutDestroyed(table, cy) = [a \in Address |-> IF table[a] \in Emptied(l) THEN 0 ELSE table[a]]
<1>a. PICK H, E : H = Hit(l) /\ E = Emptied(l)
  OBVIOUS
<1>1. /\ ctx \in [Ctx -> Context] /\ TableOK(table, ctx) /\ txn \in Transaction
      /\ table \in [Address -> Ctx \cup {0}]
  BY DEF IInv, DataOK, Shape
<1>2. /\ cy \in [Ctx -> Context] /\ H \subseteq Ctx /\ E \subseteq H
      /\ \A c \in Ctx : c \notin H => cy[c] = ctx[c]
      /\ \A c \in H :
           /\ Altered(ctx[c], cy[c]) /\ (cy[c].destroyed <=> c \in E)
           /\ \A m \in Listener : m # l /\ Member(Entries(ctx[c]), m) =>
                Member(Entries(cy[c]), m) /\ ~cy[c].destroyed
  BY <1>a, WithoutListenerProps
<1>3. /\ us \in Seq(Update) /\ \A i \in 1..Len(us) : us[i].ctx \in E
      /\ \A c \in E : ctx[c].activated => Member(us, [ctx |-> c, activate |-> FALSE])
  <2>1. E \subseteq Ctx /\ us = DeactivationsOf(E)
    BY <1>2, <1>a
  <2> QED
    BY <2>1, DeactivationsProps
<1>4. /\ ds \in Seq(Task) /\ \A c \in H : Member(ds, ListenerTask(c, l))
      /\ \A i \in 1..Len(ds) : \E c \in H :
           ds[i] = ListenerTask(c, l) \/ (c \in E /\ ds[i] = [kind |-> "context", ctx |-> c])
  <2>1. ds \in Seq(Task) /\ \A c \in Hit(l) : Member(ds, ListenerTask(c, l))
    BY AllTasksProps
  <2>2. \A i \in 1..Len(ds) : \E c \in Hit(l) :
          ds[i] = ListenerTask(c, l) \/ (c \in Emptied(l) /\ ds[i] = [kind |-> "context", ctx |-> c])
    BY AllTasksProps
  <2> QED
    BY <1>a, <2>1, <2>2
<1>5. \A c \in H : cy[c].state = "live"
  BY <1>2 DEF Altered
<1>6. \A i \in 1..Len(us) : cy[us[i].ctx].state # "unborn"
  BY <1>2, <1>3, <1>5
<1>7. ASSUME NEW i \in 1..Len(ds)
      PROVE  TaskOK(ds[i], cy)
  <2>1. PICK c \in H : ds[i] = ListenerTask(c, l) \/ (c \in E /\ ds[i] = [kind |-> "context", ctx |-> c])
    BY <1>4
  <2>2. cy[c].state # "unborn"
    BY <1>5
  <2>3. CASE ds[i] = ListenerTask(c, l)
    BY <2>2, <2>3 DEF TaskOK, ListenerTask
  <2>4. CASE c \in E /\ ds[i] = [kind |-> "context", ctx |-> c]
    <3>1. cy[c].destroyed /\ ds[i].kind = "context" /\ ds[i].ctx = c
      BY <1>2, <2>4
    <3> QED
      BY <2>2, <3>1 DEF TaskOK
  <2> QED
    BY <2>1, <2>3, <2>4
<1>8. /\ GrowsTo(txn, ty, cy) /\ ty.level >= 1
      /\ \A u : Member(us, u) => Member(ty.updates, u)
      /\ \A task : Member(ds, task) => Member(ty.destroys, task)
  BY <1>1, <1>3, <1>4, <1>6, <1>7, ExtendedGrows
<1>9. \A c \in Ctx : cy[c] = ctx[c] \/ Altered(ctx[c], cy[c])
  BY <1>2
<1>10. DeactivatesNew(ctx, cy, ty)
  <2> SUFFICES ASSUME NEW d \in Ctx, cy[d].destroyed, cy[d].activated, ~ctx[d].destroyed
               PROVE  Member(ty.updates, [ctx |-> d, activate |-> FALSE])
    BY DEF DeactivatesNew
  <2>1. d \in E
    BY <1>2
  <2>2. ctx[d].activated
    BY <1>2, <2>1 DEF Altered
  <2> QED
    BY <1>3, <1>8, <2>1, <2>2
<1>11. HeldLater(ctx, txn, job, cy, ty, job)
  <2> SUFFICES ASSUME NEW d \in Ctx, NEW m \in Listener, Held(d, m, ctx, txn, job)
               PROVE  Held(d, m, cy, ty, job)
    BY DEF HeldLater
  <2>1. \A task : Member(txn.destroys, task) => Member(ty.destroys, task)
    BY <1>8 DEF GrowsTo
  <2>2. CASE d \notin H
    <3>1. cy[d] = ctx[d]
      BY <1>2, <2>2
    <3> QED
      BY <2>1, <3>1, UntouchedHeld
  <2>3. CASE d \in H
    <3>1. CASE m = l
      <4>1. Member(ty.destroys, ListenerTask(d, m))
        BY <1>4, <1>8, <2>3, <3>1
      <4> QED
        BY <4>1 DEF Held
    <3>2. CASE m # l
      <4>1. Member(Entries(ctx[d]), m) => ~cy[d].destroyed /\ Member(Entries(cy[d]), m)
        BY <1>2, <2>3, <3>2
      <4> QED
        BY <2>1, <4>1 DEF Held
    <3> QED
      BY <3>1, <3>2
  <2> QED
    BY <2>2, <2>3
<1>b. PICK tb : tb = WithoutDestroyed(table, cy)
  OBVIOUS
<1>12. Midway(tb, cy, ty)
  BY <1>2, <1>8, <1>9, <1>10, <1>11, <1>b, AlteredIsMidway
<1>13. ASSUME NEW a \in Address
       PROVE  (table[a] # 0 /\ cy[table[a]].destroyed) <=> table[a] \in E
  <2>1. ASSUME table[a] # 0
        PROVE  cy[table[a]].destroyed <=> table[a] \in E
    <3>1. table[a] \in Ctx /\ ~ctx[table[a]].destroyed
      BY <1>1, <2>1 DEF TableOK
    <3> QED
      BY <1>2, <3>1
  <2>2. 0 \notin E
    BY <1>2, BoundsAssumption DEF Ctx
  <2> QED
    BY <2>1, <2>2
<1>14. tb = [a \in Address |-> IF table[a] \in E THEN 0 ELSE table[a]]
  BY <1>13, <1>b DEF WithoutDestroyed
<1> QED
  BY <1>8, <1>12, <1>14, <1>a, <1>b

\* gum_interceptor_detach keeps the invariant.
LEMMA DetachIInv ==
  ASSUME IInv, NEW k \in Controller, NEW l \in Listener, Detach(k, l)
  PROVE  IInv'
<1>a. PICK cy : cy = WithoutListener(l)
  OBVIOUS
<1>b. PICK us : us = DeactivationsOf(Emptied(l))
  OBVIOUS
<1>c. PICK ds : ds = AllTasks(l)
  OBVIOUS
<1>d. PICK ty : ty = [Opened EXCEPT !.updates = @ \o us, !.destroys = @ \o ds]
  OBVIOUS
<1>1. job[k] = Idle /\ UNCHANGED <<frames, stack, guardKey>>
  BY DEF Detach, CountOp, BeginOp, threadVars
<1>2. table' = [a \in Address |-> IF table[a] \in Emptied(l) THEN 0 ELSE table[a]]
  BY SMTT(30) DEF Detach, Emptied, Hit
<1>3. TransactionEnd(k, cy, ty)
  BY <1>a, <1>b, <1>c, <1>d
     DEF Detach, Emptied, Hit, WithoutListener, AllTasks, DetachOrder, DetachTasks
<1>4. txn \in Transaction
  BY DEF IInv, DataOK, Shape
<1>5. us \in Seq(Update)
  <2>1. Emptied(l) \subseteq Ctx
    BY DEF Emptied, Hit
  <2> QED
    BY <1>b, <2>1, DeactivationsProps
<1>6. ds \in Seq(Task)
  BY <1>c, AllTasksProps
<1>7. Extends(ty, us, ds)
  BY <1>4, <1>5, <1>6, <1>d, ExtendedForms
<1>8. /\ Midway(WithoutDestroyed(table, cy), cy, ty) /\ ty.level >= 1
      /\ WithoutDestroyed(table, cy) = [a \in Address |-> IF table[a] \in Emptied(l) THEN 0 ELSE table[a]]
  BY <1>7, <1>a, <1>b, <1>c, DetachedMidway
<1>9. Midway(table', cy, ty)
  BY <1>2, <1>8
<1> QED
  BY <1>1, <1>3, <1>8, <1>9, TransactionEndIInv

-----------------------------------------------------------------------------
(* The invariant.                                                          *)

\* A context that was not created yet.
LEMMA UnbornOK ==
  /\ Unborn \in Context /\ \A c \in Ctx : ContextOK(c, Unborn)
  /\ Unborn.state = "unborn" /\ ~Unborn.destroyed /\ Unborn.usage = 0
<1>a. PICK y : y = Unborn
  OBVIOUS
<1>1. <<>> \in Seq(Seq(Slot))
  BY EmptySeq
<1>2. y \in Context
  BY <1>1, <1>a DEF Unborn, Context
<1>3. /\ y.state = "unborn" /\ y.address = 0 /\ ~y.activated /\ ~y.destroyed /\ y.usage = 0
      /\ y.freed = {} /\ y.overwritten = 0
  BY <1>a DEF Unborn
<1>4. 0 \notin Ctx
  BY BoundsAssumption DEF Ctx
<1>5. \A c \in Ctx : ContextOK(c, y)
  BY <1>3, <1>4, <1>a DEF ContextOK
<1> QED
  BY <1>2, <1>3, <1>5, <1>a

\* gum_interceptor_init establishes the invariant.
LEMMA InitIInv ==
  ASSUME Init
  PROVE  IInv
<1>1. /\ table = [a \in Address |-> 0] /\ prologue = [a \in Address |-> 0]
      /\ ctx = [c \in Ctx |-> Unborn] /\ txn = EmptyTransaction /\ lock = {}
      /\ job = [k \in Controller |-> Idle] /\ frames = [t \in Thread |-> <<>>]
      /\ stack = [t \in Thread |-> <<>>] /\ guardKey = [t \in Thread |-> FALSE]
  BY DEF Init
<1>2. \A c \in Ctx : ctx[c] = Unborn
  BY <1>1
<1>3. ctx \in [Ctx -> Context] /\ ContextsOK(ctx) /\ \A c \in Ctx : ~ctx[c].destroyed
  BY <1>1, <1>2, UnbornOK DEF ContextsOK
<1>4. TableOK(table, ctx) /\ PrologueOK(prologue, ctx)
  BY <1>1, <1>2, UnbornOK DEF TableOK, PrologueOK
<1>5. txn \in Transaction /\ TransactionOK(txn, ctx)
  BY <1>1, <1>3, EmptyTransactionOK
<1>a. PICK idle : idle = Idle
  OBVIOUS
<1>6. idle \in Job /\ JobOK(idle, ctx)
  <2>1. <<>> \in Seq(Task) /\ Len(<<>>) = 0
    BY EmptySeq
  <2>2. idle.at = "idle" /\ idle.tasks = <<>> /\ idle = [at |-> "idle", tasks |-> <<>>]
    BY <1>a DEF Idle
  <2>3. idle \in Job
    BY <2>1, <2>2 DEF Job
  <2> QED
    BY <2>1, <2>2, <2>3 DEF JobOK
<1>7. job \in [Controller -> Job] /\ \A k \in Controller : JobOK(job[k], ctx)
  BY <1>1, <1>6, <1>a
<1>8. DataOK(table, prologue, ctx, txn, job)
  <2>1. table \in [Address -> Ctx \cup {0}] /\ prologue \in [Address -> Ctx \cup {0}]
    BY <1>1
  <2> QED
    BY <1>3, <1>4, <1>5, <1>7, <2>1 DEF DataOK, Shape
<1>9. \A t \in Thread : frames[t] = <<>> /\ stack[t] = <<>> /\ ~guardKey[t]
  BY <1>1
<1>10. Len(<<>>) = 0 /\ <<>> \in Seq(Frame) /\ <<>> \in Seq(Invocation)
  BY EmptySeq
<1>11. /\ frames \in [Thread -> Seq(Frame)] /\ stack \in [Thread -> Seq(Invocation)]
       /\ guardKey \in [Thread -> BOOLEAN]
  BY <1>1, <1>10
<1>12. ASSUME NEW t \in Thread
       PROVE  ThreadOK(frames[t], stack[t], guardKey[t])
  <2>1. frames[t] = <<>> /\ stack[t] = <<>> /\ ~guardKey[t]
    BY <1>9
  <2>2. Len(frames[t]) = 0 /\ Len(stack[t]) = 0
    BY <1>10, <2>1
  <2>3. CallsOK(frames[t])
    BY <2>2 DEF CallsOK
  <2>4. GuardOK(frames[t], guardKey[t])
    BY <2>1, <2>2 DEF GuardOK
  <2>5. EntriesOK(frames[t], stack[t])
    BY <2>2 DEF EntriesOK
  <2>6. Len(frames[t]) <= MaxDepth
    BY <2>2, BoundsAssumption
  <2> QED
    BY <2>3, <2>4, <2>5, <2>6 DEF ThreadOK
<1>13. \A t \in Thread : \A i \in 1..Len(frames[t]) : FrameOK(frames[t][i], ctx, txn, job)
  BY <1>9, <1>10
<1>14. CountOK
  <2>1. \A c : CallsOf(c) = {}
    BY <1>9 DEF CallsOf
  <2> QED
    BY <1>2, <2>1, FS_EmptySet, UnbornOK DEF CountOK
<1> QED
  BY <1>1, <1>8, <1>11, <1>12, <1>13, <1>14 DEF IInv

\* Every step keeps the invariant.
LEMMA NextIInv ==
  ASSUME IInv, [Next]_vars
  PROVE  IInv'
<1>1. CASE UNCHANGED vars
  BY <1>1, OtherIInv DEF vars
<1>2. ASSUME NEW k \in Controller, API(k) \/ Flush(k) \/ EndOfTransaction(k)
      PROVE  IInv'
  <2>1. CASE \E f \in Function, l \in Listener : Attach(k, f, l)
    BY <2>1, AttachIInv
  <2>2. CASE \E l \in Listener : Detach(k, l)
    BY <2>2, DetachIInv
  <2>3. ASSUME NEW f \in Function, Replace(k, f) \/ Revert(k, f)
        PROVE  IInv'
    BY <2>3, ReplaceIInv, RevertIInv
  <2>4. CASE BeginTransaction(k) \/ EndTransaction(k)
    BY <2>4, BeginTransactionIInv, EndTransactionIInv
  <2>5. CASE Flush(k)
    BY <2>5, FlushIInv
  <2>6. CASE EndOfTransaction(k)
    BY <2>6, TakeTaskIInv, RequeueTaskIInv, NotifyIInv, RelockIInv, UnlockIInv DEF EndOfTransaction
  <2> QED
    BY <1>2, <2>1, <2>2, <2>3, <2>4, <2>5, <2>6 DEF API
<1>3. ASSUME NEW t \in Thread, (\E f \in Function : Call(t, f)) \/ Ignore(t) \/ Unignore(t) \/ Proceed(t)
      PROVE  IInv'
  <2>1. CASE \E f \in Function : Call(t, f)
    BY <2>1, CallIInv
  <2>2. CASE Ignore(t) \/ Unignore(t)
    BY <2>2, OtherIInv DEF Ignore, Unignore, intercVars
  <2>3. CASE Skip(t) \/ Sample(t) \/ Bypass(t) \/ Push(t)
    BY <2>3, SkipIInv, SampleIInv, BypassIInv, PushIInv
  <2>4. CASE LoadEntries(t) \/ ReadEntry(t) \/ VisitEntry(t) \/ CallbackReturns(t) \/ FinishEnter(t)
    BY <2>4, LoadEntriesIInv, ReadEntryIInv, VisitEntryIInv, CallbackReturnsIInv, FinishEnterIInv
  <2>5. CASE Invoke(t) \/ Return(t) \/ FinishLeave(t) \/ UseFreed(t) \/ UseFreedEntry(t)
    BY <2>5, InvokeIInv, ReturnIInv, FinishLeaveIInv, UseFreedIInv, UseFreedEntryIInv
  <2> QED
    BY <1>3, <2>1, <2>2, <2>3, <2>4, <2>5 DEF Proceed
<1> QED
  BY <1>1, <1>2, <1>3 DEF Next

\* What the interceptor and its threads rely on holds whatever the order of
\* the API calls, of the calls of the application's threads and of the
\* destroy tasks (gum/guminterceptor.c): IInv is inductive.
THEOREM Invariance == Spec => []IInv
<1>1. Init => IInv
  BY InitIInv
<1>2. IInv /\ [Next]_vars => IInv'
  BY NextIInv
<1> QED
  BY <1>1, <1>2, PTL DEF Spec

-----------------------------------------------------------------------------
(* The properties.                                                         *)

\* The invariant and the shape of the state.
LEMMA IInvTypeOK ==
  ASSUME IInv
  PROVE  TypeOK
<1>1. /\ table \in [Address -> Ctx \cup {0}] /\ prologue \in [Address -> Ctx \cup {0}]
      /\ ctx \in [Ctx -> Context] /\ txn \in Transaction /\ job \in [Controller -> Job]
  BY DEF IInv, DataOK, Shape
<1>2. ASSUME NEW c \in Ctx
      PROVE  /\ ctx[c].state \in {"unborn", "live", "freed"}
             /\ ctx[c].usage \in Nat
             /\ ctx[c].address \in Address \cup {0}
             /\ \A v \in DOMAIN ctx[c].arrays : ctx[c].arrays[v] \in Seq(Listener \cup {NoListener})
  <2>1. ctx[c] \in Context
    BY <1>1
  <2>2. ctx[c].state \in {"unborn", "live", "freed"} /\ ctx[c].address \in Address \cup {0}
    BY <2>1 DEF Context
  <2>3. ctx[c].usage \in Nat
    BY DEF IInv, CountOK
  <2>4. /\ DOMAIN ctx[c].arrays = 1..Len(ctx[c].arrays)
        /\ \A v \in 1..Len(ctx[c].arrays) : ctx[c].arrays[v] \in Seq(Slot)
    BY <2>1, ArrayLengths, LenProperties
  <2> QED
    BY <2>2, <2>3, <2>4 DEF Slot
<1>3. /\ txn.level \in Nat /\ txn.dirty \in BOOLEAN
      /\ txn.updates \in Seq(Update) /\ txn.destroys \in Seq(Task)
  BY <1>1 DEF Transaction
<1>4. \A k \in Controller : job[k].tasks \in Seq(Task)
  BY <1>1 DEF Job
<1>5. /\ lock \in SUBSET Controller /\ frames \in [Thread -> Seq(Frame)]
      /\ guardKey \in [Thread -> BOOLEAN]
  BY DEF IInv
<1>6. \A t \in Thread : frames[t] \in Seq(Frame)
  BY <1>5
<1> QED
  BY <1>1, <1>2, <1>3, <1>4, <1>5, <1>6 DEF TypeOK

\* A thread's calls, as the properties speak of them.
LEMMA ThreadFacts ==
  ASSUME IInv, NEW t \in Thread, NEW fs, fs = frames[t]
  PROVE  /\ fs \in Seq(Frame) /\ Len(fs) \in Nat /\ DOMAIN fs = 1..Len(fs) /\ CallsOK(fs)
         /\ \A i \in 1..Len(fs) : fs[i] \in Frame /\ PlaceOK(fs[i]) /\ FrameOK(fs[i], ctx, txn, job)
<1>1. fs \in Seq(Frame) /\ ThreadOK(fs, stack[t], guardKey[t])
  BY DEF IInv
<1>2. \A i \in 1..Len(fs) : FrameOK(fs[i], ctx, txn, job)
  BY DEF IInv
<1> QED
  BY <1>1, <1>2, LenProperties, ElementOfSeq DEF ThreadOK, CallsOK

\* The invariant and the usage counters.
LEMMA IInvCounter ==
  ASSUME IInv
  PROVE  UsageCounterIsExact
  BY DEF IInv, CountOK, UsageCounterIsExact, Live

\* The invariant and the calls that were counted in time.
LEMMA IInvProtected ==
  ASSUME IInv
  PROVE  CountedCallsAreProtected
<1> SUFFICES ASSUME NEW t \in Thread, NEW i \in DOMAIN frames[t],
                    frames[t][i].early, Counted(frames[t][i])
             PROVE  /\ Live(frames[t][i].ctx)
                    /\ frames[t][i].at \in {"enter", "on_enter", "leaving", "on_leave"} =>
                         frames[t][i].version \notin ctx[frames[t][i].ctx].freed
  BY DEF CountedCallsAreProtected
<1>a. PICK fr : fr = frames[t][i]
  OBVIOUS
<1>1. fr \in Frame /\ PlaceOK(fr) /\ FrameOK(fr, ctx, txn, job)
  BY <1>a, ThreadFacts
<1>2. fr.ctx # 0 /\ fr.ctx \in Ctx
  BY <1>1, <1>a DEF PlaceOK, Counted, Frame
<1>3. FrameIn(fr, ctx[fr.ctx])
  BY <1>1, <1>2 DEF FrameOK
<1> QED
  BY <1>2, <1>3, <1>a DEF FrameIn, Iterating, Live

\* The invariant and the listeners whose callbacks run.
LEMMA IInvHeld ==
  ASSUME IInv
  PROVE  RunningListenersAreHeld
<1> SUFFICES ASSUME NEW t \in Thread, NEW i \in DOMAIN frames[t], NEW l, l = frames[t][i].running,
                    l # NoListener
             PROVE  \/ \E a \in Address : table[a] # 0 /\ l \in Taken(ctx[table[a]])
                    \/ \E task \in PendingTasks : task.kind = "listener" /\ task.listener = l
  BY DEF RunningListenersAreHeld
<1>a. PICK fr, c : fr = frames[t][i] /\ c = fr.ctx
  OBVIOUS
<1>1. fr \in Frame /\ PlaceOK(fr) /\ FrameOK(fr, ctx, txn, job)
  BY <1>a, ThreadFacts
<1>2. l \in Listener /\ fr.running = l
  BY <1>1, <1>a DEF Frame
<1>3. fr.early /\ Iterating(fr) /\ Counted(fr) /\ c # 0 /\ c \in Ctx
  BY <1>1, <1>2, <1>a DEF PlaceOK, Counted, Iterating, Frame
<1>4. Held(c, l, ctx, txn, job) /\ FrameIn(fr, ctx[c])
  BY <1>1, <1>2, <1>3, <1>a DEF FrameOK, Uses
<1>5. /\ ctx \in [Ctx -> Context] /\ TableOK(table, ctx) /\ ContextsOK(ctx)
      /\ txn \in Transaction /\ job \in [Controller -> Job]
  BY DEF IInv, DataOK, Shape
<1>b. PICK task : task = ListenerTask(c, l)
  OBVIOUS
<1>6. task.kind = "listener" /\ task.listener = l
  BY <1>b DEF ListenerTask
<1>7. CASE ~ctx[c].destroyed /\ Member(Entries(ctx[c]), l)
  <2>1. ctx[c].state # "unborn" /\ ctx[c].address \in Address /\ table[ctx[c].address] = c
    BY <1>3, <1>4, <1>5, <1>7 DEF TableOK, FrameIn, ContextsOK, ContextOK
  <2>2. Entries(ctx[c]) \in Seq(Slot)
    BY <1>3, <1>5, <2>1, ArrayLengths DEF ContextsOK, ContextOK
  <2>3. l \in Taken(ctx[c])
    BY <1>7, <2>2, LenProperties DEF Taken, Member
  <2> QED
    BY <1>3, <2>1, <2>3
<1>8. CASE Member(txn.destroys, ListenerTask(c, l))
  <2>1. txn.destroys \in Seq(Task)
    BY <1>5 DEF Transaction
  <2>2. task \in Range(txn.destroys)
    BY <1>8, <1>b, <2>1, LenProperties DEF Member, Range
  <2> QED
    BY <1>6, <2>2 DEF PendingTasks
<1>9. ASSUME NEW k \in Controller, Waiting(job[k], ListenerTask(c, l))
      PROVE  \E e \in PendingTasks : e.kind = "listener" /\ e.listener = l
  <2>a. PICK ts : ts = job[k].tasks
    OBVIOUS
  <2>1. PICK n \in 1..Len(ts) : ts[n] = task /\ (job[k].at \in {"notify", "relock"} => n # 1)
    BY <1>9, <1>b, <2>a DEF Waiting
  <2>2. ts \in Seq(Task) /\ Len(ts) \in Nat
    BY <1>5, <2>a, LenProperties DEF Job
  <2>3. CASE job[k].at = "relock"
    <3>1. ts # <<>>
      BY <2>1, EmptySeq
    <3>2. Tail(ts) \in Seq(Task) /\ Len(Tail(ts)) = Len(ts) - 1 /\ \A j \in 1..Len(Tail(ts)) : Tail(ts)[j] = ts[j + 1]
      BY <2>2, <3>1, HeadTailProperties
    <3>3. n - 1 \in 1..Len(Tail(ts)) /\ n - 1 + 1 = n
      BY <2>1, <2>2, <2>3, <3>2
    <3>4. Tail(ts)[n - 1] = task
      BY <2>1, <3>2, <3>3
    <3>5. task \in Range(Tail(ts))
      BY <3>2, <3>3, <3>4, LenProperties DEF Range
    <3>6. task \in TasksToRun(k)
      BY <2>3, <2>a, <3>5 DEF TasksToRun
    <3> QED
      BY <1>6, <3>6 DEF PendingTasks
  <2>4. CASE job[k].at # "relock"
    <3>1. task \in Range(ts)
      BY <2>1, <2>2, LenProperties DEF Range
    <3>2. task \in TasksToRun(k)
      BY <2>4, <2>a, <3>1 DEF TasksToRun
    <3> QED
      BY <1>6, <3>2 DEF PendingTasks
  <2> QED
    BY <2>3, <2>4
<1> QED
  BY <1>4, <1>7, <1>8, <1>9 DEF Held

\* The invariant and the callbacks of a thread.
LEMMA IInvDoNotNest ==
  ASSUME IInv
  PROVE  CallbacksDoNotNest
<1> SUFFICES ASSUME NEW t \in Thread
             PROVE  Cardinality({i \in DOMAIN frames[t] : frames[t][i].running # NoListener}) <= 1
  BY DEF CallbacksDoNotNest
<1>a. PICK fs : fs = frames[t]
  OBVIOUS
<1>b. PICK R : R = {i \in DOMAIN fs : fs[i].running # NoListener}
  OBVIOUS
<1>1. /\ Len(fs) \in Nat /\ DOMAIN fs = 1..Len(fs) /\ CallsOK(fs)
      /\ \A i \in 1..Len(fs) : PlaceOK(fs[i])
  BY <1>a, ThreadFacts
<1>2. \A i \in R : i \in 1..Len(fs) /\ fs[i].at \in {"enter", "on_enter", "leaving", "on_leave", "stray"}
  BY <1>1, <1>b DEF PlaceOK, Iterating
<1>3. ASSUME NEW i \in R, NEW j \in R
      PROVE  ~(i < j)
  BY <1>1, <1>2 DEF CallsOK, Inside
<1>4. \A i, j \in R : i = j
  BY <1>1, <1>2, <1>3
<1>5. CASE R = {}
  <2>1. Cardinality(R) = 0
    BY <1>5, FS_EmptySet
  <2> QED
    BY <1>a, <1>b, <2>1
<1>6. CASE R # {}
  <2>1. PICK i : R = {i}
    BY <1>4, <1>6
  <2>2. Cardinality(R) = 1
    BY <2>1, FS_Singleton
  <2> QED
    BY <1>a, <1>b, <2>2
<1> QED
  BY <1>5, <1>6

\* The invariant and the code at the functions' addresses.
LEMMA IInvPatched ==
  ASSUME IInv
  PROVE  PatchedFunctionsLeadToLiveTrampolines /\ SavedPrologueIsOriginal
<1>1. /\ prologue \in [Address -> Ctx \cup {0}] /\ PrologueOK(prologue, ctx) /\ ContextsOK(ctx)
      /\ ctx \in [Ctx -> Context]
  BY DEF IInv, DataOK, Shape
<1>2. ASSUME NEW f \in Function, prologue[f] # 0
      PROVE  Live(prologue[f])
  <2>1. f \in Address
    BY DEF Address
  <2>2. /\ prologue[f] \in Ctx /\ ctx[prologue[f]].state # "unborn" /\ ctx[prologue[f]].activated
        /\ ContextOK(prologue[f], ctx[prologue[f]]) /\ ctx[prologue[f]] \in Context
    BY <1>1, <1>2, <2>1 DEF PrologueOK, ContextsOK
  <2>3. ctx[prologue[f]].state # "freed" /\ ctx[prologue[f]].state \in {"unborn", "live", "freed"}
    BY <2>2 DEF ContextOK, Context
  <2> QED
    BY <2>2, <2>3 DEF Live
<1>3. SavedPrologueIsOriginal
  BY <1>1 DEF SavedPrologueIsOriginal, ContextsOK, ContextOK
<1> QED
  BY <1>2, <1>3 DEF PatchedFunctionsLeadToLiveTrampolines

\* The invariant and the invocation stack.
LEMMA IInvMirrors ==
  ASSUME IInv
  PROVE  StackMirrorsCalls
<1> SUFFICES ASSUME NEW t \in Thread, ~Undefined(t)
             PROVE  /\ {stack[t][j].frame : j \in DOMAIN stack[t]}
                         = {i \in DOMAIN frames[t] : HasInvocation(frames[t][i])}
                    /\ \A i, j \in DOMAIN stack[t] : i < j => stack[t][i].frame < stack[t][j].frame
                    /\ At(t) \in {"leave", "leaving", "on_leave"} => Last(stack[t]).ctx = Top(t).ctx
  BY DEF StackMirrorsCalls
<1>a. PICK fs, st : fs = frames[t] /\ st = stack[t]
  OBVIOUS
<1>1. fs \in Seq(Frame) /\ Len(fs) \in Nat /\ DOMAIN fs = 1..Len(fs) /\ CallsOK(fs)
  BY <1>a, ThreadFacts
<1>2. st \in Seq(Invocation) /\ Len(st) \in Nat /\ DOMAIN st = 1..Len(st)
  BY <1>a, LenProperties DEF IInv
<1>3. fs = <<>> \/ fs[Len(fs)].at # "undefined"
  BY <1>a DEF Undefined, At, Top, Last
<1>4. EntriesOK(fs, st)
  BY <1>3, <1>a DEF IInv, ThreadOK
<1>5. {st[j].frame : j \in 1..Len(st)} = {i \in 1..Len(fs) : HasInvocation(fs[i])}
  BY <1>4 DEF EntriesOK
<1>6. \A i, j \in 1..Len(st) : i < j => st[i].frame < st[j].frame
  BY <1>4 DEF EntriesOK
<1>7. ASSUME At(t) \in {"leave", "leaving", "on_leave"}
      PROVE  Last(st).ctx = Top(t).ctx
  <2>1. fs # <<>> /\ Top(t) = fs[Len(fs)] /\ fs[Len(fs)].at \in {"leave", "leaving", "on_leave"}
    BY <1>7, <1>a DEF At, Top, Last
  <2>2. Len(fs) \in 1..Len(fs)
    BY <1>1, <2>1, EmptySeq
  <2>3. HasInvocation(fs[Len(fs)])
    BY <1>1, <2>1, <2>2 DEF CallsOK, PlaceOK, HasInvocation, Counted
  <2>4. PICK j \in 1..Len(st) : st[j].frame = Len(fs)
    BY <1>4, <2>2, <2>3 DEF EntriesOK
  <2>5. j = Len(st)
    <3>1. CASE j < Len(st)
      <4>1. Len(st) \in 1..Len(st)
        BY <1>2
      <4>2. st[Len(st)].frame \in 1..Len(fs) /\ st[j].frame < st[Len(st)].frame
        BY <1>4, <3>1, <4>1 DEF EntriesOK
      <4> QED
        BY <1>1, <2>4, <4>2
    <3>2. \A n \in Nat : \A i \in 1..n : i < n \/ i = n
      OBVIOUS
    <3>3. Len(st) \in Nat
      BY <1>2
    <3>4. j < Len(st) \/ j = Len(st)
      BY <3>2, <3>3
    <3> QED
      BY <3>1, <3>4
  <2>6. st[Len(st)].ctx = fs[Len(fs)].ctx
    BY <1>4, <2>4, <2>5 DEF EntriesOK
  <2> QED
    BY <2>1, <2>6 DEF Last
<1> QED
  BY <1>1, <1>2, <1>5, <1>6, <1>7, <1>a

\* The interceptor's and the threads' data keep their shape.
THEOREM Typed == Spec => []TypeOK
  BY Invariance, IInvTypeOK, PTL

\* trampoline_usage_counter is the number of the calls that begin_invocation
\* has counted and not given back, for any number of threads, nested calls,
\* contexts and listeners.
THEOREM CounterExact == Spec => []UsageCounterIsExact
  BY Invariance, IInvCounter, PTL

\* A call counted before its context left the table keeps the context and the
\* listener array it goes over: perform_destroy and the freeing of old arrays
\* wait for it.
THEOREM Protected == Spec => []CountedCallsAreProtected
  BY Invariance, IInvProtected, PTL

\* The listener whose entry a thread has read, to call it or from its callback, is
\* attached somewhere, or the reference that gum_interceptor_detach took is still
\* held by a task, whether or not the entry has been freed.
THEOREM ListenersHeld == Spec => []RunningListenersAreHeld
  BY Invariance, IInvHeld, PTL

\* The entry that end_invocation pops off the invocation stack is the one that
\* begin_invocation pushed for the same call.
THEOREM StackMirrors == Spec => []StackMirrorsCalls
  BY Invariance, IInvMirrors, PTL

\* The guard key keeps a thread from running a listener inside a listener.
THEOREM NoNesting == Spec => []CallbacksDoNotNest
  BY Invariance, IInvDoNotNest, PTL

\* A jump that gum_interceptor_transaction_end has written leads to a context
\* that has not been freed.
THEOREM PatchedLive == Spec => []PatchedFunctionsLeadToLiveTrampolines
  BY Invariance, IInvPatched, PTL

\* gum_interceptor_instrument never takes the jump of another context for the
\* prologue of the function.
THEOREM SavedOriginal == Spec => []SavedPrologueIsOriginal
  BY Invariance, IInvPatched, PTL

-----------------------------------------------------------------------------
(* What the clients were told.                                             *)

\* What the model remembers of the clients.
Client == [wanted : [Function -> SUBSET Listener], strayed : BOOLEAN]

\* The clients' view w of the functions against table tb and contexts cx.
Clients(tb, cx, w) ==
  \A f \in Function :
    /\ tb[f] = 0 => w[f] = {}
    /\ tb[f] # 0 => w[f] = Taken(cx[tb[f]]) /\ ~IsEmpty(cx[tb[f]])

\* What is still to be written of a function's code pr is in the transaction.
Pending(tb, pr, tx) ==
  \A f \in Function :
    /\ tb[f] = 0 => pr[f] = 0
    /\ tb[f] # 0 => pr[f] = tb[f] \/ Member(tx.updates, [ctx |-> tb[f], activate |-> TRUE])

\* Nothing in it is of a context that was given up.
Activations(tx, cx) ==
  \A i \in 1..Len(tx.updates) : tx.updates[i].activate /\ ~cx[tx.updates[i].ctx].destroyed

\* The clients' side of the invariant, kept as long as nobody has detached or
\* reverted while a transaction was open.
VInv ==
  /\ client \in Client
  /\ txn.level = 0 => txn.updates = <<>>
  /\ txn.updates # <<>> => txn.dirty
  /\ ~client.strayed =>
       Clients(table, ctx, client.wanted) /\ Pending(table, prologue, txn) /\ Activations(txn, ctx)

\* The listeners of a context are the members of its current array.
LEMMA TakenMembers ==
  ASSUME NEW x \in Context, x.arrays # <<>>
  PROVE  /\ Taken(x) \subseteq Listener
         /\ \A l \in Listener : l \in Taken(x) <=> Member(Entries(x), l)
<1>1. Entries(x) \in Seq(Slot)
  BY ArrayLengths
<1>2. DOMAIN Entries(x) = 1..Len(Entries(x)) /\ \A i \in 1..Len(Entries(x)) : Entries(x)[i] \in Slot
  BY <1>1, LenProperties, ElementOfSeq
<1>3. NoListener \notin Listener
  BY ListenerAssumption
<1>4. Taken(x) \subseteq Listener
  BY <1>2 DEF Taken, Slot
<1> QED
  BY <1>2, <1>3, <1>4 DEF Taken, Member

\* A new context has no listeners.
LEMMA NewContextTaken ==
  ASSUME NEW a
  PROVE  Taken(NewContext(a)) = {}
<1>a. PICK ar : ar = << <<>> >>
  OBVIOUS
<1>1. Len(ar) = 1 /\ ar[1] = <<>>
  BY <1>a
<1>2. NewContext(a).arrays = ar
  BY <1>a DEF NewContext
<1>3. Entries(NewContext(a)) = <<>>
  BY <1>1, <1>2 DEF Entries
<1>4. DOMAIN <<>> = {}
  OBVIOUS
<1> QED
  BY <1>3, <1>4 DEF Taken

\* gum_function_context_add_listener adds the listener and forgets none.
LEMMA AddListenerTaken ==
  ASSUME NEW x \in Context, x.arrays # <<>>, NEW l \in Listener
  PROVE  Taken(AddListener(x, l)) = Taken(x) \cup {l}
<1>a. PICK y, e, s : y = AddListener(x, l) /\ e = Entries(x) /\ s = Compact(Entries(x))
  OBVIOUS
<1>1. e \in Seq(Slot) /\ x.arrays \in Seq(Seq(Slot)) /\ Len(x.arrays) \in Nat
  BY <1>a, ArrayLengths
<1>2. s \in Seq(Slot) /\ \A m \in Slot : Member(s, m) <=> Member(e, m) /\ m # NoListener
  BY <1>1, <1>a, CompactMembers
<1>3. y \in Context /\ Len(y.arrays) = Len(x.arrays) + 1
  BY <1>a, AddListenerProps
<1>4. y.arrays = Append(x.arrays, Append(s, l))
  BY <1>a DEF AddListener, Context
<1>5. l \in Slot /\ l # NoListener
  BY ListenerAssumption DEF Slot
<1>6. Append(s, l) \in Seq(Slot) /\ \A m : Member(Append(s, l), m) <=> Member(s, m) \/ m = l
  BY <1>2, <1>5, AppendMembers
<1>7. Entries(y) = Append(s, l)
  <2>1. Append(x.arrays, Append(s, l))[Len(x.arrays) + 1] = Append(s, l)
    BY <1>1, <1>6, AppendProperties
  <2> QED
    BY <1>3, <1>4, <2>1 DEF Entries
<1>8. y.arrays # <<>>
  <2>1. Len(<<>>) = 0
    BY EmptySeq
  <2> QED
    BY <1>1, <1>3, <2>1
<1>9. Taken(y) \subseteq Listener /\ \A m \in Listener : m \in Taken(y) <=> Member(Append(s, l), m)
  BY <1>3, <1>7, <1>8, TakenMembers
<1>10. Taken(x) \subseteq Listener /\ \A m \in Listener : m \in Taken(x) <=> Member(e, m)
  BY <1>a, TakenMembers
<1>11. \A m \in Listener : m \in Slot /\ m # NoListener
  BY ListenerAssumption DEF Slot
<1>12. \A m \in Listener : m \in Taken(y) <=> m \in Taken(x) \/ m = l
  BY <1>2, <1>6, <1>9, <1>10, <1>11
<1> QED
  BY <1>9, <1>10, <1>12, <1>a

\* gum_function_context_remove_listener removes the listener and no other.
LEMMA RemoveListenerTaken ==
  ASSUME NEW x \in Context, x.arrays # <<>>, NEW l \in Listener
  PROVE  /\ Taken(RemoveListener(x, l)) = Taken(x) \ {l}
         /\ RemoveListener(x, l).replacement = x.replacement
<1>a. PICK z, e : z = RemoveListener(x, l) /\ e = Entries(x)
  OBVIOUS
<1>b. PICK kept : kept = [i \in DOMAIN e |-> IF e[i] = l THEN NoListener ELSE e[i]]
  OBVIOUS
<1>1. /\ x.arrays \in Seq(Seq(Slot)) /\ Len(x.arrays) \in 1..Len(x.arrays) /\ e \in Seq(Slot)
  BY <1>a, ArrayLengths
<1>2. Len(z.arrays) = Len(x.arrays)
  BY <1>a, RemoveListenerProps
<1>3. z = [x EXCEPT !.arrays[Len(x.arrays)] = kept, !.hasLeave = (Taken(x) \ {l}) \cap LeaveListener # {}]
  BY <1>a, <1>b DEF RemoveListener
<1>4. z.arrays = [x.arrays EXCEPT ![Len(x.arrays)] = kept] /\ z.replacement = x.replacement
  BY <1>3 DEF Context
<1>5. Len(x.arrays) \in DOMAIN x.arrays
  BY <1>1, LenProperties
<1>6. Entries(z) = kept
  BY <1>2, <1>4, <1>5 DEF Entries
<1>7. DOMAIN kept = DOMAIN e /\ \A i \in DOMAIN e : kept[i] = IF e[i] = l THEN NoListener ELSE e[i]
  BY <1>b
<1>8. Taken(z) = {kept[i] : i \in DOMAIN e} \ {NoListener} /\ Taken(x) = {e[i] : i \in DOMAIN e} \ {NoListener}
  BY <1>6, <1>7, <1>a DEF Taken
<1>9. Taken(z) = Taken(x) \ {l}
  BY <1>7, <1>8
<1> QED
  BY <1>4, <1>9, <1>a

\* The clients of a context are in its current array and its replacement.
LEMMA SameClients ==
  ASSUME NEW x, NEW y, y.arrays = x.arrays, y.replacement = x.replacement
  PROVE  Taken(y) = Taken(x) /\ (IsEmpty(y) <=> IsEmpty(x))
<1>1. Entries(y) = Entries(x)
  BY DEF Entries
<1>2. Taken(y) = Taken(x)
  BY <1>1 DEF Taken
<1> QED
  BY <1>2 DEF IsEmpty

\* What a step of the clients' side needs: nothing of it changes.
LEMMA SameView ==
  ASSUME IInv, VInv, UNCHANGED <<table, prologue, client>>,
         txn'.level = txn.level, txn'.updates = txn.updates, txn.dirty => txn'.dirty,
         \A c \in Ctx : /\ ctx'[c].arrays = ctx[c].arrays /\ ctx'[c].replacement = ctx[c].replacement
                        /\ ctx'[c].destroyed = ctx[c].destroyed
  PROVE  VInv'
<1>1. table \in [Address -> Ctx \cup {0}] /\ txn \in Transaction
  BY DEF IInv, DataOK, Shape
<1>2. \A c \in Ctx : Taken(ctx'[c]) = Taken(ctx[c]) /\ (IsEmpty(ctx'[c]) <=> IsEmpty(ctx[c]))
  BY SameClients
<1>3. \A f \in Function : table[f] # 0 => table[f] \in Ctx
  BY <1>1 DEF Address
<1>4. \A i \in 1..Len(txn.updates) : txn.updates[i].ctx \in Ctx
  BY <1>1, TransactionTypes
<1>5. ASSUME ~client.strayed
      PROVE  Clients(table, ctx', client.wanted) /\ Pending(table, prologue, txn') /\ Activations(txn', ctx')
  <2>1. Clients(table, ctx, client.wanted) /\ Pending(table, prologue, txn) /\ Activations(txn, ctx)
    BY <1>5 DEF VInv
  <2>2. Clients(table, ctx', client.wanted)
    BY <1>2, <1>3, <2>1 DEF Clients
  <2>3. Pending(table, prologue, txn')
    BY <2>1 DEF Pending
  <2>4. Activations(txn', ctx')
    BY <1>4, <2>1 DEF Activations
  <2> QED
    BY <2>2, <2>3, <2>4
<1>6. client' = client /\ table' = table /\ prologue' = prologue
  OBVIOUS
<1>7. /\ client \in Client
      /\ txn'.level = 0 => txn'.updates = <<>>
      /\ txn'.updates # <<>> => txn'.dirty
  BY DEF VInv
<1> QED
  BY <1>5, <1>6, <1>7 DEF VInv

\* The code at the end of transaction tx is what table tb says.
Settled(tb, cx, tx) == \A f \in Function : Patched(tx, cx, f) = tb[f]

\* The end of the transaction writes what was pending.
LEMMA PendingSettles ==
  ASSUME NEW tb, NEW cx, NEW tx, DataOK(tb, prologue, cx, tx, job),
         Pending(tb, prologue, tx), Activations(tx, cx)
  PROVE  Settled(tb, cx, tx)
<1>1. /\ tb \in [Address -> Ctx \cup {0}] /\ tx \in Transaction
      /\ TableOK(tb, cx) /\ TransactionOK(tx, cx)
  BY DEF DataOK, Shape
<1>2. DOMAIN tx.updates = 1..Len(tx.updates) /\ \A i \in 1..Len(tx.updates) : tx.updates[i].ctx \in Ctx
  BY <1>1, TransactionTypes, LenProperties
<1> SUFFICES ASSUME NEW f \in Function
             PROVE  Patched(tx, cx, f) = tb[f]
  BY DEF Settled
<1>3. f \in Address
  BY DEF Address
<1>4. CASE Effective(tx, cx, f) = {} /\ Patched(tx, cx, f) = prologue[f]
  <2>1. CASE tb[f] = 0
    BY <1>4, <2>1 DEF Pending
  <2>2. CASE tb[f] # 0
    <3>1. ~Member(tx.updates, [ctx |-> tb[f], activate |-> TRUE])
      <4> SUFFICES ASSUME NEW i \in 1..Len(tx.updates), tx.updates[i] = [ctx |-> tb[f], activate |-> TRUE]
                   PROVE  FALSE
        BY DEF Member
      <4>1. tx.updates[i].ctx = tb[f]
        OBVIOUS
      <4>2. cx[tb[f]].address = f /\ ~cx[tb[f]].destroyed
        BY <1>1, <1>3, <2>2 DEF TableOK
      <4>3. i \in Effective(tx, cx, f)
        BY <1>2, <4>1, <4>2 DEF Effective
      <4> QED
        BY <1>4, <4>3
    <3> QED
      BY <1>4, <2>2, <3>1 DEF Pending
  <2> QED
    BY <2>1, <2>2
<1>5. ASSUME NEW i \in 1..Len(tx.updates), NEW u, u = tx.updates[i], cx[u.ctx].address = f,
             \/ u.activate /\ ~cx[u.ctx].destroyed /\ Patched(tx, cx, f) = u.ctx
             \/ ~u.activate /\ Patched(tx, cx, f) = cx[u.ctx].overwritten
      PROVE  Patched(tx, cx, f) = tb[f]
  <2>1. u.activate /\ ~cx[u.ctx].destroyed /\ u.ctx \in Ctx
    BY <1>2, <1>5 DEF Activations
  <2>2. Patched(tx, cx, f) = u.ctx
    BY <1>5, <2>1
  <2>3. cx[u.ctx].state # "unborn"
    BY <1>1, <1>5 DEF TransactionOK
  <2>4. tb[f] = u.ctx
    BY <1>1, <1>5, <2>1, <2>3 DEF TableOK
  <2> QED
    BY <2>2, <2>4
<1> QED
  BY <1>1, <1>4, <1>5, PatchedForms

\* The clients' side at the end of an API call's transaction.
LEMMA TransactionEndView ==
  ASSUME NEW k, NEW cx, NEW tx, TransactionEnd(k, cx, tx), DataOK(table', prologue, cx, tx, job), tx.level >= 1,
         tx.updates # <<>> => tx.dirty,
         client' \in Client,
         ~client'.strayed =>
           /\ Clients(table', cx, client'.wanted) /\ Settled(table', cx, tx)
           /\ tx.level > 1 => Pending(table', prologue, tx) /\ Activations(tx, cx)
  PROVE  VInv'
<1>1. /\ table' \in [Address -> Ctx \cup {0}] /\ tx \in Transaction /\ cx \in [Ctx -> Context]
      /\ tx.level \in Nat /\ tx.updates \in Seq(Update)
  BY DEF DataOK, Shape, Transaction
<1>a. PICK outer : outer = [tx EXCEPT !.level = @ - 1]
  OBVIOUS
<1>2. outer.level = tx.level - 1 /\ outer.dirty = tx.dirty /\ outer.updates = tx.updates
  BY <1>1, <1>a DEF Transaction
<1>3. CASE outer.level > 0
  <2>1. txn' = outer /\ ctx' = cx /\ prologue' = prologue
    BY <1>3, <1>a DEF TransactionEnd
  <2>2. txn'.level # 0 /\ tx.level > 1 /\ txn'.updates = tx.updates /\ txn'.dirty = tx.dirty
    BY <1>1, <1>2, <1>3, <2>1
  <2>3. ~client'.strayed => /\ Clients(table', ctx', client'.wanted) /\ Pending(table', prologue', txn')
                            /\ Activations(txn', ctx')
    BY <2>1, <2>2 DEF Pending, Activations
  <2> QED
    BY <2>2, <2>3 DEF VInv
<1>4. CASE ~(outer.level > 0)
  <2>1. CASE ~tx.dirty \/ (tx.updates = <<>> /\ tx.destroys = <<>>)
    <3>1. /\ txn' = outer \/ txn' = [outer EXCEPT !.dirty = FALSE]
          /\ ctx' = cx /\ prologue' = prologue
      BY <2>1, <1>a, <1>4 DEF TransactionEnd
    <3>2. tx.updates = <<>>
      BY <2>1
    <3>3. txn'.updates = <<>>
      BY <1>1, <1>2, <3>1, <3>2, <1>a DEF Transaction
    <3>4. Len(<<>>) = 0 /\ DOMAIN <<>> = {}
      BY EmptySeq
    <3>5. ASSUME ~client'.strayed, NEW f \in Function
          PROVE  prologue[f] = table'[f]
      <4>1. Effective(tx, cx, f) = {}
        BY <3>2, <3>4 DEF Effective
      <4>2. Patched(tx, cx, f) = prologue[f]
        BY <4>1 DEF Patched
      <4> QED
        BY <3>5, <4>2 DEF Settled
    <3>6. ~client'.strayed => /\ Clients(table', ctx', client'.wanted) /\ Pending(table', prologue', txn')
                              /\ Activations(txn', ctx')
      BY <3>1, <3>3, <3>4, <3>5 DEF Pending, Activations
    <3> QED
      BY <3>3, <3>6 DEF VInv
  <2>2. CASE tx.dirty /\ ~(tx.updates = <<>> /\ tx.destroys = <<>>)
    <3>1. /\ txn' = EmptyTransaction /\ ctx' = Refreshed(tx, cx)
          /\ prologue' = [a \in Address |-> Patched(tx, cx, a)]
      BY <2>2, <1>4, <1>a DEF TransactionEnd, Refreshed
    <3>2. txn'.updates = <<>> /\ Len(<<>>) = 0
      BY <3>1, EmptySeq DEF EmptyTransaction
    <3>3. \A c \in Ctx : SameButActivated(cx[c], ctx'[c])
      BY <1>1, <3>1, RefreshedProps
    <3>4. \A c \in Ctx : Taken(ctx'[c]) = Taken(cx[c]) /\ (IsEmpty(ctx'[c]) <=> IsEmpty(cx[c]))
      BY <3>3, SameClients DEF SameButActivated
    <3>5. \A f \in Function : f \in Address /\ (table'[f] # 0 => table'[f] \in Ctx)
      BY <1>1 DEF Address
    <3>6. ASSUME ~client'.strayed
          PROVE  Clients(table', ctx', client'.wanted) /\ Pending(table', prologue', txn') /\ Activations(txn', ctx')
      <4>1. Clients(table', ctx', client'.wanted)
        BY <3>4, <3>5, <3>6 DEF Clients
      <4>2. \A f \in Function : prologue'[f] = table'[f]
        BY <3>1, <3>5, <3>6 DEF Settled
      <4>3. Pending(table', prologue', txn')
        BY <4>2 DEF Pending
      <4>4. Activations(txn', ctx')
        BY <3>2 DEF Activations
      <4> QED
        BY <4>1, <4>3, <4>4
    <3> QED
      BY <3>2, <3>6 DEF VInv
  <2> QED
    BY <2>1, <2>2
<1> QED
  BY <1>3, <1>4

\* An address that leads nowhere stands for itself.
LEMMA ResolveStays ==
  ASSUME IInv, NEW f \in Function, Stays(f)
  PROVE  Resolve(f) = f
<1>a. PICK N, F : N = MaxContexts /\ F = Along(f)
  OBVIOUS
<1>1. N \in Nat
  BY <1>a, BoundsAssumption
<1>2. \A n \in 0..N : F[n] = IF n = 0 THEN f ELSE Hop(F[n - 1])
  <2>1. F = [n \in 0..N |-> IF n = 0 THEN f ELSE Hop(F[n - 1])]
    BY <1>a, AlongExists
  <2> QED
    BY <2>1
<1>3. Resolve(f) = F[N]
  BY <1>a DEF Resolve, Along, Hop
<1>4. Hop(f) = f
  BY DEF Hop, Stays
<1> DEFINE Q == {n \in 0..N : F[n] = f}
<1>5. 0 \in Q
  BY <1>1, <1>2
<1>6. ASSUME NEW n \in 0..(N - 1), n \in Q
      PROVE  n + 1 \in Q
  <2>1. n + 1 \in 0..N /\ n + 1 # 0 /\ n + 1 - 1 = n
    BY <1>1
  <2>2. F[n] = f
    BY <1>6
  <2>3. F[n + 1] = Hop(F[n])
    BY <1>2, <2>1
  <2> QED
    BY <1>4, <2>1, <2>2, <2>3
<1> HIDE DEF Q
<1>7. \A n \in 0..N : n \in Q
  BY <1>1, <1>5, <1>6, UpTo
<1>8. N \in 0..N
  BY <1>1
<1> QED
  BY <1>3, <1>7, <1>8 DEF Q

\* As long as nobody has strayed a function stands for itself.
LEMMA ClientResolve ==
  ASSUME IInv, VInv, ~client.strayed, NEW f \in Function
  PROVE  Resolve(f) = f /\ Stays(f)
<1>1. Pending(table, prologue, txn)
  BY DEF VInv
<1>2. Stays(f)
  BY <1>1 DEF Stays, Pending
<1> QED
  BY <1>2, ResolveStays

\* Context y of function f, the old one or a new one x with one client more.
Installing(f, c, x, y, us, cy, ty, tb) ==
  /\ CanInstrument(f) /\ c = Instrument(f) /\ c # 0
  /\ x = IF table[f] # 0 THEN ctx[c] ELSE NewContext(f)
  /\ y \in Context /\ Enlarged(x, y) /\ ~IsEmpty(y)
  /\ us = Activation(f, c) /\ cy = WithContext(ctx, c, y)
  /\ ty.updates = txn.updates \o us
  /\ tb = [table EXCEPT ![f] = c]

\* The clients' side of an attach or replace that goes through, up to the end
\* of its transaction.
LEMMA InstalledView ==
  ASSUME IInv, VInv, ~client.strayed, NEW f \in Function, NEW c, NEW x, NEW y, NEW us, NEW cy, NEW ty, NEW tb,
         Installing(f, c, x, y, us, cy, ty, tb),
         NEW w, w[f] = Taken(y), \A g \in Function : g # f => w[g] = client.wanted[g]
  PROVE  Clients(tb, cy, w) /\ Pending(tb, prologue, ty) /\ Activations(ty, cy)
<1>b. CanInstrument(f) /\ c = Instrument(f) /\ c # 0
  BY DEF Installing
<1>c. x = IF table[f] # 0 THEN ctx[c] ELSE NewContext(f)
  BY DEF Installing
<1>d. y \in Context /\ Enlarged(x, y) /\ ~IsEmpty(y)
  BY DEF Installing
<1>e. us = Activation(f, c)
  BY DEF Installing
<1>f. cy = WithContext(ctx, c, y)
  BY DEF Installing
<1>g. ty.updates = txn.updates \o us
  BY DEF Installing
<1>h. tb = [table EXCEPT ![f] = c]
  BY DEF Installing
<1>1. /\ Clients(table, ctx, client.wanted) /\ Pending(table, prologue, txn) /\ Activations(txn, ctx)
  BY DEF VInv
<1>2. /\ txn \in Transaction /\ ctx \in [Ctx -> Context] /\ table \in [Address -> Ctx \cup {0}]
      /\ TableOK(table, ctx) /\ TransactionOK(txn, ctx)
  BY DEF IInv, DataOK, Shape
<1>3. Created(f) /\ Stays(f) /\ \A g \in Function : g \in Address
  BY ClientResolve, FunctionIsCreated DEF Address
<1>4. /\ c \in Ctx /\ f \in Address
      /\ table[f] # 0 => c = table[f]
      /\ table[f] = 0 => ctx[c].state = "unborn" /\ prologue[f] = 0
  BY <1>b, <1>3, InstrumentProps
<1>5. cy[c] = y /\ \A d \in Ctx : d # c => cy[d] = ctx[d]
  BY <1>2, <1>4, <1>f DEF WithContext
<1>6. tb[f] = c /\ c # 0 /\ \A g \in Function : g # f => tb[g] = table[g]
  BY <1>2, <1>3, <1>b, <1>h
<1>7. ASSUME NEW g \in Function, g # f, table[g] # 0
      PROVE  table[g] \in Ctx /\ table[g] # c
  <2>1. table[g] \in Ctx /\ ctx[table[g]].state = "live" /\ ctx[table[g]].address = g
    BY <1>2, <1>3, <1>7 DEF TableOK
  <2>2. table[f] # 0 => ctx[table[f]].address = f
    BY <1>2, <1>4 DEF TableOK
  <2> QED
    BY <1>4, <1>7, <2>1, <2>2
<1>8. Clients(tb, cy, w)
  <2> SUFFICES ASSUME NEW g \in Function
               PROVE  /\ tb[g] = 0 => w[g] = {}
                      /\ tb[g] # 0 => w[g] = Taken(cy[tb[g]]) /\ ~IsEmpty(cy[tb[g]])
    BY DEF Clients
  <2>1. CASE g = f
    BY <1>5, <1>6, <1>d, <2>1
  <2>2. CASE g # f
    <3>1. tb[g] = table[g] /\ w[g] = client.wanted[g]
      BY <1>6, <2>2
    <3>2. table[g] # 0 => cy[table[g]] = ctx[table[g]]
      BY <1>5, <1>7, <2>2
    <3> QED
      BY <1>1, <3>1, <3>2 DEF Clients
  <2> QED
    BY <2>1, <2>2
<1>9. us \in Seq(Update) /\ txn.updates \in Seq(Update)
  BY <1>2, <1>4, <1>e, ActivationProps DEF Transaction
<1>11. \A u : Member(ty.updates, u) <=> Member(txn.updates, u) \/ Member(us, u)
  BY <1>9, <1>g, ConcatMembers
<1>a. PICK act : act = [ctx |-> c, activate |-> TRUE]
  OBVIOUS
<1>12. \A u : Member(us, u) <=> table[f] = 0 /\ u = act
  <2>1. CASE table[f] # 0
    <3>1. us = <<>> /\ Len(<<>>) = 0
      BY <1>e, <2>1, EmptySeq DEF Activation
    <3> QED
      BY <2>1, <3>1 DEF Member
  <2>2. CASE table[f] = 0
    <3>1. us = <<act>>
      BY <1>a, <1>e, <2>2 DEF Activation
    <3>2. Len(us) = 1 /\ us[1] = act
      BY <3>1
    <3> QED
      BY <2>2, <3>2 DEF Member
  <2> QED
    BY <2>1, <2>2
<1>13. Pending(tb, prologue, ty)
  <2> SUFFICES ASSUME NEW g \in Function
               PROVE  /\ tb[g] = 0 => prologue[g] = 0
                      /\ tb[g] # 0 => \/ prologue[g] = tb[g]
                                      \/ Member(ty.updates, [ctx |-> tb[g], activate |-> TRUE])
    BY DEF Pending
  <2>1. CASE g = f /\ table[f] = 0
    BY <1>6, <1>11, <1>12, <1>a, <2>1
  <2>2. CASE g # f \/ table[f] # 0
    <3>1. tb[g] = table[g]
      BY <1>4, <1>6, <2>2
    <3> QED
      BY <1>1, <1>11, <3>1 DEF Pending
  <2> QED
    BY <2>1, <2>2
<1>14. ~y.destroyed
  <2>1. CASE table[f] # 0
    <3>1. ~ctx[c].destroyed /\ x = ctx[c]
      BY <1>2, <1>4, <1>c, <2>1 DEF TableOK
    <3> QED
      BY <1>d, <3>1 DEF Enlarged
  <2>2. CASE table[f] = 0
    <3>1. Fresh(NewContext(f), f) /\ x = NewContext(f)
      BY <1>4, <1>c, <2>2, NewContextProps
    <3> QED
      BY <1>d, <3>1 DEF Enlarged, Fresh
  <2> QED
    BY <2>1, <2>2
<1>15. Activations(ty, cy)
  <2> SUFFICES ASSUME NEW i \in 1..Len(ty.updates), NEW u, u = ty.updates[i]
               PROVE  u.activate /\ ~cy[u.ctx].destroyed
    BY DEF Activations
  <2>1. Member(ty.updates, u)
    BY DEF Member
  <2>2. CASE u = act
    BY <1>5, <1>14, <1>a, <2>2
  <2>3. CASE Member(txn.updates, u)
    <3>1. u.ctx \in Ctx
      BY <1>2, <2>3, TransactionTypes DEF Member
    <3>2. u.activate /\ ~ctx[u.ctx].destroyed
      BY <1>1, <2>3 DEF Activations, Member
    <3>3. ~cy[u.ctx].destroyed
      BY <1>5, <1>14, <3>1, <3>2
    <3> QED
      BY <3>2, <3>3
  <2> QED
    BY <1>11, <1>12, <2>1, <2>2, <2>3
<1> QED
  BY <1>8, <1>13, <1>15

\* An API call that changes nothing, up to the end of its transaction.
LEMMA OpenedView ==
  ASSUME IInv, VInv, NEW k, TransactionEnd(k, ctx, Opened), UNCHANGED table,
         client' \in Client,
         ~client'.strayed => ~client.strayed /\ client'.wanted = client.wanted
  PROVE  VInv'
<1>a. PICK o : o = Opened
  OBVIOUS
<1>1. Midway(table', ctx, o) /\ o.level >= 1
  BY <1>a, OpenedMidway
<1>2. txn \in Transaction /\ txn.updates \in Seq(Update)
  BY DEF IInv, DataOK, Shape, Transaction
<1>3. <<>> \in Seq(Update) /\ <<>> \in Seq(Task)
  BY EmptySeq
<1>4. Extends(o, <<>>, <<>>)
  BY <1>2, <1>3, <1>a, ExtendedForms
<1>5. txn.updates \o <<>> = txn.updates
  BY <1>2, ConcatEmptySeq
<1>6. o.dirty /\ o.updates = txn.updates
  BY <1>4, <1>5 DEF Extends
<1>7. DataOK(table', prologue, ctx, o, job)
  BY <1>1 DEF Midway
<1>8. ASSUME ~client'.strayed
      PROVE  /\ Clients(table', ctx, client'.wanted) /\ Settled(table', ctx, o)
             /\ Pending(table', prologue, o) /\ Activations(o, ctx)
  <2>1. Clients(table, ctx, client.wanted) /\ Pending(table, prologue, txn) /\ Activations(txn, ctx)
    BY <1>8 DEF VInv
  <2>2. Pending(table', prologue, o) /\ Activations(o, ctx) /\ Clients(table', ctx, client'.wanted)
    BY <1>6, <1>8, <2>1 DEF Pending, Activations
  <2> QED
    BY <1>7, <2>2, PendingSettles
<1>9. TransactionEnd(k, ctx, o)
  BY <1>a
<1> QED
  BY <1>1, <1>6, <1>7, <1>8, <1>9, TransactionEndView

\* gum_interceptor_attach keeps the clients' side.
LEMMA AttachView ==
  ASSUME IInv, VInv, NEW k \in Controller, NEW f \in Function, NEW l \in Listener, Attach(k, f, l)
  PROVE  VInv'
<1>a. PICK a : a = Resolve(f)
  OBVIOUS
<1>b. PICK c : c = Instrument(a)
  OBVIOUS
<1>c. PICK x : x = IF table[a] # 0 THEN ctx[c] ELSE NewContext(a)
  OBVIOUS
<1>d. PICK us : us = Activation(a, c)
  OBVIOUS
<1>e. PICK task : task = [kind |-> "array", ctx |-> c, version |-> Len(x.arrays)]
  OBVIOUS
<1>f. PICK y : y = AddListener(x, l)
  OBVIOUS
<1>g. PICK cy, ty : /\ cy = WithContext(ctx, c, y)
                    /\ ty = [Opened EXCEPT !.updates = @ \o us, !.destroys = Append(@, task)]
  OBVIOUS
<1>1. CanInstrument(a) /\ client \in Client
  BY <1>a DEF Attach, VInv, Client
<1>2. \/ TransactionEnd(k, ctx, Opened) /\ UNCHANGED <<table, client>>
      \/ /\ c # 0 /\ table' = [table EXCEPT ![a] = c] /\ TransactionEnd(k, cy, ty)
         /\ client' = [client EXCEPT !.wanted[f] = @ \cup {l}]
  BY <1>a, <1>b, <1>c, <1>d, <1>e, <1>f, <1>g DEF Attach, Activation, WithContext
<1>3. CASE TransactionEnd(k, ctx, Opened) /\ UNCHANGED <<table, client>>
  BY <1>1, <1>3, OpenedView DEF Client
<1>4. ASSUME c # 0, table' = [table EXCEPT ![a] = c], TransactionEnd(k, cy, ty),
             client' = [client EXCEPT !.wanted[f] = @ \cup {l}]
      PROVE  VInv'
  <2>z. Attaching(f, l, a, c, x, y, us, task, cy, ty)
    BY <1>1, <1>4, <1>a, <1>b, <1>c, <1>d, <1>e, <1>f, <1>g DEF Attaching
  <2>0. Midway([table EXCEPT ![a] = c], cy, ty) /\ ty.level >= 1
    BY <2>z, AttachMidway
  <2>1. Midway(table', cy, ty)
    BY <1>4, <2>0
  <2>c. x \in Context /\ x.arrays # <<>> /\ y \in Context /\ Enlarged(x, y)
    BY <2>z, AttachMidway
  <2>d. ty.dirty /\ ty.updates = txn.updates \o us
    BY <2>z, AttachMidway
  <2>b. PICK w : w = [client.wanted EXCEPT ![f] = @ \cup {l}]
    OBVIOUS
  <2>2. w \in [Function -> SUBSET Listener] /\ w[f] = client.wanted[f] \cup {l}
        /\ \A g \in Function : g # f => w[g] = client.wanted[g]
    BY <1>1, <2>b DEF Client
  <2>3. client' = [client EXCEPT !.wanted = w]
    BY <1>1, <1>4, <2>b DEF Client
  <2>4. client' \in Client /\ client'.wanted = w /\ client'.strayed = client.strayed
    BY <1>1, <2>2, <2>3 DEF Client
  <2>6. DataOK(table', prologue, cy, ty, job)
    BY <2>1 DEF Midway
  <2>7. ASSUME ~client.strayed
        PROVE  /\ Clients(table', cy, w) /\ Pending(table', prologue, ty) /\ Activations(ty, cy)
    <3>1. a = f
      BY <1>a, <2>7, ClientResolve
    <3>2. Taken(y) = Taken(x) \cup {l} /\ l # NoListener
      BY <1>f, <2>c, AddListenerTaken, ListenerAssumption
    <3>3. ~IsEmpty(y)
      BY <3>2 DEF IsEmpty
    <3>4. Clients(table, ctx, client.wanted)
      BY <2>7 DEF VInv
    <3>5. client.wanted[f] = Taken(x)
      <4>1. CASE table[f] # 0
        <5>1. x = ctx[table[f]]
          BY <1>b, <1>c, <3>1, <4>1 DEF Instrument
        <5> QED
          BY <3>4, <4>1, <5>1 DEF Clients
      <4>2. CASE table[f] = 0
        <5>1. x = NewContext(f) /\ client.wanted[f] = {}
          BY <1>c, <3>1, <3>4, <4>2 DEF Clients
        <5> QED
          BY <5>1, NewContextTaken
      <4> QED
        BY <4>1, <4>2
    <3>6. w[f] = Taken(y)
      BY <2>2, <3>2, <3>5
    <3>7. Installing(f, c, x, y, us, cy, ty, table')
      BY <1>1, <1>4, <1>b, <1>c, <1>d, <1>g, <2>c, <2>d, <3>1, <3>3 DEF Installing
    <3> QED
      BY <2>2, <2>7, <3>6, <3>7, InstalledView
  <2>8. ~client.strayed => Settled(table', cy, ty)
    BY <2>6, <2>7, PendingSettles
  <2> QED
    BY <1>4, <2>0, <2>d, <2>4, <2>6, <2>7, <2>8, TransactionEndView DEF Client
<1> QED
  BY <1>2, <1>3, <1>4

\* gum_interceptor_replace keeps the clients' side.
LEMMA ReplaceView ==
  ASSUME IInv, VInv, NEW k \in Controller, NEW f \in Function, Replace(k, f)
  PROVE  VInv'
<1>a. PICK a : a = Resolve(f)
  OBVIOUS
<1>b. PICK c : c = Instrument(a)
  OBVIOUS
<1>c. PICK x : x = IF table[a] # 0 THEN ctx[c] ELSE NewContext(a)
  OBVIOUS
<1>d. PICK us : us = Activation(a, c)
  OBVIOUS
<1>f. PICK y : y = [x EXCEPT !.replacement = TRUE]
  OBVIOUS
<1>g. PICK cy, ty : cy = WithContext(ctx, c, y) /\ ty = [Opened EXCEPT !.updates = @ \o us]
  OBVIOUS
<1>1. CanInstrument(a) /\ client \in Client /\ client' = client
  BY <1>a DEF Replace, VInv, Client
<1>2. \/ TransactionEnd(k, ctx, Opened) /\ UNCHANGED table
      \/ c # 0 /\ table' = [table EXCEPT ![a] = c] /\ TransactionEnd(k, cy, ty)
  BY <1>a, <1>b, <1>c, <1>d, <1>f, <1>g DEF Replace, Activation, WithContext
<1>3. CASE TransactionEnd(k, ctx, Opened) /\ UNCHANGED table
  BY <1>1, <1>3, OpenedView DEF Client
<1>4. ASSUME c # 0, table' = [table EXCEPT ![a] = c], TransactionEnd(k, cy, ty)
      PROVE  VInv'
  <2>z. Replacing(f, a, c, x, y, us, cy, ty)
    BY <1>1, <1>4, <1>a, <1>b, <1>c, <1>d, <1>f, <1>g DEF Replacing
  <2>0. Midway([table EXCEPT ![a] = c], cy, ty) /\ ty.level >= 1
    BY <2>z, ReplaceMidway
  <2>1. Midway(table', cy, ty)
    BY <1>4, <2>0
  <2>c. x \in Context /\ x.arrays # <<>> /\ y \in Context /\ Enlarged(x, y)
    BY <2>z, ReplaceMidway
  <2>d. ty.dirty /\ ty.updates = txn.updates \o us
    BY <2>z, ReplaceMidway
  <2>6. DataOK(table', prologue, cy, ty, job)
    BY <2>1 DEF Midway
  <2>7. ASSUME ~client.strayed
        PROVE  Clients(table', cy, client.wanted) /\ Pending(table', prologue, ty) /\ Activations(ty, cy)
    <3>1. a = f
      BY <1>a, <2>7, ClientResolve
    <3>2. y.replacement /\ y.arrays = x.arrays
      BY <1>f, <2>c DEF Context
    <3>3. ~IsEmpty(y) /\ Taken(y) = Taken(x)
      BY <3>2 DEF IsEmpty, Taken, Entries
    <3>4. Clients(table, ctx, client.wanted)
      BY <2>7 DEF VInv
    <3>5. client.wanted[f] = Taken(x)
      <4>1. CASE table[f] # 0
        <5>1. x = ctx[table[f]]
          BY <1>b, <1>c, <3>1, <4>1 DEF Instrument
        <5> QED
          BY <3>4, <4>1, <5>1 DEF Clients
      <4>2. CASE table[f] = 0
        <5>1. x = NewContext(f) /\ client.wanted[f] = {}
          BY <1>c, <3>1, <3>4, <4>2 DEF Clients
        <5> QED
          BY <5>1, NewContextTaken
      <4> QED
        BY <4>1, <4>2
    <3>6. client.wanted[f] = Taken(y)
      BY <3>3, <3>5
    <3>7. Installing(f, c, x, y, us, cy, ty, table')
      BY <1>1, <1>4, <1>b, <1>c, <1>d, <1>g, <2>c, <2>d, <3>1, <3>3 DEF Installing
    <3> QED
      BY <2>7, <3>6, <3>7, InstalledView
  <2>8. ~client.strayed => Settled(table', cy, ty)
    BY <2>6, <2>7, PendingSettles
  <2> QED
    BY <1>1, <1>4, <2>0, <2>d, <2>6, <2>7, <2>8, TransactionEndView DEF Client
<1> QED
  BY <1>2, <1>3, <1>4

\* At the end of a transaction that only deactivates contexts E of the table,
\* the functions are as compiled for those and as before for the others.
LEMMA DeactivatedSettles ==
  ASSUME IInv, \A f \in Function : prologue[f] = table[f],
         NEW E, E \subseteq Ctx, \A c \in E : \E a \in Address : table[a] = c,
         NEW cy \in [Ctx -> Context], ContextsOK(cy), \A c \in E : cy[c].address = ctx[c].address,
         NEW ty \in Transaction, ty.updates = DeactivationsOf(E),
         NEW tb, \A f \in Function : tb[f] = IF table[f] \in E THEN 0 ELSE table[f]
  PROVE  Settled(tb, cy, ty)
<1>a. PICK us : us = DeactivationsOf(E)
  OBVIOUS
<1>1. ty.updates = us /\ DOMAIN ty.updates = 1..Len(us)
  BY <1>a, TransactionTypes, LenProperties
<1>2. /\ \A i \in 1..Len(us) : us[i].ctx \in E /\ ~us[i].activate
      /\ \A c \in E : ctx[c].activated => Member(us, [ctx |-> c, activate |-> FALSE])
  BY <1>a, DeactivationsProps
<1>3. /\ TableOK(table, ctx) /\ PrologueOK(prologue, ctx) /\ table \in [Address -> Ctx \cup {0}]
  BY DEF IInv, DataOK, Shape
<1>4. \A c \in E : c # 0 /\ cy[c].overwritten = 0
  BY BoundsAssumption DEF Ctx, ContextsOK, ContextOK
<1> SUFFICES ASSUME NEW f \in Function
             PROVE  Patched(ty, cy, f) = IF table[f] \in E THEN 0 ELSE table[f]
  BY DEF Settled
<1>5. f \in Address
  BY DEF Address
<1>6. \A i \in 1..Len(us) : cy[us[i].ctx].address = f => table[f] = us[i].ctx
  <2> SUFFICES ASSUME NEW i \in 1..Len(us), NEW c, c = us[i].ctx, cy[c].address = f
               PROVE  table[f] = c
    OBVIOUS
  <2>1. c \in E
    BY <1>2
  <2>2. PICK b \in Address : table[b] = c
    BY <2>1
  <2>3. ctx[c].address = b
    BY <1>3, <1>4, <2>1, <2>2 DEF TableOK
  <2> QED
    BY <2>1, <2>2, <2>3
<1>7. CASE table[f] \in E
  <2>a. PICK c : c = table[f]
    OBVIOUS
  <2>1. c \in E /\ c # 0 /\ prologue[f] = c /\ ctx[c].address = f
    BY <1>3, <1>4, <1>5, <1>7, <2>a DEF TableOK
  <2>2. ctx[c].activated
    BY <1>3, <1>5, <2>1 DEF PrologueOK
  <2>3. PICK i \in 1..Len(us) : us[i] = [ctx |-> c, activate |-> FALSE]
    BY <1>2, <2>1, <2>2 DEF Member
  <2>4. us[i].ctx = c /\ ~us[i].activate
    BY <2>3
  <2>5. i \in Effective(ty, cy, f)
    BY <1>1, <2>1, <2>4 DEF Effective
  <2>6. PICK j \in 1..Len(us) :
          /\ cy[us[j].ctx].address = f
          /\ \/ us[j].activate /\ ~cy[us[j].ctx].destroyed /\ Patched(ty, cy, f) = us[j].ctx
             \/ ~us[j].activate /\ Patched(ty, cy, f) = cy[us[j].ctx].overwritten
    BY <1>1, <2>5, PatchedForms
  <2>7. Patched(ty, cy, f) = 0
    BY <1>2, <1>4, <2>6
  <2> QED
    BY <1>7, <2>7
<1>8. CASE table[f] \notin E
  <2>1. Effective(ty, cy, f) = {}
    BY <1>1, <1>2, <1>6, <1>8 DEF Effective
  <2>2. Patched(ty, cy, f) = prologue[f]
    BY <2>1 DEF Patched
  <2> QED
    BY <1>8, <2>2
<1> QED
  BY <1>7, <1>8

\* Outside transactions the code is what the table says.
LEMMA OutsideView ==
  ASSUME IInv, VInv, ~client.strayed, txn.level = 0
  PROVE  /\ txn.updates = <<>> /\ \A f \in Function : prologue[f] = table[f]
         /\ \A us \in Seq(Update) : txn.updates \o us = us
<1>1. txn.updates = <<>> /\ Pending(table, prologue, txn)
  BY DEF VInv
<1>2. \A u : ~Member(txn.updates, u)
  <2>1. Len(<<>>) = 0
    BY EmptySeq
  <2> QED
    BY <1>1, <2>1 DEF Member
<1>3. \A f \in Function : prologue[f] = table[f]
  BY <1>1, <1>2 DEF Pending
<1>4. \A us \in Seq(Update) : <<>> \o us = us
  BY ConcatEmptySeq
<1> QED
  BY <1>1, <1>3, <1>4

\* gum_interceptor_detach keeps the clients' side.
LEMMA DetachView ==
  ASSUME IInv, VInv, NEW k \in Controller, NEW l \in Listener, Detach(k, l)
  PROVE  VInv'
<1>a. PICK cy : cy = WithoutListener(l)
  OBVIOUS
<1>b. PICK us : us = DeactivationsOf(Emptied(l))
  OBVIOUS
<1>c. PICK ds : ds = AllTasks(l)
  OBVIOUS
<1>d. PICK ty : ty = [Opened EXCEPT !.updates = @ \o us, !.destroys = @ \o ds]
  OBVIOUS
<1>1. table' = [a \in Address |-> IF table[a] \in Emptied(l) THEN 0 ELSE table[a]]
  BY SMTT(30) DEF Detach, Emptied, Hit
<1>2. TransactionEnd(k, cy, ty)
  BY <1>a, <1>b, <1>c, <1>d
     DEF Detach, Emptied, Hit, WithoutListener, AllTasks, DetachOrder, DetachTasks
<1>e. PICK w : w = [f \in Function |-> client.wanted[f] \ {l}]
  OBVIOUS
<1>3. client' = [wanted |-> w, strayed |-> client.strayed \/ txn.level > 0]
  BY <1>e DEF Detach
<1>4. /\ txn \in Transaction /\ ctx \in [Ctx -> Context] /\ TableOK(table, ctx) /\ ContextsOK(ctx)
      /\ txn.level \in Nat /\ table \in [Address -> Ctx \cup {0}] /\ client \in Client
  BY DEF IInv, DataOK, Shape, Transaction, VInv
<1>5. client' \in Client /\ client'.wanted = w /\ (~client'.strayed => ~client.strayed /\ txn.level = 0)
  <2>1. w \in [Function -> SUBSET Listener]
    BY <1>4, <1>e DEF Client
  <2>2. PICK b \in BOOLEAN : b <=> (client.strayed \/ txn.level > 0)
    OBVIOUS
  <2>3. client.strayed \in BOOLEAN
    BY <1>4 DEF Client
  <2>4. b = (client.strayed \/ txn.level > 0)
    BY <2>2, <2>3
  <2>5. client' = [wanted |-> w, strayed |-> b]
    BY <1>3, <2>4
  <2>6. client' \in Client /\ client'.wanted = w /\ client'.strayed = b
    BY <2>1, <2>5 DEF Client
  <2> QED
    BY <1>4, <2>2, <2>6
<1>6. us \in Seq(Update) /\ Emptied(l) \subseteq Ctx
  <2>1. Emptied(l) \subseteq Ctx
    BY DEF Emptied, Hit
  <2> QED
    BY <1>b, <2>1, DeactivationsProps
<1>7. ds \in Seq(Task)
  BY <1>c, AllTasksProps
<1>8. Extends(ty, us, ds)
  BY <1>4, <1>6, <1>7, <1>d, ExtendedForms
<1>9. Midway(WithoutDestroyed(table, cy), cy, ty) /\ ty.level >= 1
  BY <1>8, <1>a, <1>b, <1>c, DetachedMidway
<1>10. WithoutDestroyed(table, cy) = [a \in Address |-> IF table[a] \in Emptied(l) THEN 0 ELSE table[a]]
  BY <1>8, <1>a, <1>b, <1>c, DetachedMidway
<1>11. DataOK(table', prologue, cy, ty, job)
  BY <1>1, <1>9, <1>10 DEF Midway
<1>12. /\ ty \in Transaction /\ ty.dirty /\ ty.level = txn.level + 1 /\ ty.updates = txn.updates \o us
  BY <1>8 DEF Extends
<1>f. PICK H, E : H = Hit(l) /\ E = Emptied(l)
  OBVIOUS
<1>13. /\ cy \in [Ctx -> Context] /\ H \subseteq Ctx /\ E \subseteq H
       /\ \A c \in Ctx : c \notin H => cy[c] = ctx[c]
       /\ \A c \in H : Altered(ctx[c], cy[c])
  BY <1>a, <1>f, WithoutListenerProps
<1>14. \A c \in H : (\E a \in Address : table[a] = c) /\ l \in Taken(ctx[c])
  BY <1>f DEF Hit
<1>15. \A f \in Function : f \in Address /\ table'[f] = IF table[f] \in E THEN 0 ELSE table[f]
  BY <1>1, <1>f DEF Address
<1>16. ASSUME NEW c \in H
       PROVE  /\ Taken(cy[c]) = Taken(ctx[c]) \ {l}
              /\ c \in E => Taken(ctx[c]) \ {l} = {}
              /\ c \notin E => ~IsEmpty(cy[c])
  <2>a. PICK x, z : x = ctx[c] /\ z = RemoveListener(ctx[c], l)
    OBVIOUS
  <2>1. c \in Ctx /\ x.state = "live" /\ x \in Context
    BY <1>4, <1>13, <2>a DEF Altered
  <2>2. x.arrays # <<>>
    BY <1>4, <2>1, <2>a DEF ContextsOK, ContextOK
  <2>3. Taken(z) = Taken(x) \ {l}
    BY <2>1, <2>2, <2>a, RemoveListenerTaken
  <2>4. z \in Context
    BY <2>1, <2>2, <2>a, RemoveListenerProps
  <2> DEFINE b == c \in Emptied(l)
  <2>5. cy[c] = [z EXCEPT !.destroyed = b]
    BY <1>a, <1>f, <2>1, <2>a DEF WithoutListener
  <2> HIDE DEF b
  <2>6. cy[c].arrays = z.arrays /\ cy[c].replacement = z.replacement
    BY <2>4, <2>5 DEF Context
  <2>7. Taken(cy[c]) = Taken(z) /\ (IsEmpty(cy[c]) <=> IsEmpty(z))
    BY <2>6, SameClients
  <2>8. c \in E <=> IsEmpty(z)
    BY <1>f, <2>a DEF Emptied
  <2> QED
    BY <2>3, <2>7, <2>8, <2>a DEF IsEmpty
<1>17. ASSUME ~client'.strayed
       PROVE  Clients(table', cy, w) /\ Settled(table', cy, ty) /\ ~(ty.level > 1)
  <2>1. ~client.strayed /\ txn.level = 0
    BY <1>5, <1>17
  <2>2. ty.updates = us /\ \A f \in Function : prologue[f] = table[f]
    BY <1>6, <1>12, <2>1, OutsideView
  <2>3. Clients(table, ctx, client.wanted)
    BY <2>1 DEF VInv
  <2>4. Clients(table', cy, w)
    <3> SUFFICES ASSUME NEW f \in Function
                 PROVE  /\ table'[f] = 0 => w[f] = {}
                        /\ table'[f] # 0 => w[f] = Taken(cy[table'[f]]) /\ ~IsEmpty(cy[table'[f]])
      BY DEF Clients
    <3>a. PICK c : c = table[f]
      OBVIOUS
    <3>1. w[f] = client.wanted[f] \ {l} /\ c \in Ctx \cup {0}
      BY <1>4, <1>15, <1>e, <3>a
    <3>2. CASE c = 0
      <4>1. table'[f] = 0 /\ client.wanted[f] = {}
        BY <1>15, <2>3, <3>2, <3>a DEF Clients
      <4> QED
        BY <3>1, <4>1
    <3>3. CASE c # 0 /\ c \in E
      <4>1. table'[f] = 0 /\ client.wanted[f] = Taken(ctx[c]) /\ c \in H
        BY <1>13, <1>15, <2>3, <3>3, <3>a DEF Clients
      <4> QED
        BY <1>16, <3>1, <3>3, <4>1
    <3>4. CASE c # 0 /\ c \notin E
      <4>1. table'[f] = c /\ client.wanted[f] = Taken(ctx[c]) /\ ~IsEmpty(ctx[c])
        BY <1>15, <2>3, <3>4, <3>a DEF Clients
      <4>2. CASE c \in H
        BY <1>16, <3>1, <3>4, <4>1, <4>2
      <4>3. CASE c \notin H
        <5>1. c \in Ctx /\ cy[c] = ctx[c]
          BY <1>13, <3>1, <3>4, <4>3
        <5>2. l \notin Taken(ctx[c])
          BY <1>15, <1>f, <3>a, <4>3, <5>1 DEF Hit
        <5>3. Taken(ctx[c]) \ {l} = Taken(ctx[c])
          BY <5>2
        <5> QED
          BY <3>1, <3>4, <4>1, <5>1, <5>3
      <4> QED
        BY <4>2, <4>3
    <3> QED
      BY <3>2, <3>3, <3>4
  <2>5. ContextsOK(cy)
    BY <1>11 DEF DataOK
  <2>6. /\ E \subseteq Ctx /\ \A c \in E : \E a \in Address : table[a] = c
        /\ \A c \in E : cy[c].address = ctx[c].address
    BY <1>13, <1>14 DEF Altered
  <2>7. ty.updates = DeactivationsOf(E)
    BY <1>b, <1>f, <2>2
  <2>8. Settled(table', cy, ty)
    BY <1>12, <1>13, <1>15, <2>2, <2>5, <2>6, <2>7, DeactivatedSettles
  <2>9. ~(ty.level > 1)
    BY <1>12, <2>1
  <2> QED
    BY <2>4, <2>8, <2>9
<1> QED
  BY <1>2, <1>5, <1>9, <1>11, <1>12, <1>17, TransactionEndView

\* gum_interceptor_revert keeps the clients' side.
LEMMA RevertView ==
  ASSUME IInv, VInv, NEW k \in Controller, NEW f \in Function, Revert(k, f)
  PROVE  VInv'
<1>a. PICK a : a = Resolve(f)
  OBVIOUS
<1>b. PICK c : c = table[a]
  OBVIOUS
<1>c. PICK x : x = [ctx[c] EXCEPT !.replacement = FALSE]
  OBVIOUS
<1>d. PICK E : E = IF IsEmpty(x) THEN {c} ELSE {}
  OBVIOUS
<1>e. PICK y : y = [x EXCEPT !.destroyed = c \in E]
  OBVIOUS
<1>f. PICK us : us = DeactivationsOf(E)
  OBVIOUS
<1>g. PICK task : task = [kind |-> "context", ctx |-> c]
  OBVIOUS
<1>h. PICK cy, tx :
        /\ cy = WithContext(ctx, c, y)
        /\ tx = [Opened EXCEPT !.updates = @ \o us, !.destroys = IF E = {} THEN @ ELSE Append(@, task)]
  OBVIOUS
<1>1. \/ TransactionEnd(k, ctx, Opened) /\ UNCHANGED table
      \/ /\ c # 0 /\ table' = IF E = {} THEN table ELSE [table EXCEPT ![a] = 0]
         /\ TransactionEnd(k, cy, tx)
  BY <1>a, <1>b, <1>c, <1>d, <1>e, <1>f, <1>g, <1>h DEF Revert, WithContext
<1>2. client' = [client EXCEPT !.strayed = @ \/ txn.level > 0]
  BY DEF Revert
<1>3. /\ txn \in Transaction /\ ctx \in [Ctx -> Context] /\ TableOK(table, ctx) /\ ContextsOK(ctx)
      /\ txn.level \in Nat /\ table \in [Address -> Ctx \cup {0}] /\ client \in Client
  BY DEF IInv, DataOK, Shape, Transaction, VInv
<1>4. /\ client' \in Client /\ client'.wanted = client.wanted
      /\ ~client'.strayed => ~client.strayed /\ txn.level = 0
  <2>1. client.strayed \in BOOLEAN
    BY <1>3 DEF Client
  <2>2. PICK b \in BOOLEAN : b <=> (client.strayed \/ txn.level > 0)
    OBVIOUS
  <2>3. b = (client.strayed \/ txn.level > 0)
    BY <2>1, <2>2
  <2>4. client' = [client EXCEPT !.strayed = b]
    BY <1>2, <2>3
  <2>5. client' \in Client /\ client'.wanted = client.wanted /\ client'.strayed = b
    BY <1>3, <2>4 DEF Client
  <2> QED
    BY <1>3, <2>2, <2>5
<1>5. CASE TransactionEnd(k, ctx, Opened) /\ UNCHANGED table
  BY <1>4, <1>5, OpenedView
<1>6. ASSUME c # 0, table' = IF E = {} THEN table ELSE [table EXCEPT ![a] = 0], TransactionEnd(k, cy, tx)
      PROVE  VInv'
  <2>0. Reverting(f, a, c, x, E, y, us, task, cy, tx, table')
    BY <1>6, <1>a, <1>b, <1>c, <1>d, <1>e, <1>f, <1>g, <1>h DEF Reverting
  <2>1. Midway(table', cy, tx) /\ tx.level >= 1
    BY <2>0, RevertMidway
  <2>2. y \in Context /\ Stripped(ctx[c], y)
    BY <2>0, RevertMidway
  <2>3. tx.dirty /\ tx.level = txn.level + 1 /\ tx.updates = txn.updates \o us
    BY <2>0, RevertMidway
  <2>4. DataOK(table', prologue, cy, tx, job)
    BY <2>1 DEF Midway
  <2>5. ASSUME ~client'.strayed
        PROVE  Clients(table', cy, client.wanted) /\ Settled(table', cy, tx) /\ ~(tx.level > 1)
    <3>1. ~client.strayed /\ txn.level = 0
      BY <1>4, <2>5
    <3>2. a = f /\ \A g \in Function : g \in Address
      BY <1>a, <3>1, ClientResolve DEF Address
    <3>3. c \in Ctx /\ ctx[c].state = "live" /\ ctx[c].address = f /\ ctx[c] \in Context
      BY <1>3, <1>6, <1>b, <3>2 DEF TableOK
    <3>4. E \subseteq Ctx /\ (E = {c} \/ E = {}) /\ (E = {c} <=> IsEmpty(x))
      BY <1>d, <3>3
    <3>5. us \in Seq(Update)
      BY <1>f, <3>4, DeactivationsProps
    <3>6. tx.updates = us /\ \A g \in Function : prologue[g] = table[g]
      BY <2>3, <3>1, <3>5, OutsideView
    <3>7. Clients(table, ctx, client.wanted)
      BY <3>1 DEF VInv
    <3>8. cy[c] = y /\ \A d \in Ctx : d # c => cy[d] = ctx[d]
      BY <1>3, <1>h, <3>3 DEF WithContext
    <3>9. \A g \in Function : g # f /\ table[g] # 0 => table[g] \in Ctx /\ table[g] # c
      BY <1>3, <3>2, <3>3 DEF TableOK
    <3>10. \A g \in Function : table'[g] = IF table[g] \in E THEN 0 ELSE table[g]
      <4> SUFFICES ASSUME NEW g \in Function
                   PROVE  table'[g] = IF table[g] \in E THEN 0 ELSE table[g]
        OBVIOUS
      <4>1. CASE E = {}
        BY <1>6, <4>1
      <4>2. CASE E = {c}
        <5>1. table' = [table EXCEPT ![f] = 0] /\ table[f] = c
          BY <1>6, <1>b, <3>2, <4>2
        <5>2. table'[g] = IF g = f THEN 0 ELSE table[g]
          BY <1>3, <3>2, <5>1
        <5>3. g # f => table[g] \notin E
          BY <1>6, <3>9, <4>2
        <5> QED
          BY <4>2, <5>1, <5>2, <5>3
      <4> QED
        BY <3>4, <4>1, <4>2
    <3>11. Taken(x) = Taken(ctx[c]) /\ (IsEmpty(x) => Taken(x) = {})
      <4>1. x.arrays = ctx[c].arrays
        BY <1>c, <3>3 DEF Context
      <4>2. Entries(x) = Entries(ctx[c])
        BY <4>1 DEF Entries
      <4> QED
        BY <4>2 DEF Taken, IsEmpty
    <3>12. Taken(y) = Taken(x) /\ (IsEmpty(y) <=> IsEmpty(x))
      <4>1. x \in Context
        <5>1. PICK no \in BOOLEAN : no = FALSE
          OBVIOUS
        <5>2. x = [ctx[c] EXCEPT !.replacement = no]
          BY <1>c, <5>1
        <5> QED
          BY <3>3, <5>2 DEF Context
      <4>2. y.arrays = x.arrays /\ y.replacement = x.replacement
        BY <1>e, <4>1 DEF Context
      <4> QED
        BY <4>2, SameClients
    <3>13. Clients(table', cy, client.wanted)
      <4> SUFFICES ASSUME NEW g \in Function
                   PROVE  /\ table'[g] = 0 => client.wanted[g] = {}
                          /\ table'[g] # 0 => client.wanted[g] = Taken(cy[table'[g]]) /\ ~IsEmpty(cy[table'[g]])
        BY DEF Clients
      <4>1. CASE g = f
        <5>1. client.wanted[g] = Taken(x) /\ table[g] = c
          BY <1>6, <1>b, <3>2, <3>7, <3>11, <4>1 DEF Clients
        <5>2. CASE E = {c}
          BY <3>4, <3>10, <3>11, <5>1, <5>2
        <5>3. CASE E = {}
          BY <1>6, <3>4, <3>8, <3>10, <3>12, <5>1, <5>3
        <5> QED
          BY <3>4, <5>2, <5>3
      <4>2. CASE g # f
        <5>1. table'[g] = table[g]
          BY <3>4, <3>9, <3>10, <4>2
        <5>2. table[g] # 0 => cy[table[g]] = ctx[table[g]]
          BY <3>8, <3>9, <4>2
        <5> QED
          BY <3>7, <5>1, <5>2 DEF Clients
      <4> QED
        BY <4>1, <4>2
    <3>14. ContextsOK(cy) /\ cy \in [Ctx -> Context] /\ tx \in Transaction
      BY <2>4 DEF DataOK, Shape
    <3>15. /\ \A d \in E : \E b \in Address : table[b] = d
           /\ \A d \in E : cy[d].address = ctx[d].address
      BY <1>b, <2>2, <3>2, <3>4, <3>8 DEF Stripped
    <3>16. tx.updates = DeactivationsOf(E)
      BY <1>f, <3>6
    <3>17. Settled(table', cy, tx)
      BY <3>4, <3>6, <3>10, <3>14, <3>15, <3>16, DeactivatedSettles
    <3>18. ~(tx.level > 1)
      BY <2>3, <3>1
    <3> QED
      BY <3>13, <3>17, <3>18
  <2> QED
    BY <1>4, <1>6, <2>1, <2>3, <2>4, <2>5, TransactionEndView
<1> QED
  BY <1>1, <1>5, <1>6

\* Beginning, ending and flushing keep the clients' side.
LEMMA TransactionView ==
  ASSUME IInv, VInv, NEW k \in Controller, BeginTransaction(k) \/ EndTransaction(k) \/ Flush(k)
  PROVE  VInv'
<1>1. /\ txn \in Transaction /\ txn.level \in Nat /\ client \in Client
      /\ txn.level = 0 => txn.updates = <<>>
      /\ txn.updates # <<>> => txn.dirty
  BY DEF IInv, DataOK, Shape, Transaction, VInv
<1>2. ~client.strayed =>
        Clients(table, ctx, client.wanted) /\ Pending(table, prologue, txn) /\ Activations(txn, ctx)
  BY DEF VInv
<1>3. CASE BeginTransaction(k)
  <2>1. txn' = [txn EXCEPT !.level = @ + 1] /\ UNCHANGED <<table, prologue, ctx, client>>
    BY <1>3 DEF BeginTransaction
  <2>2. txn'.level = txn.level + 1 /\ txn'.dirty = txn.dirty /\ txn'.updates = txn.updates
    BY <1>1, <2>1 DEF Transaction
  <2>3. txn'.level # 0
    BY <1>1, <2>2
  <2>4. ~client'.strayed =>
          Clients(table', ctx', client'.wanted) /\ Pending(table', prologue', txn') /\ Activations(txn', ctx')
    BY <1>2, <2>1, <2>2 DEF Pending, Activations
  <2> QED
    BY <1>1, <2>1, <2>2, <2>3, <2>4 DEF VInv
<1>4. ASSUME NEW ty, SameTasks(txn, ty), ty.level >= 1, ty.dirty = txn.dirty, TransactionEnd(k, ctx, ty),
             UNCHANGED <<table, client>>
      PROVE  VInv'
  <2>1. Midway(table, ctx, ty)
    BY <1>4, InvIsMidway, SameTasksMidway
  <2>2. DataOK(table, prologue, ctx, ty, job)
    BY <2>1 DEF Midway
  <2>3. ty.updates = txn.updates
    BY <1>4 DEF SameTasks
  <2>4. ~client.strayed => Pending(table, prologue, ty) /\ Activations(ty, ctx)
    BY <1>2, <2>3 DEF Pending, Activations
  <2>5. ~client.strayed => Settled(table, ctx, ty)
    BY <2>2, <2>4, PendingSettles
  <2>6. table' = table /\ client' = client
    BY <1>4
  <2>7. DataOK(table', prologue, ctx, ty, job) /\ client' \in Client /\ (ty.updates # <<>> => ty.dirty)
    BY <1>1, <1>4, <2>2, <2>3, <2>6
  <2>8. ~client'.strayed => /\ Clients(table', ctx, client'.wanted) /\ Settled(table', ctx, ty)
                            /\ Pending(table', prologue, ty) /\ Activations(ty, ctx)
    BY <1>2, <2>4, <2>5, <2>6
  <2> QED
    BY <1>4, <2>7, <2>8, TransactionEndView
<1>5. CASE EndTransaction(k)
  <2>1. TransactionEnd(k, ctx, txn) /\ txn.level > 0 /\ UNCHANGED <<table, client>>
    BY <1>5 DEF EndTransaction
  <2>2. SameTasks(txn, txn) /\ txn.level >= 1
    BY <1>1, <2>1 DEF SameTasks
  <2> QED
    BY <1>4, <2>1, <2>2
<1>6. CASE Flush(k)
  <2>a. PICK ty : ty = [txn EXCEPT !.level = 1]
    OBVIOUS
  <2>1. TransactionEnd(k, ctx, ty) /\ UNCHANGED <<table, client>>
    BY <1>6, <2>a DEF Flush
  <2>2. SameTasks(txn, ty) /\ ty.level = 1 /\ ty.dirty = txn.dirty
    BY <1>1, <2>a DEF SameTasks, Transaction
  <2>3. ty.level >= 1
    BY <2>2
  <2> QED
    BY <1>4, <2>1, <2>2, <2>3
<1> QED
  BY <1>3, <1>5, <1>6

\* So do the destroy tasks.
LEMMA TasksView ==
  ASSUME IInv, VInv, NEW k \in Controller, EndOfTransaction(k)
  PROVE  VInv'
<1>1. txn \in Transaction /\ ctx \in [Ctx -> Context] /\ job[k].tasks \in Seq(Task) /\ JobOK(job[k], ctx)
  BY DEF IInv, DataOK, Shape, Job
<1>2. CASE TakeTask(k) \/ Relock(k) \/ Unlock(k)
  <2>1. UNCHANGED <<table, prologue, client, txn, ctx>>
    BY <1>2 DEF TakeTask, Relock, Unlock
  <2> QED
    BY <2>1, SameView
<1>3. CASE RequeueTask(k)
  <2>1. UNCHANGED <<table, prologue, client, ctx>>
    BY <1>3 DEF RequeueTask
  <2>2. txn' = [txn EXCEPT !.dirty = TRUE, !.destroys = Append(@, Head(job[k].tasks))]
    BY <1>3 DEF RequeueTask
  <2>3. txn'.level = txn.level /\ txn'.updates = txn.updates /\ txn'.dirty
    BY <1>1, <2>2 DEF Transaction
  <2> QED
    BY <2>1, <2>3, SameView
<1>4. CASE Notify(k)
  <2>a. PICK task : task = Head(job[k].tasks)
    BY Zenon
  <2>1. UNCHANGED <<table, prologue, client, txn>>
    BY <1>4, Zenon DEF Notify
  <2>2. job[k].tasks # <<>>
    BY <1>1, <1>4 DEF Notify, JobOK
  <2>3. task \in Task
    BY <1>1, <2>2, <2>a, HeadTailProperties, SMTT(30)
  <2>4. \/ ctx' = ctx
        \/ ctx' = [ctx EXCEPT ![task.ctx].freed = @ \cup {task.version}]
        \/ ctx' = [ctx EXCEPT ![task.ctx].state = "freed"]
    BY <1>4, <2>3, <2>a DEF Notify, Task
  <2>5. \A c \in Ctx : /\ ctx'[c].arrays = ctx[c].arrays /\ ctx'[c].replacement = ctx[c].replacement
                       /\ ctx'[c].destroyed = ctx[c].destroyed
    BY <1>1, <2>4 DEF Context
  <2> QED
    BY <2>1, <2>5, SameView
<1> QED
  BY <1>2, <1>3, <1>4 DEF EndOfTransaction

\* And the application's threads, which change nothing but usage counters.
LEMMA ThreadView ==
  ASSUME IInv, VInv, NEW t \in Thread,
         (\E f \in Function : Call(t, f)) \/ Ignore(t) \/ Unignore(t) \/ Proceed(t)
  PROVE  VInv'
<1>1. ctx \in [Ctx -> Context]
  BY DEF IInv, DataOK, Shape
<1>2. CASE \/ \E f \in Function : Call(t, f)
           \/ Ignore(t) \/ Unignore(t) \/ Skip(t) \/ Push(t) \/ LoadEntries(t) \/ ReadEntry(t) \/ VisitEntry(t)
           \/ CallbackReturns(t) \/ Invoke(t) \/ Return(t) \/ UseFreed(t) \/ UseFreedEntry(t)
  <2>1. UNCHANGED intercVars
    BY <1>2 DEF Call, Ignore, Unignore, Skip, Push, LoadEntries, ReadEntry, VisitEntry,
                CallbackReturns, Invoke, Return, UseFreed, UseFreedEntry
  <2>2. UNCHANGED <<table, prologue, client, txn, ctx>>
    BY <2>1 DEF intercVars
  <2> QED
    BY <2>2, SameView
<1>3. CASE Sample(t) \/ Bypass(t) \/ FinishEnter(t) \/ FinishLeave(t)
  <2>1. /\ UNCHANGED <<table, prologue, client, txn>>
        /\ ctx' = ctx \/ \E c, n : ctx' = [ctx EXCEPT ![c].usage = @ + n]
    BY <1>3 DEF Sample, Bypass, FinishEnter, FinishLeave, AddUsage
  <2>2. \A c \in Ctx : /\ ctx'[c].arrays = ctx[c].arrays /\ ctx'[c].replacement = ctx[c].replacement
                       /\ ctx'[c].destroyed = ctx[c].destroyed
    BY <1>1, <2>1 DEF Context
  <2> QED
    BY <2>1, <2>2, SameView
<1> QED
  BY <1>2, <1>3 DEF Proceed

\* At the start nobody wants anything.
LEMMA InitView ==
  ASSUME Init
  PROVE  VInv
<1>1. client = [wanted |-> [f \in Function |-> {}], strayed |-> FALSE]
  BY DEF Init
<1>2. client \in Client /\ client.wanted = [f \in Function |-> {}]
  <2>a. PICK w : w = [f \in Function |-> {}]
    OBVIOUS
  <2>1. PICK no \in BOOLEAN : no = FALSE
    OBVIOUS
  <2>2. w \in [Function -> SUBSET Listener] /\ client = [wanted |-> w, strayed |-> no]
    BY <1>1, <2>1, <2>a
  <2> QED
    BY <2>2, <2>a DEF Client
<1>3. txn.updates = <<>> /\ Len(<<>>) = 0
  BY EmptySeq DEF Init, EmptyTransaction
<1>4. \A f \in Function : table[f] = 0 /\ prologue[f] = 0 /\ client.wanted[f] = {}
  BY <1>2 DEF Init, Address
<1>5. Clients(table, ctx, client.wanted) /\ Pending(table, prologue, txn) /\ Activations(txn, ctx)
  BY <1>3, <1>4 DEF Clients, Pending, Activations
<1> QED
  BY <1>2, <1>3, <1>5 DEF VInv

\* Every step keeps the clients' side.
LEMMA NextView ==
  ASSUME IInv, VInv, [Next]_vars
  PROVE  VInv'
<1>1. CASE UNCHANGED vars
  <2>1. UNCHANGED <<table, prologue, client, txn, ctx>>
    BY <1>1 DEF vars
  <2> QED
    BY <2>1, SameView
<1>2. ASSUME NEW k \in Controller, API(k) \/ Flush(k) \/ EndOfTransaction(k)
      PROVE  VInv'
  <2>1. CASE \E f \in Function, l \in Listener : Attach(k, f, l)
    BY <2>1, AttachView
  <2>2. CASE \E l \in Listener : Detach(k, l)
    BY <2>2, DetachView
  <2>3. ASSUME NEW f \in Function, Replace(k, f) \/ Revert(k, f)
        PROVE  VInv'
    BY <2>3, ReplaceView, RevertView
  <2>4. CASE BeginTransaction(k) \/ EndTransaction(k) \/ Flush(k)
    BY <2>4, TransactionView
  <2>5. CASE EndOfTransaction(k)
    BY <2>5, TasksView
  <2> QED
    BY <1>2, <2>1, <2>2, <2>3, <2>4, <2>5 DEF API
<1>3. CASE \E t \in Thread : (\E f \in Function : Call(t, f)) \/ Ignore(t) \/ Unignore(t) \/ Proceed(t)
  BY <1>3, ThreadView
<1> QED
  BY <1>1, <1>2, <1>3 DEF Next

\* Outside transactions the clients' side is the property.
LEMMA ViewHolds ==
  ASSUME IInv, VInv
  PROVE  ClientsViewHolds
<1> SUFFICES ASSUME ~client.strayed, txn.level = 0, NEW f \in Function, NEW c, c = table[f]
             PROVE  /\ prologue[f] = c
                    /\ client.wanted[f] = IF c = 0 THEN {} ELSE Taken(ctx[c])
                    /\ c # 0 => ctx[c].activated /\ ~ctx[c].destroyed /\ ~IsEmpty(ctx[c])
  BY DEF ClientsViewHolds
<1>1. prologue[f] = c
  BY OutsideView
<1>2. Clients(table, ctx, client.wanted)
  BY DEF VInv
<1>3. TableOK(table, ctx) /\ PrologueOK(prologue, ctx) /\ f \in Address
  BY DEF IInv, DataOK, Address
<1>4. c # 0 => ctx[c].activated /\ ~ctx[c].destroyed
  BY <1>1, <1>3 DEF TableOK, PrologueOK
<1> QED
  BY <1>1, <1>2, <1>4 DEF Clients

\* What the clients were told is what the code does: outside transactions a
\* function is patched for exactly the listeners attached to it, and is as
\* compiled when there are none and no replacement, whatever the threads, the
\* destroy tasks and the other clients have done in between, as long as nobody
\* has detached or reverted while a transaction was open.
THEOREM ClientsView == Spec => []ClientsViewHolds
<1>1. Init => VInv
  BY InitView
<1>2. IInv /\ VInv /\ [Next]_vars => VInv'
  BY NextView
<1>3. IInv /\ VInv => ClientsViewHolds
  BY ViewHolds
<1> QED
  BY <1>1, <1>2, <1>3, Invariance, PTL DEF Spec

=============================================================================
