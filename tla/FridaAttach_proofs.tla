------------------------- MODULE FridaAttach_proofs -------------------------
(***************************************************************************)
(* Proofs about FridaAttach for every set of functions, threads and        *)
(* values, any number of attaches and calls and any nesting of the calls.  *)
(***************************************************************************)
EXTENDS FridaAttach, StackLemmas

-----------------------------------------------------------------------------
(* The inductive invariant.                                                *)

EntryRecord ==
  [state : {"unborn", "live", "freed"}, hook : {"none", "listener", "replace"},
   users : Seq(Id), is_overrided : BOOLEAN, user_ret : Value \cup {NoValue}]

Frame ==
  [fn : Function, entry : Id \cup {0}, hook : {"none", "listener", "replace"},
   at : {"hooked", "uprobes", "uprobe", "uretprobes", "uretprobe", "filter", "program",
         "decide", "body", "threw", "undefined"},
   users : Seq(Id), next : Nat, user : Id \cup {0}, set : Value \cup {NoValue},
   disturbed : BOOLEAN]

OpType ==
  \/ op = Idle
  \/ op \in [at : {"push"}, fn : Hookable, type : AttachType] /\ next_id \in Id
  \/ op \in [at : {"erase", "free"}, fn : Function]

Erasing(f) == op.at \in {"erase", "free"} /\ op.fn = f
Pushing(f) == op.at = "push" /\ op.fn = f

\* The users of a function's entry, if it has one.
UsersOf(f) == entry[internal_attaches[f]].users

\* Live entries are the ones of the table, each for one function, and no entry
\* was born before its time.
EntriesOK ==
  /\ \A f \in Function : internal_attaches[f] # 0 => entry[internal_attaches[f]].state = "live"
  /\ \A f, g \in Function :
       internal_attaches[f] # 0 /\ internal_attaches[f] = internal_attaches[g] => f = g
  /\ \A e \in Id : entry[e].state = "live" => \E f \in Function : internal_attaches[f] = e
  /\ \A e \in Id : e > next_id \/ (e = next_id /\ op.at # "push") => entry[e].state = "unborn"
  /\ \A f \in Function : Erasing(f) \/ Pushing(f) => internal_attaches[f] # 0

\* The two tables agree but for the function that is being erased, and an entry
\* without users is about to get one.
UsersOK ==
  /\ \A i \in DOMAIN attaches :
       /\ ~Erasing(attaches[i].fn) /\ internal_attaches[attaches[i].fn] # 0
       /\ i \in Range(UsersOf(attaches[i].fn))
  /\ \A f \in Function : internal_attaches[f] # 0 /\ ~Erasing(f) =>
       /\ IsInjective(UsersOf(f))
       /\ \A i \in Range(UsersOf(f)) : i \in DOMAIN attaches /\ attaches[i].fn = f
       /\ UsersOf(f) = <<>> => Pushing(f)

\* gum's hooks are the entries of the table until the destructor takes them back.
HooksOK ==
  \A f \in Function :
    gum[f] = IF op.at = "free" /\ op.fn = f THEN 0 ELSE internal_attaches[f]

\* The users of a replaced function are overrides.
OverridesOK ==
  \A f \in Function :
    internal_attaches[f] # 0 /\ ~Erasing(f) /\ entry[internal_attaches[f]].hook = "replace" =>
      /\ \A i \in Range(UsersOf(f)) : attaches[i].type = "override"
      /\ Pushing(f) => op.type = "override" /\ UsersOf(f) = <<>>

ManagerOK ==
  /\ TypeOK /\ entry \in [Id -> EntryRecord] /\ OpType
  /\ EntriesOK /\ UsersOK /\ HooksOK /\ OverridesOK

\* What a call knows of its entry, given the entries en and the callback c of its
\* thread: an undisturbed call in the handler is the last to have used the flag.
CallOK(fr, en, c) ==
  /\ fr \in Frame
  /\ fr.entry = 0 => fr.at = "body" /\ fr.hook = "none"
  /\ fr.entry # 0 => /\ en[fr.entry].state # "unborn"
                     /\ en[fr.entry].state = "live" => en[fr.entry].hook = fr.hook
  /\ InHandler(fr) => fr.hook = "replace"
  /\ fr.at = "hooked" => fr.set = NoValue
  /\ InHandler(fr) /\ ~fr.disturbed =>
       /\ c = fr.entry
       /\ en[fr.entry].state = "live" =>
            /\ en[fr.entry].is_overrided <=> fr.set # NoValue
            /\ en[fr.entry].is_overrided => en[fr.entry].user_ret = fr.set

\* The calls of a thread with cpu context n.  Nothing that a uprobe's program
\* calls is hooked.
StackOK(fs, en, c, n) ==
  /\ fs \in Seq(Frame) /\ Len(fs) <= MaxDepth
  /\ \A d \in 1..Len(fs) : CallOK(fs[d], en, c)
  /\ \A d \in 1..Len(fs) :
       d < Len(fs) => fs[d].at \in {"body", "program", "uprobe", "uretprobe"}
  /\ \A d, k \in 1..Len(fs) :
       d < k /\ fs[d].at \in {"uprobe", "uretprobe"} => fs[k].entry = 0
  /\ \A d \in 1..Len(fs) : fs[d].at \in {"uprobes", "uprobe"} => n = d

ThreadsOK ==
  /\ frames \in [Thread -> Seq(Frame)]
  /\ \A t \in Thread : StackOK(frames[t], entry, callback[t], cpu_context[t])

IInv == ManagerOK /\ ThreadsOK

\* Nothing is attached and nobody calls anything in the beginning.
LEMMA InitIInv == Init => IInv
<1> SUFFICES ASSUME Init PROVE IInv
  OBVIOUS
<1> USE DEF Init
<1>1. TypeOK
  <2>1. 1 \in 1..(MaxAttaches + 1) /\ 0 \in 0..MaxDepth
    BY AttachBoundsAssumption
  <2>2. DOMAIN attaches = {}
    OBVIOUS
  <2> QED
    BY <2>1, <2>2 DEF TypeOK
<1>2. NoEntry \in EntryRecord /\ NoEntry.state = "unborn"
  BY EmptySeq DEF NoEntry, EntryRecord
<1>3. entry \in [Id -> EntryRecord] /\ \A e \in Id : entry[e].state = "unborn"
  BY <1>2
<1>4. op = Idle /\ op.at = "idle"
  BY DEF Idle
<1>5. EntriesOK
  BY <1>3, <1>4 DEF EntriesOK, Erasing, Pushing
<1>6. UsersOK /\ HooksOK /\ OverridesOK
  BY <1>4 DEF UsersOK, HooksOK, OverridesOK
<1>7. ManagerOK
  BY <1>1, <1>3, <1>4, <1>5, <1>6 DEF ManagerOK, OpType
<1>8. ASSUME NEW t \in Thread
      PROVE  frames[t] \in Seq(Frame) /\ StackOK(frames[t], entry, callback[t], cpu_context[t])
  <2>1. frames[t] = <<>> /\ frames[t] \in Seq(Frame) /\ Len(frames[t]) = 0
    BY EmptySeq
  <2> QED
    BY <2>1, AttachBoundsAssumption DEF StackOK
<1> QED
  BY <1>7, <1>8 DEF IInv, ThreadsOK

-----------------------------------------------------------------------------
(* What the two sides do to each other.                                    *)

\* Threads change nothing of an entry but its flag and its value.
LEMMA ManagerStays ==
  ASSUME ManagerOK, UNCHANGED managerVars, entry' \in [Id -> EntryRecord],
         \A e \in Id : /\ entry'[e].state = entry[e].state /\ entry'[e].hook = entry[e].hook
                       /\ entry'[e].users = entry[e].users,
         callback' \in [Thread -> Id \cup {0}], cpu_context' \in [Thread -> 0..MaxDepth]
  PROVE  ManagerOK'
<1>1. UNCHANGED <<next_id, attaches, internal_attaches, gum, op>>
  BY DEF managerVars
<1>2. TypeOK' /\ OpType' /\ HooksOK'
  BY <1>1 DEF ManagerOK, TypeOK, OpType, HooksOK
<1>3. \A f \in Function : internal_attaches[f] # 0 =>
        /\ internal_attaches[f] \in Id
        /\ UsersOf(f)' = UsersOf(f)
        /\ entry'[internal_attaches[f]].state = entry[internal_attaches[f]].state
        /\ entry'[internal_attaches[f]].hook = entry[internal_attaches[f]].hook
  <2>1. internal_attaches \in [Function -> Id \cup {0}]
    BY DEF ManagerOK, TypeOK
  <2> QED
    BY <1>1, <2>1 DEF UsersOf
<1>4. \A f : (Erasing(f)' <=> Erasing(f)) /\ (Pushing(f)' <=> Pushing(f))
  BY <1>1 DEF Erasing, Pushing
<1>5. EntriesOK'
  BY <1>1, <1>3, <1>4 DEF ManagerOK, EntriesOK
<1>6. \A i \in DOMAIN attaches : attaches[i].fn \in Function
  BY HookableAssumption DEF ManagerOK, TypeOK
<1>7. UsersOK'
  BY <1>1, <1>3, <1>4, <1>6 DEF ManagerOK, UsersOK
<1>8. OverridesOK'
  BY <1>1, <1>3, <1>4 DEF ManagerOK, OverridesOK
<1> QED
  BY <1>2, <1>5, <1>7, <1>8 DEF ManagerOK

\* The attaching thread brings entries to life and frees them, and leaves the flag
\* and the value of a live one alone.
LEMMA ThreadsStay ==
  ASSUME ThreadsOK, UNCHANGED <<frames, callback, cpu_context>>,
         \A e \in Id : entry[e].state # "unborn" =>
           /\ entry'[e].state # "unborn"
           /\ entry'[e].state = "live" =>
                /\ entry[e].state = "live" /\ entry'[e].hook = entry[e].hook
                /\ entry'[e].is_overrided = entry[e].is_overrided
                /\ entry'[e].user_ret = entry[e].user_ret
  PROVE  ThreadsOK'
<1>1. ASSUME NEW fr, NEW c, CallOK(fr, entry, c)
      PROVE  CallOK(fr, entry', c)
  <2>1. fr \in Frame
    BY <1>1 DEF CallOK
  <2>2. fr.entry # 0 => fr.entry \in Id
    BY <2>1 DEF Frame
  <2>3. InHandler(fr) => fr.entry # 0
    BY <1>1 DEF CallOK, InHandler
  <2> QED
    BY <1>1, <2>2, <2>3 DEF CallOK
<1>2. ASSUME NEW t \in Thread
      PROVE  StackOK(frames[t], entry', callback[t], cpu_context[t])
  <2>1. StackOK(frames[t], entry, callback[t], cpu_context[t])
    BY DEF ThreadsOK
  <2> QED
    BY <1>1, <2>1 DEF StackOK
<1> QED
  BY <1>2 DEF ThreadsOK

-----------------------------------------------------------------------------
(* The attaching thread.                                                   *)

\* What is known when no operation is under way.
LEMMA IdleFacts ==
  ASSUME ManagerOK, op = Idle
  PROVE  /\ op.at = "idle" /\ \A f : ~Erasing(f) /\ ~Pushing(f)
         /\ gum = internal_attaches
         /\ internal_attaches \in [Function -> Id \cup {0}]
<1>1. op.at = "idle"
  BY DEF Idle
<1>2. \A f : ~Erasing(f) /\ ~Pushing(f)
  BY <1>1 DEF Erasing, Pushing
<1>3. /\ internal_attaches \in [Function -> Id \cup {0}] /\ gum \in [Function -> Id \cup {0}]
      /\ \A f \in Function : gum[f] = internal_attaches[f]
  BY <1>1 DEF ManagerOK, TypeOK, HooksOK
<1> QED
  BY <1>1, <1>2, <1>3

\* A new entry is hooked.
LEMMA NewEntryIInv ==
  ASSUME IInv, NEW f \in Function, NEW type \in AttachType, AttachAt(f, type),
         internal_attaches[f] = 0
  PROVE  IInv'
<1> DEFINE new == [NoEntry EXCEPT !.state = "live", !.hook = HookFor(type)]
<1>1. /\ op = Idle /\ next_id \in Id /\ f \in Hookable
      /\ internal_attaches' = [internal_attaches EXCEPT ![f] = next_id]
      /\ entry' = [entry EXCEPT ![next_id] = new]
      /\ gum' = [gum EXCEPT ![f] = next_id]
      /\ op' = [at |-> "push", fn |-> f, type |-> type]
      /\ UNCHANGED <<next_id, attaches, frames, callback, cpu_context>>
  BY DEF AttachAt, AttachRefused, threadVars
<1>2. /\ new \in EntryRecord /\ new.state = "live" /\ new.users = <<>>
      /\ new.hook = "replace" => type = "override"
  BY EmptySeq DEF NoEntry, EntryRecord, HookFor
<1> HIDE DEF new
<1>3. ManagerOK /\ ThreadsOK
  BY DEF IInv
<1>4. /\ op.at = "idle" /\ \A g : ~Erasing(g) /\ ~Pushing(g)
      /\ gum = internal_attaches
      /\ internal_attaches \in [Function -> Id \cup {0}]
  BY <1>1, <1>3, IdleFacts
<1>5. \A g : ~Erasing(g)' /\ (Pushing(g)' <=> g = f)
  BY <1>1 DEF Erasing, Pushing
<1>6. entry[next_id].state = "unborn" /\ 0 \notin Id
  BY <1>1, <1>3, <1>4 DEF ManagerOK, EntriesOK, Id
<1>7. entry \in [Id -> EntryRecord] /\ entry' \in [Id -> EntryRecord]
  BY <1>1, <1>2, <1>3 DEF ManagerOK
<1>8. /\ entry'[next_id] = new /\ \A e \in Id : e # next_id => entry'[e] = entry[e]
      /\ internal_attaches'[f] = next_id
      /\ \A g \in Function : g # f => internal_attaches'[g] = internal_attaches[g]
  BY <1>1, <1>4, <1>7
<1>9. \A g \in Function : internal_attaches[g] # 0 =>
        internal_attaches[g] \in Id /\ internal_attaches[g] # next_id /\ g # f
  BY <1>3, <1>4, <1>6 DEF ManagerOK, EntriesOK
<1>10. TypeOK' /\ OpType'
  <2>1. TypeOK'
    BY <1>1, <1>3, <1>4, <1>8 DEF ManagerOK, TypeOK
  <2> QED
    BY <1>1, <2>1 DEF OpType
<1>11. EntriesOK'
  <2>1. \A g \in Function : internal_attaches'[g] # 0 => entry'[internal_attaches'[g]].state = "live"
    BY <1>2, <1>3, <1>8, <1>9 DEF ManagerOK, EntriesOK
  <2>2. \A g, k \in Function :
          internal_attaches'[g] # 0 /\ internal_attaches'[g] = internal_attaches'[k] => g = k
    BY <1>3, <1>6, <1>8, <1>9 DEF ManagerOK, EntriesOK
  <2>3. \A e \in Id : entry'[e].state = "live" => \E g \in Function : internal_attaches'[g] = e
    <3> SUFFICES ASSUME NEW e \in Id, entry'[e].state = "live"
                 PROVE  \E g \in Function : internal_attaches'[g] = e
      OBVIOUS
    <3>1. CASE e = next_id
      BY <1>8, <3>1
    <3>2. CASE e # next_id
      <4>1. PICK g \in Function : internal_attaches[g] = e
        BY <1>3, <1>8, <3>2 DEF ManagerOK, EntriesOK
      <4> QED
        BY <1>6, <1>8, <1>9, <4>1
    <3> QED
      BY <3>1, <3>2
  <2>4. \A e \in Id : e > next_id => entry'[e].state = "unborn"
    BY <1>3, <1>8 DEF ManagerOK, EntriesOK, TypeOK, Id
  <2> QED
    BY <1>1, <1>5, <1>6, <1>8, <2>1, <2>2, <2>3, <2>4 DEF EntriesOK
<1>12. /\ \A g \in Function : internal_attaches[g] # 0 => UsersOf(g)' = UsersOf(g)
       /\ UsersOf(f)' = <<>>
  BY <1>2, <1>8, <1>9 DEF UsersOf
<1>13. UsersOK'
  <2>1. ASSUME NEW i \in DOMAIN attaches
        PROVE  /\ internal_attaches'[attaches[i].fn] # 0
               /\ i \in Range(UsersOf(attaches[i].fn)')
    <3>1. attaches[i].fn \in Function /\ internal_attaches[attaches[i].fn] # 0
          /\ i \in Range(UsersOf(attaches[i].fn))
      BY <1>3, HookableAssumption DEF ManagerOK, TypeOK, UsersOK
    <3>2. \A g \in Function : internal_attaches[g] # 0 =>
            internal_attaches'[g] # 0 /\ Range(UsersOf(g)') = Range(UsersOf(g))
      BY <1>8, <1>9, <1>12
    <3> QED
      BY <1>1, <3>1, <3>2
  <2>2. ASSUME NEW g \in Function, internal_attaches'[g] # 0
        PROVE  /\ IsInjective(UsersOf(g)')
               /\ \A i \in Range(UsersOf(g)') : i \in DOMAIN attaches /\ attaches[i].fn = g
               /\ UsersOf(g)' = <<>> => g = f
    <3>1. CASE g = f
      BY <1>12, <3>1 DEF IsInjective, Range
    <3>2. CASE g # f
      BY <1>3, <1>4, <1>8, <1>12, <2>2, <3>2 DEF ManagerOK, UsersOK
    <3> QED
      BY <3>1, <3>2
  <2> QED
    BY <1>1, <1>5, <2>1, <2>2 DEF UsersOK
<1>14. HooksOK'
  BY <1>1, <1>4 DEF HooksOK
<1>15. OverridesOK'
  <2> SUFFICES ASSUME NEW g \in Function, internal_attaches'[g] # 0,
                      entry'[internal_attaches'[g]].hook = "replace"
               PROVE  /\ \A i \in Range(UsersOf(g)') : attaches[i].type = "override"
                      /\ g = f => type = "override" /\ UsersOf(g)' = <<>>
    BY <1>1, <1>5 DEF OverridesOK
  <2>1. CASE g = f
    BY <1>2, <1>8, <1>12, <2>1 DEF Range
  <2>2. CASE g # f
    BY <1>3, <1>4, <1>8, <1>9, <1>12, <2>2 DEF ManagerOK, OverridesOK
  <2> QED
    BY <2>1, <2>2
<1>16. ManagerOK'
  BY <1>7, <1>10, <1>11, <1>13, <1>14, <1>15 DEF ManagerOK
<1>17. ThreadsOK'
  BY <1>1, <1>3, <1>6, <1>8, ThreadsStay
<1> QED
  BY <1>16, <1>17 DEF IInv

\* The function has an entry already.
LEMMA OldEntryIInv ==
  ASSUME IInv, NEW f \in Function, NEW type \in AttachType, AttachAt(f, type),
         internal_attaches[f] # 0
  PROVE  IInv'
<1>1. /\ op = Idle /\ next_id \in Id /\ ~HasOverride(internal_attaches[f])
      /\ op' = [at |-> "push", fn |-> f, type |-> type]
      /\ UNCHANGED <<next_id, attaches, internal_attaches, entry, gum, frames, callback, cpu_context>>
  BY DEF AttachAt, AttachRefused, threadVars
<1>2. ManagerOK /\ ThreadsOK
  BY DEF IInv
<1>3. /\ op.at = "idle" /\ \A g : ~Erasing(g) /\ ~Pushing(g)
      /\ gum = internal_attaches
      /\ internal_attaches \in [Function -> Id \cup {0}]
  BY <1>1, <1>2, IdleFacts
<1>4. \A g : ~Erasing(g)' /\ (Pushing(g)' <=> g = f)
  BY <1>1 DEF Erasing, Pushing
<1>5. \A g : UsersOf(g)' = UsersOf(g)
  BY <1>1 DEF UsersOf
<1>6. f \in Hookable
  BY <1>2 DEF ManagerOK, TypeOK
<1>7. TypeOK' /\ OpType'
  BY <1>1, <1>2, <1>6 DEF ManagerOK, TypeOK, OpType
<1>8. EntriesOK'
  BY <1>1, <1>2, <1>3, <1>4 DEF ManagerOK, EntriesOK
<1>9. UsersOK'
  BY <1>1, <1>2, <1>3, <1>4, <1>5 DEF ManagerOK, UsersOK
<1>10. HooksOK'
  BY <1>1, <1>3 DEF HooksOK
<1>11. entry[internal_attaches[f]].hook # "replace"
  <2> SUFFICES ASSUME entry[internal_attaches[f]].hook = "replace"
               PROVE  FALSE
    OBVIOUS
  <2>1. UsersOf(f) # <<>> /\ \A i \in Range(UsersOf(f)) : attaches[i].type = "override"
    BY <1>2, <1>3 DEF ManagerOK, UsersOK, OverridesOK
  <2>2. internal_attaches[f] \in Id
    BY <1>3
  <2>3. UsersOf(f) \in Seq(Id)
    BY <1>2, <2>2 DEF ManagerOK, EntryRecord, UsersOf
  <2>4. 1 \in DOMAIN UsersOf(f)
    BY <2>1, <2>3, EmptySeq, LenProperties
  <2>5. UsersOf(f)[1] \in Range(UsersOf(f))
    BY <2>4 DEF Range
  <2> QED
    BY <1>1, <2>1, <2>5 DEF HasOverride, UsersOf
<1>12. OverridesOK'
  BY <1>1, <1>2, <1>3, <1>4, <1>5, <1>11 DEF ManagerOK, OverridesOK
<1>13. ManagerOK'
  BY <1>1, <1>2, <1>7, <1>8, <1>9, <1>10, <1>12 DEF ManagerOK
<1>14. ThreadsOK'
  BY <1>1, <1>2, ThreadsStay
<1> QED
  BY <1>13, <1>14 DEF IInv

-----------------------------------------------------------------------------
(* The lists of users.                                                     *)

\* A user that is not yet in a list is put at its end.
LEMMA AppendUser ==
  ASSUME NEW s \in Seq(Id), NEW x \in Id, x \notin Range(s), IsInjective(s)
  PROVE  /\ Append(s, x) \in Seq(Id) /\ Append(s, x) # <<>>
         /\ Range(Append(s, x)) = Range(s) \cup {x} /\ IsInjective(Append(s, x))
<1> DEFINE r == Append(s, x)
<1>1. /\ r \in Seq(Id) /\ r # <<>> /\ Len(r) = Len(s) + 1 /\ r[Len(s) + 1] = x
      /\ \A i \in 1..Len(s) : r[i] = s[i]
  BY AppendProperties
<1> HIDE DEF r
<1>2. DOMAIN r = 1..(Len(s) + 1) /\ DOMAIN s = 1..Len(s) /\ Len(s) \in Nat
  BY <1>1, LenProperties
<1>3. \A i \in DOMAIN r : i \in 1..Len(s) \/ i = Len(s) + 1
  BY <1>2
<1>4. Range(r) = Range(s) \cup {x}
  BY <1>1, <1>2, <1>3 DEF Range
<1>5. \A i \in 1..Len(s) : s[i] # x
  BY <1>2 DEF Range
<1>6. IsInjective(r)
  BY <1>1, <1>2, <1>3, <1>5 DEF IsInjective
<1> QED
  BY <1>1, <1>4, <1>6 DEF r

\* One element is taken out of a list.
LEMMA RemoveAtProps ==
  ASSUME NEW s \in Seq(Id), NEW k \in 1..Len(s)
  PROVE  LET r == RemoveAt(s, k) IN
         /\ r \in Seq(Id) /\ Len(r) = Len(s) - 1
         /\ \A j \in 1..(Len(s) - 1) : r[j] = IF j < k THEN s[j] ELSE s[j + 1]
<1> DEFINE a == SubSeq(s, 1, k - 1)
           b == SubSeq(s, k + 1, Len(s))
           n == Len(s)
<1>0. n \in Nat /\ k \in Nat /\ 1 <= k /\ k <= n /\ \A i \in 1..n : s[i] \in Id
  BY LenProperties, ElementOfSeq
<1> HIDE DEF n
<1>1. k - 1 \in Nat /\ k - 1 \in Int /\ k + 1 \in Int /\ n - k \in Nat
  BY <1>0
<1>2. (\A i \in 1..(k - 1) : s[i] \in Id) /\ (\A i \in (k + 1)..n : s[i] \in Id)
  BY <1>0
<1>3. /\ a \in Seq(Id) /\ Len(a) = IF 1 <= k - 1 THEN (k - 1) - 1 + 1 ELSE 0
      /\ \A i \in 1..((k - 1) - 1 + 1) : a[i] = s[1 + i - 1]
  BY <1>1, <1>2, SubSeqProperties
<1>4. /\ b \in Seq(Id) /\ Len(b) = IF k + 1 <= n THEN n - (k + 1) + 1 ELSE 0
      /\ \A i \in 1..(n - (k + 1) + 1) : b[i] = s[(k + 1) + i - 1]
  BY <1>0, <1>1, <1>2, SubSeqProperties DEF n
<1> HIDE DEF a, b
<1>5. Len(a) = k - 1 /\ \A i \in 1..(k - 1) : a[i] = s[i]
  <2>1. Len(a) = k - 1
    BY <1>0, <1>3
  <2>2. (k - 1) - 1 + 1 = k - 1 /\ \A i \in 1..(k - 1) : 1 + i - 1 = i
    BY <1>0
  <2> QED
    BY <1>3, <2>1, <2>2
<1>6. Len(b) = n - k /\ \A i \in 1..(n - k) : b[i] = s[k + i]
  <2>1. Len(b) = n - k
    BY <1>0, <1>4
  <2>2. n - (k + 1) + 1 = n - k /\ \A i \in 1..(n - k) : (k + 1) + i - 1 = k + i
    BY <1>0
  <2> QED
    BY <1>4, <2>1, <2>2
<1>7. /\ a \o b \in Seq(Id) /\ Len(a \o b) = Len(a) + Len(b)
      /\ \A i \in 1..(Len(a) + Len(b)) : (a \o b)[i] = IF i <= Len(a) THEN a[i] ELSE b[i - Len(a)]
  BY <1>3, <1>4, ConcatProperties
<1>8. Len(a) + Len(b) = n - 1
  BY <1>0, <1>5, <1>6
<1>9. ASSUME NEW j \in 1..(n - 1)
      PROVE  (a \o b)[j] = IF j < k THEN s[j] ELSE s[j + 1]
  <2>1. CASE j < k
    <3>1. j \in 1..(k - 1) /\ j <= k - 1
      BY <1>0, <2>1
    <3> QED
      BY <1>5, <1>7, <1>8, <2>1, <3>1
  <2>2. CASE ~(j < k)
    <3>1. j - (k - 1) \in 1..(n - k) /\ ~(j <= k - 1) /\ k + (j - (k - 1)) = j + 1
      BY <1>0, <2>2
    <3>2. (a \o b)[j] = b[j - (k - 1)]
      BY <1>5, <1>7, <1>8, <3>1
    <3>3. b[j - (k - 1)] = s[k + (j - (k - 1))]
      BY <1>6, <3>1
    <3> QED
      BY <2>2, <3>1, <3>2, <3>3
  <2> QED
    BY <2>1, <2>2
<1>10. RemoveAt(s, k) = a \o b
  BY DEF RemoveAt, a, b
<1> QED
  BY <1>7, <1>8, <1>9, <1>10 DEF n

\* A user is taken out of the list that holds it once.
LEMMA RemoveUserProps ==
  ASSUME NEW s \in Seq(Id), IsInjective(s), NEW x \in Range(s)
  PROVE  LET r == RemoveUser(s, x) IN
         /\ r \in Seq(Id) /\ IsInjective(r) /\ Range(r) = Range(s) \ {x}
<1> DEFINE k == CHOOSE n \in DOMAIN s : s[n] = x
           r == RemoveAt(s, k)
<1>1. k \in DOMAIN s /\ s[k] = x
  BY DEF Range
<1>2. DOMAIN s = 1..Len(s) /\ Len(s) \in Nat
  BY LenProperties
<1>3. RemoveUser(s, x) = r
  BY DEF RemoveUser
<1> HIDE DEF k
<1>4. /\ r \in Seq(Id) /\ Len(r) = Len(s) - 1
      /\ \A j \in 1..(Len(s) - 1) : r[j] = IF j < k THEN s[j] ELSE s[j + 1]
  BY <1>1, <1>2, RemoveAtProps
<1> HIDE DEF r
<1>5. DOMAIN r = 1..(Len(s) - 1)
  BY <1>4, LenProperties
<1> DEFINE src(j) == IF j < k THEN j ELSE j + 1
<1>6. \A j \in DOMAIN r : src(j) \in DOMAIN s /\ src(j) # k /\ r[j] = s[src(j)]
  BY <1>1, <1>2, <1>4, <1>5
<1>7. \A i, j \in DOMAIN r : src(i) = src(j) => i = j
  BY <1>1, <1>2, <1>5
<1>8. \A m \in DOMAIN s : m # k => \E j \in DOMAIN r : r[j] = s[m]
  <2> SUFFICES ASSUME NEW m \in DOMAIN s, m # k
               PROVE  \E j \in DOMAIN r : r[j] = s[m]
    OBVIOUS
  <2>1. CASE m < k
    <3>1. m \in DOMAIN r /\ r[m] = s[m]
      BY <1>1, <1>2, <1>4, <1>5, <2>1
    <3> QED
      BY <3>1
  <2>2. CASE ~(m < k)
    <3>1. m - 1 \in 1..(Len(s) - 1) /\ ~(m - 1 < k) /\ (m - 1) + 1 = m
      BY <1>1, <1>2, <2>2
    <3>2. r[m - 1] = s[m]
      BY <1>4, <3>1
    <3> QED
      BY <1>5, <3>1, <3>2
  <2> QED
    BY <2>1, <2>2
<1> HIDE DEF src
<1>9. IsInjective(r)
  BY <1>6, <1>7 DEF IsInjective
<1>10. Range(r) = Range(s) \ {x}
  <2>1. \A j \in DOMAIN r : r[j] \in Range(s) /\ r[j] # x
    BY <1>1, <1>6 DEF IsInjective, Range
  <2>2. \A y \in Range(s) : y # x => y \in Range(r)
    BY <1>1, <1>8 DEF Range
  <2> QED
    BY <2>1, <2>2 DEF Range
<1> QED
  BY <1>3, <1>4, <1>9, <1>10

\* Only the empty list has no users.
LEMMA EmptyList ==
  ASSUME NEW s \in Seq(Id)
  PROVE  s = <<>> <=> Range(s) = {}
<1>1. DOMAIN s = 1..Len(s) /\ Len(s) \in Nat
  BY LenProperties
<1>2. s = <<>> => Range(s) = {}
  BY DEF Range
<1>3. s # <<>> => s[1] \in Range(s)
  BY <1>1, EmptySeq DEF Range
<1> QED
  BY <1>2, <1>3

-----------------------------------------------------------------------------
(* The attaching thread, continued.                                        *)

\* The entries' states, hooks and flags are left alone.
LEMMA EntriesStay ==
  ASSUME IInv, UNCHANGED <<internal_attaches, frames, callback, cpu_context>>,
         NEW e \in Id, NEW us \in Seq(Id), entry' = [entry EXCEPT ![e].users = us]
  PROVE  /\ entry' \in [Id -> EntryRecord]
         /\ \A x \in Id : entry'[x].state = entry[x].state /\ entry'[x].hook = entry[x].hook
         /\ entry'[e].users = us /\ \A x \in Id : x # e => entry'[x].users = entry[x].users
         /\ ThreadsOK'
<1>1. entry \in [Id -> EntryRecord] /\ ThreadsOK
  BY DEF IInv, ManagerOK
<1>2. \A x \in Id : entry'[x] = IF x = e THEN [entry[x] EXCEPT !.users = us] ELSE entry[x]
  BY <1>1
<1>3. \A x \in Id : entry[x] \in EntryRecord
  BY <1>1
<1>4. [entry[e] EXCEPT !.users = us] \in EntryRecord
  BY <1>3 DEF EntryRecord
<1>5. entry' \in [Id -> EntryRecord]
  BY <1>1, <1>2, <1>4
<1>6. \A x \in Id : /\ entry'[x].state = entry[x].state /\ entry'[x].hook = entry[x].hook
                    /\ entry'[x].is_overrided = entry[x].is_overrided
                    /\ entry'[x].user_ret = entry[x].user_ret
  BY <1>2, <1>3 DEF EntryRecord
<1>7. entry'[e].users = us /\ \A x \in Id : x # e => entry'[x].users = entry[x].users
  <2>1. entry'[e] = [entry[e] EXCEPT !.users = us] /\ entry[e] \in EntryRecord
    BY <1>2, <1>3
  <2>2. entry'[e].users = us
    BY <2>1 DEF EntryRecord
  <2> QED
    BY <1>2, <2>2
<1>8. ThreadsOK'
  BY <1>1, <1>6, ThreadsStay
<1> QED
  BY <1>5, <1>6, <1>7, <1>8

\* The new attach gets its id and its place.
LEMMA PushUserIInv ==
  ASSUME IInv, PushUser, NEW f, f = op.fn, NEW e, e = internal_attaches[f]
  PROVE  IInv'
<1> DEFINE us == Append(entry[e].users, next_id)
           rec == [fn |-> f, type |-> op.type]
<1>0. ManagerOK
  BY DEF IInv
<1>1. /\ op.at = "push" /\ next_id' = next_id + 1
      /\ attaches' = [i \in DOMAIN attaches \cup {next_id} |-> IF i = next_id THEN rec ELSE attaches[i]]
      /\ entry' = [entry EXCEPT ![e].users = us]
      /\ op' = Idle
      /\ UNCHANGED <<internal_attaches, gum, frames, callback, cpu_context>>
  BY DEF PushUser, threadVars
<1>2. op \in [at : {"push"}, fn : Hookable, type : AttachType] /\ next_id \in Id
  BY <1>0, <1>1 DEF ManagerOK, OpType, Idle
<1>3. f \in Hookable /\ f \in Function /\ rec \in [fn : Hookable, type : AttachType]
      /\ rec.fn = f /\ rec.type = op.type
  BY <1>2, HookableAssumption
<1>4. (\A g : ~Erasing(g) /\ (Pushing(g) <=> g = f)) /\ (\A g : ~Erasing(g)' /\ ~Pushing(g)')
  BY <1>1 DEF Erasing, Pushing, Idle
<1>5. internal_attaches \in [Function -> Id \cup {0}] /\ e # 0 /\ e \in Id
  BY <1>0, <1>3, <1>4 DEF ManagerOK, TypeOK, EntriesOK
<1> HIDE DEF rec
<1>6. next_id \notin DOMAIN attaches
  BY <1>0, <1>2 DEF ManagerOK, TypeOK, Id
<1>7. UsersOf(f) \in Seq(Id) /\ IsInjective(UsersOf(f)) /\ next_id \notin Range(UsersOf(f))
  <2>1. UsersOf(f) \in Seq(Id)
    BY <1>0, <1>5 DEF ManagerOK, EntryRecord, UsersOf
  <2> QED
    BY <1>0, <1>3, <1>4, <1>5, <1>6, <2>1 DEF ManagerOK, UsersOK
<1>8. us \in Seq(Id) /\ us # <<>> /\ Range(us) = Range(UsersOf(f)) \cup {next_id} /\ IsInjective(us)
  BY <1>2, <1>7, AppendUser DEF UsersOf
<1> HIDE DEF us
<1>9. /\ entry' \in [Id -> EntryRecord]
      /\ \A x \in Id : entry'[x].state = entry[x].state /\ entry'[x].hook = entry[x].hook
      /\ entry'[e].users = us /\ \A x \in Id : x # e => entry'[x].users = entry[x].users
      /\ ThreadsOK'
  BY <1>1, <1>5, <1>8, EntriesStay
<1>10. \A g \in Function : internal_attaches[g] # 0 =>
         internal_attaches[g] \in Id /\ (g # f => internal_attaches[g] # e)
  BY <1>0, <1>3, <1>5 DEF ManagerOK, EntriesOK
<1>11. /\ UsersOf(f)' = us
       /\ \A g \in Function : internal_attaches[g] # 0 /\ g # f => UsersOf(g)' = UsersOf(g)
  BY <1>1, <1>9, <1>10 DEF UsersOf
<1>12. /\ DOMAIN attaches' = DOMAIN attaches \cup {next_id} /\ attaches'[next_id] = rec
       /\ \A i \in DOMAIN attaches : attaches'[i] = attaches[i]
  BY <1>1, <1>6
<1>13. TypeOK' /\ OpType'
  <2>1. next_id' \in 1..(MaxAttaches + 1) /\ DOMAIN attaches' \subseteq 1..(next_id' - 1)
    BY <1>0, <1>1, <1>2, <1>12, AttachBoundsAssumption DEF ManagerOK, TypeOK, Id
  <2>2. \A i \in DOMAIN attaches' : attaches'[i] \in [fn : Hookable, type : AttachType]
    BY <1>0, <1>3, <1>12 DEF ManagerOK, TypeOK
  <2> QED
    BY <1>0, <1>1, <2>1, <2>2 DEF ManagerOK, TypeOK, OpType
<1>14. EntriesOK'
  <2>1. \A x \in Id : x > next_id' \/ x = next_id' => x > next_id
    BY <1>1, <1>2 DEF Id
  <2> QED
    BY <1>0, <1>1, <1>4, <1>9, <1>10, <2>1 DEF ManagerOK, EntriesOK
<1>15. UsersOK'
  <2>1. ASSUME NEW i \in DOMAIN attaches, NEW g, g = attaches[i].fn
        PROVE  internal_attaches[g] # 0 /\ i \in Range(UsersOf(g)')
    <3>1. g \in Function /\ internal_attaches[g] # 0 /\ i \in Range(UsersOf(g))
      BY <1>0, <2>1, HookableAssumption DEF ManagerOK, TypeOK, UsersOK
    <3> QED
      BY <1>8, <1>11, <3>1
  <2>2. next_id \in Range(UsersOf(f)') /\ internal_attaches[f] # 0
    BY <1>5, <1>8, <1>11
  <2>3. ASSUME NEW i \in DOMAIN attaches', NEW g, g = attaches'[i].fn
        PROVE  internal_attaches[g] # 0 /\ i \in Range(UsersOf(g)')
    <3>1. CASE i = next_id
      BY <1>3, <1>12, <2>2, <2>3, <3>1
    <3>2. CASE i # next_id
      BY <1>12, <2>1, <2>3, <3>2
    <3> QED
      BY <3>1, <3>2
  <2>4. ASSUME NEW g \in Function, internal_attaches[g] # 0
        PROVE  /\ IsInjective(UsersOf(g)')
               /\ \A i \in Range(UsersOf(g)') : i \in DOMAIN attaches' /\ attaches'[i].fn = g
               /\ UsersOf(g)' # <<>>
    <3>1. \A i \in Range(UsersOf(g)) : i \in DOMAIN attaches /\ attaches[i].fn = g
      BY <1>0, <1>4, <2>4 DEF ManagerOK, UsersOK
    <3>2. CASE g = f
      BY <1>3, <1>8, <1>11, <1>12, <3>1, <3>2
    <3>3. CASE g # f
      <4>1. IsInjective(UsersOf(g)) /\ UsersOf(g) # <<>>
        BY <1>0, <1>4, <2>4, <3>3 DEF ManagerOK, UsersOK
      <4> QED
        BY <1>11, <1>12, <2>4, <3>1, <3>3, <4>1
    <3> QED
      BY <3>2, <3>3
  <2> QED
    BY <1>1, <1>4, <2>3, <2>4, ZenonT(40) DEF UsersOK
<1>16. HooksOK'
  <2>1. op.at # "free" /\ op'.at # "free"
    BY <1>1 DEF Idle
  <2> QED
    BY <1>0, <1>1, <2>1 DEF ManagerOK, HooksOK
<1>17. OverridesOK'
  <2> SUFFICES ASSUME NEW g \in Function, internal_attaches[g] # 0,
                      entry'[internal_attaches[g]].hook = "replace"
               PROVE  \A i \in Range(UsersOf(g)') : attaches'[i].type = "override"
    BY <1>1, <1>4 DEF OverridesOK
  <2>1. entry[internal_attaches[g]].hook = "replace"
    BY <1>9, <1>10
  <2>2. CASE g = f
    <3>1. op.type = "override" /\ UsersOf(f) = <<>>
      BY <1>0, <1>4, <2>1, <2>2 DEF ManagerOK, OverridesOK
    <3>2. Range(us) = {next_id}
      <4>1. Range(UsersOf(f)) = {}
        BY <1>7, <3>1, EmptyList
      <4> QED
        BY <1>8, <4>1
    <3> QED
      BY <1>3, <1>11, <1>12, <2>2, <3>1, <3>2
  <2>3. CASE g # f
    <3>1. \A i \in Range(UsersOf(g)) : i \in DOMAIN attaches /\ attaches[i].type = "override"
      BY <1>0, <1>4, <2>1, <2>3 DEF ManagerOK, OverridesOK, UsersOK
    <3> QED
      BY <1>11, <1>12, <2>3, <3>1
  <2> QED
    BY <2>2, <2>3
<1>18. ManagerOK'
  BY <1>9, <1>13, <1>14, <1>15, <1>16, <1>17 DEF ManagerOK
<1> QED
  BY <1>9, <1>18 DEF IInv

\* An attach is taken out of both tables; without a user left, the entry goes next.
LEMMA DetachByIdIInv ==
  ASSUME IInv, NEW i \in Id, DetachById(i), NEW f, f = attaches[i].fn,
         NEW e, e = internal_attaches[f]
  PROVE  IInv'
<1> DEFINE us == RemoveUser(entry[e].users, i)
<1>0. ManagerOK
  BY DEF IInv
<1>1. /\ op = Idle /\ i \in DOMAIN attaches
      /\ entry' = [entry EXCEPT ![e].users = us]
      /\ attaches' = [j \in DOMAIN attaches \ {i} |-> attaches[j]]
      /\ op' = IF us = <<>> THEN [at |-> "erase", fn |-> f] ELSE Idle
      /\ UNCHANGED <<next_id, internal_attaches, gum, frames, callback, cpu_context>>
  BY DEF DetachById, Without, threadVars
<1>2. /\ op.at = "idle" /\ \A g : ~Erasing(g) /\ ~Pushing(g)
      /\ gum = internal_attaches
      /\ internal_attaches \in [Function -> Id \cup {0}]
  BY <1>0, <1>1, IdleFacts
<1>3. f \in Function /\ e # 0 /\ e \in Id /\ i \in Range(UsersOf(f))
  BY <1>0, <1>1, <1>2, HookableAssumption DEF ManagerOK, TypeOK, UsersOK
<1>4. UsersOf(f) \in Seq(Id) /\ IsInjective(UsersOf(f)) /\ UsersOf(f) = entry[e].users
  <2>1. UsersOf(f) \in Seq(Id)
    BY <1>0, <1>3 DEF ManagerOK, EntryRecord, UsersOf
  <2> QED
    BY <1>0, <1>2, <1>3, <2>1 DEF ManagerOK, UsersOK, UsersOf
<1>5. us \in Seq(Id) /\ IsInjective(us) /\ Range(us) = Range(UsersOf(f)) \ {i}
  BY <1>3, <1>4, RemoveUserProps
<1> HIDE DEF us
<1>6. /\ entry' \in [Id -> EntryRecord]
      /\ \A x \in Id : entry'[x].state = entry[x].state /\ entry'[x].hook = entry[x].hook
      /\ entry'[e].users = us /\ \A x \in Id : x # e => entry'[x].users = entry[x].users
      /\ ThreadsOK'
  BY <1>1, <1>3, <1>5, EntriesStay
<1>7. \A g \in Function : internal_attaches[g] # 0 =>
        internal_attaches[g] \in Id /\ (g # f => internal_attaches[g] # e)
  BY <1>0, <1>2, <1>3 DEF ManagerOK, EntriesOK
<1>8. /\ UsersOf(f)' = us
      /\ \A g \in Function : internal_attaches[g] # 0 /\ g # f => UsersOf(g)' = UsersOf(g)
  BY <1>1, <1>6, <1>7 DEF UsersOf
<1>9. /\ DOMAIN attaches' = DOMAIN attaches \ {i}
      /\ \A j \in DOMAIN attaches' : attaches'[j] = attaches[j]
  BY <1>1
<1>10. /\ op'.at = IF us = <<>> THEN "erase" ELSE "idle"
       /\ \A g : ~Pushing(g)' /\ (Erasing(g)' <=> us = <<>> /\ g = f)
  <2>1. CASE us = <<>>
    BY <1>1, <2>1 DEF Erasing, Pushing
  <2>2. CASE us # <<>>
    BY <1>1, <2>2 DEF Erasing, Pushing, Idle
  <2> QED
    BY <2>1, <2>2
<1>11. TypeOK' /\ OpType'
  <2>1. DOMAIN attaches' \subseteq 1..(next_id' - 1)
        /\ \A j \in DOMAIN attaches' : attaches'[j] \in [fn : Hookable, type : AttachType]
    BY <1>0, <1>1, <1>9 DEF ManagerOK, TypeOK
  <2>2. OpType'
    BY <1>1, <1>3 DEF OpType
  <2> QED
    BY <1>0, <1>1, <2>1, <2>2 DEF ManagerOK, TypeOK
<1>12. EntriesOK'
  BY <1>0, <1>1, <1>2, <1>3, <1>6, <1>7, <1>10 DEF ManagerOK, EntriesOK
<1>13. UsersOK'
  <2>1. ASSUME NEW j \in DOMAIN attaches', NEW g, g = attaches'[j].fn
        PROVE  internal_attaches[g] # 0 /\ j \in Range(UsersOf(g)') /\ ~Erasing(g)'
    <3>1. g \in Function /\ internal_attaches[g] # 0 /\ j \in Range(UsersOf(g)) /\ j # i
      BY <1>0, <1>9, <2>1, HookableAssumption DEF ManagerOK, TypeOK, UsersOK
    <3>2. CASE g = f
      <4>1. j \in Range(us)
        BY <1>5, <3>1, <3>2
      <4>2. us # <<>>
        BY <1>5, <4>1, EmptyList
      <4> QED
        BY <1>8, <1>10, <3>1, <3>2, <4>1, <4>2
    <3>3. CASE g # f
      BY <1>8, <1>10, <3>1, <3>3
    <3> QED
      BY <3>2, <3>3
  <2>2. ASSUME NEW g \in Function, internal_attaches[g] # 0, ~Erasing(g)'
        PROVE  /\ IsInjective(UsersOf(g)')
               /\ \A j \in Range(UsersOf(g)') : j \in DOMAIN attaches' /\ attaches'[j].fn = g
               /\ UsersOf(g)' # <<>>
    <3>1. \A j \in Range(UsersOf(g)) : j \in DOMAIN attaches /\ attaches[j].fn = g
      BY <1>0, <1>2, <2>2 DEF ManagerOK, UsersOK
    <3>2. CASE g = f
      BY <1>5, <1>8, <1>9, <1>10, <2>2, <3>1, <3>2
    <3>3. CASE g # f
      <4>1. IsInjective(UsersOf(g)) /\ UsersOf(g) # <<>>
        BY <1>0, <1>2, <2>2 DEF ManagerOK, UsersOK
      <4>2. i \notin Range(UsersOf(g))
        BY <3>1, <3>3
      <4> QED
        BY <1>8, <1>9, <2>2, <3>1, <3>3, <4>1, <4>2
    <3> QED
      BY <3>2, <3>3
  <2> QED
    BY <1>1, <2>1, <2>2, ZenonT(40) DEF UsersOK
<1>14. HooksOK'
  BY <1>1, <1>2, <1>10 DEF HooksOK
<1>15. OverridesOK'
  <2> SUFFICES ASSUME NEW g \in Function, internal_attaches[g] # 0, ~Erasing(g)',
                      entry'[internal_attaches[g]].hook = "replace"
               PROVE  \A j \in Range(UsersOf(g)') : attaches'[j].type = "override"
    BY <1>1, <1>10 DEF OverridesOK
  <2>1. entry[internal_attaches[g]].hook = "replace"
    BY <1>6, <1>7
  <2>2. \A j \in Range(UsersOf(g)) : attaches[j].type = "override"
    BY <1>0, <1>2, <2>1 DEF ManagerOK, OverridesOK
  <2>3. \A j \in Range(UsersOf(g)') : j \in DOMAIN attaches' /\ j \in Range(UsersOf(g))
    <3>1. CASE g = f
      BY <1>1, <1>5, <1>8, <1>13, <3>1 DEF UsersOK
    <3>2. CASE g # f
      BY <1>1, <1>8, <1>13, <3>2 DEF UsersOK
    <3> QED
      BY <3>1, <3>2
  <2> QED
    BY <1>9, <2>2, <2>3
<1>16. ManagerOK'
  BY <1>6, <1>11, <1>12, <1>13, <1>14, <1>15 DEF ManagerOK
<1> QED
  BY <1>6, <1>16 DEF IInv

\* All attaches of a function are taken away, and its entry goes next.
LEMMA DetachByFuncAddrIInv ==
  ASSUME IInv, NEW f \in Function, DetachByFuncAddr(f)
  PROVE  IInv'
<1> DEFINE gone == Range(UsersOf(f))
<1>0. ManagerOK /\ ThreadsOK
  BY DEF IInv
<1>1. /\ op = Idle /\ internal_attaches[f] # 0
      /\ attaches' = [j \in DOMAIN attaches \ gone |-> attaches[j]]
      /\ op' = [at |-> "erase", fn |-> f]
      /\ UNCHANGED <<next_id, internal_attaches, entry, gum, frames, callback, cpu_context>>
  BY DEF DetachByFuncAddr, Without, UsersOf, threadVars
<1>2. /\ op.at = "idle" /\ \A g : ~Erasing(g) /\ ~Pushing(g)
      /\ gum = internal_attaches
      /\ internal_attaches \in [Function -> Id \cup {0}]
  BY <1>0, <1>1, IdleFacts
<1>3. op'.at = "erase" /\ \A g : ~Pushing(g)' /\ (Erasing(g)' <=> g = f)
  BY <1>1 DEF Erasing, Pushing
<1>4. \A g : UsersOf(g)' = UsersOf(g)
  BY <1>1 DEF UsersOf
<1>5. /\ DOMAIN attaches' = DOMAIN attaches \ gone
      /\ \A j \in DOMAIN attaches' : attaches'[j] = attaches[j]
  BY <1>1
<1>6. \A j \in DOMAIN attaches : j \in gone <=> attaches[j].fn = f
  BY <1>0, <1>1, <1>2 DEF ManagerOK, UsersOK
<1> HIDE DEF gone
<1>7. TypeOK' /\ OpType'
  <2>1. DOMAIN attaches' \subseteq 1..(next_id' - 1)
        /\ \A j \in DOMAIN attaches' : attaches'[j] \in [fn : Hookable, type : AttachType]
    BY <1>0, <1>1, <1>5 DEF ManagerOK, TypeOK
  <2>2. OpType'
    BY <1>1 DEF OpType
  <2> QED
    BY <1>0, <1>1, <2>1, <2>2 DEF ManagerOK, TypeOK
<1>8. EntriesOK'
  BY <1>0, <1>1, <1>2, <1>3 DEF ManagerOK, EntriesOK
<1>9. \A g \in Function : internal_attaches[g] # 0 /\ g # f =>
        \A j \in Range(UsersOf(g)) : j \in DOMAIN attaches' /\ attaches'[j] = attaches[j]
                                     /\ attaches[j].fn = g
  BY <1>0, <1>2, <1>5, <1>6 DEF ManagerOK, UsersOK
<1>10. UsersOK'
  <2>1. ASSUME NEW j \in DOMAIN attaches', NEW g, g = attaches'[j].fn
        PROVE  internal_attaches[g] # 0 /\ j \in Range(UsersOf(g)') /\ ~Erasing(g)'
    <3>1. internal_attaches[g] # 0 /\ j \in Range(UsersOf(g)) /\ g # f
      BY <1>0, <1>5, <1>6, <2>1 DEF ManagerOK, UsersOK
    <3> QED
      BY <1>3, <1>4, <3>1
  <2>2. ASSUME NEW g \in Function, internal_attaches[g] # 0, ~Erasing(g)'
        PROVE  /\ IsInjective(UsersOf(g)') /\ UsersOf(g)' # <<>>
               /\ \A j \in Range(UsersOf(g)') : j \in DOMAIN attaches' /\ attaches'[j].fn = g
    <3>1. g # f
      BY <1>3, <2>2
    <3>2. IsInjective(UsersOf(g)) /\ UsersOf(g) # <<>>
      BY <1>0, <1>2, <2>2 DEF ManagerOK, UsersOK
    <3> QED
      BY <1>4, <1>9, <2>2, <3>1, <3>2
  <2> QED
    BY <1>1, <2>1, <2>2 DEF UsersOK
<1>11. HooksOK'
  BY <1>1, <1>2 DEF HooksOK
<1>12. OverridesOK'
  BY <1>0, <1>1, <1>2, <1>3, <1>4, <1>9 DEF ManagerOK, OverridesOK
<1>13. ManagerOK'
  BY <1>0, <1>1, <1>7, <1>8, <1>10, <1>11, <1>12 DEF ManagerOK
<1>14. ThreadsOK'
  BY <1>0, <1>1, ThreadsStay
<1> QED
  BY <1>13, <1>14 DEF IInv

\* The hook is taken back.
LEMMA UnhookIInv ==
  ASSUME IInv, Unhook, NEW f, f = op.fn
  PROVE  IInv'
<1>0. ManagerOK /\ ThreadsOK
  BY DEF IInv
<1>1. /\ op.at = "erase" /\ gum' = [gum EXCEPT ![f] = 0]
      /\ op' = [op EXCEPT !.at = "free"]
      /\ UNCHANGED <<next_id, attaches, internal_attaches, entry, frames, callback, cpu_context>>
  BY DEF Unhook, threadVars
<1>2. op \in [at : {"erase", "free"}, fn : Function]
  BY <1>0, <1>1 DEF ManagerOK, OpType, Idle
<1>3. op' \in [at : {"erase", "free"}, fn : Function] /\ op'.at = "free" /\ op'.fn = f /\ f \in Function
  BY <1>1, <1>2
<1>4. \A g : (Erasing(g)' <=> Erasing(g)) /\ ~Pushing(g)' /\ ~Pushing(g)
  BY <1>1, <1>3 DEF Erasing, Pushing
<1>5. \A g : UsersOf(g)' = UsersOf(g)
  BY <1>1 DEF UsersOf
<1>6. TypeOK' /\ OpType'
  BY <1>0, <1>1, <1>3 DEF ManagerOK, TypeOK, OpType
<1>7. EntriesOK'
  BY <1>0, <1>1, <1>3, <1>4 DEF ManagerOK, EntriesOK
<1>8. UsersOK'
  BY <1>0, <1>1, <1>4, <1>5 DEF ManagerOK, UsersOK
<1>9. HooksOK'
  <2>1. gum \in [Function -> Id \cup {0}] /\ \A g \in Function : gum[g] = internal_attaches[g]
    BY <1>0, <1>1 DEF ManagerOK, TypeOK, HooksOK
  <2> QED
    BY <1>1, <1>3, <2>1 DEF HooksOK
<1>10. OverridesOK'
  BY <1>0, <1>1, <1>4, <1>5 DEF ManagerOK, OverridesOK
<1>11. ManagerOK'
  BY <1>0, <1>1, <1>6, <1>7, <1>8, <1>9, <1>10 DEF ManagerOK
<1>12. ThreadsOK'
  BY <1>0, <1>1, ThreadsStay
<1> QED
  BY <1>11, <1>12 DEF IInv

\* The entry is freed, whoever holds it.
LEMMA FreeEntryIInv ==
  ASSUME IInv, FreeEntry, NEW f, f = op.fn, NEW e, e = internal_attaches[f]
  PROVE  IInv'
<1> DEFINE dead == [NoEntry EXCEPT !.state = "freed"]
<1>0. ManagerOK /\ ThreadsOK
  BY DEF IInv
<1>1. /\ op.at = "free" /\ entry' = [entry EXCEPT ![e] = dead]
      /\ internal_attaches' = [internal_attaches EXCEPT ![f] = 0]
      /\ op' = Idle
      /\ UNCHANGED <<next_id, attaches, gum, frames, callback, cpu_context>>
  BY DEF FreeEntry, threadVars
<1>2. dead \in EntryRecord /\ dead.state = "freed"
  BY EmptySeq DEF NoEntry, EntryRecord
<1> HIDE DEF dead
<1>3. f \in Function
  BY <1>0, <1>1 DEF ManagerOK, OpType, Idle
<1>4. /\ \A g : (Erasing(g) <=> g = f) /\ ~Pushing(g) /\ ~Erasing(g)' /\ ~Pushing(g)'
      /\ op'.at = "idle"
  BY <1>1 DEF Erasing, Pushing, Idle
<1>5. internal_attaches \in [Function -> Id \cup {0}] /\ e # 0 /\ e \in Id
  BY <1>0, <1>3, <1>4 DEF ManagerOK, TypeOK, EntriesOK
<1>6. entry \in [Id -> EntryRecord] /\ entry' \in [Id -> EntryRecord]
  BY <1>0, <1>1, <1>2 DEF ManagerOK
<1>7. /\ entry'[e] = dead /\ \A x \in Id : x # e => entry'[x] = entry[x]
      /\ internal_attaches'[f] = 0
      /\ \A g \in Function : g # f => internal_attaches'[g] = internal_attaches[g]
  BY <1>1, <1>3, <1>5, <1>6
<1>8. \A g \in Function : internal_attaches'[g] # 0 =>
        /\ g # f /\ internal_attaches'[g] = internal_attaches[g]
        /\ internal_attaches[g] \in Id /\ internal_attaches[g] # e
  BY <1>0, <1>3, <1>5, <1>7 DEF ManagerOK, EntriesOK
<1>9. entry[e].state = "live"
  BY <1>0, <1>3, <1>5 DEF ManagerOK, EntriesOK
<1>10. TypeOK' /\ OpType'
  BY <1>0, <1>1, <1>5, <1>7 DEF ManagerOK, TypeOK, OpType
<1>11. EntriesOK'
  <2>1. \A x \in Id : entry'[x].state = "live" => \E g \in Function : internal_attaches'[g] = x
    <3> SUFFICES ASSUME NEW x \in Id, entry'[x].state = "live"
                 PROVE  \E g \in Function : internal_attaches'[g] = x
      OBVIOUS
    <3>1. x # e /\ entry[x].state = "live"
      BY <1>2, <1>7
    <3>2. PICK g \in Function : internal_attaches[g] = x
      BY <1>0, <3>1 DEF ManagerOK, EntriesOK
    <3> QED
      BY <1>7, <3>1, <3>2
  <2>2. \A x \in Id : x > next_id \/ x = next_id => entry'[x].state = "unborn"
    BY <1>0, <1>1, <1>7, <1>9 DEF ManagerOK, EntriesOK
  <2>3. \A g \in Function : internal_attaches'[g] # 0 => entry'[internal_attaches'[g]].state = "live"
    BY <1>0, <1>7, <1>8 DEF ManagerOK, EntriesOK
  <2>4. \A g, k \in Function :
          internal_attaches'[g] # 0 /\ internal_attaches'[g] = internal_attaches'[k] => g = k
    BY <1>0, <1>8 DEF ManagerOK, EntriesOK
  <2> QED
    BY <1>1, <1>4, <2>1, <2>2, <2>3, <2>4 DEF EntriesOK
<1>12. \A g \in Function : internal_attaches'[g] # 0 =>
         /\ UsersOf(g)' = UsersOf(g)
         /\ entry'[internal_attaches'[g]].hook = entry[internal_attaches[g]].hook
  BY <1>7, <1>8 DEF UsersOf
<1>13. UsersOK'
  <2>1. ASSUME NEW j \in DOMAIN attaches, NEW g, g = attaches[j].fn
        PROVE  internal_attaches'[g] # 0 /\ j \in Range(UsersOf(g)')
    <3>1. g \in Function /\ g # f /\ internal_attaches[g] # 0 /\ j \in Range(UsersOf(g))
      BY <1>0, <1>4, <2>1, HookableAssumption DEF ManagerOK, TypeOK, UsersOK
    <3> QED
      BY <1>7, <1>12, <3>1
  <2>2. ASSUME NEW g \in Function, internal_attaches'[g] # 0
        PROVE  /\ IsInjective(UsersOf(g)')
               /\ \A j \in Range(UsersOf(g)') : j \in DOMAIN attaches /\ attaches[j].fn = g
               /\ UsersOf(g)' # <<>>
    BY <1>0, <1>4, <1>8, <1>12, <2>2 DEF ManagerOK, UsersOK
  <2> QED
    BY <1>1, <1>4, <2>1, <2>2 DEF UsersOK
<1>14. HooksOK'
  BY <1>0, <1>1, <1>3, <1>4, <1>7 DEF ManagerOK, HooksOK
<1>15. OverridesOK'
  BY <1>0, <1>1, <1>4, <1>8, <1>12 DEF ManagerOK, OverridesOK
<1>16. ManagerOK'
  BY <1>6, <1>10, <1>11, <1>13, <1>14, <1>15 DEF ManagerOK
<1>17. ThreadsOK'
  BY <1>0, <1>1, <1>2, <1>7, ThreadsStay
<1> QED
  BY <1>16, <1>17 DEF IInv

-----------------------------------------------------------------------------
(* A thread's stack of calls.                                              *)

\* A call begins.
LEMMA PushOK ==
  ASSUME NEW fs, NEW en, NEW c, NEW n, StackOK(fs, en, c, n), Len(fs) < MaxDepth,
         NEW fr, CallOK(fr, en, c), fr.at \in {"body", "hooked"},
         fs # <<>> => Last(fs).at \in {"body", "program", "uprobe", "uretprobe"},
         \A d \in DOMAIN fs : fs[d].at \in {"uprobe", "uretprobe"} => fr.entry = 0
  PROVE  StackOK(Append(fs, fr), en, c, n)
<1> DEFINE new == Append(fs, fr)
<1>1. fs \in Seq(Frame) /\ fr \in Frame
  BY DEF StackOK, CallOK
<1>2. /\ new \in Seq(Frame) /\ Len(new) = Len(fs) + 1 /\ new[Len(fs) + 1] = fr
      /\ \A i \in 1..Len(fs) : new[i] = fs[i]
  BY <1>1, PushProps
<1> HIDE DEF new
<1>3. Len(fs) \in Nat /\ DOMAIN fs = 1..Len(fs)
  BY <1>1, LenProperties
<1>4. \A i \in 1..Len(new) : i = Len(fs) + 1 \/ i \in 1..Len(fs)
  BY <1>2, <1>3
<1>5. Len(new) <= MaxDepth
  BY <1>2, <1>3, AttachBoundsAssumption
<1>6. \A d \in 1..Len(new) : CallOK(new[d], en, c)
  BY <1>2, <1>4 DEF StackOK
<1>7. ASSUME NEW d \in 1..Len(new), d < Len(new)
      PROVE  new[d].at \in {"body", "program", "uprobe", "uretprobe"}
  <2>1. d \in 1..Len(fs) /\ new[d] = fs[d]
    BY <1>2, <1>3, <1>7
  <2>2. CASE d < Len(fs)
    BY <2>1, <2>2 DEF StackOK
  <2>3. CASE d = Len(fs)
    <3>1. fs # <<>> /\ Last(fs) = fs[d]
      BY <1>3, <2>1, <2>3, EmptySeq DEF Last
    <3> QED
      BY <2>1, <3>1
  <2> QED
    BY <1>3, <2>1, <2>2, <2>3
<1>8. ASSUME NEW d \in 1..Len(new), NEW k \in 1..Len(new), d < k,
             new[d].at \in {"uprobe", "uretprobe"}
      PROVE  new[k].entry = 0
  <2>1. d \in 1..Len(fs) /\ new[d] = fs[d]
    BY <1>2, <1>3, <1>8
  <2>2. CASE k = Len(fs) + 1
    BY <1>2, <1>3, <1>8, <2>1, <2>2
  <2>3. CASE k \in 1..Len(fs)
    BY <1>2, <1>8, <2>1, <2>3 DEF StackOK
  <2> QED
    BY <1>4, <2>2, <2>3
<1>9. \A d \in 1..Len(new) : new[d].at \in {"uprobes", "uprobe"} => n = d
  BY <1>2, <1>4 DEF StackOK
<1> QED
  BY <1>2, <1>5, <1>6, <1>7, <1>8, <1>9 DEF StackOK, new

\* The innermost call moves on.
LEMMA TopOK ==
  ASSUME NEW fs, NEW en, NEW c, NEW n, StackOK(fs, en, c, n), fs # <<>>,
         NEW fr, CallOK(fr, en, c), fr.entry = Last(fs).entry,
         NEW m, fr.at \in {"uprobes", "uprobe"} => m = Len(fs), m = n \/ Last(fs).entry # 0
  PROVE  StackOK(Append(Front(fs), fr), en, c, m)
<1> DEFINE new == Append(Front(fs), fr)
<1>1. fs \in Seq(Frame) /\ fr \in Frame
  BY DEF StackOK, CallOK
<1>2. /\ new \in Seq(Frame) /\ Len(new) = Len(fs) /\ new[Len(fs)] = fr
      /\ \A i \in 1..(Len(fs) - 1) : new[i] = fs[i]
  BY <1>1, SetTopProps
<1> HIDE DEF new
<1>3. Len(fs) \in Nat \ {0} /\ Last(fs) = fs[Len(fs)]
  BY <1>1, FrontProps
<1>4. \A i \in 1..Len(fs) : i = Len(fs) \/ (i \in 1..(Len(fs) - 1) /\ i < Len(fs))
  BY <1>3
<1>5. \A d \in 1..Len(new) : CallOK(new[d], en, c)
  BY <1>2, <1>4 DEF StackOK
<1>6. \A d \in 1..Len(new) : d < Len(new) => new[d] = fs[d] /\ d \in 1..Len(fs)
  BY <1>2, <1>4
<1>7. ASSUME NEW d \in 1..Len(new), NEW k \in 1..Len(new), d < k,
             new[d].at \in {"uprobe", "uretprobe"}
      PROVE  new[k].entry = 0
  <2>1. d < Len(fs) /\ d \in 1..Len(fs) /\ new[d] = fs[d] /\ k \in 1..Len(fs)
    BY <1>2, <1>3, <1>4, <1>7
  <2>2. fs[k].entry = 0
    BY <1>7, <2>1 DEF StackOK
  <2> QED
    BY <1>2, <1>3, <1>4, <2>1, <2>2
<1>8. ASSUME NEW d \in 1..Len(new), new[d].at \in {"uprobes", "uprobe"}
      PROVE  m = d
  <2>1. CASE d = Len(fs)
    BY <1>2, <1>8, <2>1
  <2>2. CASE d # Len(fs)
    <3>1. d \in 1..Len(fs) /\ d < Len(fs) /\ fs[d] = new[d]
      BY <1>2, <1>4, <2>2
    <3>2. fs[d].at = "uprobe" /\ n = d
      BY <1>8, <3>1 DEF StackOK
    <3>3. Len(fs) \in 1..Len(fs)
      BY <1>3
    <3>4. Last(fs).entry = 0
      BY <1>3, <3>1, <3>2, <3>3 DEF StackOK
    <3> QED
      BY <3>2, <3>4
  <2> QED
    BY <2>1, <2>2
<1>9. \A d \in 1..Len(new) : d < Len(new) => new[d].at \in {"body", "program", "uprobe", "uretprobe"}
  BY <1>2, <1>6 DEF StackOK
<1>10. Len(new) <= MaxDepth
  BY <1>2 DEF StackOK
<1> QED
  BY <1>2, <1>5, <1>7, <1>8, <1>9, <1>10 DEF StackOK, new

\* The innermost call returns.
LEMMA PopOK ==
  ASSUME NEW fs, NEW en, NEW c, NEW n, StackOK(fs, en, c, n), fs # <<>>
  PROVE  StackOK(Front(fs), en, c, n)
<1> DEFINE new == Front(fs)
<1>1. fs \in Seq(Frame)
  BY DEF StackOK
<1>2. /\ new \in Seq(Frame) /\ Len(new) = Len(fs) - 1 /\ Len(fs) \in Nat \ {0}
      /\ \A i \in 1..(Len(fs) - 1) : new[i] = fs[i]
  BY <1>1, FrontProps
<1> HIDE DEF new
<1>3. \A i \in 1..Len(new) : i \in 1..Len(fs) /\ i < Len(fs) /\ new[i] = fs[i]
  BY <1>2
<1>4. Len(new) <= MaxDepth
  <2>1. Len(fs) <= MaxDepth
    BY DEF StackOK
  <2> QED
    BY <1>2, <2>1, AttachBoundsAssumption
<1>5. \A d \in 1..Len(new) : /\ CallOK(new[d], en, c)
                            /\ new[d].at \in {"body", "program", "uprobe", "uretprobe"}
                            /\ new[d].at \in {"uprobes", "uprobe"} => n = d
  BY <1>3 DEF StackOK
<1>6. \A d, k \in 1..Len(new) : d < k /\ new[d].at \in {"uprobe", "uretprobe"} => new[k].entry = 0
  BY <1>3 DEF StackOK
<1> QED
  BY <1>2, <1>4, <1>5, <1>6 DEF StackOK, new

\* A step that concerns one thread's calls and its cpu context only.
LEMMA LocalStep ==
  ASSUME IInv, NEW t \in Thread, UNCHANGED <<managerVars, entry, callback>>,
         NEW fs, frames' = [frames EXCEPT ![t] = fs],
         NEW n \in 0..MaxDepth, cpu_context' = [cpu_context EXCEPT ![t] = n],
         StackOK(fs, entry, callback[t], n)
  PROVE  IInv'
<1>1. ManagerOK /\ ThreadsOK
  BY DEF IInv
<1>2. frames \in [Thread -> Seq(Frame)] /\ cpu_context \in [Thread -> 0..MaxDepth]
      /\ callback \in [Thread -> Id \cup {0}] /\ entry \in [Id -> EntryRecord]
  BY <1>1 DEF ManagerOK, TypeOK, ThreadsOK
<1>3. cpu_context' \in [Thread -> 0..MaxDepth]
  BY <1>2
<1>4. ManagerOK'
  BY <1>1, <1>2, <1>3, ManagerStays
<1>5. fs \in Seq(Frame)
  BY DEF StackOK
<1>6. frames' \in [Thread -> Seq(Frame)]
  BY <1>2, <1>5
<1>7. \A u \in Thread : StackOK(frames'[u], entry', callback'[u], cpu_context'[u])
  <2> TAKE u \in Thread
  <2>1. CASE u = t
    BY <1>2, <2>1
  <2>2. CASE u # t
    BY <1>1, <1>2, <2>2 DEF ThreadsOK
  <2> QED
    BY <2>1, <2>2
<1> QED
  BY <1>4, <1>6, <1>7 DEF IInv, ThreadsOK

\* What is known of the innermost call of a thread.
LEMMA TopFacts ==
  ASSUME IInv, NEW t \in Thread, At(t) # "out"
  PROVE  /\ frames[t] \in Seq(Frame) /\ frames[t] # <<>> /\ At(t) = Top(t).at
         /\ StackOK(frames[t], entry, callback[t], cpu_context[t])
         /\ CallOK(Top(t), entry, callback[t]) /\ Top(t) \in Frame
         /\ Depth(t) \in 1..MaxDepth /\ DOMAIN frames[t] = 1..Depth(t)
         /\ Top(t) = frames[t][Depth(t)]
<1>1. frames[t] # <<>> /\ At(t) = Top(t).at
  BY DEF At
<1>2. frames[t] \in Seq(Frame) /\ StackOK(frames[t], entry, callback[t], cpu_context[t])
  BY DEF IInv, ThreadsOK
<1>3. Len(frames[t]) \in Nat \ {0} /\ Last(frames[t]) = frames[t][Len(frames[t])]
      /\ Last(frames[t]) \in Frame
  BY <1>1, <1>2, FrontProps
<1>4. Len(frames[t]) <= MaxDepth
  BY <1>2 DEF StackOK
<1>5. Len(frames[t]) \in 1..MaxDepth /\ Len(frames[t]) \in 1..Len(frames[t])
  BY <1>3, <1>4, AttachBoundsAssumption
<1>6. CallOK(Last(frames[t]), entry, callback[t])
  BY <1>2, <1>3, <1>5 DEF StackOK
<1>7. DOMAIN frames[t] = 1..Len(frames[t])
  BY <1>2, LenProperties
<1> QED
  BY <1>1, <1>2, <1>3, <1>5, <1>6, <1>7 DEF Top, Depth

\* The innermost call of a thread moves on, with a new cpu context.
LEMMA TopStep ==
  ASSUME IInv, NEW t \in Thread, At(t) # "out", UNCHANGED <<managerVars, entry, callback>>,
         NEW fr, CallOK(fr, entry, callback[t]), fr.entry = Top(t).entry, SetTop(t, fr),
         NEW n \in 0..MaxDepth, cpu_context' = [cpu_context EXCEPT ![t] = n],
         fr.at \in {"uprobes", "uprobe"} => n = Depth(t),
         n = cpu_context[t] \/ Top(t).entry # 0
  PROVE  IInv'
<1>1. frames[t] # <<>> /\ StackOK(frames[t], entry, callback[t], cpu_context[t])
  BY TopFacts
<1>2. StackOK(Append(Front(frames[t]), fr), entry, callback[t], n)
  BY <1>1, TopOK DEF Top, Depth
<1>3. frames' = [frames EXCEPT ![t] = Append(Front(frames[t]), fr)]
  BY DEF SetTop
<1> QED
  BY <1>2, <1>3, LocalStep

\* A cpu context that is left alone.
LEMMA SameContext ==
  ASSUME IInv, NEW t \in Thread, UNCHANGED cpu_context
  PROVE  cpu_context[t] \in 0..MaxDepth /\ cpu_context' = [cpu_context EXCEPT ![t] = cpu_context[t]]
<1>1. cpu_context \in [Thread -> 0..MaxDepth]
  BY DEF IInv, ManagerOK, TypeOK
<1> QED
  BY <1>1

\* The innermost call moves on and the cpu context stays.
LEMMA QuietTopStep ==
  ASSUME IInv, NEW t \in Thread, At(t) # "out", UNCHANGED <<managerVars, entry, callback, cpu_context>>,
         NEW fr, CallOK(fr, entry, callback[t]), fr.entry = Top(t).entry, SetTop(t, fr),
         fr.at \in {"uprobes", "uprobe"} => At(t) \in {"uprobes", "uprobe"}
  PROVE  IInv'
<1>1. cpu_context[t] \in 0..MaxDepth /\ cpu_context' = [cpu_context EXCEPT ![t] = cpu_context[t]]
  BY SameContext
<1>2. At(t) \in {"uprobes", "uprobe"} => cpu_context[t] = Depth(t)
  <2>1. /\ StackOK(frames[t], entry, callback[t], cpu_context[t]) /\ At(t) = Top(t).at
        /\ Top(t) = frames[t][Depth(t)] /\ Depth(t) \in 1..MaxDepth
    BY TopFacts
  <2>2. Depth(t) \in 1..Len(frames[t])
    BY <2>1, AttachBoundsAssumption DEF Depth
  <2> QED
    BY <2>1, <2>2 DEF StackOK
<1> QED
  BY <1>1, <1>2, TopStep

\* The innermost call returns.
LEMMA PopStep ==
  ASSUME IInv, NEW t \in Thread, At(t) # "out", UNCHANGED <<managerVars, entry, callback, cpu_context>>,
         PopFrame(t)
  PROVE  IInv'
<1>1. cpu_context[t] \in 0..MaxDepth /\ cpu_context' = [cpu_context EXCEPT ![t] = cpu_context[t]]
  BY SameContext
<1>2. frames[t] # <<>> /\ StackOK(frames[t], entry, callback[t], cpu_context[t])
  BY TopFacts
<1>3. StackOK(Front(frames[t]), entry, callback[t], cpu_context[t])
  BY <1>2, PopOK
<1>4. frames' = [frames EXCEPT ![t] = Front(frames[t])]
  BY DEF PopFrame
<1> QED
  BY <1>1, <1>3, <1>4, LocalStep

\* A frame that knows its entry.
LEMMA NewFrameOK ==
  ASSUME IInv, NEW f \in Function, NEW e \in Id \cup {0}, NEW where \in {"body", "hooked"},
         e = 0 => where = "body", e # 0 => entry[e].state = "live", NEW c
  PROVE  LET fr == NewFrame(f, e, where) IN
         CallOK(fr, entry, c) /\ fr.entry = e /\ fr.at = where
<1> DEFINE fr == NewFrame(f, e, where)
           h == IF e = 0 THEN "none" ELSE entry[e].hook
<1>1. h \in {"none", "listener", "replace"}
  BY DEF IInv, ManagerOK, EntryRecord
<1>2. fr = [fn |-> f, entry |-> e, hook |-> h, at |-> where, users |-> <<>>, next |-> 1, user |-> 0,
            set |-> NoValue, disturbed |-> FALSE]
  BY DEF NewFrame
<1> HIDE DEF h
<1>3. fr \in Frame
  BY <1>1, <1>2, EmptySeq DEF Frame
<1>4. fr.entry = e /\ fr.at = where /\ fr.hook = h /\ fr.set = NoValue
  BY <1>2
<1>5. ~InHandler(fr)
  BY <1>4 DEF InHandler
<1> HIDE DEF fr
<1> QED
  BY <1>3, <1>4, <1>5 DEF CallOK, h, fr

-----------------------------------------------------------------------------
(* The threads' steps.                                                     *)

\* A call begins, in the function itself or in its hook.
LEMMA BeginCallIInv ==
  ASSUME IInv, NEW t \in Thread, NEW f \in Function,
         CallOriginal(t, f) \/ CallUnsampled(t, f) \/ CallHooked(t, f)
  PROVE  IInv'
<1>1. PICK e \in Id \cup {0}, where \in {"body", "hooked"} :
        /\ BeginCall(t, NewFrame(f, e, where))
        /\ e = 0 => where = "body"
        /\ e # 0 => e = gum[f] /\ ~Bypasses(t, f)
  <2>1. gum \in [Function -> Id \cup {0}]
    BY DEF IInv, ManagerOK, TypeOK
  <2>2. CASE CallOriginal(t, f) \/ CallUnsampled(t, f)
    BY <2>2 DEF CallOriginal, CallUnsampled
  <2>3. CASE CallHooked(t, f)
    BY <2>1, <2>3 DEF CallHooked
  <2> QED
    BY <2>2, <2>3
<1> DEFINE fr == NewFrame(f, e, where)
<1>2. e # 0 => entry[e].state = "live"
  BY <1>1 DEF IInv, ManagerOK, HooksOK, EntriesOK
<1>3. CallOK(fr, entry, callback[t]) /\ fr.entry = e /\ fr.at = where
  BY <1>1, <1>2, NewFrameOK
<1> HIDE DEF fr
<1>4. /\ Len(frames[t]) < MaxDepth /\ At(t) \in {"out", "body", "program", "uprobe", "uretprobe"}
      /\ frames' = [frames EXCEPT ![t] = Append(frames[t], fr)]
      /\ UNCHANGED <<managerVars, entry, callback, cpu_context>>
  BY <1>1 DEF BeginCall, Depth, fr
<1>5. StackOK(frames[t], entry, callback[t], cpu_context[t])
  BY DEF IInv, ThreadsOK
<1>6. frames[t] # <<>> => Last(frames[t]).at \in {"body", "program", "uprobe", "uretprobe"}
  <2> SUFFICES ASSUME frames[t] # <<>>
               PROVE  Last(frames[t]).at \in {"body", "program", "uprobe", "uretprobe"}
    OBVIOUS
  <2>1. At(t) = Last(frames[t]).at
    BY DEF At, Top
  <2>2. Last(frames[t]) \in Frame
    BY <1>5, FrontProps DEF StackOK
  <2>3. Last(frames[t]).at # "out"
    BY <2>2 DEF Frame
  <2> QED
    BY <1>4, <2>1, <2>3
<1>7. ASSUME NEW d \in DOMAIN frames[t], frames[t][d].at \in {"uprobe", "uretprobe"}
      PROVE  fr.entry = 0
  <2>1. d \in 1..Len(frames[t])
    BY <1>5, LenProperties DEF StackOK
  <2>2. frames[t][d].entry # 0
    BY <1>5, <1>7, <2>1 DEF StackOK, CallOK
  <2>3. Bypasses(t, f)
    BY <1>7, <2>2 DEF Bypasses
  <2> QED
    BY <1>1, <1>3, <2>3
<1>8. StackOK(Append(frames[t], fr), entry, callback[t], cpu_context[t])
  BY <1>3, <1>4, <1>5, <1>6, <1>7, PushOK
<1>9. cpu_context[t] \in 0..MaxDepth /\ cpu_context' = [cpu_context EXCEPT ![t] = cpu_context[t]]
  BY <1>4, SameContext
<1> QED
  BY <1>4, <1>8, <1>9, LocalStep

\* What a call does with its own frame does not change what it knows of its entry.
LEMMA MovedFrameOK ==
  ASSUME NEW fr, NEW en, NEW c, CallOK(fr, en, c), fr.entry # 0,
         NEW fr2 \in Frame, fr2.entry = fr.entry, fr2.hook = fr.hook,
         fr2.at # "hooked",
         InHandler(fr2) => InHandler(fr) /\ fr2.set = fr.set /\ fr2.disturbed = fr.disturbed
  PROVE  CallOK(fr2, en, c)
  BY DEF CallOK

\* The process is lost.
LEMMA GoneWrongIInv ==
  ASSUME IInv, NEW t \in Thread, GoneWrong(t)
  PROVE  IInv'
<1> DEFINE fr2 == [Top(t) EXCEPT !.at = "undefined"]
<1>1. /\ At(t) \in {"hooked", "decide", "filter", "uprobes", "uretprobes", "uprobe", "uretprobe", "program"}
      /\ SetTop(t, fr2) /\ UNCHANGED <<managerVars, entry, callback, cpu_context>>
  BY DEF GoneWrong, MoveTo
<1>2. CallOK(Top(t), entry, callback[t]) /\ Top(t) \in Frame /\ At(t) = Top(t).at
  BY <1>1, TopFacts
<1>3. fr2 \in Frame /\ fr2.entry = Top(t).entry /\ fr2.hook = Top(t).hook /\ fr2.at = "undefined"
  BY <1>2 DEF Frame
<1> HIDE DEF fr2
<1>4. Top(t).entry # 0
  BY <1>1, <1>2 DEF CallOK
<1>5. CallOK(fr2, entry, callback[t])
  BY <1>2, <1>3, <1>4, MovedFrameOK DEF InHandler
<1> QED
  BY <1>1, <1>3, <1>5, QuietTopStep

\* The users of an entry, as a loop finds them.
LEMMA UsersType ==
  ASSUME IInv, NEW e \in Id
  PROVE  entry[e].users \in Seq(Id)
  BY DEF IInv, ManagerOK, EntryRecord

\* A listener's on_enter begins.
LEMMA OnEnterIInv ==
  ASSUME IInv, NEW t \in Thread, OnEnter(t)
  PROVE  IInv'
<1> DEFINE fr2 == [Top(t) EXCEPT !.at = "uprobes", !.next = 1, !.users = entry[Top(t).entry].users]
<1>1. /\ At(t) = "hooked" /\ Top(t).hook = "listener" /\ SetTop(t, fr2)
      /\ cpu_context' = [cpu_context EXCEPT ![t] = Depth(t)]
      /\ UNCHANGED <<managerVars, entry, callback>>
  BY DEF OnEnter
<1>2. /\ CallOK(Top(t), entry, callback[t]) /\ Top(t) \in Frame /\ At(t) = Top(t).at
      /\ Depth(t) \in 1..MaxDepth
  BY <1>1, TopFacts
<1>3. Top(t).entry # 0 /\ Top(t).entry \in Id
  BY <1>1, <1>2 DEF CallOK, Frame
<1>4. entry[Top(t).entry].users \in Seq(Id)
  BY <1>3, UsersType
<1>5. fr2 \in Frame /\ fr2.entry = Top(t).entry /\ fr2.hook = Top(t).hook /\ fr2.at = "uprobes"
  BY <1>2, <1>4 DEF Frame
<1> HIDE DEF fr2
<1>6. CallOK(fr2, entry, callback[t])
  BY <1>2, <1>3, <1>5, MovedFrameOK DEF InHandler
<1>7. Depth(t) \in 0..MaxDepth
  BY <1>2, AttachBoundsAssumption
<1> QED
  BY <1>1, <1>3, <1>5, <1>6, <1>7, TopStep

\* The function returns, and a listener that is still there hears of it.
LEMMA ReturnIInv ==
  ASSUME IInv, NEW t \in Thread, Return(t)
  PROVE  IInv'
<1> DEFINE fr2 == [Top(t) EXCEPT !.at = "uretprobes", !.next = 1, !.users = entry[Top(t).entry].users]
<1>1. /\ At(t) = "body" /\ UNCHANGED <<managerVars, entry, callback, cpu_context>>
      /\ PopFrame(t) \/ (Top(t).hook = "listener" /\ SetTop(t, fr2))
  BY DEF Return
<1>2. CallOK(Top(t), entry, callback[t]) /\ Top(t) \in Frame /\ At(t) = Top(t).at
  BY <1>1, TopFacts
<1>3. CASE PopFrame(t)
  BY <1>1, <1>3, PopStep
<1>4. CASE Top(t).hook = "listener" /\ SetTop(t, fr2)
  <2>1. Top(t).entry # 0 /\ Top(t).entry \in Id
    BY <1>2, <1>4 DEF CallOK, Frame
  <2>2. entry[Top(t).entry].users \in Seq(Id)
    BY <2>1, UsersType
  <2>3. fr2 \in Frame /\ fr2.entry = Top(t).entry /\ fr2.hook = Top(t).hook /\ fr2.at = "uretprobes"
    BY <1>2, <2>2 DEF Frame
  <2> HIDE DEF fr2
  <2>4. CallOK(fr2, entry, callback[t])
    BY <1>2, <2>1, <2>3, MovedFrameOK DEF InHandler
  <2> QED
    BY <1>1, <1>4, <2>3, <2>4, QuietTopStep
<1> QED
  BY <1>1, <1>3, <1>4

\* A loop looks at the next user.
LEMMA VisitUserIInv ==
  ASSUME IInv, NEW t \in Thread, VisitUser(t)
  PROVE  IInv'
<1> DEFINE fr == Top(t)
           wanted == IF fr.at = "uprobes" THEN "uprobe" ELSE "uretprobe"
           go == [fr EXCEPT !.at = wanted, !.user = fr.users[fr.next]]
           skip == [fr EXCEPT !.next = @ + 1]
<1>1. /\ At(t) \in {"uprobes", "uretprobes"} /\ fr.next \in DOMAIN fr.users
      /\ SetTop(t, go) \/ SetTop(t, skip)
      /\ UNCHANGED <<managerVars, entry, callback, cpu_context>>
  BY DEF VisitUser
<1>2. CallOK(fr, entry, callback[t]) /\ fr \in Frame /\ At(t) = fr.at
  BY <1>1, TopFacts
<1>3. fr.entry # 0
  BY <1>1, <1>2 DEF CallOK
<1>4. fr.users[fr.next] \in Id
  <2>1. fr.users \in Seq(Id)
    BY <1>2 DEF Frame
  <2> QED
    BY <1>1, <2>1, LenProperties, ElementOfSeq
<1>5. /\ go \in Frame /\ go.entry = fr.entry /\ go.hook = fr.hook /\ go.at \in {"uprobe", "uretprobe"}
      /\ go.at = "uprobe" => fr.at = "uprobes"
  BY <1>2, <1>4 DEF Frame
<1>6. skip \in Frame /\ skip.entry = fr.entry /\ skip.hook = fr.hook /\ skip.at = fr.at
  BY <1>2 DEF Frame
<1> HIDE DEF go, skip, fr
<1>7. CallOK(go, entry, callback[t]) /\ CallOK(skip, entry, callback[t])
  BY <1>1, <1>2, <1>3, <1>5, <1>6, MovedFrameOK DEF InHandler
<1>8. CASE SetTop(t, go)
  BY <1>1, <1>2, <1>5, <1>7, <1>8, QuietTopStep DEF fr
<1>9. CASE SetTop(t, skip)
  BY <1>1, <1>2, <1>6, <1>7, <1>9, QuietTopStep DEF fr
<1> QED
  BY <1>1, <1>8, <1>9

\* A program returns into its loop.
LEMMA ProgramReturnsIInv ==
  ASSUME IInv, NEW t \in Thread, ProgramReturns(t)
  PROVE  IInv'
<1> DEFINE fr == Top(t)
           fr2 == [fr EXCEPT !.next = @ + 1, !.set = NoValue,
                             !.at = IF @ = "uprobe" THEN "uprobes" ELSE "uretprobes"]
<1>1. /\ At(t) \in {"uprobe", "uretprobe"} /\ SetTop(t, fr2)
      /\ UNCHANGED <<managerVars, entry, callback, cpu_context>>
  BY DEF ProgramReturns
<1>2. CallOK(fr, entry, callback[t]) /\ fr \in Frame /\ At(t) = fr.at
  BY <1>1, TopFacts
<1>3. fr.entry # 0
  BY <1>1, <1>2 DEF CallOK
<1> DEFINE where == IF fr.at = "uprobe" THEN "uprobes" ELSE "uretprobes"
           k == fr.next + 1
<1>4. fr2 \in Frame /\ fr2.entry = fr.entry /\ fr2.hook = fr.hook /\ fr2.at = where
  <2>1. fr2 = [fr EXCEPT !.next = k, !.set = NoValue, !.at = where]
    BY <1>2 DEF Frame
  <2>2. k \in Nat /\ where \in {"uprobes", "uretprobes"}
    BY <1>2 DEF Frame
  <2> HIDE DEF fr2, fr, k, where
  <2> QED
    BY <1>2, <2>1, <2>2 DEF Frame
<1> HIDE DEF fr2, fr
<1>5. CallOK(fr2, entry, callback[t])
  BY <1>2, <1>3, <1>4, MovedFrameOK DEF InHandler
<1> QED
  BY <1>1, <1>2, <1>4, <1>5, QuietTopStep DEF fr

\* The innermost call goes on in the function itself, its entry being live.
LEMMA ToBodyStep ==
  ASSUME IInv, NEW t \in Thread, At(t) # "out", LiveEntry(Top(t).entry), ToBody(t),
         UNCHANGED <<managerVars, entry, callback>>,
         NEW n \in 0..MaxDepth, cpu_context' = [cpu_context EXCEPT ![t] = n]
  PROVE  IInv'
<1> DEFINE fr == NewFrame(Top(t).fn, Top(t).entry, "body")
<1>1. Top(t) \in Frame
  BY TopFacts
<1>2. Top(t).fn \in Function /\ Top(t).entry \in Id \cup {0} /\ Top(t).entry # 0
      /\ entry[Top(t).entry].state = "live"
  BY <1>1 DEF Frame, LiveEntry
<1>3. CallOK(fr, entry, callback[t]) /\ fr.entry = Top(t).entry /\ fr.at = "body"
  BY <1>2, NewFrameOK
<1>4. SetTop(t, fr)
  BY DEF ToBody
<1> HIDE DEF fr
<1> QED
  BY <1>2, <1>3, <1>4, TopStep

\* The loop is over.
LEMMA LoopEndsIInv ==
  ASSUME IInv, NEW t \in Thread, LoopEnds(t)
  PROVE  IInv'
<1>1. /\ At(t) \in {"uprobes", "uretprobes"} /\ LiveEntry(Top(t).entry)
      /\ \/ ToBody(t) /\ cpu_context' = [cpu_context EXCEPT ![t] = 0]
         \/ PopFrame(t) /\ UNCHANGED cpu_context
      /\ UNCHANGED <<managerVars, entry, callback>>
  BY DEF LoopEnds, LoopIsSound, SoundEntry
<1>2. 0 \in 0..MaxDepth
  BY AttachBoundsAssumption
<1> QED
  BY <1>1, <1>2, ToBodyStep, PopStep

\* The override program runs, or there is none.
LEMMA RunFilterIInv ==
  ASSUME IInv, NEW t \in Thread, RunFilter(t)
  PROVE  IInv'
<1> DEFINE fr == Top(t)
           go == [fr EXCEPT !.at = "program", !.user = entry[fr.entry].users[1]]
           threw == [fr EXCEPT !.at = "threw"]
<1>1. /\ At(t) = "filter" /\ LiveEntry(fr.entry)
      /\ (HasOverride(fr.entry) /\ SetTop(t, go)) \/ SetTop(t, threw)
      /\ UNCHANGED <<managerVars, entry, callback, cpu_context>>
  BY DEF RunFilter, MoveTo, SoundEntry
<1>2. CallOK(fr, entry, callback[t]) /\ fr \in Frame /\ At(t) = fr.at
  BY <1>1, TopFacts
<1>3. fr.entry # 0 /\ fr.entry \in Id
  BY <1>1, <1>2 DEF LiveEntry, Frame
<1>4. /\ threw \in Frame /\ threw.entry = fr.entry /\ threw.hook = fr.hook /\ threw.at = "threw"
  BY <1>2 DEF Frame
<1>5. CASE HasOverride(fr.entry) /\ SetTop(t, go)
  <2>1. entry[fr.entry].users \in Seq(Id)
    BY <1>3, UsersType
  <2>2. entry[fr.entry].users # <<>>
    BY <1>5, <2>1, EmptyList DEF HasOverride
  <2>3. 1 \in 1..Len(entry[fr.entry].users)
    BY <2>1, <2>2, EmptySeq
  <2>4. entry[fr.entry].users[1] \in Id
    BY <2>1, <2>3, ElementOfSeq
  <2>5. /\ go \in Frame /\ go.entry = fr.entry /\ go.hook = fr.hook /\ go.at = "program"
        /\ go.set = fr.set /\ go.disturbed = fr.disturbed
    BY <1>2, <2>4 DEF Frame
  <2> HIDE DEF go, fr
  <2>6. InHandler(fr)
    BY <1>1, <1>2 DEF InHandler
  <2>7. CallOK(go, entry, callback[t])
    BY <1>2, <1>3, <2>5, <2>6, MovedFrameOK
  <2> QED
    BY <1>1, <1>5, <2>5, <2>7, QuietTopStep DEF fr
<1>6. CASE SetTop(t, threw)
  <2> HIDE DEF threw, fr
  <2>1. CallOK(threw, entry, callback[t])
    BY <1>2, <1>3, <1>4, MovedFrameOK DEF InHandler
  <2> QED
    BY <1>1, <1>4, <1>6, <2>1, QuietTopStep DEF fr
<1> QED
  BY <1>1, <1>5, <1>6

\* The override program has run.
LEMMA FilterReturnsIInv ==
  ASSUME IInv, NEW t \in Thread, FilterReturns(t)
  PROVE  IInv'
<1> DEFINE fr == Top(t)
           fr2 == [fr EXCEPT !.at = "decide"]
<1>1. /\ At(t) = "program" /\ SetTop(t, fr2)
      /\ cpu_context' = [cpu_context EXCEPT ![t] = 0]
      /\ UNCHANGED <<managerVars, entry, callback>>
  BY DEF FilterReturns, MoveTo
<1>2. CallOK(fr, entry, callback[t]) /\ fr \in Frame /\ At(t) = fr.at
  BY <1>1, TopFacts
<1>3. fr.entry # 0 /\ InHandler(fr)
  BY <1>1, <1>2 DEF CallOK, InHandler
<1>4. /\ fr2 \in Frame /\ fr2.entry = fr.entry /\ fr2.hook = fr.hook /\ fr2.at = "decide"
      /\ fr2.set = fr.set /\ fr2.disturbed = fr.disturbed
  BY <1>2 DEF Frame
<1> HIDE DEF fr2, fr
<1>5. CallOK(fr2, entry, callback[t])
  BY <1>2, <1>3, <1>4, MovedFrameOK
<1>6. 0 \in 0..MaxDepth
  BY AttachBoundsAssumption
<1> QED
  BY <1>1, <1>3, <1>4, <1>5, <1>6, TopStep DEF fr

\* The handler returns the program's value or calls the function.
LEMMA DecideIInv ==
  ASSUME IInv, NEW t \in Thread, Decide(t)
  PROVE  IInv'
<1>1. /\ At(t) = "decide" /\ LiveEntry(Top(t).entry) /\ (PopFrame(t) \/ ToBody(t))
      /\ UNCHANGED <<managerVars, entry, callback, cpu_context>>
  BY DEF Decide
<1>2. cpu_context[t] \in 0..MaxDepth /\ cpu_context' = [cpu_context EXCEPT ![t] = cpu_context[t]]
  BY <1>1, SameContext
<1> QED
  BY <1>1, <1>2, PopStep, ToBodyStep

-----------------------------------------------------------------------------
(* Steps that other calls may notice.                                      *)

\* The frames after a step of t that disturbs the calls in S.
Marked(t, fr, S) ==
  [u \in Thread |-> [d \in DOMAIN frames[u] |->
     IF u = t /\ d = Depth(t) THEN fr
     ELSE [frames[u][d] EXCEPT
             !.disturbed = frames[u][d].disturbed \/ (InHandler(frames[u][d]) /\ S[u][d])]]]

\* Stacks F that differ from the present ones in t's innermost call and in marks.
OnlyMarked(F, t, fr, S) ==
  /\ F = [u \in Thread |-> [d \in DOMAIN frames[u] |-> F[u][d]]]
  /\ F[t][Depth(t)] = fr
  /\ \A u \in Thread : \A d \in DOMAIN frames[u] : ~(u = t /\ d = Depth(t)) =>
       \E b \in BOOLEAN : /\ F[u][d] = [frames[u][d] EXCEPT !.disturbed = b]
                          /\ frames[u][d].disturbed => b
                          /\ InHandler(frames[u][d]) /\ S[u][d] => b

LEMMA MarkedFrames ==
  ASSUME IInv, NEW t \in Thread, At(t) # "out", NEW fr,
         NEW S, \A u \in Thread : \A d \in DOMAIN frames[u] : S[u][d] \in BOOLEAN,
         NEW F, F = Marked(t, fr, S)
  PROVE  OnlyMarked(F, t, fr, S)
<1> USE DEF Marked
<1>1. Depth(t) \in DOMAIN frames[t]
  <2>1. Depth(t) \in 1..MaxDepth /\ DOMAIN frames[t] = 1..Depth(t)
    BY TopFacts
  <2> QED
    BY <2>1, AttachBoundsAssumption
<1>2. \A u \in Thread : F[u] = [d \in DOMAIN frames[u] |->
           IF u = t /\ d = Depth(t) THEN fr
           ELSE [frames[u][d] EXCEPT
                   !.disturbed = frames[u][d].disturbed \/ (InHandler(frames[u][d]) /\ S[u][d])]]
  OBVIOUS
<1>3. \A u \in Thread : F[u] = [d \in DOMAIN frames[u] |-> F[u][d]]
  BY <1>2
<1>4. F = [u \in Thread |-> [d \in DOMAIN frames[u] |-> F[u][d]]]
  BY <1>3, Zenon
<1>5. F[t][Depth(t)] = fr
  BY <1>1, <1>2
<1>6. ASSUME NEW u \in Thread, NEW d \in DOMAIN frames[u], ~(u = t /\ d = Depth(t))
      PROVE  \E b \in BOOLEAN : /\ F[u][d] = [frames[u][d] EXCEPT !.disturbed = b]
                                /\ frames[u][d].disturbed => b
                                /\ InHandler(frames[u][d]) /\ S[u][d] => b
  <2> DEFINE b == frames[u][d].disturbed \/ (InHandler(frames[u][d]) /\ S[u][d])
  <2>1. F[u][d] = [frames[u][d] EXCEPT !.disturbed = b]
    BY <1>2, <1>6
  <2>2. b \in BOOLEAN
    OBVIOUS
  <2> QED
    BY <2>1, <2>2
<1> QED
  BY <1>4, <1>5, <1>6, Zenon DEF OnlyMarked

\* The step changes no entry but e, and of e only the flag and the value.
OnlyFlagOf(e) ==
  /\ entry' \in [Id -> EntryRecord]
  /\ \A x \in Id : /\ entry'[x].state = entry[x].state /\ entry'[x].hook = entry[x].hook
                   /\ entry'[x].users = entry[x].users
                   /\ x # e => entry'[x] = entry[x]

\* S has the calls of e and those of the threads that get another callback.
Covers(S, e) ==
  /\ \A u \in Thread : \A d \in DOMAIN frames[u] : S[u][d] \in BOOLEAN
  /\ \A u \in Thread : \A d \in DOMAIN frames[u] :
       frames[u][d].entry = e \/ callback'[u] # callback[u] => S[u][d]

\* The innermost call of t becomes fr and uses the flag of entry e.  The other
\* calls stay as they are but for their history, and those in the handler of e,
\* and those whose thread gets another callback, are disturbed.
LEMMA DisturbingStep ==
  ASSUME IInv, NEW t \in Thread, At(t) # "out", UNCHANGED managerVars,
         NEW e \in Id, OnlyFlagOf(e),
         callback' \in [Thread -> Id \cup {0}],
         NEW n \in 0..MaxDepth, cpu_context' = [cpu_context EXCEPT ![t] = n],
         NEW fr, CallOK(fr, entry', callback'[t]), fr.entry = Top(t).entry,
         fr.at \in {"uprobes", "uprobe"} => n = Depth(t),
         n = cpu_context[t] \/ Top(t).entry # 0,
         NEW S, Covers(S, e),
         frames' = Marked(t, fr, S)
  PROVE  IInv'
<1> DEFINE F == Marked(t, fr, S)
<1>a. OnlyMarked(F, t, fr, S)
  BY MarkedFrames DEF Covers
<1> HIDE DEF F
<1>b. /\ frames' = [u \in Thread |-> [d \in DOMAIN frames[u] |-> F[u][d]]]
       /\ frames'[t][Depth(t)] = fr
       /\ \A u \in Thread : \A d \in DOMAIN frames[u] : ~(u = t /\ d = Depth(t)) =>
            \E b \in BOOLEAN :
              /\ frames'[u][d] = [frames[u][d] EXCEPT !.disturbed = b]
              /\ frames[u][d].disturbed => b
              /\ InHandler(frames[u][d])
                   /\ (frames[u][d].entry = e \/ callback'[u] # callback[u]) => b
  BY <1>a, Zenon DEF OnlyMarked, F, Covers
<1>1. ManagerOK /\ ThreadsOK
  BY DEF IInv
<1>2. cpu_context \in [Thread -> 0..MaxDepth] /\ frames \in [Thread -> Seq(Frame)]
  BY <1>1 DEF ManagerOK, TypeOK, ThreadsOK
<1>3. ManagerOK'
  BY <1>1, <1>2, ManagerStays DEF OnlyFlagOf
<1>4. /\ Depth(t) = Len(frames[t]) /\ Top(t) = frames[t][Len(frames[t])] /\ Top(t) = Last(frames[t])
      /\ Len(frames[t]) \in 1..Len(frames[t])
  <2>1. Depth(t) \in 1..MaxDepth /\ Top(t) = frames[t][Depth(t)]
    BY TopFacts
  <2> QED
    BY <2>1, AttachBoundsAssumption DEF Depth, Top
<1>5. ASSUME NEW u \in Thread, NEW d \in 1..Len(frames[u]), ~(u = t /\ d = Len(frames[t]))
      PROVE  /\ CallOK(frames'[u][d], entry', callback'[u])
             /\ frames'[u][d].at = frames[u][d].at /\ frames'[u][d].entry = frames[u][d].entry
  <2> DEFINE old == frames[u][d]
             new == frames'[u][d]
  <2>1. DOMAIN frames[u] = 1..Len(frames[u])
    BY <1>2, LenProperties
  <2>2. PICK b \in BOOLEAN :
          /\ new = [old EXCEPT !.disturbed = b]
          /\ old.disturbed => b
          /\ InHandler(old) /\ (old.entry = e \/ callback'[u] # callback[u]) => b
    BY <1>b, <1>4, <1>5, <2>1
  <2>3. CallOK(old, entry, callback[u])
    BY <1>1 DEF ThreadsOK, StackOK
  <2>4. old \in Frame
    BY <2>3 DEF CallOK
  <2> HIDE DEF old, new
  <2>5. /\ new \in Frame /\ new.entry = old.entry /\ new.hook = old.hook /\ new.at = old.at
        /\ new.set = old.set /\ new.disturbed = b
    BY <2>2, <2>4 DEF Frame
  <2>6. old.entry # 0 => old.entry \in Id
    BY <2>4 DEF Frame
  <2>7. InHandler(new) <=> InHandler(old)
    BY <2>5 DEF InHandler
  <2>8. ASSUME InHandler(new), ~new.disturbed
        PROVE  callback'[u] = callback[u] /\ entry'[old.entry] = entry[old.entry] /\ ~old.disturbed
    <3>1. old.entry # 0
      BY <2>3, <2>7, <2>8 DEF CallOK, InHandler
    <3> QED
      BY <2>2, <2>5, <2>6, <2>7, <2>8, <3>1 DEF OnlyFlagOf
  <2>9. CallOK(new, entry', callback'[u])
    BY <2>3, <2>5, <2>6, <2>7, <2>8 DEF CallOK, OnlyFlagOf
  <2> QED
    BY <2>5, <2>9 DEF old, new
<1>6. ASSUME NEW u \in Thread
      PROVE  frames'[u] \in Seq(Frame) /\ Len(frames'[u]) = Len(frames[u])
  <2> DEFINE k == Len(frames[u])
             new == frames'[u]
  <2>1. new = [d \in DOMAIN frames[u] |-> F[u][d]]
    BY <1>b
  <2>2. DOMAIN frames[u] = 1..k /\ k \in Nat
    BY <1>2, LenProperties
  <2>3. ASSUME NEW d \in 1..k
        PROVE  new[d] \in Frame
    <3>1. CASE u = t /\ d = Len(frames[t])
      BY <1>b, <1>4, <3>1 DEF CallOK
    <3>2. CASE ~(u = t /\ d = Len(frames[t]))
      <4>1. CallOK(frames'[u][d], entry', callback'[u])
        BY <1>5, <3>2
      <4> QED
        BY <4>1 DEF CallOK
    <3> QED
      BY <3>1, <3>2
  <2> HIDE DEF new, k
  <2>4. new \in [1..k -> Frame]
    BY <2>1, <2>2, <2>3
  <2>5. new \in Seq(Frame) /\ Len(new) = k
    BY <2>2, <2>4, FunctionIsSeq
  <2> QED
    BY <2>5 DEF new, k
<1>7. ASSUME NEW u \in Thread, u # t
      PROVE  StackOK(frames'[u], entry', callback'[u], cpu_context'[u])
  <2>1. StackOK(frames[u], entry, callback[u], cpu_context[u]) /\ cpu_context'[u] = cpu_context[u]
    BY <1>1, <1>2, <1>7 DEF ThreadsOK
  <2>2. \A d \in 1..Len(frames[u]) :
          /\ CallOK(frames'[u][d], entry', callback'[u])
          /\ frames'[u][d].at = frames[u][d].at /\ frames'[u][d].entry = frames[u][d].entry
    BY <1>5, <1>7
  <2> DEFINE old == frames[u]
             new == frames'[u]
  <2>3. new \in Seq(Frame) /\ Len(new) = Len(old)
    BY <1>6
  <2>4. StackOK(old, entry, callback[u], cpu_context[u])
    BY <2>1
  <2>5. \A d \in 1..Len(old) : /\ CallOK(new[d], entry', callback'[u])
                               /\ new[d].at = old[d].at /\ new[d].entry = old[d].entry
    BY <2>2
  <2> HIDE DEF old, new
  <2>6. \A d \in 1..Len(new) : CallOK(new[d], entry', callback'[u])
    BY <2>3, <2>5
  <2>7. \A d \in 1..Len(new) :
          d < Len(new) => new[d].at \in {"body", "program", "uprobe", "uretprobe"}
    BY <2>3, <2>4, <2>5 DEF StackOK
  <2>8. \A d, x \in 1..Len(new) :
          d < x /\ new[d].at \in {"uprobe", "uretprobe"} => new[x].entry = 0
    BY <2>3, <2>4, <2>5 DEF StackOK
  <2>9. /\ \A d \in 1..Len(new) : new[d].at \in {"uprobes", "uprobe"} => cpu_context[u] = d
        /\ Len(new) <= MaxDepth
    BY <2>3, <2>4, <2>5 DEF StackOK
  <2>10. StackOK(new, entry', callback'[u], cpu_context[u])
    BY <2>3, <2>6, <2>7, <2>8, <2>9 DEF StackOK
  <2> QED
    BY <2>1, <2>10 DEF new
<1>8. StackOK(frames'[t], entry', callback'[t], cpu_context'[t])
  <2> DEFINE old == frames[t]
             new == frames'[t]
             k == Len(old)
  <2>1. StackOK(old, entry, callback[t], cpu_context[t]) /\ cpu_context'[t] = n
    BY <1>1, <1>2 DEF ThreadsOK
  <2>2. /\ \A d \in 1..k : d # k =>
             /\ CallOK(new[d], entry', callback'[t])
             /\ new[d].at = old[d].at /\ new[d].entry = old[d].entry
        /\ new[k] = fr /\ fr.entry = old[k].entry
    BY <1>b, <1>4, <1>5
  <2>3. new \in Seq(Frame) /\ Len(new) = k /\ k \in Nat /\ k \in 1..k
    BY <1>4, <1>6, <1>2, LenProperties
  <2>4. /\ fr.at \in {"uprobes", "uprobe"} => n = k
        /\ n = cpu_context[t] \/ old[k].entry # 0
    BY <1>4
  <2>5. \A d \in 1..k : d < k => d # k /\ k \in 1..k
    BY <2>3
  <2> HIDE DEF old, new, k
  <2>6. \A d \in 1..k : CallOK(new[d], entry', callback'[t]) /\ new[d].entry = old[d].entry
    BY <2>2
  <2>7. \A d \in 1..k : d < k => new[d].at \in {"body", "program", "uprobe", "uretprobe"}
    BY <2>1, <2>2, <2>5 DEF StackOK, k
  <2>8. ASSUME NEW d \in 1..k, NEW x \in 1..k, d < x, new[d].at \in {"uprobe", "uretprobe"}
        PROVE  new[x].entry = 0
    <3>1. d < k
      BY <2>3, <2>8
    <3>2. old[d].at \in {"uprobe", "uretprobe"}
      BY <2>2, <2>5, <2>8, <3>1
    <3>3. old[x].entry = 0
      BY <2>1, <2>8, <3>2 DEF StackOK, k
    <3> QED
      BY <2>6, <3>3
  <2>9. ASSUME NEW d \in 1..k, new[d].at \in {"uprobes", "uprobe"}
        PROVE  n = d
    <3>1. CASE d = k
      BY <2>2, <2>4, <2>9, <3>1
    <3>2. CASE d # k
      <4>1. d < k
        BY <2>3, <3>2
      <4>2. old[d].at = "uprobe" /\ cpu_context[t] = d
        BY <2>1, <2>2, <2>9, <3>2, <4>1 DEF StackOK, k
      <4>3. old[k].entry = 0
        BY <2>1, <2>3, <4>1, <4>2 DEF StackOK, k
      <4> QED
        BY <2>4, <4>2, <4>3
    <3> QED
      BY <3>1, <3>2
  <2>10. k <= MaxDepth
    BY <2>1 DEF StackOK, k
  <2>11. StackOK(new, entry', callback'[t], n)
    BY <2>3, <2>6, <2>7, <2>8, <2>9, <2>10 DEF StackOK
  <2> QED
    BY <2>1, <2>11 DEF new
<1>9. frames' \in [Thread -> Seq(Frame)]
  <2> DEFINE G == [u \in Thread |-> [d \in DOMAIN frames[u] |-> F[u][d]]]
  <2>1. \A u \in Thread : G[u] \in Seq(Frame)
    BY <1>b, <1>6
  <2>2. G \in [Thread -> Seq(Frame)]
    BY <2>1, Zenon
  <2> QED
    BY <1>b, <2>2
<1> QED
  BY <1>3, <1>7, <1>8, <1>9 DEF IInv, ThreadsOK

\* The override handler begins.
LEMMA HandlerStartsIInv ==
  ASSUME IInv, NEW t \in Thread, HandlerStarts(t), NEW e, e = Top(t).entry
  PROVE  IInv'
<1> DEFINE fr == [Top(t) EXCEPT !.at = "filter"]
           S == [u \in Thread |-> [d \in DOMAIN frames[u] |-> u = t \/ frames[u][d].entry = e]]
<1>1. /\ At(t) = "hooked" /\ Top(t).hook = "replace" /\ LiveEntry(e)
      /\ entry' = [entry EXCEPT ![e] = [entry[e] EXCEPT !.is_overrided = FALSE]]
      /\ callback' = [callback EXCEPT ![t] = e]
      /\ cpu_context' = [cpu_context EXCEPT ![t] = Depth(t)]
      /\ UNCHANGED managerVars
  BY DEF HandlerStarts
<1>2. frames' = Marked(t, fr, S)
  BY DEF HandlerStarts, Disturbing, Marked
<1>3. /\ CallOK(Top(t), entry, callback[t]) /\ Top(t) \in Frame /\ At(t) = Top(t).at
      /\ Depth(t) \in 1..MaxDepth
  BY <1>1, TopFacts
<1>4. e # 0 /\ e \in Id /\ entry[e].state = "live" /\ entry[e].hook = "replace"
  BY <1>1, <1>3 DEF LiveEntry, Frame, CallOK
<1>5. entry \in [Id -> EntryRecord] /\ callback \in [Thread -> Id \cup {0}]
  BY DEF IInv, ManagerOK, TypeOK
<1>6. /\ entry[e] \in EntryRecord
      /\ entry'[e] = [entry[e] EXCEPT !.is_overrided = FALSE]
      /\ \A x \in Id : x # e => entry'[x] = entry[x]
      /\ DOMAIN entry' = Id
  BY <1>1, <1>4, <1>5
<1>7. /\ entry'[e] \in EntryRecord /\ entry'[e].state = entry[e].state
      /\ entry'[e].hook = entry[e].hook /\ entry'[e].users = entry[e].users
      /\ entry'[e].is_overrided = FALSE
  BY <1>6 DEF EntryRecord
<1>8. entry' \in [Id -> EntryRecord]
  BY <1>1, <1>5, <1>6, <1>7
<1>9. \A x \in Id : /\ entry'[x].state = entry[x].state /\ entry'[x].hook = entry[x].hook
                    /\ entry'[x].users = entry[x].users
                    /\ x # e => entry'[x] = entry[x]
  BY <1>6, <1>7
<1>10. callback' \in [Thread -> Id \cup {0}] /\ callback'[t] = e
       /\ \A u \in Thread : u # t => callback'[u] = callback[u]
  BY <1>1, <1>4, <1>5
<1>11. /\ fr \in Frame /\ fr.entry = e /\ fr.hook = "replace" /\ fr.at = "filter"
       /\ fr.set = NoValue
  BY <1>1, <1>3 DEF Frame, CallOK
<1>12. /\ \A u \in Thread : \A d \in DOMAIN frames[u] : S[u][d] \in BOOLEAN
       /\ \A u \in Thread : \A d \in DOMAIN frames[u] :
            frames[u][d].entry = e \/ callback'[u] # callback[u] => S[u][d]
  BY <1>10
<1> HIDE DEF fr, S
<1>13. CallOK(fr, entry', callback'[t])
  BY <1>4, <1>7, <1>10, <1>11 DEF CallOK
<1>14. At(t) # "out" /\ Depth(t) \in 0..MaxDepth
  BY <1>1, <1>3, AttachBoundsAssumption
<1>15. fr.entry = Top(t).entry /\ (Depth(t) = cpu_context[t] \/ Top(t).entry # 0)
  BY <1>4, <1>11
<1>16. /\ UNCHANGED managerVars /\ e \in Id
       /\ cpu_context' = [cpu_context EXCEPT ![t] = Depth(t)]
       /\ fr.at \in {"uprobes", "uprobe"} => Depth(t) = Depth(t)
  BY <1>1, <1>4
<1>17. OnlyFlagOf(e) /\ Covers(S, e)
  BY <1>8, <1>9, <1>12 DEF OnlyFlagOf, Covers
<1> QED
  BY <1>2, <1>10, <1>13, <1>14, <1>15, <1>16, <1>17, DisturbingStep

\* A program sets the return value through the callback of its thread.
LEMMA SetRetvalIInv ==
  ASSUME IInv, NEW t \in Thread, NEW v \in Value, SetRetval(t, v), NEW e, e = callback[t]
  PROVE  IInv'
<1>1. /\ At(t) \in {"program", "uprobe", "uretprobe"} /\ Top(t).set = NoValue
      /\ UNCHANGED <<managerVars, callback, cpu_context>>
  BY DEF SetRetval
<1>2. /\ CallOK(Top(t), entry, callback[t]) /\ Top(t) \in Frame /\ At(t) = Top(t).at
      /\ StackOK(frames[t], entry, callback[t], cpu_context[t])
      /\ Depth(t) \in 1..MaxDepth /\ Top(t) = frames[t][Depth(t)]
  BY <1>1, TopFacts
<1>3. Top(t).entry # 0
  BY <1>1, <1>2 DEF CallOK
<1>4. entry \in [Id -> EntryRecord] /\ callback \in [Thread -> Id \cup {0}]
  BY DEF IInv, ManagerOK, TypeOK
<1>5. CASE ~LiveEntry(e)
  <2> DEFINE fr2 == [Top(t) EXCEPT !.at = IF e = 0 THEN "threw" ELSE "undefined"]
  <2>1. SetTop(t, fr2) /\ UNCHANGED entry
    BY <1>5 DEF SetRetval, MoveTo
  <2>2. fr2 \in Frame /\ fr2.entry = Top(t).entry /\ fr2.hook = Top(t).hook
        /\ fr2.at \in {"threw", "undefined"}
    BY <1>2 DEF Frame
  <2> HIDE DEF fr2
  <2>3. CallOK(fr2, entry, callback[t])
    BY <1>2, <1>3, <2>2, MovedFrameOK DEF InHandler
  <2> QED
    BY <1>1, <2>1, <2>2, <2>3, QuietTopStep
<1>6. CASE LiveEntry(e)
  <2> DEFINE fr == [Top(t) EXCEPT !.set = v]
             S == [u \in Thread |-> [d \in DOMAIN frames[u] |-> frames[u][d].entry = e]]
             E2 == [[entry[e] EXCEPT !.is_overrided = TRUE] EXCEPT !.user_ret = v]
  <2>0. e # 0 /\ e \in Id /\ entry[e].state = "live" /\ entry[e] \in EntryRecord
    BY <1>4, <1>6 DEF LiveEntry
  <2>1. entry' = [entry EXCEPT ![e] = E2]
    <3>1. entry' = [[entry EXCEPT ![e] = [entry[e] EXCEPT !.is_overrided = TRUE]]
                       EXCEPT ![e] = [[entry EXCEPT ![e] = [entry[e] EXCEPT !.is_overrided = TRUE]][e]
                                         EXCEPT !.user_ret = v]]
      BY <1>6 DEF SetRetval
    <3>2. e \in DOMAIN entry
      BY <1>4, <2>0
    <3> QED
      BY <3>1, <3>2, ExceptTwice
  <2>2. frames' = Marked(t, fr, S)
    BY <1>6 DEF SetRetval, Disturbing, Marked
  <2>3. /\ E2 \in EntryRecord /\ E2.state = entry[e].state /\ E2.hook = entry[e].hook
        /\ E2.users = entry[e].users /\ E2.is_overrided = TRUE /\ E2.user_ret = v
    BY <2>0 DEF EntryRecord
  <2> HIDE DEF E2
  <2>4. entry'[e] = E2 /\ \A x \in Id : x # e => entry'[x] = entry[x]
    BY <1>4, <2>0, <2>1
  <2>5. entry' \in [Id -> EntryRecord]
    BY <1>4, <2>1, <2>3
  <2>6. \A x \in Id : /\ entry'[x].state = entry[x].state /\ entry'[x].hook = entry[x].hook
                      /\ entry'[x].users = entry[x].users
                      /\ x # e => entry'[x] = entry[x]
    BY <2>3, <2>4
  <2>7. callback' \in [Thread -> Id \cup {0}] /\ \A u \in Thread : callback'[u] = callback[u]
    BY <1>1, <1>4
  <2>8. /\ fr \in Frame /\ fr.entry = Top(t).entry /\ fr.hook = Top(t).hook /\ fr.at = Top(t).at
        /\ fr.set = v /\ fr.disturbed = Top(t).disturbed
    BY <1>2 DEF Frame
  <2>9. /\ \A u \in Thread : \A d \in DOMAIN frames[u] : S[u][d] \in BOOLEAN
        /\ \A u \in Thread : \A d \in DOMAIN frames[u] :
             frames[u][d].entry = e \/ callback'[u] # callback[u] => S[u][d]
    BY <2>7
  <2> HIDE DEF fr, S
  <2>10. CallOK(fr, entry', callback'[t])
    <3>1. InHandler(fr) <=> InHandler(Top(t))
      BY <2>8 DEF InHandler
    <3>2. ASSUME InHandler(fr), ~fr.disturbed PROVE Top(t).entry = e
      BY <1>2, <2>8, <3>1, <3>2 DEF CallOK
    <3>3. v # NoValue /\ callback'[t] = e /\ Top(t).entry \in Id
      BY <1>2, <1>3, <2>7, NoValueAssumption DEF Frame
    <3>4. fr.entry # 0 /\ fr.entry \in Id /\ fr.at # "hooked" /\ fr.at # "body"
      BY <1>1, <1>2, <1>3, <2>8, <3>3
    <3>5. /\ entry'[fr.entry].state # "unborn"
          /\ entry'[fr.entry].state = "live" => entry'[fr.entry].hook = fr.hook
      BY <1>2, <1>3, <2>6, <2>8, <3>3 DEF CallOK
    <3>6. InHandler(fr) => fr.hook = "replace"
      BY <1>2, <2>8, <3>1 DEF CallOK
    <3> QED
      BY <2>3, <2>4, <2>8, <3>2, <3>3, <3>4, <3>5, <3>6 DEF CallOK
  <2>11. /\ cpu_context[t] \in 0..MaxDepth
         /\ cpu_context' = [cpu_context EXCEPT ![t] = cpu_context[t]]
    BY <1>1, SameContext
  <2>12. fr.at \in {"uprobes", "uprobe"} => cpu_context[t] = Depth(t)
    <3>1. Depth(t) \in 1..Len(frames[t])
      BY <1>2, AttachBoundsAssumption DEF Depth
    <3> QED
      BY <1>2, <2>8, <3>1 DEF StackOK
  <2>13. At(t) # "out" /\ UNCHANGED managerVars
    BY <1>1
  <2>14. PICK n \in 0..MaxDepth : n = cpu_context[t]
    BY <2>11
  <2>15. /\ cpu_context' = [cpu_context EXCEPT ![t] = n] /\ fr.entry = Top(t).entry
         /\ fr.at \in {"uprobes", "uprobe"} => n = Depth(t)
         /\ n = cpu_context[t] \/ Top(t).entry # 0
    BY <2>8, <2>11, <2>12, <2>14
  <2>16. /\ callback' \in [Thread -> Id \cup {0}] /\ e \in Id
    BY <2>0, <2>7
  <2>17. OnlyFlagOf(e) /\ Covers(S, e)
    BY <2>5, <2>6, <2>9 DEF OnlyFlagOf, Covers
  <2> QED
    BY <2>2, <2>10, <2>13, <2>15, <2>16, <2>17, DisturbingStep
<1> QED
  BY <1>5, <1>6

-----------------------------------------------------------------------------
(* The theorems.                                                           *)

LEMMA StutterIInv ==
  ASSUME IInv, UNCHANGED vars
  PROVE  IInv'
<1>1. UNCHANGED managerVars /\ UNCHANGED <<entry, frames, callback, cpu_context>>
  BY DEF vars, managerVars
<1>2. ManagerOK /\ ThreadsOK
  BY DEF IInv
<1>3. ManagerOK'
  <2>1. /\ entry \in [Id -> EntryRecord] /\ callback \in [Thread -> Id \cup {0}]
        /\ cpu_context \in [Thread -> 0..MaxDepth]
    BY <1>2 DEF ManagerOK, TypeOK
  <2> QED
    BY <1>1, <1>2, <2>1, ManagerStays
<1>4. ThreadsOK'
  BY <1>1, <1>2 DEF ThreadsOK
<1> QED
  BY <1>3, <1>4 DEF IInv

\* The attaching thread keeps the invariant ...
LEMMA ManagerIInv ==
  ASSUME IInv, Manager
  PROVE  IInv'
<1>1. ASSUME NEW f \in Function, NEW ty \in AttachType, AttachAt(f, ty)
      PROVE  IInv'
  BY <1>1, NewEntryIInv, OldEntryIInv
<1>2. ASSUME NEW f \in Function, DetachByFuncAddr(f)
      PROVE  IInv'
  BY <1>2, DetachByFuncAddrIInv
<1>3. ASSUME NEW i \in Id, DetachById(i)
      PROVE  IInv'
  BY <1>3, DetachByIdIInv
<1>4. ASSUME PushUser PROVE IInv'
  BY <1>4, PushUserIInv
<1>5. ASSUME Unhook PROVE IInv'
  BY <1>5, UnhookIInv
<1>6. ASSUME FreeEntry PROVE IInv'
  BY <1>6, FreeEntryIInv
<1> QED
  BY <1>1, <1>2, <1>3, <1>4, <1>5, <1>6 DEF Manager

\* ... and so does every thread that goes through the hooks.
LEMMA ThreadIInv ==
  ASSUME IInv, NEW t \in Thread, ThreadStep(t)
  PROVE  IInv'
<1>1. ASSUME NEW f \in Function, CallOriginal(t, f) \/ CallUnsampled(t, f) \/ CallHooked(t, f)
      PROVE  IInv'
  BY <1>1, BeginCallIInv
<1>2. ASSUME NEW v \in Value, SetRetval(t, v)
      PROVE  IInv'
  BY <1>2, SetRetvalIInv
<1>3. ASSUME OnEnter(t) \/ VisitUser(t) \/ ProgramReturns(t) \/ LoopEnds(t) \/ Return(t)
      PROVE  IInv'
  BY <1>3, OnEnterIInv, VisitUserIInv, ProgramReturnsIInv, LoopEndsIInv, ReturnIInv
<1>4. ASSUME RunFilter(t) \/ FilterReturns(t) \/ Decide(t) \/ GoneWrong(t)
      PROVE  IInv'
  BY <1>4, RunFilterIInv, FilterReturnsIInv, DecideIInv, GoneWrongIInv
<1>5. ASSUME HandlerStarts(t) PROVE IInv'
  BY <1>5, HandlerStartsIInv
<1> QED
  BY <1>1, <1>2, <1>3, <1>4, <1>5 DEF ThreadStep

\* Whatever is attached and detached while threads call the functions, the tables,
\* the hooks, the calls and the flags they share keep fitting together.
THEOREM HookInvariant == Spec => []IInv
<1>1. IInv /\ [Next]_vars => IInv'
  BY ManagerIInv, ThreadIInv, StutterIInv DEF Next
<1> QED
  BY <1>1, InitIInv, PTL DEF Spec

\* The shape of frida_attach_impl's tables, with room for any number of attaches.
THEOREM HookTypes == Spec => []TypeOK
<1>1. IInv => TypeOK
  BY DEF IInv, ManagerOK
<1> QED
  BY <1>1, HookInvariant, PTL

\* The attach entries of attach_at and detach_by_* and the user lists of the internal
\* entries agree whenever no attach or detach is under way.
THEOREM TablesAgree == Spec => []AttachTablesAgree
<1>1. IInv => AttachTablesAgree
  <2> SUFFICES ASSUME IInv, op = Idle PROVE AttachTablesAgree
    BY DEF AttachTablesAgree
  <2>1. UsersOK /\ TypeOK /\ op.at = "idle"
    BY DEF IInv, ManagerOK, Idle
  <2>2. \A f \in Function : ~Erasing(f) /\ ~Pushing(f)
    BY <2>1 DEF Erasing, Pushing
  <2>3. \A i \in DOMAIN attaches :
          internal_attaches[attaches[i].fn] # 0
          /\ i \in Range(entry[internal_attaches[attaches[i].fn]].users)
    BY <2>1 DEF UsersOK, UsersOf
  <2>4. ASSUME NEW f \in Function, internal_attaches[f] # 0
        PROVE  /\ UsersOf(f) # <<>> /\ IsInjective(UsersOf(f))
               /\ \A i \in Range(UsersOf(f)) : i \in DOMAIN attaches /\ attaches[i].fn = f
    BY <2>1, <2>2, <2>4 DEF UsersOK
  <2> QED
    BY <2>3, <2>4 DEF AttachTablesAgree, UsersOf
<1> QED
  BY <1>1, HookInvariant, PTL

\* The functions gum hooks are the ones with an entry, and no hook outlives its entry.
THEOREM HooksAreEntries == Spec => []HooksFollowEntries
<1>1. IInv => HooksFollowEntries
  <2> SUFFICES ASSUME IInv PROVE HooksFollowEntries
    OBVIOUS
  <2>1. HooksOK /\ EntriesOK /\ TypeOK
    BY DEF IInv, ManagerOK
  <2>2. \A f \in Function : gum[f] # 0 => LiveEntry(gum[f])
    BY <2>1 DEF HooksOK, EntriesOK, LiveEntry
  <2>3. ASSUME op = Idle PROVE gum = internal_attaches
    <3>1. op.at = "idle"
      BY <2>3 DEF Idle
    <3>2. \A f \in Function : gum[f] = internal_attaches[f]
      BY <2>1, <3>1 DEF HooksOK
    <3> QED
      BY <2>1, <3>2 DEF TypeOK
  <2> QED
    BY <2>2, <2>3 DEF HooksFollowEntries
<1> QED
  BY <1>1, HookInvariant, PTL

\* What the override handler decides is what the program of this very call asked for,
\* unless another call used the entry's flag meanwhile.
THEOREM OverridesAreObeyed == Spec => []OverrideTakesEffect
<1>1. IInv => OverrideTakesEffect
  <2> SUFFICES ASSUME IInv, NEW t \in Thread, At(t) = "decide", ~Top(t).disturbed,
                      LiveEntry(Top(t).entry)
               PROVE  /\ entry[Top(t).entry].is_overrided <=> Top(t).set # NoValue
                      /\ entry[Top(t).entry].is_overrided =>
                           entry[Top(t).entry].user_ret = Top(t).set
    BY DEF OverrideTakesEffect, Took
  <2>1. CallOK(Top(t), entry, callback[t]) /\ At(t) = Top(t).at
    BY TopFacts
  <2> QED
    BY <2>1 DEF CallOK, InHandler, LiveEntry
<1> QED
  BY <1>1, HookInvariant, PTL

\* run_filter_callback finds the override it is to run unless an attach or a detach
\* is under way.
THEOREM HandlersHaveOverride == Spec => []HandlersFindTheirOverride
<1>1. IInv => HandlersFindTheirOverride
  <2> SUFFICES ASSUME IInv, NEW t \in Thread, op = Idle, At(t) = "filter",
                      LiveEntry(Top(t).entry)
               PROVE  SoundEntry(Top(t).entry) /\ HasOverride(Top(t).entry)
    BY DEF HandlersFindTheirOverride
  <2> DEFINE e == Top(t).entry
  <2>1. CallOK(Top(t), entry, callback[t]) /\ Top(t) \in Frame /\ At(t) = Top(t).at
    BY TopFacts
  <2>2. e # 0 /\ e \in Id /\ entry[e].state = "live" /\ entry[e].hook = "replace"
    BY <2>1 DEF CallOK, InHandler, LiveEntry, Frame
  <2>3. EntriesOK /\ UsersOK /\ OverridesOK /\ op.at = "idle"
    BY DEF IInv, ManagerOK, Idle
  <2> HIDE DEF e
  <2>4. PICK f \in Function : internal_attaches[f] = e
    BY <2>2, <2>3 DEF EntriesOK
  <2>5. ~Erasing(f) /\ ~Pushing(f) /\ internal_attaches[f] # 0
    BY <2>2, <2>3, <2>4 DEF Erasing, Pushing
  <2>6. /\ UsersOf(f) # <<>> /\ \A i \in Range(UsersOf(f)) : i \in DOMAIN attaches
    BY <2>3, <2>5 DEF UsersOK
  <2>7. \A i \in Range(UsersOf(f)) : attaches[i].type = "override"
    BY <2>2, <2>3, <2>4, <2>5 DEF OverridesOK
  <2>8. UsersOf(f) = entry[e].users /\ UsersOf(f) \in Seq(Id)
    BY <2>2, <2>4, UsersType DEF UsersOf
  <2>9. Range(UsersOf(f)) # {}
    BY <2>6, <2>8, EmptyList
  <2>10. SoundEntry(e)
    BY <2>2, <2>6, <2>8 DEF SoundEntry, LiveEntry
  <2>11. HasOverride(e)
    BY <2>7, <2>8, <2>9 DEF HasOverride
  <2> QED
    BY <2>10, <2>11 DEF e
<1> QED
  BY <1>1, HookInvariant, PTL

\* A uprobe's program finds the cpu context of the call it runs for.
THEOREM ProgramsHaveContext == Spec => []UprobesHaveContext
<1>1. IInv => UprobesHaveContext
  <2> SUFFICES ASSUME IInv, NEW t \in Thread, NEW d \in DOMAIN frames[t],
                      frames[t][d].at = "uprobe"
               PROVE  cpu_context[t] = d
    BY DEF UprobesHaveContext
  <2>1. StackOK(frames[t], entry, callback[t], cpu_context[t]) /\ frames[t] \in Seq(Frame)
    BY DEF IInv, ThreadsOK
  <2>2. d \in 1..Len(frames[t])
    BY <2>1, LenProperties
  <2> QED
    BY <2>1, <2>2 DEF StackOK
<1> QED
  BY <1>1, HookInvariant, PTL

=============================================================================
