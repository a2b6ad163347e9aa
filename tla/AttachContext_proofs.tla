------------------------ MODULE AttachContext_proofs ------------------------
(***************************************************************************)
(* Proofs about AttachContext: for every size of the handler table, any    *)
(* number of threads in bpftime_agent_main and of signals, and whatever    *)
(* the server does to the table meanwhile.                                 *)
(***************************************************************************)
EXTENDS AttachContext, StackLemmas, FiniteSetTheorems

\* Maps of the context: keys of Fd that may be missing.
PartialMap(S) == UNION {[D -> S] : D \in SUBSET Fd}

StackEntry == [fd : Fd, step : {"prog", "target", "attach"}]
AgentState == [at : {"out", "open", "construct", "walk"}, pass : {1, 2}, fd : 1..(MaxFd + 1),
               stack : Seq(StackEntry)]
EventKind == {"uprobe", "refused", "unhookable", "none"}
Context == [number : Nat, instantiated : SUBSET Fd, progs : PartialMap(Nat),
            perf_events : PartialMap(EventKind), links : PartialMap(Nat),
            next_id : Nat \ {0}]
Handler == {Unused} \cup [type : {"prog"}, loads : BOOLEAN]
             \cup [type : {"perf"}, kind : PerfKind]
             \cup [type : {"link"}, prog : Fd, target : Fd, probes : BOOLEAN]
AttachRecord == [ctx : Nat, id : Nat \ {0}, link : Fd, prog : Nat]

\* A thread that does not walk is at the start, and the links it is in the middle
\* of are all different and, but for the innermost, short of being attached.
AgentOK(a) ==
  /\ a \in AgentState
  /\ a.at # "walk" => a = [Out EXCEPT !.at = a.at]
  /\ a.stack # <<>> => a.fd \in Fd
  /\ \A m, n \in 1..Len(a.stack) : a.stack[m].fd = a.stack[n].fd => m = n
  /\ \A n \in 1..(Len(a.stack) - 1) : a.stack[n].step # "attach"

ContextType ==
  /\ handlers \in [Fd -> Handler]
  /\ initialized \in {0, 1}
  /\ DOMAIN agent = Injector /\ \A i \in Injector : AgentOK(agent[i])
  /\ ctx \in Context
  /\ attaches \in SUBSET AttachRecord
  /\ signal \in [at : {"idle", "detach"}, todo : SUBSET Fd]
  /\ signal.at = "idle" => signal = NoSignal
  /\ changed \in Nat /\ inits \in Nat /\ ctx.number <= inits

\* The object of a program that was loaded is recorded and stays.
ObjectsOK(o, c) ==
  /\ o \in [made : Nat, loaded : SUBSET Nat, freed : SUBSET Nat]
  /\ o.loaded \subseteq 1..o.made /\ o.freed \subseteq 1..o.made
  /\ o.loaded \cap o.freed = {}
  /\ \A fd \in DOMAIN c.progs :
       /\ c.progs[fd] \in 1..o.made
       /\ c.progs[fd] \in o.loaded => fd \in c.instantiated

\* The attaches and the links of the context correspond one to one.
LinksMatchAttaches(as, c) ==
  /\ \A a \in as : a.ctx = c.number /\ a.link \in DOMAIN c.links /\ c.links[a.link] = a.id
  /\ \A l \in DOMAIN c.links : \E a \in as : a.link = l
  /\ \A a, b \in as : a.link = b.link => a = b
  /\ \A l \in DOMAIN c.links : c.links[l] < c.next_id /\ l \in c.instantiated
  /\ \A l, m \in DOMAIN c.links : c.links[l] = c.links[m] => l = m

\* The links a thread is in the middle of have not been attached.
StackIsNew(a, c) == \A n \in 1..Len(a.stack) : a.stack[n].fd \notin DOMAIN c.links

\* Without a signal in the middle of an initialization one thread at a time is in
\* bpftime_agent_main, with the flag taken and over a context that has nothing
\* attached, and the handler detaches what there is.
OneAtATime ==
  /\ \A i, j \in Injector : Busy(i) /\ Busy(j) => i = j
  /\ \A i \in Injector : Busy(i) => initialized = 1 /\ signal = NoSignal
  /\ \A i \in Injector :
       agent[i].at \in {"open", "construct"} => attaches = {} /\ ctx.number < inits
  /\ initialized = 0 => attaches = {} /\ ~alive /\ signal = NoSignal
  /\ signal.at = "detach" => signal.todo = DOMAIN ctx.links
  /\ \A i \in Injector : StackIsNew(agent[i], ctx)

\* The links of table h that can be attached, those whose attach throws with what
\* leads to them, and what makes a table whole.
GoodIn(h) ==
  {l \in Fd : h[l].type = "link" /\ h[h[l].prog] = Prog(TRUE) /\ h[h[l].target] = Perf("uprobe")}

ThrowsIn(h, l) ==
  h[l].type = "link" /\ h[h[l].prog] = Prog(TRUE) /\ h[h[l].target] = Perf("unhookable")

LeadsToThrowIn(h, m) ==
  \A S \in SUBSET Fd :
    m \in S /\ (\A l \in S : h[l].type = "link" => h[l].target \in S) => \E l \in S : ThrowsIn(h, l)

LinksOK(h) ==
  \A l \in Fd : h[l].type = "link" =>
    h[h[l].prog].type = "prog" /\ (h[l].probes => h[h[l].target].type = "perf")

\* What context c says of table h, which has not changed since it was constructed.
ContextFollowsTable(h, c) ==
  /\ \A fd \in DOMAIN c.perf_events :
       /\ c.perf_events[fd] # "none" => h[fd] = Perf(c.perf_events[fd])
       /\ c.perf_events[fd] = "none" => h[fd] # Perf("uprobe")
  /\ \A fd \in c.instantiated :
       /\ h[fd] = Perf("uprobe") => fd \in DOMAIN c.perf_events
       /\ h[fd].type = "prog" => h[fd] = Prog(TRUE) /\ fd \in DOMAIN c.progs
       /\ h[fd].type = "link" => fd \in DOMAIN c.links
  /\ DOMAIN c.links \subseteq GoodIn(h)

\* Entry e of the stack is a link of the table, and the ends it has seen are there.
EntryFollowsTable(e, h, c) ==
  /\ h[e.fd].type = "link"
  /\ e.step # "prog" => h[e.fd].prog \in c.instantiated
  /\ e.step = "attach" /\ h[h[e.fd].target] = Perf("uprobe") => h[e.fd].target \in c.instantiated

\* How far walk a over such a table has come: the links before this one that can be
\* attached have been, and the links it is in the middle of each wait for the next
\* one as their target.
WalkFollowsTable(a, h, c) ==
  /\ \A l \in GoodIn(h) : a.pass = 2 \/ l < a.fd => l \in DOMAIN c.links
  /\ a.stack # <<>> => a.stack[1].fd = a.fd
  /\ \A n \in 1..Len(a.stack) : EntryFollowsTable(a.stack[n], h, c)
  /\ \A n \in 1..(Len(a.stack) - 1) :
       a.stack[n].step = "target" /\ a.stack[n + 1].fd = h[a.stack[n].fd].target

\* When nobody walks, the links that can be attached have been, but for those that
\* come after a link that leads to a throw.
AttachedOrThrown(h, c) ==
  \A l \in GoodIn(h) \ DOMAIN c.links : \E m \in 1..(l - 1) : LeadsToThrowIn(h, m)

Undisturbed == changed = 0 /\ ctx.number = inits /\ signal = NoSignal /\ initialized = 1

InitializationOK ==
  Undisturbed =>
    /\ ContextFollowsTable(handlers, ctx)
    /\ \A i \in Injector : Busy(i) => WalkFollowsTable(agent[i], handlers, ctx)
    /\ (\A i \in Injector : ~Busy(i)) => AttachedOrThrown(handlers, ctx)

\* The inductive invariant.
IInv ==
  /\ ContextType
  /\ ObjectsOK(objects, ctx)
  /\ LinksOK(handlers)
  /\ ~tangled => LinksMatchAttaches(attaches, ctx) /\ OneAtATime /\ InitializationOK

-----------------------------------------------------------------------------
(* Facts about the maps and the stacks.                                    *)

\* The keys of a map of the context are descriptors.
LEMMA MapOK ==
  ASSUME NEW S, NEW f \in PartialMap(S)
  PROVE  DOMAIN f \subseteq Fd /\ f \in [DOMAIN f -> S]
  BY DEF PartialMap

\* A map with a key added.
LEMMA WithOK ==
  ASSUME NEW S, NEW f \in PartialMap(S), NEW k \in Fd, NEW v \in S
  PROVE  With(f, k, v) \in PartialMap(S)
<1>1. DOMAIN f \cup {k} \in SUBSET Fd
  BY MapOK
<1>2. With(f, k, v) \in [DOMAIN f \cup {k} -> S]
  BY MapOK DEF With
<1> QED
  BY <1>1, <1>2 DEF PartialMap

\* A map with a key taken away.
LEMMA WithoutOK ==
  ASSUME NEW S, NEW f \in PartialMap(S), NEW k
  PROVE  Without(f, k) \in PartialMap(S)
<1>1. DOMAIN f \ {k} \in SUBSET Fd
  BY MapOK
<1>2. Without(f, k) \in [DOMAIN f \ {k} -> S]
  BY MapOK DEF Without
<1> QED
  BY <1>1, <1>2 DEF PartialMap

\* The empty map.
LEMMA EmptyMap ==
  ASSUME NEW S
  PROVE  <<>> \in PartialMap(S) /\ DOMAIN <<>> = {}
<1>1. <<>> \in [{} -> S] /\ DOMAIN <<>> = {}
  OBVIOUS
<1> QED
  BY <1>1 DEF PartialMap

\* The links that can be attached, and the table, in the words of the model.
LEMMA TableWords ==
  /\ Good = GoodIn(handlers) /\ (LinksHaveTheirEnds <=> LinksOK(handlers))
  /\ \A m : LeadsToThrow(m) <=> LeadsToThrowIn(handlers, m)
<1>1. Good = GoodIn(handlers) /\ (LinksHaveTheirEnds <=> LinksOK(handlers))
  BY DEF Good, GoodIn, Is, LinksHaveTheirEnds, LinksOK
<1>2. \A l : Throws(l) <=> ThrowsIn(handlers, l)
  BY DEF Throws, ThrowsIn, Is
<1>3. \A m : LeadsToThrow(m) <=> LeadsToThrowIn(handlers, m)
  BY <1>2 DEF LeadsToThrow, LeadsToThrowIn, Is
<1> QED
  BY <1>1, <1>3

\* The descriptors within the bounds are in the table.
LEMMA FdNowInTable == FdNow \subseteq Fd
  BY FdAssumption DEF FdNow, Fd

\* Whether a thread is in bpftime_agent_main shows in where it is.
LEMMA BusyAt ==
  ASSUME NEW a, AgentOK(a)
  PROVE  (a # Out <=> a.at # "out") /\ (a.at # "walk" => a.stack = <<>>)
  BY DEF AgentOK, Out

\* A thread at the start of its way.
LEMMA AtTheStart ==
  ASSUME NEW at \in {"out", "open", "construct", "walk"}
  PROVE  /\ AgentOK([Out EXCEPT !.at = at]) /\ [Out EXCEPT !.at = at].at = at
         /\ [Out EXCEPT !.at = at].stack = <<>> /\ [Out EXCEPT !.at = at].pass = 1
         /\ [Out EXCEPT !.at = at].fd = 1
         /\ AgentOK(Out) /\ Len(<<>>) = 0 /\ <<>> \in Seq(StackEntry)
<1>1. Len(<<>>) = 0 /\ <<>> \in Seq(StackEntry) /\ 1 \in 1..(MaxFd + 1)
  BY FdAssumption, EmptySeq
<1> DEFINE b == [Out EXCEPT !.at = at]
<1>2. /\ b.at = at /\ b.stack = <<>> /\ b.pass = 1 /\ b.fd = 1
      /\ b = [at |-> at, pass |-> 1, fd |-> 1, stack |-> <<>>]
  BY DEF Out
<1>3. b \in AgentState
  BY <1>1, <1>2 DEF AgentState
<1>4. [Out EXCEPT !.at = b.at] = b
  BY <1>2
<1> HIDE DEF b
<1>5. AgentOK(b)
  BY <1>1, <1>2, <1>3, <1>4 DEF AgentOK
<1>6. Out \in AgentState /\ Out = [Out EXCEPT !.at = Out.at] /\ Out.stack = <<>>
  BY <1>1 DEF AgentState, Out
<1>7. AgentOK(Out)
  BY <1>1, <1>6 DEF AgentOK
<1> QED
  BY <1>1, <1>2, <1>5, <1>7 DEF b

\* Where a thread is at the start of its way, set twice.
LEMMA OutTwice ==
  ASSUME NEW x, NEW y
  PROVE  [[Out EXCEPT !.at = x] EXCEPT !.at = y] = [Out EXCEPT !.at = y]
<1>1. /\ [Out EXCEPT !.at = x] = [at |-> x, pass |-> 1, fd |-> 1, stack |-> <<>>]
      /\ [Out EXCEPT !.at = y] = [at |-> y, pass |-> 1, fd |-> 1, stack |-> <<>>]
  BY DEF Out
<1> QED
  BY <1>1

\* Before anything has happened.
LEMMA InitIInv == Init => IInv
<1> SUFFICES ASSUME Init PROVE IInv
  OBVIOUS
<1> USE DEF Init
<1>1. AgentOK(Out) /\ Out.at = "out" /\ Out.stack = <<>> /\ Len(<<>>) = 0
  BY AtTheStart DEF Out
<1>2. ctx \in Context
  BY EmptyMap DEF Context, NoContext
<1>3. ContextType
  BY <1>1, <1>2 DEF ContextType, Handler, NoSignal, NoContext
<1>4. DOMAIN ctx.progs = {} /\ DOMAIN ctx.links = {}
  BY EmptyMap DEF NoContext
<1>5. ObjectsOK(objects, ctx)
  BY <1>4 DEF ObjectsOK
<1>6. LinksOK(handlers)
  BY DEF LinksOK, Unused
<1>7. LinksMatchAttaches(attaches, ctx)
  BY <1>4 DEF LinksMatchAttaches
<1>8. OneAtATime
  BY <1>1, <1>4 DEF OneAtATime, Busy, StackIsNew, NoSignal
<1> QED
  BY <1>3, <1>5, <1>6, <1>7, <1>8 DEF IInv, InitializationOK, Undisturbed

-----------------------------------------------------------------------------
(* The server.                                                             *)

\* A table that is whole may be put in place of the one there.
LEMMA ServerOpIInv ==
  ASSUME IInv, NEW table \in [Fd -> Handler], LinksOK(table), ServerOp(table)
  PROVE  IInv'
<1> USE DEF ServerOp
<1>1. changed \in Nat /\ changed' = changed + 1 /\ changed' \in Nat /\ changed' # 0
  BY DEF IInv, ContextType
<1>2. ContextType'
  BY <1>1 DEF IInv, ContextType
<1>3. ObjectsOK(objects, ctx)' /\ LinksOK(handlers)'
  BY DEF IInv
<1>4. (~tangled => LinksMatchAttaches(attaches, ctx))'
  BY DEF IInv
<1>5. (~tangled => OneAtATime)'
  BY DEF IInv, OneAtATime, Busy
<1>6. ~Undisturbed'
  BY <1>1 DEF Undisturbed
<1> QED
  BY <1>2, <1>3, <1>4, <1>5, <1>6 DEF IInv, InitializationOK

\* A handler in a free place makes no link lose an end.
LEMMA SetHandlerIInv ==
  ASSUME IInv, NEW fd \in Fd, NEW h \in Handler, SetHandler(fd, h),
         h.type = "link" => /\ h.prog \in Fd /\ Is(h.prog, "prog")
                            /\ h.target \in Fd /\ (h.probes => Is(h.target, "perf"))
  PROVE  IInv'
<1> DEFINE table == [handlers EXCEPT ![fd] = h]
<1>0. handlers \in [Fd -> Handler] /\ LinksOK(handlers)
  BY DEF IInv, ContextType
<1>1. table \in [Fd -> Handler]
  BY <1>0
<1>2. handlers[fd].type = "unused"
  BY DEF SetHandler, Is
<1>3. ASSUME NEW l \in Fd, table[l].type = "link"
      PROVE  /\ table[table[l].prog].type = "prog"
             /\ table[l].probes => table[table[l].target].type = "perf"
  <2>1. CASE l = fd
    <3>1. table[l] = h /\ h.type = "link"
      BY <1>0, <1>3, <2>1
    <3>2. h.prog \in Fd /\ handlers[h.prog].type = "prog" /\ h.target \in Fd
      BY <3>1 DEF Is
    <3>3. table[h.prog] = handlers[h.prog]
      BY <1>0, <1>2, <3>2
    <3>4. h.probes => handlers[h.target].type = "perf"
      BY <3>1 DEF Is
    <3>5. h.probes => table[h.target] = handlers[h.target]
      BY <1>0, <1>2, <3>2, <3>4
    <3> HIDE DEF table
    <3> QED
      BY <3>1, <3>2, <3>3, <3>4, <3>5
  <2>2. CASE l # fd
    <3>1. table[l] = handlers[l] /\ handlers[l].type = "link"
      BY <1>0, <1>3, <2>2
    <3>2. handlers[l].prog \in Fd /\ handlers[l].target \in Fd
      BY <1>0, <3>1 DEF Handler, Unused
    <3>3. /\ handlers[handlers[l].prog].type = "prog"
          /\ handlers[l].probes => handlers[handlers[l].target].type = "perf"
      BY <1>0, <3>1 DEF LinksOK
    <3> QED
      BY <1>0, <1>2, <3>1, <3>2, <3>3
  <2> QED
    BY <2>1, <2>2
<1>4. LinksOK(table)
  BY <1>3 DEF LinksOK
<1> HIDE DEF table
<1> QED
  BY <1>1, <1>4, ServerOpIInv DEF SetHandler, table

\* What the server does to its table.
LEMMA ServerIInv ==
  ASSUME IInv, Server
  PROVE  IInv'
<1>1. CASE CreateShm
  <2> USE <1>1 DEF CreateShm
  <2>1. ContextType' /\ (ObjectsOK(objects, ctx) /\ LinksOK(handlers))'
    BY DEF IInv, ContextType
  <2>2. (~tangled => LinksMatchAttaches(attaches, ctx))'
    BY DEF IInv
  <2>3. (~tangled => OneAtATime)'
    BY DEF IInv, OneAtATime, Busy
  <2>4. (~tangled => InitializationOK)'
    BY DEF IInv, InitializationOK, Undisturbed, Busy
  <2> QED
    BY <2>1, <2>2, <2>3, <2>4 DEF IInv
<1>2. ASSUME NEW fd \in Fd, NEW loads \in BOOLEAN, AddProg(fd, loads)
      PROVE  IInv'
  <2>1. Prog(loads) \in Handler /\ Prog(loads).type = "prog"
    BY DEF Prog, Handler
  <2> QED
    BY <1>2, <2>1, SetHandlerIInv DEF AddProg
<1>3. ASSUME NEW fd \in Fd, NEW kind \in PerfKind, AddPerfEvent(fd, kind)
      PROVE  IInv'
  <2>1. Perf(kind) \in Handler /\ Perf(kind).type = "perf"
    BY DEF Perf, Handler
  <2> QED
    BY <1>3, <2>1, SetHandlerIInv DEF AddPerfEvent
<1>4. ASSUME NEW fd \in Fd, NEW p \in Fd, NEW q \in Fd, NEW b \in BOOLEAN,
             SetHandler(fd, Link(q, p, b)), Is(q, "prog"), b => Is(p, "perf")
      PROVE  IInv'
  <2>1. /\ Link(q, p, b) \in Handler
        /\ Link(q, p, b).prog = q /\ Link(q, p, b).target = p /\ Link(q, p, b).probes = b
    BY DEF Link, Handler
  <2> QED
    BY <1>4, <2>1, SetHandlerIInv
<1>5. ASSUME NEW fd \in Fd, NEW p \in Fd, NEW q \in Fd, AttachPerfToBpf(fd, p, q) \/ AddBpfLink(fd, p, q)
      PROVE  IInv'
  <2>1. CASE AttachPerfToBpf(fd, p, q)
    BY <1>4, <2>1 DEF AttachPerfToBpf
  <2>2. CASE AddBpfLink(fd, p, q)
    <3>1. Is(q, "perf") \in BOOLEAN
      BY DEF Is
    <3> QED
      BY <1>4, <2>2, <3>1 DEF AddBpfLink
  <2> QED
    BY <1>5, <2>1, <2>2
<1>6. ASSUME NEW fd \in Fd, CloseFd(fd)
      PROVE  IInv'
  <2> DEFINE gone == {fd} \cup Dependents(fd)
             table == [f \in Fd |-> IF f = fd \/ f \in Dependents(fd) THEN Unused ELSE handlers[f]]
  <2>0. handlers \in [Fd -> Handler] /\ LinksOK(handlers) /\ Unused \in Handler
    BY DEF IInv, ContextType, Handler
  <2>1. table \in [Fd -> Handler]
    BY <2>0
  <2>2. ASSUME NEW l \in Fd, table[l].type = "link"
        PROVE  /\ table[table[l].prog].type = "prog"
               /\ table[l].probes => table[table[l].target].type = "perf"
    <3>1. table[l] = handlers[l] /\ handlers[l].type = "link" /\ l \notin Dependents(fd)
      BY <2>2 DEF Unused
    <3>2. handlers[l].prog \in Fd /\ handlers[l].target \in Fd
      BY <2>0, <3>1 DEF Handler, Unused
    <3>3. /\ handlers[handlers[l].prog].type = "prog"
          /\ handlers[l].probes => handlers[handlers[l].target].type = "perf"
      BY <2>0, <3>1 DEF LinksOK
    <3>4. /\ handlers[l].prog # fd
          /\ handlers[l].probes => handlers[l].target # fd
      BY <3>1, <3>3 DEF Dependents, Is
    <3>5. \A f \in Fd : f # fd /\ handlers[f].type # "link" => table[f] = handlers[f]
      BY DEF Dependents, Is
    <3> HIDE DEF table
    <3> QED
      BY <3>1, <3>2, <3>3, <3>4, <3>5
  <2>3. LinksOK(table)
    BY <2>2 DEF LinksOK
  <2> HIDE DEF table
  <2> QED
    BY <1>6, <2>1, <2>3, ServerOpIInv DEF CloseFd, table
<1>7. FdNow \subseteq Fd
  BY FdNowInTable
<1> QED
  BY <1>1, <1>2, <1>3, <1>5, <1>6, <1>7 DEF Server

-----------------------------------------------------------------------------
(* Threads on their way.                                                   *)

\* One thread moves, the others stay where they are.
LEMMA AgentStep ==
  ASSUME IInv, NEW i \in Injector, NEW b, AgentOK(b), agent' = [agent EXCEPT ![i] = b]
  PROVE  /\ DOMAIN agent' = Injector /\ \A j \in Injector : AgentOK(agent'[j])
         /\ agent'[i] = b /\ \A j \in Injector : j # i => agent'[j] = agent[j]
  BY DEF IInv, ContextType

\* The others are not in bpftime_agent_main, and have no links in hand.
LEMMA OthersAreOut ==
  ASSUME IInv, ~tangled, NEW i \in Injector, agent[i] # Out \/ initialized = 0,
         NEW j \in Injector, j # i
  PROVE  agent[j] = Out /\ agent[j].at = "out" /\ agent[j].stack = <<>>
<1>1. agent[j] = Out
  BY DEF IInv, OneAtATime, Busy
<1> QED
  BY <1>1 DEF Out

\* No stack, no link of it.
LEMMA EmptyStackIsNew ==
  ASSUME NEW a, a.stack = <<>>, NEW c
  PROVE  StackIsNew(a, c)
  BY AtTheStart DEF StackIsNew

\* The flag is taken.
LEMMA StartIInv ==
  ASSUME IInv, NEW i \in Injector, Start(i)
  PROVE  IInv'
<1> DEFINE b == [Out EXCEPT !.at = "open"]
<1>1. AgentOK(b) /\ b.at = "open" /\ b.stack = <<>>
  BY AtTheStart
<1> HIDE DEF b
<1>2. /\ agent' = [agent EXCEPT ![i] = b] /\ initialized = 0 /\ initialized' = 1
      /\ changed' = 0 /\ inits' = inits + 1
      /\ UNCHANGED <<handlers, alive, ctx, attaches, signal, objects, tangled>>
  BY DEF Start, shmVars, b
<1>3. /\ DOMAIN agent' = Injector /\ \A j \in Injector : AgentOK(agent'[j])
      /\ agent'[i] = b /\ \A j \in Injector : j # i => agent'[j] = agent[j]
  BY <1>1, <1>2, AgentStep
<1>4. inits \in Nat /\ ctx.number \in Nat /\ ctx.number <= inits
  BY DEF IInv, ContextType, Context
<1>5. ctx'.number < inits' /\ inits' \in Nat
  BY <1>2, <1>4
<1>6. ContextType'
  BY <1>2, <1>3, <1>4, <1>5 DEF IInv, ContextType
<1>7. (ObjectsOK(objects, ctx) /\ LinksOK(handlers))'
  BY <1>2 DEF IInv
<1>8. ASSUME ~tangled'
      PROVE  LinksMatchAttaches(attaches, ctx)' /\ OneAtATime' /\ ~Undisturbed'
  <2>1. ~tangled /\ LinksMatchAttaches(attaches, ctx) /\ attaches = {} /\ signal = NoSignal
    BY <1>2, <1>8 DEF IInv, OneAtATime
  <2>2. \A j \in Injector : j # i => agent'[j] = Out /\ agent'[j].at = "out" /\ agent'[j].stack = <<>>
    BY <1>2, <1>3, <2>1, OthersAreOut
  <2>3. \A j \in Injector : StackIsNew(agent'[j], ctx')
    BY <1>1, <1>3, <2>2, EmptyStackIsNew
  <2>4. signal'.at = "idle"
    BY <1>2, <2>1 DEF NoSignal
  <2>5. OneAtATime'
    BY <1>1, <1>2, <1>3, <1>5, <2>1, <2>2, <2>3, <2>4 DEF OneAtATime, Busy
  <2> QED
    BY <1>2, <1>4, <1>5, <2>1, <2>5 DEF Undisturbed
<1> QED
  BY <1>6, <1>7, <1>8 DEF IInv, InitializationOK

\* The shared memory is opened, or is not there.
LEMMA OpenShmIInv ==
  ASSUME IInv, NEW i \in Injector, OpenShm(i)
  PROVE  IInv'
<1> DEFINE b == IF shm THEN [Out EXCEPT !.at = "construct"] ELSE Out
<1>1. AgentOK(b) /\ b.at \in {"construct", "out"} /\ b.stack = <<>>
  BY AtTheStart DEF Out
<1>2. agent[i].at = "open" /\ AgentOK(agent[i])
  BY DEF OpenShm, IInv, ContextType
<1>3. agent[i] = [Out EXCEPT !.at = "open"]
  BY <1>2 DEF AgentOK
<1>4. [agent[i] EXCEPT !.at = "construct"] = [Out EXCEPT !.at = "construct"] /\ agent[i] # Out
  <2>1. agent[i] # Out
    BY <1>2 DEF Out
  <2> QED
    BY <1>3, <2>1, OutTwice
<1>5. agent' = [agent EXCEPT ![i] = b]
  BY <1>4 DEF OpenShm
<1> HIDE DEF b
<1>6. UNCHANGED <<handlers, initialized, ctx, attaches, signal, objects, tangled, changed, inits>>
  BY DEF OpenShm, shmVars
<1>7. /\ DOMAIN agent' = Injector /\ \A j \in Injector : AgentOK(agent'[j])
      /\ agent'[i] = b /\ \A j \in Injector : j # i => agent'[j] = agent[j]
  BY <1>1, <1>5, AgentStep
<1>8. ContextType'
  BY <1>6, <1>7 DEF IInv, ContextType
<1>9. (ObjectsOK(objects, ctx) /\ LinksOK(handlers))'
  BY <1>6 DEF IInv
<1>10. ASSUME ~tangled'
       PROVE  LinksMatchAttaches(attaches, ctx)' /\ OneAtATime' /\ ~Undisturbed'
  <2>1. /\ ~tangled /\ LinksMatchAttaches(attaches, ctx) /\ attaches = {} /\ signal = NoSignal
        /\ initialized = 1 /\ ctx.number < inits
    BY <1>2, <1>4, <1>6, <1>10 DEF IInv, OneAtATime, Busy
  <2>2. \A j \in Injector : j # i => agent'[j] = Out /\ agent'[j].at = "out" /\ agent'[j].stack = <<>>
    BY <1>4, <1>7, <2>1, OthersAreOut
  <2>3. \A j \in Injector : StackIsNew(agent'[j], ctx')
    BY <1>1, <1>7, <2>2, EmptyStackIsNew
  <2>4. signal'.at = "idle" /\ ctx'.number < inits' /\ ctx'.number # inits'
    <3>1. ctx.number \in Nat /\ inits \in Nat
      BY DEF IInv, ContextType, Context
    <3> QED
      BY <1>6, <2>1, <3>1 DEF NoSignal
  <2>5. OneAtATime'
    BY <1>1, <1>6, <1>7, <2>1, <2>2, <2>3, <2>4 DEF OneAtATime, Busy
  <2> QED
    BY <1>6, <2>1, <2>4, <2>5 DEF Undisturbed
<1> QED
  BY <1>8, <1>9, <1>10 DEF IInv, InitializationOK

\* A new context has nothing, and a walk over it is at its start.
LEMMA ConstructIInv ==
  ASSUME IInv, NEW i \in Injector, Construct(i)
  PROVE  IInv'
<1> DEFINE b == [Out EXCEPT !.at = "walk"]
           c == [NoContext EXCEPT !.number = inits]
<1>1. AgentOK(b) /\ b.at = "walk" /\ b.stack = <<>> /\ b.pass = 1 /\ b.fd = 1
  BY AtTheStart
<1>2. agent[i].at = "construct" /\ AgentOK(agent[i]) /\ inits \in Nat
  BY DEF Construct, IInv, ContextType
<1>3. agent[i] = [Out EXCEPT !.at = "construct"]
  BY <1>2 DEF AgentOK
<1>4. [agent[i] EXCEPT !.at = "walk"] = b /\ agent[i] # Out
  <2>1. agent[i] # Out
    BY <1>2 DEF Out
  <2> QED
    BY <1>3, <2>1, OutTwice
<1>5. agent' = [agent EXCEPT ![i] = b] /\ ctx' = c
  BY <1>4 DEF Construct
<1>6. /\ c \in Context /\ DOMAIN c.links = {} /\ DOMAIN c.progs = {} /\ DOMAIN c.perf_events = {}
      /\ c.instantiated = {} /\ c.number = inits
  BY <1>2, EmptyMap DEF Context, NoContext
<1> HIDE DEF b, c
<1>7. UNCHANGED <<handlers, initialized, attaches, signal, objects, tangled, changed, inits>>
  BY DEF Construct, shmVars
<1>8. /\ DOMAIN agent' = Injector /\ \A j \in Injector : AgentOK(agent'[j])
      /\ agent'[i] = b /\ \A j \in Injector : j # i => agent'[j] = agent[j]
  BY <1>1, <1>5, AgentStep
<1>9. ctx'.number <= inits'
  BY <1>2, <1>5, <1>6, <1>7
<1>10. ContextType'
  BY <1>5, <1>6, <1>7, <1>8, <1>9 DEF IInv, ContextType
<1>11. ObjectsOK(objects, ctx)' /\ LinksOK(handlers)'
  BY <1>5, <1>6, <1>7 DEF IInv, ObjectsOK
<1>12. ASSUME ~tangled'
       PROVE  LinksMatchAttaches(attaches, ctx)' /\ OneAtATime' /\ InitializationOK'
  <2>1. ~tangled /\ attaches = {} /\ signal = NoSignal /\ initialized = 1
    BY <1>2, <1>4, <1>7, <1>12 DEF IInv, OneAtATime, Busy
  <2>2. \A j \in Injector : j # i => agent'[j] = Out /\ agent'[j].at = "out" /\ agent'[j].stack = <<>>
    BY <1>4, <1>8, <2>1, OthersAreOut
  <2>3. \A j \in Injector : StackIsNew(agent'[j], ctx')
    BY <1>1, <1>8, <2>2, EmptyStackIsNew
  <2>4. signal'.at = "idle"
    BY <1>7, <2>1 DEF NoSignal
  <2>5. OneAtATime'
    BY <1>1, <1>5, <1>7, <1>8, <2>1, <2>2, <2>3, <2>4 DEF OneAtATime, Busy
  <2>6. LinksMatchAttaches(attaches', ctx')
    BY <1>5, <1>6, <1>7, <2>1 DEF LinksMatchAttaches
  <2>7. ContextFollowsTable(handlers', ctx')
    BY <1>5, <1>6 DEF ContextFollowsTable
  <2>8. WalkFollowsTable(b, handlers', ctx')
    <3>1. \A l \in Fd : ~(b.pass = 2 \/ l < b.fd)
      BY <1>1, FdAssumption DEF Fd
    <3>2. Len(b.stack) = 0
      BY <1>1, AtTheStart
    <3>3. 1..Len(b.stack) = {} /\ 1..(Len(b.stack) - 1) = {}
      BY <3>2
    <3>4. \A l \in GoodIn(handlers') : l \in Fd
      BY DEF GoodIn
    <3> QED
      BY <1>1, <3>1, <3>3, <3>4 DEF WalkFollowsTable
  <2>9. b # Out
    BY <1>1 DEF Out
  <2> QED
    BY <1>8, <2>2, <2>5, <2>6, <2>7, <2>8, <2>9 DEF InitializationOK, Busy
<1> QED
  BY <1>10, <1>11, <1>12 DEF IInv

\* A step of a walk, in all that the walks have in common.
LEMMA WalkStep ==
  ASSUME IInv, NEW i \in Injector, agent[i].at = "walk",
         NEW b, AgentOK(b), b.at \in {"out", "walk"}, agent' = [agent EXCEPT ![i] = b],
         UNCHANGED agentOnly,
         NEW c \in Context, ctx' = c, c.number = ctx.number,
         ObjectsOK(objects', c), attaches' \in SUBSET AttachRecord,
         ~tangled => LinksMatchAttaches(attaches', c) /\ StackIsNew(b, c),
         ~tangled /\ Undisturbed =>
           /\ ContextFollowsTable(handlers, c)
           /\ IF b = Out THEN AttachedOrThrown(handlers, c)
                         ELSE WalkFollowsTable(b, handlers, c)
  PROVE  IInv'
<1>1. UNCHANGED <<handlers, initialized, signal, tangled, changed, inits>>
  BY DEF agentOnly, shmVars
<1>2. /\ DOMAIN agent' = Injector /\ \A j \in Injector : AgentOK(agent'[j])
      /\ agent'[i] = b /\ \A j \in Injector : j # i => agent'[j] = agent[j]
  BY AgentStep
<1>3. ContextType'
  BY <1>1, <1>2 DEF IInv, ContextType
<1>4. LinksOK(handlers)'
  BY <1>1 DEF IInv
<1>5. ASSUME ~tangled'
      PROVE  OneAtATime' /\ InitializationOK'
  <2>0. agent[i] # Out
    BY DEF Out
  <2>1. ~tangled /\ signal = NoSignal /\ initialized = 1
    BY <1>1, <1>5, <2>0 DEF IInv, OneAtATime, Busy
  <2>2. \A j \in Injector : j # i => agent'[j] = Out /\ agent'[j].at = "out" /\ agent'[j].stack = <<>>
    BY <1>2, <2>0, <2>1, OthersAreOut
  <2>3. \A j \in Injector : StackIsNew(agent'[j], ctx')
    BY <1>2, <2>1, <2>2, EmptyStackIsNew
  <2>4. signal'.at = "idle"
    BY <1>1, <2>1 DEF NoSignal
  <2>5. OneAtATime'
    BY <1>1, <1>2, <2>1, <2>2, <2>3, <2>4 DEF OneAtATime, Busy
  <2>6. Undisturbed' = Undisturbed
    BY <1>1 DEF Undisturbed
  <2>7. InitializationOK'
    BY <1>1, <1>2, <2>1, <2>2, <2>6 DEF InitializationOK, Busy
  <2> QED
    BY <2>5, <2>7
<1> QED
  BY <1>1, <1>3, <1>4, <1>5 DEF IInv

-----------------------------------------------------------------------------
(* Where a walk goes from a handler.                                       *)

\* On to the next handler.
LEMMA NextFdOK ==
  ASSUME NEW a, AgentOK(a), a.at = "walk", a.fd \in Fd
  PROVE  /\ AgentOK(NextFd(a)) /\ NextFd(a).at = "walk" /\ NextFd(a) # Out
         /\ NextFd(a).stack = <<>> /\ NextFd(a).pass = a.pass /\ NextFd(a).fd = a.fd + 1
<1> DEFINE b == NextFd(a)
<1>0. a \in AgentState
  BY DEF AgentOK
<1>1. a.fd + 1 \in 1..(MaxFd + 1)
  BY FdAssumption DEF Fd
<1>2. <<>> \in Seq(StackEntry) /\ Len(<<>>) = 0
  BY AtTheStart
<1>3. /\ b \in AgentState
      /\ b.at = "walk" /\ b.stack = <<>> /\ b.pass = a.pass /\ b.fd = a.fd + 1
  BY <1>0, <1>1, <1>2 DEF NextFd, AgentState
<1>4. b # Out
  BY <1>3 DEF Out
<1> HIDE DEF b
<1>5. 1..Len(b.stack) = {} /\ 1..(Len(b.stack) - 1) = {}
  BY <1>2, <1>3
<1>6. AgentOK(b)
  BY <1>3, <1>5 DEF AgentOK
<1> QED
  BY <1>3, <1>4, <1>6 DEF b

\* A walk with another stack.
LEMMA SetStackOK ==
  ASSUME NEW a, AgentOK(a), a.at = "walk", a.fd \in Fd, NEW s \in Seq(StackEntry),
         \A m, n \in 1..Len(s) : s[m].fd = s[n].fd => m = n,
         \A n \in 1..(Len(s) - 1) : s[n].step # "attach"
  PROVE  LET b == [a EXCEPT !.stack = s] IN
         /\ AgentOK(b) /\ b.at = "walk" /\ b # Out
         /\ b.stack = s /\ b.pass = a.pass /\ b.fd = a.fd
<1> DEFINE b == [a EXCEPT !.stack = s]
<1>0. a \in AgentState
  BY DEF AgentOK
<1>1. /\ b \in AgentState
      /\ b.at = "walk" /\ b.stack = s /\ b.pass = a.pass /\ b.fd = a.fd
  BY <1>0 DEF AgentState
<1>2. b # Out
  BY <1>1 DEF Out
<1> HIDE DEF b
<1>3. AgentOK(b)
  BY <1>1 DEF AgentOK
<1> QED
  BY <1>1, <1>2, <1>3 DEF b

\* The facts about the stack of a walk that is in the middle of a link.
LEMMA StackFacts ==
  ASSUME NEW a, AgentOK(a), a.stack # <<>>
  PROVE  /\ a.stack \in Seq(StackEntry) /\ Len(a.stack) \in Nat \ {0} /\ a.fd \in Fd
         /\ Last(a.stack) = a.stack[Len(a.stack)] /\ Last(a.stack) \in StackEntry
         /\ \A n \in 1..Len(a.stack) : a.stack[n] \in StackEntry
         /\ Len(a.stack) \in 1..Len(a.stack) /\ 1 \in 1..Len(a.stack)
<1>1. a.stack \in Seq(StackEntry) /\ a.fd \in Fd
  BY DEF AgentOK, AgentState
<1>2. \A n \in 1..Len(a.stack) : a.stack[n] \in StackEntry
  BY <1>1, ElementOfSeq
<1>3. Len(a.stack) \in Nat \ {0} /\ Last(a.stack) = a.stack[Len(a.stack)] /\ Last(a.stack) \in StackEntry
  BY <1>1, FrontProps
<1> QED
  BY <1>1, <1>2, <1>3

\* The link that needed a handler goes on with its next step.
LEMMA OnSuccessOK ==
  ASSUME NEW a, AgentOK(a), a.at = "walk", a.fd \in Fd, a.stack # <<>>,
         Last(a.stack).step \in {"prog", "target"}
  PROVE  LET b == OnSuccess(a)
             e == [Last(a.stack) EXCEPT !.step = Onward[Last(a.stack).step]]
         IN
         /\ AgentOK(b) /\ b.at = "walk" /\ b # Out /\ b.pass = a.pass /\ b.fd = a.fd
         /\ Len(b.stack) = Len(a.stack) /\ b.stack # <<>>
         /\ \A n \in 1..(Len(a.stack) - 1) : b.stack[n] = a.stack[n]
         /\ b.stack[Len(a.stack)] = e /\ e \in StackEntry
         /\ e.fd = Last(a.stack).fd
         /\ e.step = IF Last(a.stack).step = "prog" THEN "target" ELSE "attach"
<1> DEFINE top == Last(a.stack)
           e == [top EXCEPT !.step = Onward[top.step]]
           s == Append(Front(a.stack), e)
           k == Len(a.stack)
<1>1. /\ a.stack \in Seq(StackEntry) /\ k \in Nat \ {0} /\ top = a.stack[k] /\ top \in StackEntry
  BY StackFacts
<1>2. Onward[top.step] = IF top.step = "prog" THEN "target" ELSE "attach"
  BY DEF Onward
<1> HIDE DEF top
<1>3. e \in StackEntry /\ e.fd = top.fd /\ e.step = Onward[top.step]
  BY <1>1, <1>2 DEF StackEntry
<1> HIDE DEF e
<1>4. /\ s \in Seq(StackEntry) /\ s # <<>> /\ Len(s) = k
      /\ \A n \in 1..(k - 1) : s[n] = a.stack[n]
      /\ s[k] = e
  BY <1>1, <1>3, SetTopProps
<1> HIDE DEF s
<1>5. \A n \in 1..k : s[n].fd = a.stack[n].fd
  <2>1. \A n \in 1..k : n \in 1..(k - 1) \/ n = k
    BY <1>1
  <2> QED
    BY <1>1, <1>3, <1>4, <2>1
<1>6. \A m, n \in 1..Len(s) : s[m].fd = s[n].fd => m = n
  BY <1>4, <1>5 DEF AgentOK
<1>7. \A n \in 1..(Len(s) - 1) : s[n].step # "attach"
  BY <1>4 DEF AgentOK
<1>8. OnSuccess(a) = [a EXCEPT !.stack = s]
  BY DEF OnSuccess, s, e, top
<1>9. LET b == [a EXCEPT !.stack = s] IN
      /\ AgentOK(b) /\ b.at = "walk" /\ b # Out
      /\ b.stack = s /\ b.pass = a.pass /\ b.fd = a.fd
  BY <1>4, <1>6, <1>7, SetStackOK
<1> DEFINE b == [a EXCEPT !.stack = s]
<1> HIDE DEF b, k
<1>10. /\ OnSuccess(a) = b /\ AgentOK(b) /\ b.at = "walk" /\ b # Out
       /\ b.stack = s /\ b.pass = a.pass /\ b.fd = a.fd
  BY <1>8, <1>9 DEF b
<1> QED
  BY <1>2, <1>3, <1>4, <1>10 DEF e, top, k

-----------------------------------------------------------------------------
(* Walks over a table that does not change.                                *)

\* The handler that a walk over table h is about to instantiate.
Asked(a, h) ==
  IF a.stack = <<>> THEN a.fd
  ELSE IF Last(a.stack).step = "prog" THEN h[Last(a.stack).fd].prog
                                      ELSE h[Last(a.stack).fd].target

\* An entry of a table is one of its kind.
LEMMA LinkOfTable ==
  ASSUME NEW h \in [Fd -> Handler], NEW l \in Fd, h[l].type = "link"
  PROVE  h[l].prog \in Fd /\ h[l].target \in Fd
<1>1. h[l] \in Handler
  OBVIOUS
<1> QED
  BY <1>1 DEF Handler, Unused

\* The innermost link of a walk is one of the table, and its ends are in the table.
LEMMA InnermostLink ==
  ASSUME NEW a, AgentOK(a), a.stack # <<>>, NEW h \in [Fd -> Handler], LinksOK(h),
         NEW c, WalkFollowsTable(a, h, c)
  PROVE  LET e == Last(a.stack) IN
         /\ EntryFollowsTable(e, h, c) /\ e.fd \in Fd /\ h[e.fd].prog \in Fd /\ h[e.fd].target \in Fd
         /\ h[e.fd].type = "link" /\ h[h[e.fd].prog].type = "prog"
<1>1. /\ Last(a.stack) = a.stack[Len(a.stack)] /\ Last(a.stack) \in StackEntry
      /\ Len(a.stack) \in 1..Len(a.stack)
  BY StackFacts
<1> DEFINE e == Last(a.stack)
<1>2. EntryFollowsTable(e, h, c) /\ e \in StackEntry
  BY <1>1 DEF WalkFollowsTable
<1> HIDE DEF e
<1>3. e.fd \in Fd /\ h[e.fd].type = "link"
  BY <1>2 DEF StackEntry, EntryFollowsTable
<1>4. h[e.fd].prog \in Fd /\ h[e.fd].target \in Fd /\ h[h[e.fd].prog].type = "prog"
  BY <1>3, LinkOfTable DEF LinksOK
<1> QED
  BY <1>2, <1>3, <1>4 DEF e

\* A walk that started from a link that can be attached has no other link in hand.
LEMMA GoodIsAlone ==
  ASSUME NEW a, AgentOK(a), a.stack # <<>>, NEW h \in [Fd -> Handler],
         NEW c, WalkFollowsTable(a, h, c), a.fd \in GoodIn(h)
  PROVE  /\ Len(a.stack) = 1 /\ Last(a.stack).fd = a.fd
         /\ h[h[a.fd].prog] = Prog(TRUE) /\ h[h[a.fd].target] = Perf("uprobe")
<1> DEFINE e == a.stack[1]
<1>1. /\ Len(a.stack) \in Nat \ {0} /\ 1 \in 1..Len(a.stack)
      /\ Last(a.stack) = a.stack[Len(a.stack)]
  BY StackFacts
<1>2. EntryFollowsTable(e, h, c) /\ e.fd = a.fd
  BY <1>1 DEF WalkFollowsTable
<1>3. h[h[e.fd].prog] = Prog(TRUE) /\ h[h[e.fd].target] = Perf("uprobe")
  BY <1>2 DEF GoodIn
<1>4. Len(a.stack) = 1
  <2> SUFFICES ASSUME Len(a.stack) # 1
               PROVE  FALSE
    OBVIOUS
  <2>1. 1 \in 1..(Len(a.stack) - 1) /\ 2 \in 1..Len(a.stack)
    <3>1. \A k \in Nat \ {0} : k # 1 => 1 \in 1..(k - 1) /\ 2 \in 1..k
      OBVIOUS
    <3> QED
      BY <1>1, <3>1
  <2>2. a.stack[1 + 1].fd = h[e.fd].target /\ EntryFollowsTable(a.stack[2], h, c)
    BY <2>1 DEF WalkFollowsTable
  <2>3. h[h[e.fd].target].type = "link"
    BY <2>2 DEF EntryFollowsTable
  <2> QED
    BY <1>3, <2>3 DEF Perf
<1> QED
  BY <1>1, <1>2, <1>3, <1>4

\* The walk goes on with the next handler, when the one it was at is not a link that
\* can be attached, or has been.
LEMMA NextFdFollows ==
  ASSUME NEW a, AgentOK(a), a.at = "walk", a.fd \in Fd, NEW h, NEW c, WalkFollowsTable(a, h, c),
         a.fd \in GoodIn(h) => a.fd \in DOMAIN c.links
  PROVE  WalkFollowsTable(NextFd(a), h, c)
<1> DEFINE b == NextFd(a)
<1>1. b.stack = <<>> /\ b.pass = a.pass /\ b.fd = a.fd + 1
  BY NextFdOK
<1> HIDE DEF b
<1>2. 1..Len(b.stack) = {} /\ 1..(Len(b.stack) - 1) = {}
  BY <1>1, AtTheStart
<1>3. ASSUME NEW l \in GoodIn(h), b.pass = 2 \/ l < b.fd
      PROVE  l \in DOMAIN c.links
  <2>1. l \in Fd
    BY DEF GoodIn
  <2>2. l < b.fd => l < a.fd \/ l = a.fd
    BY <1>1, <2>1, FdAssumption DEF Fd
  <2> QED
    BY <1>1, <1>3, <2>2 DEF WalkFollowsTable
<1> QED
  BY <1>1, <1>2, <1>3 DEF WalkFollowsTable, b

\* A context that records more.
Grows(c, d) == c.instantiated \subseteq d.instantiated /\ d.links = c.links

\* What a walk has seen stays recorded.
LEMMA WalkFollowsMore ==
  ASSUME NEW a, NEW h, NEW c, WalkFollowsTable(a, h, c), NEW d,
         c.instantiated \subseteq d.instantiated, DOMAIN c.links \subseteq DOMAIN d.links
  PROVE  WalkFollowsTable(a, h, d)
  BY DEF WalkFollowsTable, EntryFollowsTable

\* What the walk asked for is there, or is nothing.
LEMMA SuccessFollows ==
  ASSUME NEW a, AgentOK(a), a.at = "walk", a.fd \in Fd,
         a.stack # <<>> => Last(a.stack).step \in {"prog", "target"},
         NEW h \in [Fd -> Handler], LinksOK(h), NEW c, WalkFollowsTable(a, h, c),
         ContextFollowsTable(h, c),
         \/ Asked(a, h) \in c.instantiated
         \/ h[Asked(a, h)].type = "unused" \/ h[Asked(a, h)] = Perf("software")
  PROVE  WalkFollowsTable(OnSuccess(a), h, c)
<1>1. CASE a.stack = <<>>
  <2>1. a.fd \in GoodIn(h) => a.fd \in DOMAIN c.links
    <3>1. a.fd \in GoodIn(h) => h[a.fd].type = "link"
      BY DEF GoodIn
    <3>2. Perf("software").type = "perf" /\ Asked(a, h) = a.fd
      BY <1>1 DEF Perf, Asked
    <3>3. \A fd \in c.instantiated : h[fd].type = "link" => fd \in DOMAIN c.links
      BY DEF ContextFollowsTable
    <3> QED
      BY <3>1, <3>2, <3>3
  <2> QED
    BY <1>1, <2>1, NextFdFollows DEF OnSuccess
<1>2. CASE a.stack # <<>>
  <2> DEFINE top == Last(a.stack)
             e == [Last(a.stack) EXCEPT !.step = Onward[Last(a.stack).step]]
             b == OnSuccess(a)
             k == Len(a.stack)
  <2>1. /\ b.pass = a.pass /\ b.fd = a.fd /\ Len(b.stack) = k /\ b.stack # <<>>
        /\ \A n \in 1..(k - 1) : b.stack[n] = a.stack[n]
        /\ b.stack[k] = e
        /\ e.fd = top.fd
        /\ e.step = IF top.step = "prog" THEN "target" ELSE "attach"
    BY <1>2, OnSuccessOK
  <2>2. /\ EntryFollowsTable(top, h, c) /\ h[h[top.fd].prog].type = "prog"
    BY <1>2, InnermostLink
  <2>3. Asked(a, h) = IF top.step = "prog" THEN h[top.fd].prog ELSE h[top.fd].target
    BY <1>2 DEF Asked
  <2>4. top.step \in {"prog", "target"} /\ k \in Nat \ {0} /\ top = a.stack[k]
    BY <1>2, StackFacts
  <2> HIDE DEF top, e, b, k
  <2>5. EntryFollowsTable(e, h, c)
    <3>1. CASE top.step = "prog"
      <4>1. h[top.fd].prog \in c.instantiated
        BY <2>2, <2>3, <3>1 DEF Perf
      <4> QED
        BY <2>1, <2>2, <3>1, <4>1 DEF EntryFollowsTable
    <3>2. CASE top.step = "target"
      <4>1. h[h[top.fd].target] = Perf("uprobe") => h[top.fd].target \in c.instantiated
        BY <2>3, <3>2 DEF Perf
      <4> QED
        BY <2>1, <2>2, <3>2, <4>1 DEF EntryFollowsTable
    <3> QED
      BY <2>4, <3>1, <3>2
  <2>6. \A n \in 1..k : n \in 1..(k - 1) \/ n = k
    BY <2>4
  <2>7. \A n \in 1..k : EntryFollowsTable(b.stack[n], h, c) /\ b.stack[n].fd = a.stack[n].fd
    <3>1. \A n \in 1..(k - 1) : n \in 1..k
      BY <2>4
    <3>2. \A n \in 1..(k - 1) : EntryFollowsTable(a.stack[n], h, c)
      BY <3>1 DEF WalkFollowsTable, k
    <3> QED
      BY <2>1, <2>4, <2>5, <2>6, <3>2
  <2>8. b.stack[1].fd = b.fd
    <3>1. a.stack[1].fd = a.fd /\ 1 \in 1..k
      BY <1>2, <2>4 DEF WalkFollowsTable
    <3> QED
      BY <2>1, <2>7, <3>1
  <2>9. \A n \in 1..(k - 1) : n \in 1..k /\ n + 1 \in 1..k
    BY <2>4
  <2>10. \A n \in 1..(k - 1) : b.stack[n].step = "target" /\ b.stack[n + 1].fd = h[b.stack[n].fd].target
    BY <2>1, <2>7, <2>9 DEF WalkFollowsTable, k
  <2>11. \A l \in GoodIn(h) : b.pass = 2 \/ l < b.fd => l \in DOMAIN c.links
    BY <2>1 DEF WalkFollowsTable
  <2>12. WalkFollowsTable(b, h, c)
    BY <2>1, <2>7, <2>8, <2>10, <2>11 DEF WalkFollowsTable
  <2> QED
    BY <2>12 DEF b
<1> QED
  BY <1>1, <1>2

\* An error goes up only from a link that cannot be attached.
LEMMA ErrorFollows ==
  ASSUME NEW a, AgentOK(a), a.at = "walk", a.fd \in Fd, NEW h \in [Fd -> Handler],
         NEW c, WalkFollowsTable(a, h, c),
         IF a.stack = <<>> THEN h[a.fd].type # "link"
         ELSE \/ h[h[Last(a.stack).fd].prog] # Prog(TRUE)
              \/ h[h[Last(a.stack).fd].target] # Perf("uprobe")
  PROVE  WalkFollowsTable(OnError(a), h, c)
<1>1. a.fd \notin GoodIn(h)
  <2>1. CASE a.stack = <<>>
    BY <2>1 DEF GoodIn
  <2>2. CASE a.stack # <<>>
    BY <2>2, GoodIsAlone
  <2> QED
    BY <2>1, <2>2
<1> QED
  BY <1>1, NextFdFollows DEF OnError

\* A walk in the middle of a link that throws started from one that leads to it.
LEMMA WalkLeadsToThrow ==
  ASSUME NEW a, AgentOK(a), a.stack # <<>>, NEW h \in [Fd -> Handler], NEW c,
         WalkFollowsTable(a, h, c), ThrowsIn(h, Last(a.stack).fd)
  PROVE  LeadsToThrowIn(h, a.fd)
<1> SUFFICES ASSUME NEW S \in SUBSET Fd, a.fd \in S,
                    \A l \in S : h[l].type = "link" => h[l].target \in S
             PROVE  \E l \in S : ThrowsIn(h, l)
  BY DEF LeadsToThrowIn
<1> DEFINE k == Len(a.stack)
<1>1. /\ k \in Nat \ {0} /\ k \in 1..k /\ 1 \in 1..k /\ Last(a.stack) = a.stack[k]
  BY StackFacts
<1> HIDE DEF k
<1>2. ASSUME NEW n \in 1..k, a.stack[n].fd \notin S
      PROVE  FALSE
  <2> DEFINE Outside == {m \in 1..k : a.stack[m].fd \notin S}
  <2>1. Outside \subseteq Nat /\ n \in Outside
    BY <1>2
  <2>2. PICK x \in Outside : \A y \in Outside : ~(<<y, x>> \in OpToRel(<, Nat))
    BY <2>1, NatLessThanWellFounded, WFMin
  <2>3. x \in 1..k /\ a.stack[x].fd \notin S
    OBVIOUS
  <2>4. x # 1
    BY <2>3 DEF WalkFollowsTable
  <2>5. x - 1 \in 1..k /\ x - 1 \in 1..(k - 1) /\ x - 1 + 1 = x /\ x - 1 < x /\ x \in Nat /\ x - 1 \in Nat
    BY <1>1, <2>3, <2>4
  <2>6. x - 1 \notin Outside
    BY <2>2, <2>5 DEF OpToRel
  <2>7. a.stack[x - 1].fd \in S
    BY <2>5, <2>6
  <2>8. h[a.stack[x - 1].fd].type = "link" /\ a.stack[x - 1 + 1].fd = h[a.stack[x - 1].fd].target
    BY <2>5 DEF WalkFollowsTable, EntryFollowsTable, k
  <2> QED
    BY <2>3, <2>5, <2>7, <2>8
<1> QED
  BY <1>1, <1>2

-----------------------------------------------------------------------------
(* instantiate_handler_at                                                  *)

\* What the invariant says of a thread that walks.
LEMMA WalkerFacts ==
  ASSUME IInv, NEW i \in Injector, agent[i].at = "walk"
  PROVE  /\ AgentOK(agent[i]) /\ agent[i] # Out
         /\ handlers \in [Fd -> Handler] /\ LinksOK(handlers)
         /\ ctx \in Context /\ ObjectsOK(objects, ctx) /\ attaches \in SUBSET AttachRecord
         /\ ~tangled => LinksMatchAttaches(attaches, ctx) /\ StackIsNew(agent[i], ctx)
         /\ ~tangled /\ Undisturbed =>
              ContextFollowsTable(handlers, ctx) /\ WalkFollowsTable(agent[i], handlers, ctx)
<1>1. agent[i] # Out
  BY DEF Out
<1> QED
  BY <1>1 DEF IInv, ContextType, OneAtATime, InitializationOK, Busy

\* A context that records more knows the attaches as well.
LEMMA MatchMore ==
  ASSUME NEW as, NEW c, LinksMatchAttaches(as, c), NEW d, Grows(c, d), d.number = c.number,
         d.next_id = c.next_id
  PROVE  LinksMatchAttaches(as, d)
  BY DEF LinksMatchAttaches, Grows

\* Success and error leave the links in hand new.
LEMMA OnwardOK ==
  ASSUME NEW a, AgentOK(a), a.at = "walk", a.fd \in Fd,
         a.stack # <<>> => Last(a.stack).step \in {"prog", "target"}
  PROVE  /\ AgentOK(OnSuccess(a)) /\ OnSuccess(a).at = "walk" /\ OnSuccess(a) # Out
         /\ AgentOK(OnError(a)) /\ OnError(a).at = "walk" /\ OnError(a) # Out
         /\ \A c : StackIsNew(a, c) => StackIsNew(OnSuccess(a), c) /\ StackIsNew(OnError(a), c)
<1>1. /\ AgentOK(OnError(a)) /\ OnError(a).at = "walk" /\ OnError(a) # Out
      /\ OnError(a).stack = <<>>
  BY NextFdOK DEF OnError
<1>2. \A c : StackIsNew(OnError(a), c)
  BY <1>1, EmptyStackIsNew
<1>3. CASE a.stack = <<>>
  BY <1>1, <1>2, <1>3 DEF OnSuccess, OnError
<1>4. CASE a.stack # <<>>
  <2> DEFINE b == OnSuccess(a)
             k == Len(a.stack)
             e == [Last(a.stack) EXCEPT !.step = Onward[Last(a.stack).step]]
  <2>1. /\ AgentOK(b) /\ b.at = "walk" /\ b # Out /\ Len(b.stack) = k
        /\ \A n \in 1..(k - 1) : b.stack[n] = a.stack[n]
        /\ b.stack[k] = e /\ e.fd = Last(a.stack).fd
    BY <1>4, OnSuccessOK
  <2>2. k \in Nat \ {0} /\ Last(a.stack) = a.stack[k]
    BY <1>4, StackFacts
  <2> HIDE DEF b, k, e
  <2>3. \A n \in 1..k : n \in 1..(k - 1) \/ n = k
    BY <2>2
  <2>4. \A n \in 1..k : b.stack[n].fd = a.stack[n].fd
    BY <2>1, <2>2, <2>3
  <2>5. \A c : StackIsNew(a, c) => StackIsNew(b, c)
    BY <2>1, <2>4 DEF StackIsNew, k
  <2> QED
    BY <1>1, <1>2, <2>1, <2>5 DEF b
<1> QED
  BY <1>3, <1>4

\* instantiate_prog_handler_at
LEMMA MakeProgOK ==
  ASSUME ctx \in Context, ObjectsOK(objects, ctx), NEW fd \in Fd, fd \notin ctx.instantiated,
         NEW loads \in BOOLEAN, MakeProg(fd, loads)
  PROVE  /\ ctx' \in Context /\ ObjectsOK(objects', ctx') /\ Grows(ctx, ctx')
         /\ ctx'.number = ctx.number /\ ctx'.next_id = ctx.next_id
         /\ ctx'.perf_events = ctx.perf_events
         /\ DOMAIN ctx'.progs = DOMAIN ctx.progs \cup {fd}
         /\ ctx'.instantiated = IF loads THEN ctx.instantiated \cup {fd} ELSE ctx.instantiated
<1> DEFINE n == objects.made + 1
           new == With(ctx.progs, fd, n)
           inst == IF loads THEN ctx.instantiated \cup {fd} ELSE ctx.instantiated
<1>1. objects \in [made : Nat, loaded : SUBSET Nat, freed : SUBSET Nat] /\ n \in Nat
  BY DEF ObjectsOK
<1>2. /\ ctx.progs \in PartialMap(Nat) /\ ctx.perf_events \in PartialMap(EventKind)
      /\ ctx.links \in PartialMap(Nat) /\ ctx.number \in Nat /\ ctx.next_id \in Nat \ {0}
      /\ ctx.instantiated \in SUBSET Fd
  BY DEF Context
<1>3. /\ new \in PartialMap(Nat) /\ DOMAIN new = DOMAIN ctx.progs \cup {fd} /\ new[fd] = n
      /\ \A x \in DOMAIN ctx.progs : x # fd => new[x] = ctx.progs[x]
  <2>1. new \in PartialMap(Nat)
    BY <1>1, <1>2, WithOK
  <2> QED
    BY <2>1 DEF With
<1>4. inst \in SUBSET Fd
  BY <1>2
<1>5. ctx' = [ctx EXCEPT !.progs = new, !.instantiated = inst]
  BY DEF MakeProg
<1> HIDE DEF new, inst
<1>6. /\ ctx' \in Context /\ ctx'.progs = new /\ ctx'.instantiated = inst
      /\ ctx'.number = ctx.number /\ ctx'.next_id = ctx.next_id
      /\ ctx'.perf_events = ctx.perf_events /\ ctx'.links = ctx.links
  BY <1>3, <1>4, <1>5 DEF Context
<1>7. Grows(ctx, ctx')
  BY <1>6 DEF Grows, inst
<1>8. ObjectsOK(objects', ctx')
  <2> DEFINE old == IF fd \in DOMAIN ctx.progs THEN {ctx.progs[fd]} ELSE {}
             got == IF loads THEN {n} ELSE {}
  <2>1. objects' = [made |-> n, loaded |-> objects.loaded \cup got, freed |-> objects.freed \cup old]
    BY DEF MakeProg, MakeObject
  <2>2. /\ objects.loaded \subseteq 1..objects.made /\ objects.freed \subseteq 1..objects.made
        /\ objects.loaded \cap objects.freed = {}
        /\ \A x \in DOMAIN ctx.progs :
             /\ ctx.progs[x] \in 1..objects.made
             /\ ctx.progs[x] \in objects.loaded => x \in ctx.instantiated
    BY DEF ObjectsOK
  <2>3. old \subseteq 1..objects.made /\ old \cap objects.loaded = {}
    BY <2>2
  <2>4. \A m \in 1..objects.made : m \in 1..n /\ m # n
    BY <1>1
  <2>5. n \in 1..n /\ 1..n \subseteq Nat
    BY <1>1
  <2>6. /\ objects'.made = n /\ objects'.loaded = objects.loaded \cup got
        /\ objects'.freed = objects.freed \cup old
    BY <2>1
  <2> HIDE DEF n, old
  <2>7. got \subseteq {n} /\ n \notin objects.freed /\ n \notin objects.loaded /\ n \notin old
    BY <2>2, <2>3, <2>4
  <2>8. /\ objects'.loaded \subseteq 1..n /\ objects'.freed \subseteq 1..n
        /\ objects'.loaded \cap objects'.freed = {}
    BY <2>2, <2>3, <2>4, <2>5, <2>6, <2>7
  <2>9. objects' \in [made : Nat, loaded : SUBSET Nat, freed : SUBSET Nat]
    BY <1>1, <2>1, <2>5, <2>6, <2>8
  <2>10. ASSUME NEW x \in DOMAIN new
         PROVE  new[x] \in 1..n /\ (new[x] \in objects'.loaded => x \in inst)
    <3>1. CASE x = fd
      BY <1>3, <2>5, <2>6, <2>7, <3>1 DEF inst
    <3>2. CASE x # fd
      <4>1. x \in DOMAIN ctx.progs /\ new[x] = ctx.progs[x]
        BY <1>3, <3>2
      <4>2. new[x] \in 1..n /\ new[x] # n /\ (new[x] \in objects.loaded => x \in ctx.instantiated)
        BY <2>2, <2>4, <4>1
      <4> QED
        BY <2>6, <2>7, <4>2 DEF inst
    <3> QED
      BY <3>1, <3>2
  <2> QED
    BY <1>6, <2>6, <2>8, <2>9, <2>10 DEF ObjectsOK
<1> QED
  BY <1>3, <1>6, <1>7, <1>8 DEF inst

\* instantiate_perf_event_handler_at
LEMMA MakePerfEventOK ==
  ASSUME ctx \in Context, ObjectsOK(objects, ctx), NEW fd \in Fd, NEW kind, MakePerfEvent(fd, kind)
  PROVE  /\ ctx' \in Context /\ ObjectsOK(objects', ctx') /\ Grows(ctx, ctx')
         /\ ctx'.number = ctx.number /\ ctx'.next_id = ctx.next_id /\ ctx'.progs = ctx.progs
         /\ IF kind \in {"uprobe", "refused", "unhookable"}
            THEN /\ ctx'.instantiated = ctx.instantiated \cup {fd}
                 /\ DOMAIN ctx'.perf_events = DOMAIN ctx.perf_events \cup {fd}
                 /\ ctx'.perf_events[fd] = kind
                 /\ \A x \in DOMAIN ctx.perf_events : x # fd => ctx'.perf_events[x] = ctx.perf_events[x]
            ELSE ctx' = ctx
<1>0. objects' = objects
  BY DEF MakePerfEvent
<1>1. CASE kind \notin {"uprobe", "refused", "unhookable"}
  BY <1>0, <1>1 DEF MakePerfEvent, Grows
<1>2. CASE kind \in {"uprobe", "refused", "unhookable"}
  <2> DEFINE new == With(ctx.perf_events, fd, kind)
             inst == ctx.instantiated \cup {fd}
  <2>1. /\ new \in PartialMap(EventKind)
        /\ DOMAIN new = DOMAIN ctx.perf_events \cup {fd} /\ new[fd] = kind
        /\ \A x \in DOMAIN ctx.perf_events : x # fd => new[x] = ctx.perf_events[x]
    <3>1. /\ ctx.perf_events \in PartialMap(EventKind)
          /\ kind \in EventKind
      BY <1>2 DEF Context, EventKind
    <3>2. new \in PartialMap(EventKind)
      BY <3>1, WithOK
    <3> QED
      BY <3>1, <3>2 DEF With
  <2>2. inst \in SUBSET Fd
    BY DEF Context
  <2>3. ctx' = [ctx EXCEPT !.perf_events = new, !.instantiated = inst]
    BY <1>2 DEF MakePerfEvent
  <2> HIDE DEF new, inst
  <2>4. /\ ctx' \in Context /\ ctx'.progs = ctx.progs /\ ctx'.instantiated = inst
        /\ ctx'.number = ctx.number /\ ctx'.next_id = ctx.next_id
        /\ ctx'.perf_events = new /\ ctx'.links = ctx.links
    BY <2>1, <2>2, <2>3 DEF Context
  <2>5. Grows(ctx, ctx')
    BY <2>4 DEF Grows, inst
  <2>6. ObjectsOK(objects', ctx')
    BY <1>0, <2>4 DEF ObjectsOK, inst
  <2> QED
    BY <1>2, <2>1, <2>4, <2>5, <2>6 DEF inst
<1> QED
  BY <1>1, <1>2

\* A link is put on the stack.
LEMMA PushFollows ==
  ASSUME NEW a, AgentOK(a), a.at = "walk", a.fd \in Fd,
         a.stack # <<>> => Last(a.stack).step \in {"prog", "target"},
         NEW h \in [Fd -> Handler], NEW fd \in Fd, h[fd].type = "link",
         ~\E n \in DOMAIN a.stack : a.stack[n].fd = fd
  PROVE  LET e == [fd |-> fd, step |-> "prog"]
             b == [a EXCEPT !.stack = Append(a.stack, e)]
         IN
         /\ AgentOK(b) /\ b.at = "walk" /\ b # Out
         /\ \A c : StackIsNew(a, c) /\ fd \notin DOMAIN c.links => StackIsNew(b, c)
         /\ LinksOK(h) /\ fd = Asked(a, h) =>
              \A c : WalkFollowsTable(a, h, c) => WalkFollowsTable(b, h, c)
<1> DEFINE e == [fd |-> fd, step |-> "prog"]
           s == a.stack
           k == Len(s)
           u == Append(s, e)
           b == [a EXCEPT !.stack = u]
<1>2. e \in StackEntry /\ e.fd = fd /\ e.step = "prog"
  BY DEF StackEntry
<1>3. s \in Seq(StackEntry) /\ k \in Nat /\ DOMAIN s = 1..k
  BY LenProperties DEF AgentOK, AgentState
<1>4. \A n \in 1..k : s[n].fd # fd
  BY <1>3
<1> HIDE DEF e, s
<1>5. /\ u \in Seq(StackEntry) /\ u # <<>> /\ Len(u) = k + 1
      /\ \A n \in 1..k : u[n] = s[n]
      /\ u[k + 1] = e
  BY <1>2, <1>3, PushProps
<1> HIDE DEF u, k
<1>6. \A n \in 1..(k + 1) : n \in 1..k \/ n = k + 1
  BY <1>3
<1>7. \A m, n \in 1..Len(u) : u[m].fd = u[n].fd => m = n
  <2>1. \A m, n \in 1..k : s[m].fd = s[n].fd => m = n
    BY DEF AgentOK, s, k
  <2> QED
    BY <1>2, <1>4, <1>5, <1>6, <2>1
<1>8. \A n \in 1..k : s[n].step # "attach"
  <2>1. \A n \in 1..(k - 1) : s[n].step # "attach"
    BY DEF AgentOK, s, k
  <2>2. \A n \in 1..k : n \in 1..(k - 1) \/ n = k
    BY <1>3
  <2>3. k # 0 => s[k].step # "attach"
    <3> SUFFICES ASSUME k # 0
                 PROVE  s[k].step # "attach"
      OBVIOUS
    <3>1. s # <<>>
      BY <1>3, EmptySeq DEF k
    <3> QED
      BY <3>1, StackFacts DEF s, k
  <2>4. \A n \in 1..k : k # 0
    BY <1>3
  <2> QED
    BY <2>1, <2>2, <2>3, <2>4
<1>9. Len(u) - 1 = k
  BY <1>3, <1>5
<1>10. \A n \in 1..(Len(u) - 1) : u[n].step # "attach"
  BY <1>5, <1>8, <1>9
<1>11. /\ AgentOK(b) /\ b.at = "walk" /\ b # Out
       /\ b.stack = u /\ b.pass = a.pass /\ b.fd = a.fd
  BY <1>5, <1>7, <1>10, SetStackOK
<1> HIDE DEF b
<1>12. ASSUME NEW c, StackIsNew(a, c), fd \notin DOMAIN c.links
       PROVE  StackIsNew(b, c)
  BY <1>2, <1>5, <1>6, <1>11, <1>12 DEF StackIsNew, s, k
<1>13. ASSUME LinksOK(h), fd = Asked(a, h), NEW c, WalkFollowsTable(a, h, c)
       PROVE  WalkFollowsTable(b, h, c)
  <2>1. EntryFollowsTable(e, h, c)
    BY <1>2 DEF EntryFollowsTable
  <2>2. \A n \in 1..Len(u) : EntryFollowsTable(u[n], h, c)
    BY <1>5, <1>6, <1>13, <2>1 DEF WalkFollowsTable, s, k
  <2>3. k # 0 => s[k].step = "target" /\ fd = h[s[k].fd].target
    <3> SUFFICES ASSUME k # 0
                 PROVE  s[k].step = "target" /\ fd = h[s[k].fd].target
      OBVIOUS
    <3>1. s # <<>>
      BY <1>3, EmptySeq DEF k
    <3>2. Last(s) = s[k] /\ h[h[Last(s).fd].prog].type = "prog"
      BY <1>13, <3>1, StackFacts, InnermostLink DEF s, k
    <3>3. Last(s).step = "target"
      BY <1>13, <3>1, <3>2 DEF Asked, s
    <3> QED
      BY <1>13, <3>1, <3>2, <3>3 DEF Asked, s
  <2>4. u[1].fd = b.fd
    <3>1. CASE k = 0
      <4>1. s = <<>>
        BY <1>3, <3>1, EmptySeq DEF k
      <4> QED
        BY <1>2, <1>5, <1>11, <1>13, <3>1, <4>1 DEF Asked, s
    <3>2. CASE k # 0
      <4>1. s # <<>> /\ 1 \in 1..k
        BY <1>3, <3>2, EmptySeq DEF k
      <4> QED
        BY <1>5, <1>11, <1>13, <4>1 DEF WalkFollowsTable, s
    <3> QED
      BY <3>1, <3>2
  <2>5. ASSUME NEW n \in 1..k
        PROVE  u[n].step = "target" /\ u[n + 1].fd = h[u[n].fd].target
    <3>1. CASE n = k
      <4>1. k # 0
        BY <1>3, <2>5
      <4> QED
        BY <1>2, <1>5, <2>3, <2>5, <3>1, <4>1
    <3>2. CASE n # k
      <4>1. n \in 1..(k - 1) /\ n + 1 \in 1..k
        BY <1>3, <2>5, <3>2
      <4>2. s[n].step = "target" /\ s[n + 1].fd = h[s[n].fd].target
        BY <1>13, <4>1 DEF WalkFollowsTable, s, k
      <4> QED
        BY <1>5, <2>5, <4>1, <4>2
    <3> QED
      BY <3>1, <3>2
  <2>6. \A l \in GoodIn(h) : b.pass = 2 \/ l < b.fd => l \in DOMAIN c.links
    BY <1>11, <1>13 DEF WalkFollowsTable
  <2> QED
    BY <1>9, <1>11, <2>2, <2>4, <2>5, <2>6 DEF WalkFollowsTable
<1> QED
  BY <1>11, <1>12, <1>13 DEF b, u, e, s

\* instantiate_handler_at, for the walk itself or for an end of the innermost link.
LEMMA InstantiateIInv ==
  ASSUME IInv, NEW i \in Injector, agent[i].at = "walk", agent[i].fd \in Fd,
         agent[i].stack # <<>> => Last(agent[i].stack).step \in {"prog", "target"},
         NEW fd \in Fd, ~tangled /\ Undisturbed => fd = Asked(agent[i], handlers),
         Instantiate(i, fd), UNCHANGED <<attaches, agentOnly>>
  PROVE  IInv'
<1> DEFINE a == agent[i]
           h == handlers
<1>1. /\ AgentOK(a) /\ a # Out /\ h \in [Fd -> Handler] /\ LinksOK(h)
      /\ ctx \in Context /\ ObjectsOK(objects, ctx) /\ attaches \in SUBSET AttachRecord
      /\ ~tangled => LinksMatchAttaches(attaches, ctx) /\ StackIsNew(a, ctx)
      /\ ~tangled /\ Undisturbed => ContextFollowsTable(h, ctx) /\ WalkFollowsTable(a, h, ctx)
  BY WalkerFacts
<1>2. /\ a.at = "walk" /\ a.fd \in Fd /\ fd \in Fd /\ h[fd] \in Handler
      /\ a.stack # <<>> => Last(a.stack).step \in {"prog", "target"}
      /\ ~tangled /\ Undisturbed => fd = Asked(a, h)
  BY <1>1
<1>3. /\ AgentOK(OnSuccess(a)) /\ OnSuccess(a).at = "walk" /\ OnSuccess(a) # Out
      /\ AgentOK(OnError(a)) /\ OnError(a).at = "walk" /\ OnError(a) # Out
      /\ \A c : StackIsNew(a, c) => StackIsNew(OnSuccess(a), c) /\ StackIsNew(OnError(a), c)
  BY <1>1, <1>2, OnwardOK
<1>4. attaches' = attaches
  OBVIOUS
<1>5. /\ h[fd].type \in {"unused", "prog", "perf", "link"}
      /\ h[fd].type = "prog" => h[fd].loads \in BOOLEAN /\ h[fd] = Prog(h[fd].loads)
      /\ h[fd].type = "perf" => h[fd] = Perf(h[fd].kind)
  BY <1>2 DEF Handler, Unused, Prog, Perf
<1>6. CASE (fd \in ctx.instantiated \/ h[fd].type = "unused") /\ agent' = [agent EXCEPT ![i] = OnSuccess(a)]
           /\ UNCHANGED <<ctx, objects>>
  <2>1. ~tangled /\ Undisturbed => WalkFollowsTable(OnSuccess(a), h, ctx)
    BY <1>1, <1>2, <1>6, SuccessFollows
  <2> HIDE DEF a, h
  <2> QED
    BY <1>1, <1>2, <1>3, <1>4, <1>6, <2>1, WalkStep DEF a, h
<1>7. CASE /\ fd \notin ctx.instantiated /\ h[fd].type = "prog" /\ MakeProg(fd, h[fd].loads)
           /\ agent' = [agent EXCEPT ![i] = IF h[fd].loads THEN OnSuccess(a) ELSE OnError(a)]
  <2> DEFINE b == IF h[fd].loads THEN OnSuccess(a) ELSE OnError(a)
             c == ctx'
  <2>1. /\ c \in Context /\ ObjectsOK(objects', c) /\ Grows(ctx, c)
        /\ c.number = ctx.number /\ c.next_id = ctx.next_id
        /\ c.perf_events = ctx.perf_events
        /\ DOMAIN c.progs = DOMAIN ctx.progs \cup {fd}
        /\ c.instantiated = IF h[fd].loads THEN ctx.instantiated \cup {fd} ELSE ctx.instantiated
    BY <1>1, <1>2, <1>5, <1>7, MakeProgOK
  <2>2. AgentOK(b) /\ b.at = "walk" /\ b # Out
    BY <1>3
  <2> HIDE DEF a, h
  <2>3. ASSUME ~tangled
        PROVE  LinksMatchAttaches(attaches, c) /\ StackIsNew(b, c)
    <3>1. StackIsNew(a, c)
      BY <1>1, <2>1, <2>3 DEF StackIsNew, Grows
    <3> QED
      BY <1>1, <1>3, <2>1, <2>3, <3>1, MatchMore
  <2>4. ASSUME ~tangled, Undisturbed
        PROVE  ContextFollowsTable(h, c) /\ WalkFollowsTable(b, h, c)
    <3>1. ContextFollowsTable(h, ctx) /\ WalkFollowsTable(a, h, ctx)
      BY <1>1, <2>4
    <3>2. h[fd].loads => h[fd] = Prog(TRUE)
      BY <1>5, <1>7
    <3>3. Prog(TRUE) # Perf("uprobe") /\ Prog(TRUE).type = "prog" /\ Prog(FALSE) # Prog(TRUE)
          /\ Prog(FALSE) # Perf("uprobe")
      BY DEF Prog, Perf
    <3>4. ContextFollowsTable(h, c)
      BY <1>7, <2>1, <3>1, <3>2, <3>3, ZenonT(40) DEF ContextFollowsTable, Grows
    <3>5. WalkFollowsTable(a, h, c)
      BY <2>1, <3>1, WalkFollowsMore DEF Grows
    <3>6. CASE h[fd].loads
      <4>1. fd \in c.instantiated
        BY <2>1, <3>6
      <4>2. WalkFollowsTable(OnSuccess(a), h, c)
        BY <1>1, <1>2, <2>4, <3>4, <3>5, <4>1, SuccessFollows
      <4> QED
        BY <3>4, <3>6, <4>2
    <3>7. CASE ~h[fd].loads
      <4>1. h[fd] = Prog(FALSE)
        BY <1>5, <1>7, <3>7
      <4>2. IF a.stack = <<>> THEN h[a.fd].type # "link"
            ELSE \/ h[h[Last(a.stack).fd].prog] # Prog(TRUE)
                 \/ h[h[Last(a.stack).fd].target] # Perf("uprobe")
        BY <1>2, <1>7, <2>4, <3>3, <4>1 DEF Asked
      <4>3. WalkFollowsTable(OnError(a), h, c)
        BY <1>1, <1>2, <3>5, <4>2, ErrorFollows
      <4> QED
        BY <3>4, <3>7, <4>3
    <3> QED
      BY <3>6, <3>7
  <2>5. b # Out /\ agent' = [agent EXCEPT ![i] = b]
    BY <1>7, <2>2
  <2> HIDE DEF b, c
  <2> QED
    BY <1>1, <1>2, <1>4, <2>1, <2>2, <2>3, <2>4, <2>5, WalkStep DEF a, h, c
<1>8. CASE /\ fd \notin ctx.instantiated /\ h[fd].type = "perf" /\ MakePerfEvent(fd, h[fd].kind)
           /\ agent' = [agent EXCEPT ![i] = IF h[fd].kind = "unparsable" THEN OnError(a) ELSE OnSuccess(a)]
  <2> DEFINE kind == h[fd].kind
             b == IF kind = "unparsable" THEN OnError(a) ELSE OnSuccess(a)
             c == ctx'
  <2>1. /\ c \in Context /\ ObjectsOK(objects', c) /\ Grows(ctx, c)
        /\ c.number = ctx.number /\ c.next_id = ctx.next_id /\ c.progs = ctx.progs
        /\ IF kind \in {"uprobe", "refused", "unhookable"}
           THEN /\ c.instantiated = ctx.instantiated \cup {fd}
                /\ DOMAIN c.perf_events = DOMAIN ctx.perf_events \cup {fd}
                /\ c.perf_events[fd] = kind
                /\ \A x \in DOMAIN ctx.perf_events : x # fd => c.perf_events[x] = ctx.perf_events[x]
           ELSE c = ctx
    BY <1>1, <1>2, <1>8, MakePerfEventOK
  <2>2. AgentOK(b) /\ b.at = "walk" /\ b # Out
    BY <1>3
  <2>3. kind \in {"uprobe", "refused", "unhookable", "unparsable", "software"}
    BY <1>2, <1>8 DEF Handler, Unused, PerfKind
  <2> HIDE DEF a, h
  <2>4. ASSUME ~tangled
        PROVE  LinksMatchAttaches(attaches, c) /\ StackIsNew(b, c)
    <3>1. StackIsNew(a, c)
      BY <1>1, <2>1, <2>4 DEF StackIsNew, Grows
    <3> QED
      BY <1>1, <1>3, <2>1, <2>4, <3>1, MatchMore
  <2>5. h[fd] = Perf(kind)
    BY <1>5, <1>8
  <2> HIDE DEF kind
  <2>6. /\ Perf(kind).type = "perf" /\ Perf(kind) # Prog(TRUE)
        /\ kind # "uprobe" => Perf(kind) # Perf("uprobe")
    BY DEF Perf, Prog
  <2>7. ASSUME ~tangled, Undisturbed
        PROVE  ContextFollowsTable(h, c) /\ WalkFollowsTable(b, h, c)
    <3>1. ContextFollowsTable(h, ctx) /\ WalkFollowsTable(a, h, ctx)
      BY <1>1, <2>7
    <3>2. ContextFollowsTable(h, c)
      <4>1. CASE kind \in {"uprobe", "refused", "unhookable"}
        <5>1. ASSUME NEW x \in DOMAIN c.perf_events
              PROVE  /\ c.perf_events[x] # "none" => h[x] = Perf(c.perf_events[x])
                     /\ c.perf_events[x] = "none" => h[x] # Perf("uprobe")
          BY <2>1, <2>5, <3>1, <4>1 DEF ContextFollowsTable
        <5>2. ASSUME NEW x \in c.instantiated
              PROVE  /\ h[x] = Perf("uprobe") => x \in DOMAIN c.perf_events
                     /\ h[x].type = "prog" => h[x] = Prog(TRUE) /\ x \in DOMAIN c.progs
                     /\ h[x].type = "link" => x \in DOMAIN c.links
          BY <2>1, <2>5, <2>6, <3>1, <4>1 DEF ContextFollowsTable, Grows
        <5>3. DOMAIN c.links \subseteq GoodIn(h)
          BY <2>1, <3>1 DEF ContextFollowsTable, Grows
        <5> QED
          BY <5>1, <5>2, <5>3 DEF ContextFollowsTable
      <4>2. CASE kind \notin {"uprobe", "refused", "unhookable"}
        BY <2>1, <3>1, <4>2
      <4> QED
        BY <4>1, <4>2
    <3>3. WalkFollowsTable(a, h, c)
      BY <2>1, <3>1, WalkFollowsMore DEF Grows
    <3>4. CASE kind # "unparsable"
      <4>1. fd \in c.instantiated \/ h[fd] = Perf("software")
        BY <2>1, <2>3, <2>5, <3>4
      <4>2. WalkFollowsTable(OnSuccess(a), h, c)
        BY <1>1, <1>2, <2>7, <3>2, <3>3, <4>1, SuccessFollows
      <4> QED
        BY <3>2, <3>4, <4>2
    <3>5. CASE kind = "unparsable"
      <4>1. IF a.stack = <<>> THEN h[a.fd].type # "link"
            ELSE \/ h[h[Last(a.stack).fd].prog] # Prog(TRUE)
                 \/ h[h[Last(a.stack).fd].target] # Perf("uprobe")
        BY <1>2, <2>5, <2>6, <2>7, <3>5 DEF Asked
      <4>2. WalkFollowsTable(OnError(a), h, c)
        BY <1>1, <1>2, <3>3, <4>1, ErrorFollows
      <4> QED
        BY <3>2, <3>5, <4>2
    <3> QED
      BY <3>4, <3>5
  <2>8. agent' = [agent EXCEPT ![i] = b]
    BY <1>8 DEF kind
  <2> HIDE DEF b, c
  <2> QED
    BY <1>1, <1>2, <1>4, <2>1, <2>2, <2>4, <2>7, <2>8, WalkStep DEF a, h, c
<1>9. CASE /\ fd \notin ctx.instantiated /\ h[fd].type = "link"
           /\ \E n \in DOMAIN a.stack : a.stack[n].fd = fd
           /\ agent' = [agent EXCEPT ![i] = OnError(a)] /\ UNCHANGED <<ctx, objects>>
  <2>1. ASSUME ~tangled, Undisturbed
        PROVE  WalkFollowsTable(OnError(a), h, ctx)
    <3>1. a.stack # <<>>
      BY <1>9
    <3>2. h[h[Last(a.stack).fd].prog] # Prog(TRUE) \/ h[h[Last(a.stack).fd].target] # Perf("uprobe")
      BY <1>2, <1>9, <2>1, <3>1 DEF Asked, Prog, Perf
    <3> QED
      BY <1>1, <1>2, <2>1, <3>1, <3>2, ErrorFollows
  <2> HIDE DEF a, h
  <2> QED
    BY <1>1, <1>2, <1>3, <1>4, <1>9, <2>1, WalkStep DEF a, h
<1>10. CASE /\ fd \notin ctx.instantiated /\ h[fd].type = "link"
            /\ ~\E n \in DOMAIN a.stack : a.stack[n].fd = fd
            /\ agent' = [agent EXCEPT ![i] =
                 [a EXCEPT !.stack = Append(@, [fd |-> fd, step |-> "prog"])]]
            /\ UNCHANGED <<ctx, objects>>
  <2> DEFINE e == [fd |-> fd, step |-> "prog"]
             b == [a EXCEPT !.stack = Append(a.stack, e)]
  <2>1. /\ AgentOK(b) /\ b.at = "walk" /\ b # Out
        /\ \A c : StackIsNew(a, c) /\ fd \notin DOMAIN c.links => StackIsNew(b, c)
        /\ LinksOK(h) /\ fd = Asked(a, h) =>
             \A c : WalkFollowsTable(a, h, c) => WalkFollowsTable(b, h, c)
    <3>1. /\ AgentOK(a) /\ a.at = "walk" /\ a.fd \in Fd /\ h \in [Fd -> Handler] /\ fd \in Fd
          /\ a.stack # <<>> => Last(a.stack).step \in {"prog", "target"}
          /\ h[fd].type = "link" /\ ~\E n \in DOMAIN a.stack : a.stack[n].fd = fd
      BY <1>1, <1>2, <1>10
    <3> HIDE DEF a, h
    <3> QED
      BY <3>1, PushFollows
  <2>2. agent' = [agent EXCEPT ![i] = b]
    BY <1>10
  <2> HIDE DEF a, h, b
  <2>3. ~tangled => fd \notin DOMAIN ctx.links
    BY <1>1, <1>10 DEF LinksMatchAttaches
  <2> QED
    BY <1>1, <1>2, <1>4, <1>10, <2>1, <2>2, <2>3, WalkStep DEF a, h
<1>11. \/ /\ fd \in ctx.instantiated \/ h[fd].type = "unused"
          /\ agent' = [agent EXCEPT ![i] = OnSuccess(a)] /\ UNCHANGED <<ctx, objects>>
       \/ /\ fd \notin ctx.instantiated /\ h[fd].type = "prog" /\ MakeProg(fd, h[fd].loads)
          /\ agent' = [agent EXCEPT ![i] = IF h[fd].loads THEN OnSuccess(a) ELSE OnError(a)]
       \/ /\ fd \notin ctx.instantiated /\ h[fd].type = "perf" /\ MakePerfEvent(fd, h[fd].kind)
          /\ agent' = [agent EXCEPT ![i] = IF h[fd].kind = "unparsable" THEN OnError(a) ELSE OnSuccess(a)]
       \/ /\ fd \notin ctx.instantiated /\ h[fd].type = "link"
          /\ agent' = [agent EXCEPT ![i] =
               IF \E n \in DOMAIN a.stack : a.stack[n].fd = fd THEN OnError(a)
               ELSE [a EXCEPT !.stack = Append(@, [fd |-> fd, step |-> "prog"])]]
          /\ UNCHANGED <<ctx, objects>>
  BY DEF Instantiate
<1> HIDE DEF a, h
<1> QED
  BY <1>6, <1>7, <1>8, <1>9, <1>10, <1>11

\* What is read of a link is in the table, and is what the table says of it.
LEMMA EndsInTable ==
  ASSUME handlers \in [Fd -> Handler], NEW l \in Fd, NEW e \in Ends(l)
  PROVE  /\ e.prog \in Fd /\ e.target \in Fd
         /\ handlers[l].type = "link" => e.prog = handlers[l].prog /\ e.target = handlers[l].target
<1>1. CASE Is(l, "link")
  <2>1. e = [prog |-> handlers[l].prog, target |-> handlers[l].target]
    BY <1>1 DEF Ends
  <2> QED
    BY <1>1, <2>1, LinkOfTable DEF Is
<1>2. CASE ~Is(l, "link")
  BY <1>2, FdNowInTable DEF Ends, Is
<1> QED
  BY <1>1, <1>2

\* The walk goes to the next handler, or deals with an end of its innermost link.
LEMMA WalkIInv ==
  ASSUME IInv, NEW i \in Injector, Walk(i) \/ LinkEnd(i)
  PROVE  IInv'
<1>1. CASE Walk(i)
  <2>1. /\ agent[i].at = "walk" /\ agent[i].stack = <<>> /\ agent[i].fd \in Fd
        /\ Instantiate(i, agent[i].fd) /\ UNCHANGED <<attaches, agentOnly>>
    BY <1>1 DEF Walk
  <2>2. Asked(agent[i], handlers) = agent[i].fd
    BY <2>1 DEF Asked
  <2> QED
    BY <2>1, <2>2, InstantiateIInv
<1>2. CASE LinkEnd(i)
  <2> DEFINE top == Last(agent[i].stack)
  <2>1. /\ agent[i].at = "walk" /\ agent[i].stack # <<>> /\ top.step \in {"prog", "target"}
        /\ UNCHANGED <<attaches, agentOnly>>
    BY <1>2 DEF LinkEnd, LinkStep
  <2>2. PICK e \in Ends(top.fd) : Instantiate(i, IF top.step = "prog" THEN e.prog ELSE e.target)
    BY <1>2 DEF LinkEnd
  <2> DEFINE fd == IF top.step = "prog" THEN e.prog ELSE e.target
  <2>3. /\ AgentOK(agent[i]) /\ agent[i].fd \in Fd /\ top \in StackEntry
        /\ handlers \in [Fd -> Handler] /\ LinksOK(handlers)
        /\ ~tangled /\ Undisturbed => WalkFollowsTable(agent[i], handlers, ctx)
    BY <2>1, WalkerFacts, StackFacts
  <2>4. top.fd \in Fd
    BY <2>3 DEF StackEntry
  <2>5. e.prog \in Fd /\ e.target \in Fd
    BY <2>2, <2>3, <2>4, EndsInTable
  <2>6. ASSUME ~tangled, Undisturbed
        PROVE  fd = Asked(agent[i], handlers)
    <3>1. handlers[top.fd].type = "link"
      BY <2>1, <2>3, <2>6, InnermostLink
    <3>2. e.prog = handlers[top.fd].prog /\ e.target = handlers[top.fd].target
      BY <2>2, <2>3, <2>4, <3>1, EndsInTable
    <3> QED
      BY <2>1, <3>2 DEF Asked
  <2>7. fd \in Fd /\ Instantiate(i, fd)
    BY <2>2, <2>5
  <2> HIDE DEF fd
  <2> QED
    BY <2>1, <2>3, <2>6, <2>7, InstantiateIInv
<1> QED
  BY <1>1, <1>2

\* The end of the first walk or of the second.
LEMMA EndOfWalkIInv ==
  ASSUME IInv, NEW i \in Injector, EndOfWalk(i)
  PROVE  IInv'
<1> DEFINE a == agent[i]
           h == handlers
           b == IF a.pass = 1 THEN [a EXCEPT !.pass = 2, !.fd = 1] ELSE Out
<1>1. /\ a.at = "walk" /\ a.fd \notin Fd /\ agent' = [agent EXCEPT ![i] = b]
      /\ UNCHANGED <<ctx, objects, attaches, agentOnly>>
  BY DEF EndOfWalk
<1>2. /\ AgentOK(a) /\ a # Out
      /\ ctx \in Context /\ ObjectsOK(objects, ctx) /\ attaches \in SUBSET AttachRecord
      /\ ~tangled => LinksMatchAttaches(attaches, ctx) /\ StackIsNew(a, ctx)
      /\ ~tangled /\ Undisturbed => ContextFollowsTable(h, ctx) /\ WalkFollowsTable(a, h, ctx)
  BY <1>1, WalkerFacts
<1> HIDE DEF a
<1>3. a \in AgentState /\ a.stack = <<>>
  BY <1>1, <1>2 DEF AgentOK
<1>4. \A l \in Fd : l < a.fd
  BY <1>1, <1>3, FdAssumption DEF AgentState, Fd
<1>5. 1 \in 1..(MaxFd + 1) /\ Len(<<>>) = 0 /\ 1..0 = {} /\ 1..(0 - 1) = {}
  BY FdAssumption, AtTheStart
<1>6. AgentOK(b) /\ b.at \in {"walk", "out"} /\ b.stack = <<>> /\ (a.pass = 1 => b # Out /\ b.pass = 2)
  <2>1. CASE a.pass = 1
    <3>1. /\ b \in AgentState /\ b.at = "walk" /\ b.stack = <<>> /\ b.pass = 2
      BY <1>1, <1>3, <1>5, <2>1 DEF AgentState
    <3>2. b # Out
      BY <3>1 DEF Out
    <3> HIDE DEF b
    <3>3. Len(b.stack) = 0
      BY <1>5, <3>1
    <3> QED
      BY <1>5, <3>1, <3>2, <3>3 DEF AgentOK
  <2>2. CASE a.pass # 1
    BY <2>2, AtTheStart DEF Out
  <2> QED
    BY <2>1, <2>2
<1>7. ASSUME ~tangled, Undisturbed
      PROVE  IF b = Out THEN AttachedOrThrown(h, ctx) ELSE WalkFollowsTable(b, h, ctx)
  <2>1. ContextFollowsTable(h, ctx) /\ WalkFollowsTable(a, h, ctx)
    BY <1>2, <1>7
  <2>2. GoodIn(h) \subseteq Fd
    BY DEF GoodIn
  <2>3. GoodIn(h) \subseteq DOMAIN ctx.links
    BY <1>4, <2>1, <2>2 DEF WalkFollowsTable
  <2>4. AttachedOrThrown(h, ctx)
    BY <2>3 DEF AttachedOrThrown
  <2>5. 1..Len(b.stack) = {} /\ 1..(Len(b.stack) - 1) = {}
    BY <1>5, <1>6
  <2>6. WalkFollowsTable(b, h, ctx)
    BY <1>6, <2>3, <2>5 DEF WalkFollowsTable
  <2> QED
    BY <2>4, <2>6
<1>8. StackIsNew(b, ctx)
  BY <1>6, EmptyStackIsNew
<1> HIDE DEF b, h
<1>9. ctx' = ctx /\ objects' = objects /\ attaches' = attaches /\ UNCHANGED agentOnly
  BY <1>1
<1> QED
  BY <1>1, <1>2, <1>6, <1>7, <1>8, <1>9, WalkStep DEF a, h

\* A link that is attached is one that can be.
LEMMA AttachedIsGood ==
  ASSUME NEW a, AgentOK(a), a.stack # <<>>, Last(a.stack).step = "attach",
         NEW h \in [Fd -> Handler], LinksOK(h), NEW c, ContextFollowsTable(h, c),
         WalkFollowsTable(a, h, c)
  PROVE  LET l == Last(a.stack).fd
             p == h[l].prog
             t == h[l].target
         IN
         /\ h[l].type = "link" /\ p \in DOMAIN c.progs /\ h[p] = Prog(TRUE)
         /\ h[t] = Perf("uprobe") <=> t \in DOMAIN c.perf_events /\ c.perf_events[t] = "uprobe"
         /\ h[t] = Perf("uprobe") => l \in GoodIn(h)
         /\ t \in DOMAIN c.perf_events /\ c.perf_events[t] = "unhookable" => ThrowsIn(h, l)
<1> DEFINE e == Last(a.stack)
           l == e.fd
           p == h[l].prog
           t == h[l].target
<1>1. /\ EntryFollowsTable(e, h, c) /\ l \in Fd /\ p \in Fd /\ t \in Fd
      /\ h[l].type = "link" /\ h[p].type = "prog" /\ e.step = "attach"
  BY InnermostLink
<1> HIDE DEF e
<1>2. p \in c.instantiated /\ (h[t] = Perf("uprobe") => t \in c.instantiated)
  BY <1>1 DEF EntryFollowsTable
<1>3. p \in DOMAIN c.progs /\ h[p] = Prog(TRUE)
  BY <1>1, <1>2 DEF ContextFollowsTable
<1>4. \A k : k # "uprobe" => Perf(k) # Perf("uprobe")
  BY DEF Perf
<1>5. h[t] = Perf("uprobe") <=> t \in DOMAIN c.perf_events /\ c.perf_events[t] = "uprobe"
  BY <1>2, <1>4 DEF ContextFollowsTable
<1>6. h[t] = Perf("uprobe") => l \in GoodIn(h)
  BY <1>1, <1>3 DEF GoodIn
<1>7. t \in DOMAIN c.perf_events /\ c.perf_events[t] = "unhookable" => ThrowsIn(h, l)
  BY <1>1, <1>3 DEF ContextFollowsTable, ThrowsIn
<1> QED
  BY <1>1, <1>3, <1>5, <1>6, <1>7 DEF e

\* The attached link leaves the stack.
LEMMA PopOK ==
  ASSUME NEW a, AgentOK(a), a.at = "walk", a.stack # <<>>
  PROVE  LET p == [a EXCEPT !.stack = Front(a.stack)] IN
         /\ AgentOK(p) /\ p.at = "walk" /\ p.fd = a.fd /\ p.fd \in Fd /\ p.pass = a.pass
         /\ p.stack = Front(a.stack) /\ Len(p.stack) = Len(a.stack) - 1
         /\ \A n \in 1..(Len(a.stack) - 1) : p.stack[n] = a.stack[n]
         /\ p.stack # <<>> => /\ Last(p.stack) = a.stack[Len(a.stack) - 1]
                              /\ Last(p.stack).step \in {"prog", "target"}
                              /\ Len(a.stack) - 1 \in 1..(Len(a.stack) - 1)
<1> DEFINE s == a.stack
           k == Len(s)
           f == Front(s)
           p == [a EXCEPT !.stack = f]
<1>1. /\ s \in Seq(StackEntry) /\ k \in Nat \ {0} /\ a.fd \in Fd
      /\ \A n \in 1..k : s[n] \in StackEntry
  BY StackFacts
<1>2. f \in Seq(StackEntry) /\ Len(f) = k - 1 /\ \A n \in 1..(k - 1) : f[n] = s[n]
  BY <1>1, FrontProps
<1>3. /\ \A m, n \in 1..k : s[m].fd = s[n].fd => m = n
      /\ \A n \in 1..(k - 1) : s[n].step # "attach"
  BY DEF AgentOK
<1> HIDE DEF s, k, f
<1>4. \A n \in 1..(k - 1) : n \in 1..k
  BY <1>1
<1>5. \A n \in 1..(k - 1 - 1) : n \in 1..(k - 1)
  BY <1>1
<1>6. /\ \A m, n \in 1..Len(f) : f[m].fd = f[n].fd => m = n
      /\ \A n \in 1..(Len(f) - 1) : f[n].step # "attach"
  BY <1>2, <1>3, <1>4, <1>5
<1>7. AgentOK(p) /\ p.at = "walk" /\ p.stack = f /\ p.pass = a.pass /\ p.fd = a.fd
  BY <1>1, <1>2, <1>6, SetStackOK, SMTT(30)
<1>8. ASSUME f # <<>>
      PROVE  /\ Last(f) = s[k - 1] /\ Last(f).step \in {"prog", "target"}
             /\ k - 1 \in 1..(k - 1)
  <2>1. Last(f) = f[Len(f)] /\ Len(f) \in Nat \ {0}
    BY <1>2, <1>8, FrontProps
  <2>2. k - 1 \in 1..(k - 1) /\ k - 1 \in 1..k
    BY <1>1, <1>2, <2>1
  <2>3. Last(f) = s[k - 1] /\ s[k - 1] \in StackEntry /\ s[k - 1].step # "attach"
    BY <1>1, <1>2, <1>3, <2>1, <2>2
  <2> QED
    BY <2>2, <2>3 DEF StackEntry
<1> HIDE DEF p
<1> QED
  BY <1>1, <1>2, <1>7, <1>8 DEF p, f, s, k

\* A context with one more link and its attach.
LEMMA RecordLinkOK ==
  ASSUME NEW c \in Context, NEW l \in Fd, NEW prog \in Nat
  PROVE  LET d == RecordLink(c, l)
             rec == [ctx |-> c.number, id |-> c.next_id, link |-> l, prog |-> prog]
         IN
         /\ d \in Context /\ rec \in AttachRecord
         /\ d.number = c.number /\ d.progs = c.progs /\ d.perf_events = c.perf_events
         /\ d.instantiated = c.instantiated \cup {l} /\ DOMAIN d.links = DOMAIN c.links \cup {l}
         /\ \A o : ObjectsOK(o, c) => ObjectsOK(o, d)
         /\ \A as : LinksMatchAttaches(as, c) /\ l \notin DOMAIN c.links =>
                      LinksMatchAttaches(as \cup {rec}, d)
<1> DEFINE new == With(c.links, l, c.next_id)
           inst == c.instantiated \cup {l}
           next == c.next_id + 1
           d == RecordLink(c, l)
           rec == [ctx |-> c.number, id |-> c.next_id, link |-> l, prog |-> prog]
<1>1. /\ c.links \in PartialMap(Nat) /\ c.number \in Nat /\ c.next_id \in Nat \ {0}
      /\ c.instantiated \in SUBSET Fd
  BY DEF Context
<1>2. new \in PartialMap(Nat)
  BY <1>1, WithOK
<1>3. /\ DOMAIN new = DOMAIN c.links \cup {l} /\ new[l] = c.next_id
      /\ \A x \in DOMAIN c.links : x # l => new[x] = c.links[x]
  BY DEF With
<1>4. next \in Nat \ {0} /\ c.next_id < next /\ \A x \in Nat : x < c.next_id => x < next /\ x # c.next_id
  BY <1>1
<1>5. d = [c EXCEPT !.links = new, !.next_id = next, !.instantiated = inst]
  BY DEF RecordLink
<1>6. rec \in AttachRecord
  BY <1>1 DEF AttachRecord
<1>7. rec.ctx = c.number /\ rec.id = c.next_id /\ rec.link = l
  OBVIOUS
<1> HIDE DEF new, next, d, rec
<1>8. /\ d \in Context /\ d.links = new /\ d.next_id = next /\ d.instantiated = inst
      /\ d.number = c.number /\ d.progs = c.progs /\ d.perf_events = c.perf_events
  BY <1>1, <1>2, <1>4, <1>5 DEF Context
<1>9. \A o : ObjectsOK(o, c) => ObjectsOK(o, d)
  BY <1>8 DEF ObjectsOK
<1>10. \A x \in DOMAIN c.links : c.links[x] \in Nat
  BY <1>1, MapOK
<1>11. ASSUME NEW as, LinksMatchAttaches(as, c), l \notin DOMAIN c.links
       PROVE  LinksMatchAttaches(as \cup {rec}, d)
  <2>1. \A a \in as : a.ctx = c.number /\ a.link \in DOMAIN c.links /\ c.links[a.link] = a.id
    BY <1>11 DEF LinksMatchAttaches
  <2>2. \A a \in as \cup {rec} : a.ctx = d.number /\ a.link \in DOMAIN new /\ new[a.link] = a.id
    BY <1>3, <1>7, <1>8, <1>11, <2>1
  <2>3. \A x \in DOMAIN new : \E a \in as \cup {rec} : a.link = x
    BY <1>3, <1>7, <1>11 DEF LinksMatchAttaches
  <2>4. \A a, b \in as \cup {rec} : a.link = b.link => a = b
    BY <1>7, <1>11, <2>1 DEF LinksMatchAttaches
  <2>5. \A x \in DOMAIN c.links : c.links[x] < c.next_id
    BY <1>11 DEF LinksMatchAttaches
  <2>6. \A x \in DOMAIN new : new[x] < next /\ x \in inst
    BY <1>3, <1>4, <1>10, <1>11, <2>5 DEF LinksMatchAttaches
  <2>7. \A x, y \in DOMAIN new : new[x] = new[y] => x = y
    BY <1>3, <1>4, <1>10, <1>11, <2>5 DEF LinksMatchAttaches
  <2> QED
    BY <1>8, <2>2, <2>3, <2>4, <2>6, <2>7 DEF LinksMatchAttaches
<1> QED
  BY <1>3, <1>6, <1>8, <1>9, <1>11 DEF d, rec

\* instantiate_bpf_link_handler_at
LEMMA LinkAttachIInv ==
  ASSUME IInv, NEW i \in Injector, LinkAttach(i)
  PROVE  IInv'
<1> DEFINE a == agent[i]
           h == handlers
           top == Last(a.stack)
<1>0. /\ a.at = "walk" /\ a.stack # <<>> /\ top.step = "attach" /\ UNCHANGED <<objects, agentOnly>>
  BY DEF LinkAttach, LinkStep
<1>step. PICK e \in Ends(top.fd) :
  LET kind == IF e.target \in DOMAIN ctx.perf_events THEN ctx.perf_events[e.target] ELSE "none" IN
      \/ /\ kind = "none" /\ ctx' = [ctx EXCEPT !.perf_events = With(@, e.target, "none")]
         /\ agent' = [agent EXCEPT ![i] = OnError(a)] /\ attaches' = attaches
      \/ /\ kind # "none" /\ (e.prog \in DOMAIN ctx.progs => kind = "unhookable")
         /\ agent' = [agent EXCEPT ![i] = Out] /\ ctx' = ctx /\ attaches' = attaches
      \/ /\ kind = "refused"
         /\ agent' = [agent EXCEPT ![i] = OnError(a)] /\ ctx' = ctx /\ attaches' = attaches
      \/ /\ kind = "uprobe" /\ e.prog \in DOMAIN ctx.progs
         /\ attaches' = attaches \cup {[ctx |-> ctx.number, id |-> ctx.next_id,
                                        link |-> top.fd, prog |-> ctx.progs[e.prog]]}
         /\ ctx' = RecordLink(ctx, top.fd)
         /\ agent' = [agent EXCEPT ![i] = OnSuccess([a EXCEPT !.stack = Front(a.stack)])]
  BY DEF LinkAttach, OnThrow
<1> DEFINE kind == IF e.target \in DOMAIN ctx.perf_events THEN ctx.perf_events[e.target] ELSE "none"
<1>1. \/ /\ kind = "none" /\ ctx' = [ctx EXCEPT !.perf_events = With(@, e.target, "none")]
         /\ agent' = [agent EXCEPT ![i] = OnError(a)] /\ attaches' = attaches
      \/ /\ kind # "none" /\ (e.prog \in DOMAIN ctx.progs => kind = "unhookable")
         /\ agent' = [agent EXCEPT ![i] = Out] /\ ctx' = ctx /\ attaches' = attaches
      \/ /\ kind = "refused"
         /\ agent' = [agent EXCEPT ![i] = OnError(a)] /\ ctx' = ctx /\ attaches' = attaches
      \/ /\ kind = "uprobe" /\ e.prog \in DOMAIN ctx.progs
         /\ attaches' = attaches \cup {[ctx |-> ctx.number, id |-> ctx.next_id,
                                        link |-> top.fd, prog |-> ctx.progs[e.prog]]}
         /\ ctx' = RecordLink(ctx, top.fd)
         /\ agent' = [agent EXCEPT ![i] = OnSuccess([a EXCEPT !.stack = Front(a.stack)])]
  BY <1>step
<1>2. /\ AgentOK(a) /\ a # Out /\ h \in [Fd -> Handler] /\ LinksOK(h)
      /\ ctx \in Context /\ ObjectsOK(objects, ctx) /\ attaches \in SUBSET AttachRecord
      /\ ~tangled => LinksMatchAttaches(attaches, ctx) /\ StackIsNew(a, ctx)
      /\ ~tangled /\ Undisturbed => ContextFollowsTable(h, ctx) /\ WalkFollowsTable(a, h, ctx)
  BY <1>0, WalkerFacts
<1> HIDE DEF a
<1>3. top \in StackEntry /\ a.fd \in Fd /\ top = a.stack[Len(a.stack)] /\ Len(a.stack) \in Nat \ {0}
  BY <1>0, <1>2, StackFacts
<1> HIDE DEF top
<1>4. top.fd \in Fd /\ e.prog \in Fd /\ e.target \in Fd
  <2>1. top.fd \in Fd
    BY <1>3 DEF StackEntry
  <2> QED
    BY <1>2, <2>1, EndsInTable
<1>ends. handlers[top.fd].type = "link" => e.prog = h[top.fd].prog /\ e.target = h[top.fd].target
  BY <1>2, <1>4, EndsInTable
<1> HIDE DEF h
<1>5. /\ AgentOK(OnError(a)) /\ OnError(a).at = "walk" /\ OnError(a) # Out
      /\ OnError(a).stack = <<>>
  BY <1>0, <1>2, <1>3, NextFdOK DEF OnError
<1>6. \A c : StackIsNew(OnError(a), c)
  BY <1>5, EmptyStackIsNew
<1>7. ASSUME ~tangled, Undisturbed
      PROVE  /\ e.prog \in DOMAIN ctx.progs /\ h[e.prog] = Prog(TRUE)
             /\ h[top.fd].prog = e.prog /\ h[top.fd].target = e.target
             /\ h[e.target] = Perf("uprobe") <=> kind = "uprobe"
             /\ h[e.target] = Perf("uprobe") => top.fd \in GoodIn(h)
             /\ kind = "unhookable" => ThrowsIn(h, top.fd)
  <2> DEFINE l == top.fd
             p == h[l].prog
             t == h[l].target
  <2>1. /\ h[l].type = "link" /\ p \in DOMAIN ctx.progs /\ h[p] = Prog(TRUE)
        /\ h[t] = Perf("uprobe") <=>
             t \in DOMAIN ctx.perf_events /\ ctx.perf_events[t] = "uprobe"
        /\ h[t] = Perf("uprobe") => l \in GoodIn(h)
        /\ t \in DOMAIN ctx.perf_events /\ ctx.perf_events[t] = "unhookable" => ThrowsIn(h, l)
    BY <1>0, <1>2, <1>7, AttachedIsGood DEF top
  <2>2. e.prog = p /\ e.target = t
    BY <1>ends, <2>1 DEF h
  <2> QED
    BY <2>1, <2>2
<1>8. ASSUME ~tangled, Undisturbed, kind # "uprobe", NEW c,
             c.instantiated = ctx.instantiated, c.links = ctx.links
      PROVE  WalkFollowsTable(OnError(a), h, c)
  <2>1. WalkFollowsTable(a, h, c)
    BY <1>2, <1>8, WalkFollowsMore
  <2> QED
    BY <1>0, <1>2, <1>3, <1>7, <1>8, <2>1, ErrorFollows DEF top
<1>9. CASE /\ kind = "none" /\ ctx' = [ctx EXCEPT !.perf_events = With(@, e.target, "none")]
           /\ agent' = [agent EXCEPT ![i] = OnError(a)] /\ attaches' = attaches
  <2> DEFINE new == With(ctx.perf_events, e.target, "none")
             c == [ctx EXCEPT !.perf_events = new]
  <2>1. new \in PartialMap(EventKind)
    <3>1. /\ ctx.perf_events \in PartialMap(EventKind)
          /\ "none" \in EventKind
      BY <1>2 DEF Context, EventKind
    <3> QED
      BY <1>4, <3>1, WithOK
  <2>2. /\ DOMAIN new = DOMAIN ctx.perf_events \cup {e.target} /\ new[e.target] = "none"
        /\ \A x \in DOMAIN ctx.perf_events : x # e.target => new[x] = ctx.perf_events[x]
    BY DEF With
  <2> HIDE DEF new
  <2>3. /\ c \in Context /\ c.perf_events = new /\ c.progs = ctx.progs /\ c.links = ctx.links
        /\ c.instantiated = ctx.instantiated /\ c.number = ctx.number /\ c.next_id = ctx.next_id
    BY <1>2, <2>1 DEF Context
  <2>4. ctx' = c
    BY <1>9 DEF new
  <2> HIDE DEF c
  <2>5. ObjectsOK(objects', c)
    BY <1>0, <1>2, <2>3 DEF ObjectsOK
  <2>6. ~tangled => LinksMatchAttaches(attaches', c)
    BY <1>2, <1>9, <2>3 DEF LinksMatchAttaches
  <2>7. ASSUME ~tangled, Undisturbed
        PROVE  ContextFollowsTable(h, c) /\ WalkFollowsTable(OnError(a), h, c)
    <3>1. h[e.target] # Perf("uprobe") /\ ContextFollowsTable(h, ctx)
      BY <1>2, <1>7, <1>9, <2>7
    <3>2. ContextFollowsTable(h, c)
      BY <2>2, <2>3, <3>1 DEF ContextFollowsTable
    <3>3. WalkFollowsTable(OnError(a), h, c)
      BY <1>8, <1>9, <2>3, <2>7
    <3> QED
      BY <3>2, <3>3
  <2> QED
    BY <1>0, <1>2, <1>5, <1>6, <1>9, <2>3, <2>4, <2>5, <2>6, <2>7, WalkStep DEF a, h
<1>10. CASE /\ kind # "none" /\ (e.prog \in DOMAIN ctx.progs => kind = "unhookable")
            /\ agent' = [agent EXCEPT ![i] = Out] /\ ctx' = ctx /\ attaches' = attaches
  <2>1. AgentOK(Out) /\ Out.at = "out" /\ Out.stack = <<>>
    BY AtTheStart DEF Out
  <2>2. StackIsNew(Out, ctx)
    BY <2>1, EmptyStackIsNew
  <2>3. ASSUME ~tangled, Undisturbed
        PROVE  ContextFollowsTable(h, ctx) /\ AttachedOrThrown(h, ctx)
    <3>1. ContextFollowsTable(h, ctx) /\ WalkFollowsTable(a, h, ctx)
      BY <1>2, <2>3
    <3>2. ThrowsIn(h, top.fd)
      BY <1>7, <1>10, <2>3
    <3>3. LeadsToThrowIn(h, a.fd)
      BY <1>0, <1>2, <3>1, <3>2, WalkLeadsToThrow DEF top
    <3>4. a.fd \notin GoodIn(h)
      <4>1. Perf("unhookable") # Perf("uprobe")
        BY DEF Perf
      <4> QED
        BY <1>0, <1>2, <3>1, <3>2, <4>1, GoodIsAlone DEF ThrowsIn, top
    <3>5. ASSUME NEW l \in GoodIn(h), l \notin DOMAIN ctx.links
          PROVE  a.fd \in 1..(l - 1)
      <4>1. ~(l < a.fd) /\ l # a.fd
        BY <3>1, <3>4, <3>5 DEF WalkFollowsTable
      <4>2. l \in Fd
        BY DEF GoodIn
      <4> QED
        BY <1>3, <4>1, <4>2, FdAssumption DEF Fd
    <3> QED
      BY <3>1, <3>3, <3>5 DEF AttachedOrThrown
  <2>4. objects' = objects
    BY <1>0
  <2> QED
    BY <1>0, <1>2, <1>10, <2>1, <2>2, <2>3, <2>4, WalkStep DEF a, h
<1>11. CASE /\ kind = "refused"
            /\ agent' = [agent EXCEPT ![i] = OnError(a)] /\ ctx' = ctx /\ attaches' = attaches
  <2>1. ~tangled /\ Undisturbed => WalkFollowsTable(OnError(a), h, ctx)
    BY <1>8, <1>11
  <2>2. objects' = objects
    BY <1>0
  <2> QED
    BY <1>0, <1>2, <1>5, <1>6, <1>11, <2>1, <2>2, WalkStep DEF a, h
<1>12. CASE /\ kind = "uprobe" /\ e.prog \in DOMAIN ctx.progs
            /\ attaches' = attaches \cup {[ctx |-> ctx.number, id |-> ctx.next_id,
                                           link |-> top.fd, prog |-> ctx.progs[e.prog]]}
            /\ ctx' = RecordLink(ctx, top.fd)
            /\ agent' = [agent EXCEPT ![i] = OnSuccess([a EXCEPT !.stack = Front(a.stack)])]
  <2> DEFINE c == RecordLink(ctx, top.fd)
             rec == [ctx |-> ctx.number, id |-> ctx.next_id,
                     link |-> top.fd, prog |-> ctx.progs[e.prog]]
             p == [a EXCEPT !.stack = Front(a.stack)]
             b == OnSuccess(p)
             k == Len(a.stack)
  <2>1. ctx.progs[e.prog] \in Nat
    <3>1. ctx.progs \in PartialMap(Nat)
      BY <1>2 DEF Context
    <3> QED
      BY <1>12, <3>1, MapOK
  <2>2. /\ c \in Context /\ rec \in AttachRecord /\ c.number = ctx.number /\ c.progs = ctx.progs
        /\ c.perf_events = ctx.perf_events
        /\ c.instantiated = ctx.instantiated \cup {top.fd}
        /\ DOMAIN c.links = DOMAIN ctx.links \cup {top.fd}
        /\ ObjectsOK(objects, ctx) => ObjectsOK(objects, c)
        /\ LinksMatchAttaches(attaches, ctx) /\ top.fd \notin DOMAIN ctx.links =>
             LinksMatchAttaches(attaches \cup {rec}, c)
    BY <1>2, <1>4, <2>1, RecordLinkOK
  <2>3. /\ AgentOK(p) /\ p.at = "walk" /\ p.fd = a.fd /\ p.fd \in Fd /\ p.pass = a.pass
        /\ Len(p.stack) = k - 1 /\ \A n \in 1..(k - 1) : p.stack[n] = a.stack[n]
        /\ p.stack # <<>> => /\ Last(p.stack) = a.stack[k - 1]
                             /\ Last(p.stack).step \in {"prog", "target"}
                             /\ k - 1 \in 1..(k - 1)
    BY <1>0, <1>2, PopOK
  <2> HIDE DEF p
  <2>4. AgentOK(b) /\ b.at = "walk" /\ b # Out /\ (StackIsNew(p, c) => StackIsNew(b, c))
    BY <2>3, OnwardOK
  <2>5. ctx' = c /\ attaches' = attaches \cup {rec} /\ agent' = [agent EXCEPT ![i] = b]
        /\ objects' = objects
    BY <1>0, <1>12 DEF p
  <2> HIDE DEF c, rec, b
  <2>6. \A n \in 1..(k - 1) : n \in 1..k /\ n # k
    BY <1>3
  <2>7. k \in 1..k /\ top = a.stack[k]
    BY <1>3
  <2>8. ASSUME ~tangled
        PROVE  LinksMatchAttaches(attaches', c) /\ StackIsNew(b, c)
    <3>1. top.fd \notin DOMAIN ctx.links
      BY <1>2, <2>7, <2>8 DEF StackIsNew
    <3>2. \A n \in 1..(k - 1) : a.stack[n].fd \notin DOMAIN ctx.links /\ a.stack[n].fd # top.fd
      BY <1>2, <2>6, <2>7, <2>8 DEF StackIsNew, AgentOK
    <3>3. StackIsNew(p, c)
      BY <2>2, <2>3, <3>2 DEF StackIsNew
    <3> QED
      BY <1>2, <2>2, <2>4, <2>5, <2>8, <3>1, <3>3
  <2>9. ASSUME ~tangled, Undisturbed
        PROVE  ContextFollowsTable(h, c) /\ WalkFollowsTable(b, h, c)
    <3>1. ContextFollowsTable(h, ctx) /\ WalkFollowsTable(a, h, ctx) /\ top.fd \in GoodIn(h)
      BY <1>2, <1>7, <1>12, <2>9
    <3>2. h[top.fd].type = "link"
      BY <3>1 DEF GoodIn
    <3>3. ContextFollowsTable(h, c)
      <4>1. Perf("uprobe").type = "perf" /\ h[top.fd] # Perf("uprobe")
        BY <3>2 DEF Perf
      <4>2. \A x \in c.instantiated :
              /\ h[x] = Perf("uprobe") => x \in DOMAIN c.perf_events
              /\ h[x].type = "prog" => h[x] = Prog(TRUE) /\ x \in DOMAIN c.progs
              /\ h[x].type = "link" => x \in DOMAIN c.links
        BY <2>2, <3>1, <3>2, <4>1 DEF ContextFollowsTable
      <4>3. DOMAIN c.links \subseteq GoodIn(h)
        BY <2>2, <3>1 DEF ContextFollowsTable
      <4>4. \A x \in DOMAIN c.perf_events :
              /\ c.perf_events[x] # "none" => h[x] = Perf(c.perf_events[x])
              /\ c.perf_events[x] = "none" => h[x] # Perf("uprobe")
        BY <2>2, <3>1 DEF ContextFollowsTable
      <4> QED
        BY <4>2, <4>3, <4>4 DEF ContextFollowsTable
    <3>4. WalkFollowsTable(a, h, c)
      BY <2>2, <3>1, WalkFollowsMore
    <3>5. WalkFollowsTable(p, h, c)
      <4>1. \A l \in GoodIn(h) : p.pass = 2 \/ l < p.fd => l \in DOMAIN c.links
        BY <2>3, <3>4 DEF WalkFollowsTable
      <4>2. p.stack # <<>> => p.stack[1].fd = p.fd
        <5>1. p.stack # <<>> => 1 \in 1..(k - 1)
          BY <1>3, <2>3
        <5> QED
          BY <1>0, <2>3, <3>4, <5>1 DEF WalkFollowsTable
      <4>3. \A n \in 1..Len(p.stack) : EntryFollowsTable(p.stack[n], h, c)
        BY <2>3, <2>6, <3>4 DEF WalkFollowsTable
      <4>4. \A n \in 1..(k - 1 - 1) : n \in 1..(k - 1) /\ n + 1 \in 1..(k - 1)
        BY <1>3
      <4>5. \A n \in 1..(Len(p.stack) - 1) :
              p.stack[n].step = "target" /\ p.stack[n + 1].fd = h[p.stack[n].fd].target
        BY <2>3, <3>4, <4>4 DEF WalkFollowsTable
      <4> QED
        BY <4>1, <4>2, <4>3, <4>5 DEF WalkFollowsTable
    <3>6. Asked(p, h) = top.fd
      <4>1. CASE p.stack = <<>>
        <5>1. k = 1
          BY <1>3, <2>3, <4>1, AtTheStart
        <5>2. a.stack[1].fd = a.fd
          BY <1>0, <3>4 DEF WalkFollowsTable
        <5> QED
          BY <2>3, <2>7, <4>1, <5>1, <5>2 DEF Asked
      <4>2. CASE p.stack # <<>>
        <5>1. k - 1 \in 1..(k - 1) /\ k - 1 + 1 = k /\ Last(p.stack) = a.stack[k - 1]
          BY <1>3, <2>3, <4>2
        <5>2. a.stack[k - 1].step = "target" /\ a.stack[k - 1 + 1].fd = h[a.stack[k - 1].fd].target
          BY <3>4, <5>1 DEF WalkFollowsTable
        <5> QED
          BY <2>7, <4>2, <5>1, <5>2 DEF Asked
      <4> QED
        BY <4>1, <4>2
    <3>7. WalkFollowsTable(b, h, c)
      BY <1>2, <2>2, <2>3, <3>3, <3>5, <3>6, SuccessFollows DEF b
    <3> QED
      BY <3>3, <3>7
  <2>10. attaches' \in SUBSET AttachRecord /\ ObjectsOK(objects', c)
    BY <1>2, <2>2, <2>5
  <2> QED
    BY <1>0, <2>2, <2>4, <2>5, <2>8, <2>9, <2>10, WalkStep DEF a, h
<1> HIDE DEF kind
<1> QED
  BY <1>1, <1>9, <1>10, <1>11, <1>12

-----------------------------------------------------------------------------
(* The signal handler.                                                     *)

\* A set of descriptors has a least element.
LEMMA MinInSet ==
  ASSUME NEW S \in SUBSET Fd, S # {}
  PROVE  Min(S) \in S
<1>1. S \subseteq Nat
  BY FdAssumption DEF Fd
<1>2. PICK x \in S : \A y \in S : ~(<<y, x>> \in OpToRel(<, Nat))
  BY <1>1, NatLessThanWellFounded, WFMin
<1>3. \A y \in S : x =< y
  <2> TAKE y \in S
  <2>1. x \in Nat /\ y \in Nat
    BY <1>1, <1>2
  <2>2. ~(y < x)
    BY <1>2, <2>1 DEF OpToRel
  <2> QED
    BY <2>1, <2>2
<1>4. \E z \in S : \A y \in S : z =< y
  BY <1>3
<1> QED
  BY <1>4 DEF Min

\* SIGUSR1 arrives.
LEMMA SignalIInv ==
  ASSUME IInv, Signal
  PROVE  IInv'
<1> DEFINE s == [at |-> "detach", todo |-> DOMAIN ctx.links]
<1>1. /\ signal = NoSignal /\ alive /\ signal' = s
      /\ tangled' = (tangled \/ \E i \in Injector : Busy(i))
      /\ UNCHANGED <<handlers, alive, initialized, ctx, attaches, agent, objects, changed, inits>>
  BY DEF Signal, signalOnly, shmVars
<1>2. DOMAIN ctx.links \subseteq Fd
  <2>1. ctx.links \in PartialMap(Nat)
    BY DEF IInv, ContextType, Context
  <2> QED
    BY <2>1, MapOK
<1>3. s \in [at : {"idle", "detach"}, todo : SUBSET Fd] /\ s.at = "detach" /\ s.todo = DOMAIN ctx.links
  BY <1>2
<1>4. s # NoSignal
  BY DEF NoSignal
<1> HIDE DEF s
<1>5. ContextType'
  BY <1>1, <1>3 DEF IInv, ContextType
<1>6. ObjectsOK(objects, ctx)' /\ LinksOK(handlers)'
  BY <1>1 DEF IInv
<1>7. ASSUME ~tangled'
      PROVE  LinksMatchAttaches(attaches, ctx)' /\ OneAtATime' /\ ~Undisturbed'
  <2>1. ~tangled /\ \A i \in Injector : ~Busy(i)
    BY <1>1, <1>7
  <2>2. LinksMatchAttaches(attaches, ctx) /\ OneAtATime
    BY <2>1 DEF IInv
  <2>3. OneAtATime'
    BY <1>1, <1>3, <2>1, <2>2 DEF OneAtATime, Busy
  <2> QED
    BY <1>1, <1>4, <2>2, <2>3 DEF Undisturbed
<1> QED
  BY <1>5, <1>6, <1>7 DEF IInv, InitializationOK

\* A link and its attach are taken away.
LEMMA DestroyLinkOK ==
  ASSUME NEW c \in Context, NEW l \in DOMAIN c.links, NEW as
  PROVE  LET d == [c EXCEPT !.links = Without(@, l)]
             rest == {a \in as : ~(a.ctx = c.number /\ a.id = c.links[l])}
         IN
         /\ d \in Context /\ d.number = c.number /\ DOMAIN d.links = DOMAIN c.links \ {l}
         /\ \A o : ObjectsOK(o, c) => ObjectsOK(o, d)
         /\ LinksMatchAttaches(as, c) => LinksMatchAttaches(rest, d)
<1> DEFINE new == Without(c.links, l)
           d == [c EXCEPT !.links = Without(@, l)]
           rest == {a \in as : ~(a.ctx = c.number /\ a.id = c.links[l])}
<1>1. c.links \in PartialMap(Nat)
  BY DEF Context
<1>2. new \in PartialMap(Nat)
  BY <1>1, WithoutOK
<1>3. DOMAIN new = DOMAIN c.links \ {l} /\ \A x \in DOMAIN new : new[x] = c.links[x]
  BY DEF Without
<1> HIDE DEF new
<1>4. /\ d \in Context /\ d.links = new /\ d.next_id = c.next_id /\ d.instantiated = c.instantiated
      /\ d.number = c.number /\ d.progs = c.progs
  BY <1>2 DEF Context, new
<1> HIDE DEF d
<1>5. \A o : ObjectsOK(o, c) => ObjectsOK(o, d)
  BY <1>4 DEF ObjectsOK
<1>6. ASSUME LinksMatchAttaches(as, c)
      PROVE  LinksMatchAttaches(rest, d)
  <2>1. /\ \A a \in as : a.ctx = c.number /\ a.link \in DOMAIN c.links /\ c.links[a.link] = a.id
        /\ \A x \in DOMAIN c.links : \E a \in as : a.link = x
        /\ \A a, b \in as : a.link = b.link => a = b
        /\ \A x \in DOMAIN c.links : c.links[x] < c.next_id /\ x \in c.instantiated
        /\ \A x, y \in DOMAIN c.links : c.links[x] = c.links[y] => x = y
    BY <1>6 DEF LinksMatchAttaches
  <2>2. \A a \in as : a \in rest <=> a.link # l
    <3> TAKE a \in as
    <3>1. a.ctx = c.number /\ a.link \in DOMAIN c.links /\ c.links[a.link] = a.id
      BY <2>1
    <3>2. a.id = c.links[l] <=> a.link = l
      BY <2>1, <3>1
    <3> QED
      BY <3>1, <3>2
  <2>3. rest \subseteq as
    OBVIOUS
  <2> HIDE DEF rest
  <2>4. \A a \in rest : a.ctx = d.number /\ a.link \in DOMAIN new /\ new[a.link] = a.id
    BY <1>3, <1>4, <2>1, <2>2, <2>3, ZenonT(40)
  <2>5. \A x \in DOMAIN new : \E a \in rest : a.link = x
    BY <1>3, <2>1, <2>2
  <2>6. \A a, b \in rest : a.link = b.link => a = b
    BY <2>1, <2>3
  <2>7. \A x \in DOMAIN new : new[x] < d.next_id /\ x \in d.instantiated
    BY <1>3, <1>4, <2>1
  <2>8. \A x, y \in DOMAIN new : new[x] = new[y] => x = y
    BY <1>3, <2>1
  <2> QED
    BY <1>4, <2>4, <2>5, <2>6, <2>7, <2>8 DEF LinksMatchAttaches
<1> QED
  BY <1>3, <1>4, <1>5, <1>6 DEF d

\* A link is detached; the handler gives up only after an initialization that a
\* signal interrupted.
LEMMA DetachIInv ==
  ASSUME IInv, Detach
  PROVE  IInv'
<1> DEFINE l == Min(signal.todo)
<1>1. /\ signal.at = "detach" /\ signal.todo # {}
      /\ UNCHANGED <<handlers, alive, initialized, tangled, agent, objects, changed, inits>>
  BY DEF Detach, signalOnly, shmVars
<1>2. /\ signal \in [at : {"idle", "detach"}, todo : SUBSET Fd] /\ ctx \in Context
      /\ ObjectsOK(objects, ctx) /\ attaches \in SUBSET AttachRecord
      /\ ctx.number <= inits
  BY DEF IInv, ContextType
<1>3. ASSUME ~tangled
      PROVE  /\ LinksMatchAttaches(attaches, ctx) /\ OneAtATime /\ signal.todo = DOMAIN ctx.links
             /\ l \in DOMAIN ctx.links /\ initialized # 0 /\ \A i \in Injector : ~Busy(i)
  <2>1. LinksMatchAttaches(attaches, ctx) /\ OneAtATime /\ signal.todo = DOMAIN ctx.links
    BY <1>1, <1>3 DEF IInv, OneAtATime
  <2>2. l \in DOMAIN ctx.links
    BY <1>1, <1>2, <2>1, MinInSet
  <2>3. signal # NoSignal
    BY <1>1 DEF NoSignal
  <2> QED
    BY <2>1, <2>2, <2>3 DEF OneAtATime
<1>4. CASE l \in DOMAIN ctx.links
  <2> DEFINE d == [ctx EXCEPT !.links = Without(@, l)]
             rest == {a \in attaches : ~(a.ctx = ctx.number /\ a.id = ctx.links[l])}
             s == [signal EXCEPT !.todo = @ \ {l}]
  <2>1. ctx' = d /\ attaches' = rest /\ signal' = s
    BY <1>4 DEF Detach, DestroyLink
  <2>2. /\ d \in Context /\ d.number = ctx.number /\ DOMAIN d.links = DOMAIN ctx.links \ {l}
        /\ ObjectsOK(objects, d)
        /\ LinksMatchAttaches(attaches, ctx) => LinksMatchAttaches(rest, d)
    BY <1>2, <1>4, DestroyLinkOK
  <2>3. /\ s \in [at : {"idle", "detach"}, todo : SUBSET Fd] /\ s.at = "detach"
        /\ s.todo = signal.todo \ {l}
    BY <1>1, <1>2
  <2>4. s # NoSignal
    BY <2>3 DEF NoSignal
  <2>5. rest \in SUBSET AttachRecord
    BY <1>2
  <2> HIDE DEF d, rest, s
  <2>6. ContextType'
    BY <1>1, <1>2, <2>1, <2>2, <2>3, <2>5 DEF IInv, ContextType
  <2>7. ObjectsOK(objects, ctx)' /\ LinksOK(handlers)'
    BY <1>1, <2>1, <2>2 DEF IInv
  <2>8. ASSUME ~tangled'
        PROVE  LinksMatchAttaches(attaches, ctx)' /\ OneAtATime' /\ ~Undisturbed'
    <3>1. ~tangled
      BY <1>1, <2>8
    <3>2. \A i \in Injector : agent'[i] = Out /\ agent'[i].at = "out" /\ agent'[i].stack = <<>>
      BY <1>1, <1>3, <3>1 DEF Busy, Out
    <3>3. \A i \in Injector : StackIsNew(agent'[i], ctx')
      BY <3>2, EmptyStackIsNew
    <3>4. OneAtATime'
      BY <1>1, <1>3, <2>1, <2>2, <2>3, <3>1, <3>2, <3>3 DEF OneAtATime, Busy
    <3> QED
      BY <1>3, <2>1, <2>2, <2>4, <3>1, <3>4 DEF Undisturbed
  <2> QED
    BY <2>6, <2>7, <2>8 DEF IInv, InitializationOK
<1>5. CASE l \notin DOMAIN ctx.links
  <2>1. tangled' /\ ctx' = ctx /\ attaches' = attaches /\ signal' = NoSignal
    BY <1>1, <1>3, <1>5 DEF Detach
  <2>2. NoSignal \in [at : {"idle", "detach"}, todo : SUBSET Fd]
    BY DEF NoSignal
  <2>3. ContextType'
    BY <1>1, <2>1, <2>2 DEF IInv, ContextType
  <2>4. ObjectsOK(objects, ctx)' /\ LinksOK(handlers)'
    BY <1>1, <2>1 DEF IInv
  <2> QED
    BY <2>1, <2>3, <2>4 DEF IInv
<1> QED
  BY <1>4, <1>5

\* All links have been detached, and the agent may start again.
LEMMA DetachedIInv ==
  ASSUME IInv, Detached
  PROVE  IInv'
<1>1. /\ signal.at = "detach" /\ signal.todo = {} /\ signal' = NoSignal /\ alive' = FALSE
      /\ initialized' = 0
      /\ UNCHANGED <<handlers, ctx, attaches, tangled, agent, objects, changed, inits>>
  BY DEF Detached, signalOnly, shmVars
<1>2. NoSignal \in [at : {"idle", "detach"}, todo : SUBSET Fd] /\ NoSignal.at = "idle"
  BY DEF NoSignal
<1>3. ContextType'
  BY <1>1, <1>2 DEF IInv, ContextType
<1>4. ObjectsOK(objects, ctx)' /\ LinksOK(handlers)'
  BY <1>1 DEF IInv
<1>5. ASSUME ~tangled'
      PROVE  LinksMatchAttaches(attaches, ctx)' /\ OneAtATime' /\ ~Undisturbed'
  <2>1. LinksMatchAttaches(attaches, ctx) /\ OneAtATime /\ signal # NoSignal
    BY <1>1, <1>5 DEF IInv, NoSignal
  <2>2. \A i \in Injector : ~Busy(i)
    BY <2>1 DEF OneAtATime
  <2>3. DOMAIN ctx.links = {}
    BY <1>1, <2>1 DEF OneAtATime
  <2>4. attaches = {}
    BY <2>1, <2>3 DEF LinksMatchAttaches
  <2>5. OneAtATime'
    BY <1>1, <1>2, <2>1, <2>2, <2>4 DEF OneAtATime, Busy
  <2> QED
    BY <1>1, <2>1, <2>5 DEF Undisturbed
<1> QED
  BY <1>3, <1>4, <1>5 DEF IInv, InitializationOK

-----------------------------------------------------------------------------
\* Every action keeps the inductive invariant.
LEMMA NextIInv == IInv /\ [Next]_vars => IInv'
<1> SUFFICES ASSUME IInv, [Next]_vars
             PROVE  IInv'
  OBVIOUS
<1>1. CASE UNCHANGED vars
  <2> USE <1>1 DEF vars, shmVars
  <2>1. ContextType' /\ ObjectsOK(objects, ctx)' /\ LinksOK(handlers)'
    BY DEF IInv, ContextType
  <2>2. (~tangled => LinksMatchAttaches(attaches, ctx))'
    BY DEF IInv
  <2>3. (~tangled => OneAtATime)'
    BY DEF IInv, OneAtATime, Busy
  <2>4. (~tangled => InitializationOK)'
    BY DEF IInv, InitializationOK, Undisturbed, Busy
  <2> QED
    BY <2>1, <2>2, <2>3, <2>4 DEF IInv
<1>2. ASSUME NEW i \in Injector, AgentMain(i)
      PROVE  IInv'
  BY <1>2, StartIInv, OpenShmIInv, ConstructIInv, WalkIInv, EndOfWalkIInv, LinkAttachIInv
     DEF AgentMain
<1>3. CASE Next
  BY <1>2, <1>3, ServerIInv, SignalIInv, DetachIInv, DetachedIInv DEF Next
<1> QED
  BY <1>1, <1>3

\* The inductive invariant of the agent holds in every reachable state.
THEOREM AgentInvariant == Spec => []IInv
  BY InitIInv, NextIInv, PTL DEF Spec

\* handler_manager::clear_id_at takes away the links that would be left without
\* their program or their perf event, whichever descriptors are used again.
THEOREM TableIsWhole == Spec => []LinksHaveTheirEnds
<1>1. IInv => LinksHaveTheirEnds
  BY TableWords DEF IInv
<1> QED
  BY <1>1, AgentInvariant, PTL

\* A loaded program is never freed under the attach that has captured it.
THEOREM AttachedProgramsStay == Spec => []AttachedProgramsLive
<1>1. IInv => AttachedProgramsLive
  BY DEF IInv, ObjectsOK, AttachedProgramsLive
<1> QED
  BY <1>1, AgentInvariant, PTL

\* bpf_attach_ctx knows every attach once, as long as no signal comes in the middle
\* of an initialization.
THEOREM ContextKnowsAttaches == Spec => []AttachesAreKnown
<1>1. IInv => AttachesAreKnown
  <2> SUFFICES ASSUME IInv, ~tangled
               PROVE  /\ \A a \in attaches : /\ a.ctx = ctx.number
                                             /\ a.link \in DOMAIN ctx.links
                                             /\ ctx.links[a.link] = a.id
                      /\ Cardinality(attaches) = Cardinality(DOMAIN ctx.links)
    BY DEF AttachesAreKnown
  <2> DEFINE L == DOMAIN ctx.links
             f == [a \in attaches |-> a.link]
  <2>1. LinksMatchAttaches(attaches, ctx)
    BY DEF IInv
  <2>2. IsFiniteSet(L)
    <3>1. ctx.links \in PartialMap(Nat)
      BY DEF IInv, ContextType, Context
    <3>2. L \in SUBSET (1..MaxFd) /\ 1 \in Int /\ MaxFd \in Int
      BY <3>1, MapOK, FdAssumption DEF Fd
    <3> QED
      BY <3>2, FS_Interval, FS_Subset
  <2>3. f \in Injection(attaches, L) /\ f \in Surjection(attaches, L)
    <3>1. f \in [attaches -> L]
      BY <2>1 DEF LinksMatchAttaches
    <3>2. \A a, b \in attaches : f[a] = f[b] => a = b
      BY <2>1 DEF LinksMatchAttaches
    <3>3. \A l \in L : \E a \in attaches : f[a] = l
      BY <2>1 DEF LinksMatchAttaches
    <3> QED
      BY <3>1, <3>2, <3>3 DEF Injection, Surjection, IsInjective
  <2>4. Cardinality(attaches) = Cardinality(L)
    BY <2>2, <2>3, FS_Injection
  <2> QED
    BY <2>1, <2>4 DEF LinksMatchAttaches
<1> QED
  BY <1>1, AgentInvariant, PTL

\* A detached agent has nothing attached, is out of injected_pids and may start
\* again, as long as no signal comes in the middle of an initialization.
THEOREM DetachIsComplete == Spec => []DetachLeavesNothing
<1>1. IInv => DetachLeavesNothing
  BY DEF IInv, OneAtATime, DetachLeavesNothing
<1> QED
  BY <1>1, AgentInvariant, PTL

\* init_attach_ctx_from_handlers attaches no link but those that can be attached,
\* and all of them but for those that come after a link that leads to a function gum
\* cannot hook, whatever else is in the table and in whichever order.
THEOREM InitializationIsComplete == Spec => []InitAttachesWhatItCan
<1>1. IInv => InitAttachesWhatItCan
  <2> SUFFICES ASSUME IInv, Quiet, initialized = 1, ctx.number = inits, ~tangled, changed = 0
               PROVE  /\ DOMAIN ctx.links \subseteq Good
                      /\ \A l \in Good \ DOMAIN ctx.links : \E m \in 1..(l - 1) : LeadsToThrow(m)
    BY DEF InitAttachesWhatItCan
  <2>1. ContextFollowsTable(handlers, ctx) /\ AttachedOrThrown(handlers, ctx)
    BY DEF IInv, InitializationOK, Undisturbed, Quiet
  <2> QED
    BY <2>1, TableWords DEF ContextFollowsTable, AttachedOrThrown
<1> QED
  BY <1>1, AgentInvariant, PTL

=============================================================================
