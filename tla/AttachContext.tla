---------------------------- MODULE AttachContext ---------------------------
(***************************************************************************)
(* How bpftime's agent brings the programs of a server process to life.    *)
(*                                                                         *)
(* The server fills the handler table in shared memory (bpftime_shm and    *)
(* handler_manager): programs, perf events, and links between them, under  *)
(* file descriptors that are used again.  bpftime_agent_main opens the     *)
(* memory and builds a bpf_attach_ctx from the table, walking it twice;    *)
(* SIGUSR1 takes the attaches back.  No lock is held by anyone: the server *)
(* changes the table while the agent walks it, and the signal comes at any *)
(* moment.  What an attach does is the business of FridaAttach and         *)
(* SyscallTrace.                                                           *)
(***************************************************************************)
EXTENDS Integers, Sequences, FiniteSets, SequencesExt

CONSTANTS
  Injector,     \* threads that run bpftime_agent_main
  MaxFd,         \* bound: file descriptors, the size of the table
  MaxLateFd,     \* bound: those of them used once an initialization has begun
  MaxServerOps,  \* bound: changes of the table
  MaxRaces,      \* bound: changes of the table during one initialization
  MaxInits,      \* bound: initializations begun
  MaxSignals     \* bound: signals delivered

ASSUME FdAssumption == MaxFd \in Nat /\ MaxLateFd \in 0..MaxFd
ASSUME ContextBoundsAssumption ==
  MaxServerOps \in Nat /\ MaxRaces \in Nat /\ MaxInits \in Nat /\ MaxSignals \in Nat

Fd == 1..MaxFd

\* Perf events: a probe that can be attached, one that the attach implementation
\* refuses with an error code, one of a function that gum cannot hook, for which
\* it throws, one whose type has no implementation or whose argument cannot be
\* parsed, and software events, for which nothing is done.
PerfKind == {"uprobe", "refused", "unhookable", "unparsable", "software"}

Unused == [type |-> "unused"]
Prog(loads) == [type |-> "prog", loads |-> loads]
Perf(kind) == [type |-> "perf", kind |-> kind]
\* probes: history, the target was a perf event when the link was made.
Link(prog, target, probes) ==
  [type |-> "link", prog |-> prog, target |-> target, probes |-> probes]

VARIABLES
  \* shared memory
  shm,           \* the server has created it
  handlers,      \* handler_manager's table
  alive,         \* this process is in injected_pids
  \* the agent
  injected_with_frida, \* FALSE when it came by LD_PRELOAD, through bpftime_hooked_main
  initialized,   \* its flag
  agent,         \* where the threads in bpftime_agent_main are
  ctx,           \* ctx_holder.ctx
  attaches,      \* what the attach implementations hold
  signal,        \* the SIGUSR1 handler
  objects,       \* bpftime_prog objects made, those of them loaded, those freed
  \* history and bounds
  tangled,       \* a signal came while an initialization was in progress
  changed,       \* how often the table has changed since the last initialization began
  undefined,     \* a thread met a context not constructed, or replaced under it
  serverOps, inits, signals

shmVars == <<shm, handlers, injected_with_frida>>
vars == <<shmVars, alive, initialized, agent, ctx, attaches, signal, objects,
          tangled, changed, undefined, serverOps, inits, signals>>

Out == [at |-> "out", pass |-> 1, fd |-> 1, stack |-> <<>>]

NoContext == [number |-> 0, instantiated |-> {}, progs |-> <<>>, perf_events |-> <<>>,
              links |-> <<>>, next_id |-> 1]

NoSignal == [at |-> "idle", todo |-> {}]

Init ==
  /\ shm = FALSE
  /\ handlers = [fd \in Fd |-> Unused]
  /\ alive = FALSE
  /\ injected_with_frida \in BOOLEAN
  /\ initialized = 0
  /\ agent = [i \in Injector |-> Out]
  /\ ctx = NoContext
  /\ attaches = {}
  /\ signal = NoSignal
  /\ objects = [made |-> 0, loaded |-> {}, freed |-> {}]
  /\ tangled = FALSE /\ changed = 0 /\ undefined = FALSE
  /\ serverOps = 0 /\ inits = 0 /\ signals = 0

\* The descriptors within the bounds.
FdNow == IF inits = 0 THEN Fd ELSE 1..MaxLateFd

-----------------------------------------------------------------------------
(* The server.                                                             *)

CreateShm ==
  /\ ~shm
  /\ shm' = TRUE
  /\ UNCHANGED <<handlers, injected_with_frida, alive, initialized, agent, ctx, attaches, signal, objects,
                 tangled, changed, undefined, serverOps, inits, signals>>

Busy(i) == agent[i] # Out

Is(fd, type) == handlers[fd].type = type

ServerOp(table) ==
  /\ shm /\ serverOps < MaxServerOps
  /\ changed < MaxRaces \/ \A i \in Injector : ~Busy(i)
  /\ serverOps' = serverOps + 1
  /\ handlers' = table
  /\ changed' = changed + 1
  /\ UNCHANGED <<shm, injected_with_frida, alive, initialized, agent, ctx, attaches, signal, objects,
                 tangled, undefined, inits, signals>>

\* handler_manager::set_handler, on a descriptor that is free (-EEXIST otherwise)
SetHandler(fd, h) == Is(fd, "unused") /\ ServerOp([handlers EXCEPT ![fd] = h])

AddProg(fd, loads) == SetHandler(fd, Prog(loads))
AddPerfEvent(fd, kind) == SetHandler(fd, Perf(kind))

\* attach_perf_to_bpf: both ends must be what they should be.
AttachPerfToBpf(fd, perf, prog) ==
  /\ Is(perf, "perf") /\ Is(prog, "prog")
  /\ SetHandler(fd, Link(prog, perf, TRUE))

\* add_bpf_link: the target is not looked at, and may be anything.
AddBpfLink(fd, prog, target) ==
  /\ Is(prog, "prog")
  /\ SetHandler(fd, Link(prog, target, Is(target, "perf")))

\* Mutant of Dependents: only the links of a perf event go with it.
DependentsOfPerf(fd) ==
  {l \in Fd : Is(l, "link") /\ Is(fd, "perf") /\ handlers[l].target = fd}

\* The links that handler_manager::clear_id_at removes along with fd.
Dependents(fd) ==
  {l \in Fd : Is(l, "link") /\ \/ Is(fd, "perf") /\ handlers[l].target = fd
                               \/ Is(fd, "prog") /\ handlers[l].prog = fd}

CloseFd(fd) ==
  /\ ~Is(fd, "unused")
  /\ ServerOp([f \in Fd |-> IF f = fd \/ f \in Dependents(fd) THEN Unused ELSE handlers[f]])

-----------------------------------------------------------------------------
(* bpftime_agent_main.                                                     *)

\* The flag is taken; who finds it taken returns at once.  The signal handler
\* is installed from here on.
Start(i) ==
  /\ ~Busy(i) /\ initialized = 0 /\ inits < MaxInits
  /\ initialized' = 1
  /\ agent' = [agent EXCEPT ![i] = [Out EXCEPT !.at = "open"]]
  /\ changed' = 0
  /\ inits' = inits + 1
  /\ UNCHANGED <<shmVars, alive, ctx, attaches, signal, objects, tangled, undefined,
                 serverOps, signals>>

\* bpftime_initialize_global_shm throws without a server: the flag stays taken.
OpenShm(i) ==
  /\ agent[i].at = "open"
  /\ agent' = [agent EXCEPT ![i] = IF shm THEN [@ EXCEPT !.at = "construct"] ELSE Out]
  /\ alive' = (alive \/ (shm /\ injected_with_frida))
  /\ UNCHANGED <<shmVars, initialized, ctx, attaches, signal, objects, tangled, changed,
                 undefined, serverOps, inits, signals>>

\* ctx_holder.init constructs a context over whatever was there, and the attach
\* implementations are registered with it.  The former ones are never freed.
\* Another thread that is still walking has its maps replaced under it.
Construct(i) ==
  /\ agent[i].at = "construct"
  /\ ctx' = [NoContext EXCEPT !.number = inits]
  /\ agent' = [agent EXCEPT ![i].at = "walk"]
  /\ undefined' = \E j \in Injector : agent[j].at = "walk"
  /\ UNCHANGED <<shmVars, alive, initialized, attaches, signal, objects, tangled, changed,
                 serverOps, inits, signals>>

With(f, k, v) == [x \in DOMAIN f \cup {k} |-> IF x = k THEN v ELSE f[x]]
Without(f, k) == [x \in DOMAIN f \ {k} |-> f[x]]

\* instantiated_progs[fd] is assigned a new object, which frees the one there.
MakeObject(fd, loads) ==
  objects' = [made |-> objects.made + 1,
              loaded |-> objects.loaded \cup (IF loads THEN {objects.made + 1} ELSE {}),
              freed |-> objects.freed \cup
                (IF fd \in DOMAIN ctx.progs THEN {ctx.progs[fd]} ELSE {})]

\* Mutant of MakeProg: the program is not recorded as instantiated.
MakeProgUnrecorded(fd, loads) ==
  /\ MakeObject(fd, loads)
  /\ ctx' = [ctx EXCEPT !.progs = With(@, fd, objects.made + 1)]

\* instantiate_prog_handler_at: an object that is there is replaced; one that
\* cannot be loaded stays, but is not recorded.
MakeProg(fd, loads) ==
  /\ MakeObject(fd, loads)
  /\ ctx' = [ctx EXCEPT !.progs = With(@, fd, objects.made + 1),
                        !.instantiated = IF loads THEN @ \cup {fd} ELSE @]

\* instantiate_perf_event_handler_at
MakePerfEvent(fd, kind) ==
  /\ ctx' = IF kind \in {"uprobe", "refused", "unhookable"}
            THEN [ctx EXCEPT !.perf_events = With(@, fd, kind), !.instantiated = @ \cup {fd}]
            ELSE ctx
  /\ UNCHANGED objects

\* Where injection i goes after the handler it is at: on to the next one.
NextFd(a) == [a EXCEPT !.fd = @ + 1, !.stack = <<>>]

\* Mutant of OnError: the walk is over.
OnErrorStop(a) == Out

\* An error goes up through all the links being instantiated, and is ignored.
OnError(a) == NextFd(a)

\* An exception ends bpftime_agent_main.
OnThrow(a) == Out

\* Success: the link that needed this handler goes on with its next step.
Onward == [prog |-> "target", target |-> "attach"]
OnSuccess(a) ==
  LET top == Last(a.stack) IN
  IF a.stack = <<>> THEN NextFd(a)
  ELSE [a EXCEPT !.stack = Append(Front(a.stack), [top EXCEPT !.step = Onward[top.step]])]

\* instantiate_handler_at(fd), called by injection i from the walk or for one
\* end of the innermost link of its stack.
Instantiate(i, fd) ==
  LET a == agent[i]
      h == handlers[fd]
      continue(b) == agent' = [agent EXCEPT ![i] = b]
  IN
  \/ /\ fd \in ctx.instantiated \/ h.type = "unused"
     /\ continue(OnSuccess(a))
     /\ UNCHANGED <<ctx, objects>>
  \/ /\ fd \notin ctx.instantiated /\ h.type = "prog"
     /\ MakeProg(fd, h.loads)
     /\ continue(IF h.loads THEN OnSuccess(a) ELSE OnError(a))
  \/ /\ fd \notin ctx.instantiated /\ h.type = "perf"
     /\ MakePerfEvent(fd, h.kind)
     /\ continue(IF h.kind = "unparsable" THEN OnError(a) ELSE OnSuccess(a))
  \/ /\ fd \notin ctx.instantiated /\ h.type = "link"
     /\ continue(IF \E n \in DOMAIN a.stack : a.stack[n].fd = fd THEN OnError(a)
                 ELSE [a EXCEPT !.stack = Append(@, [fd |-> fd, step |-> "prog"])])
     /\ UNCHANGED <<ctx, objects>>

agentOnly == <<shmVars, alive, initialized, signal, tangled, changed, undefined, serverOps,
               inits, signals>>

\* init_attach_ctx_from_handlers goes to the next handler of the table.
Walk(i) ==
  /\ agent[i].at = "walk" /\ agent[i].stack = <<>> /\ agent[i].fd \in Fd
  /\ Instantiate(i, agent[i].fd)
  /\ UNCHANGED <<attaches, agentOnly>>

\* The table is walked a second time, for the links put off in the first.
EndOfWalk(i) ==
  /\ agent[i].at = "walk" /\ agent[i].fd \notin Fd
  /\ agent' = [agent EXCEPT ![i] =
       IF @.pass = 1 THEN [@ EXCEPT !.pass = 2, !.fd = 1] ELSE Out]
  /\ UNCHANGED <<ctx, objects, attaches, agentOnly>>

LinkStep(i, steps) ==
  agent[i].at = "walk" /\ agent[i].stack # <<>> /\ Last(agent[i].stack).step \in steps

\* What a thread reads through its reference to link fd in shared memory: what is
\* there now, and anything once it is a link no more.
Ends(fd) == IF Is(fd, "link") THEN {[prog |-> handlers[fd].prog, target |-> handlers[fd].target]}
            ELSE [prog : FdNow, target : FdNow]

\* The program of the innermost link, then its target.
LinkEnd(i) ==
  LET top == Last(agent[i].stack) IN
  /\ LinkStep(i, {"prog", "target"})
  /\ \E e \in Ends(top.fd) : Instantiate(i, IF top.step = "prog" THEN e.prog ELSE e.target)
  /\ UNCHANGED <<attaches, agentOnly>>

\* Mutant of RecordLink: the link is not entered among the instantiated handlers.
RecordLinkOnce(c, l) == [c EXCEPT !.links = With(@, l, c.next_id), !.next_id = @ + 1]

\* An attach was made for link l, under the id that was next.
RecordLink(c, l) ==
  [c EXCEPT !.links = With(@, l, c.next_id), !.next_id = @ + 1, !.instantiated = @ \cup {l}]

\* instantiate_bpf_link_handler_at: a target that has no entry gets an empty one
\* of an attach type that is not registered.  A program that is not there and a
\* function that gum cannot hook throw: nobody between here and bpftime_agent_main
\* catches it, both walks are over, and the flag is still taken.
LinkAttach(i) ==
  LET a == agent[i]
      l == Last(a.stack).fd
      continue(b) == agent' = [agent EXCEPT ![i] = b]
  IN
  /\ LinkStep(i, {"attach"})
  /\ \E e \in Ends(l) :
       LET kind == IF e.target \in DOMAIN ctx.perf_events THEN ctx.perf_events[e.target] ELSE "none"
           hasProg == e.prog \in DOMAIN ctx.progs
       IN
       \/ /\ kind = "none"
          /\ ctx' = [ctx EXCEPT !.perf_events = With(@, e.target, "none")]
          /\ continue(OnError(a))
          /\ UNCHANGED attaches
       \/ /\ kind # "none" /\ (hasProg => kind = "unhookable")
          /\ continue(OnThrow(a))
          /\ UNCHANGED <<ctx, attaches>>
       \/ /\ kind = "refused" /\ hasProg
          /\ continue(OnError(a))
          /\ UNCHANGED <<ctx, attaches>>
       \/ /\ kind = "uprobe" /\ hasProg
          /\ attaches' = attaches \cup {[ctx |-> ctx.number, id |-> ctx.next_id,
                                         link |-> l, prog |-> ctx.progs[e.prog]]}
          /\ ctx' = RecordLink(ctx, l)
          /\ continue(OnSuccess([a EXCEPT !.stack = Front(@)]))
  /\ UNCHANGED <<objects, agentOnly>>

-----------------------------------------------------------------------------
(* SIGUSR1: the detach command sends it to the processes in injected_pids.  *)

signalOnly == <<shmVars, agent, objects, changed, serverOps, inits>>

\* The links to detach are listed first.  A context that was never constructed
\* is all zeroes, which is no empty map.
Signal ==
  /\ signal = NoSignal /\ alive /\ signals < MaxSignals
  /\ signals' = signals + 1
  /\ tangled' = (tangled \/ \E i \in Injector : Busy(i))
  /\ undefined' = (undefined \/ ctx.number = 0)
  /\ signal' = [at |-> "detach", todo |-> DOMAIN ctx.links]
  /\ UNCHANGED <<alive, initialized, ctx, attaches, signalOnly>>

\* Mutant of DestroyLink: the attach implementation is not told.
DestroyLinkQuietly(l) ==
  /\ ctx' = [ctx EXCEPT !.links = Without(@, l)]
  /\ UNCHANGED attaches

\* destroy_instantiated_attach_link.  The link stays among the instantiated.
DestroyLink(l) ==
  /\ attaches' = {a \in attaches : ~(a.ctx = ctx.number /\ a.id = ctx.links[l])}
  /\ ctx' = [ctx EXCEPT !.links = Without(@, l)]

\* destroy_all_attach_links, in the order of the map; a link that is gone ends the
\* handler at once.
Detach ==
  LET l == Min(signal.todo) IN
  /\ signal.at = "detach" /\ signal.todo # {}
  /\ IF l \in DOMAIN ctx.links
     THEN /\ DestroyLink(l)
          /\ signal' = [signal EXCEPT !.todo = @ \ {l}]
     ELSE /\ signal' = NoSignal
          /\ UNCHANGED <<ctx, attaches>>
  /\ UNCHANGED <<alive, initialized, tangled, undefined, signals, signalOnly>>

Detached ==
  /\ signal.at = "detach" /\ signal.todo = {}
  /\ signal' = NoSignal
  /\ alive' = FALSE
  /\ initialized' = 0
  /\ UNCHANGED <<ctx, attaches, tangled, undefined, signals, signalOnly>>

-----------------------------------------------------------------------------
Server ==
  \/ CreateShm
  \/ \E fd \in FdNow :
       \/ \E loads \in BOOLEAN : AddProg(fd, loads)
       \/ \E kind \in PerfKind : AddPerfEvent(fd, kind)
       \/ \E p, q \in FdNow : AttachPerfToBpf(fd, p, q) \/ AddBpfLink(fd, p, q)
       \/ CloseFd(fd)

AgentMain(i) ==
  \/ Start(i) \/ OpenShm(i) \/ Construct(i) \/ Walk(i) \/ EndOfWalk(i) \/ LinkEnd(i) \/ LinkAttach(i)

\* Nothing can be said of the process after undefined behaviour.
Next ==
  /\ ~undefined
  /\ \/ Server
     \/ \E i \in Injector : AgentMain(i)
     \/ Signal \/ Detach \/ Detached

Spec == Init /\ [][Next]_vars

-----------------------------------------------------------------------------
\* Whatever is closed and whichever descriptors are used again, a link in the
\* table leads from a program, and to a perf event if its target was one.
LinksHaveTheirEnds ==
  \A l \in Fd : Is(l, "link") =>
    /\ Is(handlers[l].prog, "prog")
    /\ handlers[l].probes => Is(handlers[l].target, "perf")

Quiet == signal = NoSignal /\ \A i \in Injector : ~Busy(i)

\* The links that can be attached.
Good == {l \in Fd : /\ Is(l, "link")
                    /\ handlers[handlers[l].prog] = Prog(TRUE)
                    /\ handlers[handlers[l].target] = Perf("uprobe")}

\* Attaching this link throws.
Throws(l) == /\ Is(l, "link")
             /\ handlers[handlers[l].prog] = Prog(TRUE)
             /\ handlers[handlers[l].target] = Perf("unhookable")

\* Instantiating m ends at such a link, through the links that are targets of links:
\* every set that holds m and the target of each of its links holds one.
LeadsToThrow(m) ==
  \A S \in SUBSET Fd :
    m \in S /\ (\A l \in S : Is(l, "link") => handlers[l].target \in S) => \E l \in S : Throws(l)

\* An initialization during which the table did not change attaches nothing but the
\* links that can be, and all of them, wherever the handlers that cannot be
\* instantiated are in the table and however the links refer to each other, but for
\* those that come after a link that leads to a function gum cannot hook.
InitAttachesWhatItCan ==
  Quiet /\ initialized = 1 /\ ctx.number = inits /\ ~tangled /\ changed = 0 =>
    /\ DOMAIN ctx.links \subseteq Good
    /\ \A l \in Good \ DOMAIN ctx.links : \E m \in 1..(l - 1) : LeadsToThrow(m)

\* As long as no signal comes in the middle of an initialization, the context
\* knows every attach, once: none is made a second time in the second walk,
\* after an error, or over a former context.
AttachesAreKnown ==
  ~tangled => /\ \A a \in attaches : /\ a.ctx = ctx.number
                                     /\ a.link \in DOMAIN ctx.links
                                     /\ ctx.links[a.link] = a.id
              /\ Cardinality(attaches) = Cardinality(DOMAIN ctx.links)

\* As long as no signal comes in the middle of an initialization, a detached
\* agent has nothing attached, is out of injected_pids and may start again.
DetachLeavesNothing == ~tangled /\ initialized = 0 => attaches = {} /\ ~alive

\* The loaded program that an attach has captured is never freed under it: not by
\* the second walk, another link or a change of the table, signals or not.  (One
\* that could not be loaded can be: its descriptor is closed and used again between
\* the two walks, and a link of the first has captured the object.)
AttachedProgramsLive ==
  \A a \in attaches : a.prog \in objects.loaded => a.prog \notin objects.freed

=============================================================================
