# FreeProbe: TLA+ models, model checks and proofs

FreeProbe makes always-on user-space probes cheap by *sampling in the
trampoline*. It patches Frida-gum so that the machine code of every hook first
counts the calls of the thread's bucket and lets all but one in
`GUM_SAMPLE_RATE` (20) pass straight to the original function; only the sampled
call pays for gum's invocation machinery and for the eBPF program that bpftime
attached. The modules in this directory model the path of a call through
these layers, the control threads that create and remove hooks meanwhile, the
agent that reads from shared memory which hooks to make, and the test that
measures the result.

Paths below are relative to the repository root. `gum` is
`frida-gum/gum`, `attach` is `bpftime/attach`, `runtime` is `bpftime/runtime`.

## 1. Inventory

| Component | State | Operations | Talks to |
|---|---|---|---|
| Sampling guard, `gum/backend-x86/guminterceptor-x86.c:191-274` | 64 byte counters per function context, two registers per thread | load, increment and store, compare, reset, fast path, slow path | jumps to `enter_thunk` or `on_invoke_trampoline` |
| gum interceptor, `gum/guminterceptor.c` | function table, contexts (listener arrays, replacement, usage counter), the current transaction, per-thread invocation stacks | attach, detach, replace, revert, begin/end transaction, flush, ignore, begin/end invocation | calls listeners; writes prologues; called by bpftime and by the thunks |
| x86 writer, relocator, trampolines, `gum/arch-x86`, `gum/backend-x86` | label definitions and references, code written so far | put label, put jump to label, flush; read and rewrite instructions; create and activate a trampoline | the interceptor, under its lock |
| Code allocator, `gum/gumcodeallocator.c` | batches of slices, the free list threaded through them, reference counts, dirty pages | allocate near an address, unref, commit | the interceptor; unref without its lock |
| frida attach, `attach/frida_uprobe_attach_impl`, `attach/base_attach_impl` | ids, user lists, one internal entry per function, per-thread override callback and cpu context | attach_at, detach_by_id, detach_by_func_addr, listener callbacks, override handler, set_retval | gum's API; runs eBPF programs |
| Syscall trace attach, `attach/syscall_trace_attach_impl` | callback sets per system call and global ones, entries | dispatch, attach, detach | shares the thread's override callback with frida attach |
| Attach context, `runtime/src/attach/bpf_attach_ctx.cpp` | instantiated programs, perf events, links | two walks over the handlers, destroy links | handler manager, attach implementations |
| Handler manager, `runtime/src/handler/handler_manager.cpp` | the descriptor table in shared memory | set, clear, cascade to links | attach context, agent |
| Agent, `runtime/agent/agent.cpp` | `initialized`, the attach context, its entry in `injected_pids` | start, SIGUSR1 detach | all of the above |
| End-to-end test, `e2e/` | the victim's threads and call counts, the observer's map, the script's verdict | victim loop, observer program, comparison with 25 % tolerance | uses everything |

Hard behaviours, and what correctness means for each component:

* **Guard.** Load, store and reset of a counter are separate instructions, and
  threads whose TIDs agree modulo 64 share a counter. Right means: exactly one
  call in 20 where threads do not meet, bounded damage where they do, no
  influence on other buckets, and a thread that keeps calling keeps being sampled.
* **Interceptor.** Application threads take no lock. They read the prologue, the
  usage counter, the listener array and the replacement at different moments of
  one call, while control threads change all four; destructions are deferred
  on a counter that is read before the lock is released, but the entry of a
  detached listener is freed at once. Right means: the context and the listener
  array that a counted call is using are not freed, nor the listener it runs; the
  invocation stack matches the calls, functions are patched exactly as the clients
  asked, and deferred destruction happens. The entries do not live up to this
  (section 3).
* **Writer and trampolines.** One writer serves every trampoline under the same
  label ids; `flush` gives up at the first label it cannot resolve and forgets
  the rest; the guard shares a slice of 256 bytes with a prologue whose length
  is only known after relocation. Right means: every jump reaches its own label,
  and the code fits.
* **Code allocator.** The list of free slices is changed without a lock by destroy
  tasks. Right means: no two contexts share a slice, commits cover new code,
  and pages are mapped only when nothing free would do.
* **frida attach.** Ids, user lists, internal entries and gum hooks are four
  views of one thing; hooks are live before lists are filled and after they are
  emptied; the override flag belongs to a function and not to a call; the
  override callback of a thread is never taken back. Right means: the views
  agree, and a call does what its own program asked.
* **Syscall trace.** The override callback refers to locals of a dispatch and is
  shared with other dispatches and handlers of the thread, which signal handlers
  nest at any point. Right means: the callback never outlives its dispatch, and a
  dispatch does what its programs asked.
* **Attach context, handler manager, agent.** The server changes the table while
  the agent walks it, descriptors are used again, handlers fail one by one, and a
  signal detaches everything at any moment, and one kind of failure is an exception
  that nobody catches. Right means: what can be attached before such an exception is,
  once; what is attached can be detached; no program is freed under an attach.
* **End-to-end test.** The observer's counter is not atomic, the victim is started
  after a sleep, and the reported number of calls is the requested one. Right
  means: a test that passes has really seen sampling.

`PROJECT.json` lists the hazards with their lines under `hazards`.

## 2. Modules

| Module | Models | Used by |
|---|---|---|
| `SamplingSpec` | what the guard promises: of each `Rate` calls of a bucket the last is sampled | refinement target |
| `SamplingGuard` | the guard, one action per access to the counter | `MCSamplingGuard`, `EndToEnd` |
| `EndToEnd` | victim, observer, program and script around the guard | `MCEndToEnd` |
| `Interceptor` | contexts, transactions, deferred destruction, invocations | `MCInterceptor` |
| `TrampolineWriter` | labels, relocation, the layout of a trampoline | `MCTrampolineWriter` |
| `CodeAllocator` | slices and their free list | `MCCodeAllocator` |
| `FridaAttach` | attach tables, listener callbacks, override handler | `MCFridaAttach` |
| `SyscallTrace` | system call programs and the shared override callback | `MCSyscallTrace` |
| `AttachContext` | handler table, agent, the two walks, SIGUSR1 | `MCAttachContext` |
| `StackLemmas` | facts about sequences used as stacks | the proofs |
| `EndToEnd_proofs` | the theorems of `SamplingGuard` and of `EndToEnd` | |
| `Interceptor_proofs`, `TrampolineWriter_proofs`, `CodeAllocator_proofs`, `FridaAttach_proofs`, `SyscallTrace_proofs`, `AttachContext_proofs` | the theorems of these components | |

The models are layers of one call. `SamplingGuard` decides between fast
and slow path; `Interceptor` takes that decision as a free choice (`Skip`,
`Sample`) and models what both paths do; `FridaAttach` takes gum's promise (which
entry is hooked where, and when a call bypasses its hook) and models what the
callbacks do; `AttachContext` takes an attach as something that succeeds, is
refused, or throws. A layer that takes its neighbour as a free choice allows at
least the behaviours of the composition, so its safety properties carry over.
`EndToEnd` composes the guard with its surroundings step by step, because
there the numbers matter.

Definitions named "Mutant of ..." are not part of any specification. Each is a
plausible slip in the code; putting it in the place of the definition it is a
mutant of makes the property listed with it in `PROJECT.json` fail.

### SamplingGuard

`pc[t]` is the place of thread `t` in the emitted bytes, `ecx[t]` the counter
register. `Load`, `Count` and `Reset` are the three memory accesses with the
register instructions that follow them. `Count` keeps the asymmetry of the
code: the compare is on the full register, the store is of the low byte
(`% CounterMod`). All accesses of a bucket go to one byte, for which x86 is
coherent, so interleaving them is exact. `BucketOf` is the mask `0x3f` on the
TID. `calls`, `hits` and `overlap` are history variables. `MaxCalls` bounds the
calls of a bucket where nothing else does; at the bound the loop is over (`Finished`).

### EndToEnd

Extends `SamplingGuard` with the test. A victim thread calls through the guard if
the agent found the uprobe when the victim started (`instrumented`), else the plain
function. A sampled call runs the program, which reads the map's element (`Lookup`)
and writes it back plus one (`Update`): two actions, since the map's element is
shared and nothing is atomic. The script starts the observer, sleeps, and starts
the victim; nothing makes it wait for the attach, so `StartVictim` may come before
`Attach`, and `Attach` may fail. The victim prints the calls it was asked for
(`TotalCalls`), while its threads make `TotalCalls \div threads` each. `Judge` is the
script's integer arithmetic.

### Interceptor

An API call holds the interceptor's lock, so it is one action up to the end of
its transaction. `TransactionEnd` is `gum_interceptor_transaction_end`: nested or
clean transactions return early, otherwise the prologues are patched from the
scheduled updates in their order and the destroy tasks become a `job`. The job is
worked off in separate steps (`TakeTask`, `Notify`, `Relock`, `RequeueTask`,
`Unlock`), because the code reads the usage counter under the lock and runs the
task without it. A context is named by its creation number and never reused, so
that "freed" is visible. `arrays` keeps every listener array a context had:
attach installs a new one, with entries of its own for the same listeners, detach
empties a slot in place, and a thread goes over the version it loaded.

Of a detached listener three things go at three moments: the entry at once
(`EntryFreed`), the listener's reference in a task, the context in another. A thread
takes three steps to a callback: `ReadEntry` loads the slot, `VisitEntry` dereferences
what it loaded, and the callback runs (`running`) and may read its `function_data`,
again from the entry, at any time until it returns.

A thread's `frames` are its calls; the field `at` says where each is, from the
guard to `on_leave`. Using a freed context leads to `"undefined"`, where the
thread stays: nothing is claimed of it afterwards. Using a freed entry
(`UseFreedEntry`) leads to `"stray"`, where it stays too, but counted, so that what
this does to the others is still followed. The same state stands for the
one case where `begin_invocation` reads a replacement that was not there when it
decided the trap. `Resolve` follows jumps found at an address that is not in the
table: inside one transaction a detached function still has the old jump, and an
attach then instruments the old trampoline.

bpftime never detaches while a transaction is open; gum allows it.
`client.strayed` is history and remembers a client that did. `ClientsViewHolds`
is claimed as long as none has: after such a detach, an attach in the same
transaction puts the new hook on the freed trampoline and the function stays
unhooked. All other properties are claimed of both kinds of client.

Bounds: `MaxContexts`, `MaxCalls`, `MaxDepth`, `MaxOps`.

### TrampolineWriter

Code is a sequence of pieces with a length and, for jumps, a label and the width
of the displacement. `Put` is one call of the writer; a jump is first stored as a
jump to itself (displacement minus its own length) and patched by `flush`, which stops at
the first reference it cannot resolve and forgets all of them. `WriteOne` is
the relocator: which instructions it copies, which it rewrites, and how long the
result is when the target is in a disp32's reach and when it is not. `Trampoline`
puts guard, thunk jumps and relocated prologue together. Writing a trampoline is
one action, as the interceptor's lock makes it one; the order of many trampolines
written with the same writer, with redirects in between, is what is explored. A
jump whose target is at hand is always taken to have five bytes, where the writer uses
two if they reach (`gumx86writer.c:1054-1061`): this is only longer, and no bound on
a trampoline depends on the saving. Bytes and decoding are left out, but an instruction is at least as long as its shortest
encoding (`Shortest`), on which the bounds on what a prologue is rewritten to rest.
`Overstretched` is a trampoline out of its target's reach with a short branch that cannot
bridge what the relocator put between the branch and its label. `Code` is the set of
prologues, `MaxContexts` bounds the trampolines.

### CodeAllocator

The free list is modelled link by link (`prev`, `next`, `free_slices`). Taking a
slice happens under the interceptor's lock. Giving one back happens in a destroy
task, whose notify runs without it: `PushPrev`, `PushNext` and `PushHead` are
the single stores. `raced` is history: two controllers were at the list at once.
With `raced` the list may be anything, and the run reaches that; the
properties that hold regardless are stated without it. The model is of systems whose
pages can be writable and executable at once, as on x86 Linux. Bounds:
`MaxBatches`, `MaxAllocs`.

### FridaAttach

Nothing in `frida_attach_impl` takes a lock. `AttachAt` ends with the new entry
hooked and still without users; `PushUser` gives it its first. A detach erases
users, then `Unhook`, then `FreeEntry`. In between, application threads are in
hooks: `OnEnter`, `VisitUser` and so on for listeners; `HandlerStarts`, `RunFilter`,
`SetRetval`, `FilterReturns`, `Decide` for overrides. Programs may call hooked
functions and may set a return value, once. A thread that uses a freed entry,
or goes over a list that changed, becomes `"undefined"`; an exception makes it
`"threw"`. After either the process is not followed further (`Running`).
`disturbed` is history: another call wrote the entry's flag or value,
or this thread's callback, while this call was in the handler.

Bounds: `MaxAttaches` ids, `MaxCalls` calls of all threads together, `MaxDepth`.

### SyscallTrace

A thread is in a stack of `frames`: dispatches, and override handlers of hooked
functions, which its signal handlers nest. `override[t]` is the thread's callback:
none, an entry's, or the lambda of the dispatch at a given depth. A program's
override goes where the callback leads, which need not be its own frame; without a
callback the helper throws; a program may be one that asks for an override and gives no value.

The loops of `dispatch_syscall` go over the sets themselves. A loop is where its
iterator is (`prog`), with what it has behind it (`passed`) and the first of the ids that
are inserted under it (`since`): a program detached before its turn is not run, one attached meanwhile may be or
may not be, as the hashing has it, and one detached while it runs leaves the iterator in
freed memory (`RunFreedProgram`, `"undefined"`). With both sets empty at the start of a dispatch
no loop is entered. An insert or an erase is taken as one step; what a thread reads in the
middle of one is not modelled. `asked`, `made` and `disturbed` are history. Threads share only the callback sets, so
one thread with its nesting is enough. Bounds: `MaxAttaches`, `MaxCalls`, `MaxDepth`.

### AttachContext

`handlers` is the table that the server fills and empties (`AddProg`,
`AddPerfEvent`, `AttachPerfToBpf`, `AddBpfLink`, `CloseFd` with its cascade). An
injected thread takes `initialized`, opens the memory, constructs the context and
walks the table twice; each handler is one step. A link instantiates its two
ends first, so the walk carries a stack of links under instantiation, as the
code does to refuse cycles. The code holds no copy of a link but a reference into shared
memory: each use of its ends reads the table again (`Ends`), and finds anything when the
descriptor is no link any more. Errors go up through that stack and are ignored by the
walk. Exceptions are not (`OnThrow`): when a link attaches whose program is missing, or whose
function gum cannot hook (`"unhookable"`), both walks end, and `initialized` stays 1. The signal handler lists the links and detaches one per step,
at any moment. `objects` numbers the program objects so that a freed one can be told,
and remembers which of them could be loaded.

History: `tangled` (a signal came during an initialization), `changed` (changes of the
table since the last initialization began), `undefined` (a context used before it was
constructed, or constructed over while in use; the process is not followed after
that). Bounds: `MaxFd`, `MaxLateFd` (the descriptors used once an initialization
has begun), `MaxServerOps`, `MaxRaces` (changes during one initialization), `MaxInits`,
`MaxSignals`. The run's constraint `Bound` puts two families of behaviours together:
`Raced`, tables of at most three descriptors that change up to four times (followed, after
the fourth, while a link is in the table, attached, or being instantiated), and
`Undisturbed`, tables of up to five, filled once before one initialization without a signal.

## 3. Runs

| Run | Instance | Result |
|---|---|---|
| `end_to_end` | two threads in one bucket, a third alone; counter of 2 bits, rate 3, 13 calls asked for, 4 made by each | exact where no threads meet, races heal, exclusive buckets implement `SamplingSpec`; the map never overcounts, a PASS needs sampling, the test ends |
| `sampling_race` | the source's constants, TIDs 64 apart | **violated**: two threads both load 19 and both are sampled |
| `interceptor_race` | two controllers, two threads, two calls, three API calls | counter exact, stack mirrors calls, callbacks do not nest, counted calls keep context and array, running listeners stay referenced, though their entries may be freed |
| `interceptor_flush` | one flushing controller, two listeners, three contexts, four API calls, one function that cannot be relocated | functions are patched as clients asked, no jump to a freed trampoline, the saved prologue is the original, detached contexts are freed in the end |
| `interceptor_late_call` | one call, attach and detach | **violated**: the trampoline is freed under a call that is not counted |
| `interceptor_entry` | one call, attach and detach | **violated**: the entry is freed under the callback |
| `trampoline_labels` | two trampolines, twelve prologues with every kind of instruction, every combination of reach | jumps reach their labels, but for those of a prologue with an overstretched branch; near trampolines fit 256 bytes |
| `trampoline_far` | one trampoline out of reach, prologues of short branches or of pushes from memory | **violated**: 289 and 261 bytes do not fit 256 |
| `code_allocator` | two controllers, two functions out of each other's reach, batches of three slices | without a race the list is exact and slices are not shared; commits cover new code; pages are mapped only when needed |
| `attach_hooks` | two threads, two calls, two hookable functions and one that gum refuses, three attaches | the four views agree; undisturbed overrides take effect; the handler finds its override; uprobe programs keep their cpu context |
| `syscall_trace` | one thread, three calls nested twice, three programs | sets match entries; the callback outlives no dispatch; undisturbed dispatches do what was asked |
| `attach_context` | two injecting threads; three descriptors, four changes, one of them during an initialization, two initializations, one signal; tables of up to five descriptors, initialized undisturbed | links keep their ends; attaches are known once; a detach leaves nothing; no attached program is freed; the links that can be attached are, and no other, but for those behind one that throws |

### What the code does not keep

The four violated runs state sentences of the repository that the code
does not keep; `PROJECT.json` quotes them under `findings`. For `trampoline_far`: without the
guard's 61 bytes the longest of these trampolines has 252 bytes, so it is the guard
that makes the assertion of `guminterceptor-x86.c:309` fail.

The counter protects the context, not the `ListenerEntry`: `interceptor_entry` shows the
entry freed (`guminterceptor.c:1405`) while a counted call is in the listener's callback, which
reads `function_data` from it (1816), as bpftime's two callbacks do
(`frida_internal_attach_entry.cpp:199`, `219`).

Other disagreements met while modelling. A property that excludes one does so by name:

* A link to a function that gum cannot hook: gum's refusal is thrown
  (`frida_internal_attach_entry.cpp:42`, `54`), `frida_uprobe_attach_impl.cpp:271` catches only
  `std::bad_cast`, and the exception leaves both walks and `bpftime_agent_main`. The comment
  at `bpf_attach_ctx.cpp:84-86` has it that "We can continue trying to instantiate other
  handlers". `InitAttachesWhatItCan` excludes the links after it (`LeadsToThrow`).
* "On a certain function, we can have either one replace attach, or one filter attach, or many
  uprobe attaches or uretprobe attaches" (`frida_internal_attach_entry.hpp:11-13`). An override
  attached after a uprobe is accepted, joins its list, gets an id and never runs: only a
  function whose entry is an override's is refused (`frida_uprobe_attach_impl.cpp:75`).
* The tests of the attach layer expect every call to be hooked
  (`test_filter_attach_with_override.cpp:45-46`, `test_replace_attach_with_override.cpp:42-43`,
  `test_uprobe_uretprobe.cpp:43-44`, in `attach/frida_uprobe_attach_impl/test`). With FreeProbe's
  guard one in 20 is. The guard is also written for replaced functions: 19 of 20 calls of an
  overridden function run the original (`CallUnsampled`).
* A listener task that was put off reads the usage counter of its context, which
  the context's own task may have freed (`guminterceptor.c:1186`).
* `is_overrided` and `user_ret` belong to the function: two calls in one override
  handler replace each other's result (`frida_internal_attach_entry.cpp:152`;
  `OverrideTakesEffect` is about calls that met no other).
* A uretprobe's program runs without a cpu context.
* A call between the hooking of an override and the filling of its user list
  makes `run_filter_callback` throw (`HandlersFindTheirOverride` confines this to the
  time of an attach or detach).
* Two controllers at the free list can hand one slice to two contexts
  (`gumcodeallocator.c:393`); a slice given back for the second time is lost
  (`gumcodeallocator.c:381`).
* Unconditional branches from a prologue into itself lead to overwritten bytes
  after relocation (`gumx86relocator.c:499`).
* A short branch inside a prologue that is relocated out of reach can be too far from its
  label: eight two-byte branches, the last of them to the first, become more than 127 bytes.
  `flush` gives up there and forgets the later references (`gumx86writer.c:246-286`), and
  `create_trampoline` does not look at what it returns, so these jumps stay jumps to
  themselves. `JumpsReachTheirLabels` excludes them by `Overstretched`; the guard's jumps
  come first in the code and are patched before.
* A signal in the middle of an initialization leaves attaches behind that no detach
  reaches (`AttachesAreKnown` and `DetachLeavesNothing` exclude `tangled`); when the
  memory cannot be opened, `initialized` stays 1.
* The object of a program that cannot be loaded is not recorded as instantiated, and
  the second walk makes it again. When its descriptor is closed and used again between
  the walks, the object is freed under an attach of the first walk (`bpf_attach_ctx.cpp:97`; `AttachedProgramsLive` is about programs that were loaded).
* A nested dispatch takes the override callback from the one it interrupts
  (`DispatchDoesWhatProgramsAsk` excludes `disturbed`).
* Races in the guard and in the program's counter can make the end-to-end test fail
  although the guard works.

### Why the bounds suffice

A race in a bucket needs two threads and one passage of
the rate; wrapping needs a counter that can reach its width, which 2 bits with rate 3
does; 13 calls over three threads leave a remainder. In the interceptor a
destruction race, of a context or of an entry under its callback, needs one attach, one
detach and one call; the transaction case
needs begin, detach and attach after an attach; the requeue needs one more
transaction end, which flush gives without a bound. A stale listener array needs a second attach
during a call. A label left over from one trampoline needs a second one. A free
list with an inner link needs a batch of three; far functions need two places. In the
attach layer nesting and a shared handler need two calls; the
detach branches need an entry with two users next to one with one. A stale callback
in `SyscallTrace` needs an interrupted dispatch and one call after it. A link with both
ends takes three descriptors, and reuse of one a fourth change; a failing handler
beside such a link takes a fourth descriptor, and a link that throws in front of a good one
takes five: one program, two perf events, two links. Threads, controllers, hookable functions
and override values are interchangeable where symmetry is used, and no run with a
liveness property uses it.

`CHECK_DEADLOCK FALSE` is set where the system may stop: `attach_hooks`,
`syscall_trace` and `attach_context`, whose calls and changes come from
outside and are bounded.

### Fairness

* `EndToEnd!FairTestSpec`: weak fairness of each victim thread's steps, of the
  script, of the observer and of the victim's exit. No instruction of the guard or
  the program blocks, the victim calls in a loop (`e2e/victim/victim.c`), and the
  sleeps of script and observer end.
* `Interceptor!FairSpec`: weak fairness of a thread inside a call and of the end
  of a transaction. Neither waits for anything but the lock, which is held
  for bounded work. Calls and API operations are not fair.
* `Interceptor!FlushingSpec` adds a client that ends its transactions and flushes
  until nothing is pending, as `gumquickinterceptor.c` does on a timer.
  Without flushing a destruction that was put off waits for the next
  transaction, which need not come.

## 4. Proofs

A theorem holds for every value of the constants the module's assumptions allow: any
number of threads, controllers, functions, descriptors and calls, any bound. Each
`*_proofs` module states an inductive invariant, proves that the initial states have
it and that every action keeps it, one lemma per action, and derives the properties
of the runs from it. Every invariant was first checked by TLC on the instance of the
component's run.

**`EndToEnd_proofs`**, of the guard, assumes `Tid \in [Thread -> Nat]`, `NumBuckets` and
`CounterMod` positive, `Rate \in 1..CounterMod` (a larger rate is never reached by a
counter that wraps), `MaxCalls \in Nat`. `SerialBucketsAreExact` is not inductive. When
a thread counts, what it stores comes from its register: the register must still agree
with the counter (`RegisterIsFresh`), which holds because nobody else stored in the
meantime unless an overlap was noticed (`AloneUnlessOverlap`). `HighCounterIsBeingReset`
needs the bound on the register, part of `RegisterIsFresh`: a value past the rate is
only stored by a thread that goes on to reset. `IInv` is the conjunction of these with
`TypeOK`.

* `GuardInvariant`, `SerialExactness`, `RacesHeal`.
* `GuardImplementsSampler`: the guard implements `SamplingSpec` over the buckets that no
  two threads share (`SoleBucket`), whatever races go on in the others. `Count` there maps
  to `Pass` or `Sample` and every other step to a stutter: `Reset` is invisible because
  `Turn` reads 0 from the moment a thread has decided to reset.

Of the test, it assumes in addition that there are finitely many threads and at
least one, and that the victim is asked for at least one call. Sums over threads and
buckets are cardinalities of sets of pairs (`Total`), so that the theorems about finite
sets carry them. `TestInv` adds to the guard's invariant what each process can have
done given where the others are (`StagesAgree`), that the guard has counted the calls
the threads made (`CallsAreCounted`), and how the map lags behind (`CounterOK`): map value
plus sampled calls under way never exceed the hits, the same for every value a program
has read and not yet written back, with equality as long as no two programs met.

* `MapNeverOvercounts`, `SerialTestsAreExact`, `TestTypes`, and
  `TestImplementsSampler`: the refinement survives the composition.
* `PassIsEarned` assumes `TotalCalls >= 2 * Rate`. With fewer calls the script's lower
  limit is 0 and it passes without a hit, so the property is not true.

**`SyscallTrace_proofs`** assumes that the marks for no value, for the kernel's result
and for all system calls are no values and no system calls. The invariant is about one
thread's frames and its callback: a frame under another is disturbed, an undisturbed
innermost frame has its own callback, and a callback into a dispatch is into the
innermost frame (`StackOK`). The last is what makes the lambda never outlive its
dispatch, and it needs the first two.

* `CallbackSetsAgree`, `CallbacksAreScoped`, `DispatchIsFaithful`,
  `OverridesThrowOnlyNested`.

**`AttachContext_proofs`** assumes only that the bounds are numbers and
`MaxLateFd \in 0..MaxFd`. The invariant says of
a walking thread that the links on its stack are different, not attached yet, and short of
attaching but for the innermost (`AgentOK`, `StackIsNew`); of the context that links and
attaches are one to one (`LinksMatchAttaches`); of objects that a loaded one is recorded as
instantiated and so made only once (`ObjectsOK`); and, without a signal in the middle of an
initialization, that one thread at a time has the flag (`OneAtATime`) and how far the walk
has got (`InitializationOK`).

* `TableIsWhole`, `AttachedProgramsStay`: whatever the signals do.
* `ContextKnowsAttaches`, `DetachIsComplete`, `InitializationIsComplete`: with the
  exclusions that the properties name. For the last the invariant follows the exception
  too: a walk is where its position says or has ended at a link that leads to a throw
  (`AttachedOrThrown`), with everything good before it attached.

**`FridaAttach_proofs`** assumes `Hookable \subseteq Function` and that the mark for no value
is not one. `ManagerOK` relates the id table, the user lists, the entries and gum's hooks
in the middle of an attach or a detach as well as at rest. `ThreadsOK` says what a call knows
of its entry: an undisturbed call in the handler was the last to use the entry's flag and
value, and nothing called from a uprobe's program is hooked, which is why the one cpu
context of a thread is the right one.

* `HookTypes`, `TablesAgree`, `HooksAreEntries`, `OverridesAreObeyed`,
  `HandlersHaveOverride`, `ProgramsHaveContext`.

**`CodeAllocator_proofs`** assumes batches of at least two slices (the thunks), at least one
batch, and that 0 names no place. The invariant gives the list as it is (`Chain`): a
sequence of different slices, the links between neighbours in both directions, the head,
and what the first element has before it, which is 0 at rest and the slice being pushed
between `PushPrev` and `PushHead`. `ListIs` says that the sequence is exactly the free slices
and that everything else has no predecessor; `OwnersOK` that a slice in use has one owner,
a context or a job. `Chain` is kept by taking an element out, by the three stores of a push
and by putting a batch in front, each a lemma about arbitrary links. All of this holds as
long as no two controllers were at the list at once; the pages part holds regardless.

* `NewCodeIsCommitted`, `TrampolinesAreApart`, `ListIsExact`, and the action property
  `NoBatchWithoutNeed`. The walk along the list is a recursive function; that it finds the
  list is proved by the least place where it would not.

**`TrampolineWriter_proofs`** assumes of `Code` only that it is a set of sequences of
instructions that are not shorter than their encodings allow. Code is written by recursive
functions; a property of each of their values is proved by the least number that would not
have it (`LeastNumber`). The argument goes from the pieces to the memory:

* `Progress`: after the first k pieces the writer's labels, references and position are
  those that the lengths of the pieces give (`Pos`), and the memory has every jump as a
  jump to itself. `flush` then turns into its label's distance each jump before which, and
  at which, every reference resolves (`Patched`, `Leads`).
* `Part`: a stretch of code defines labels of a set of its own, each once, and its jumps go to
  these within a byte's reach, or to labels named as open. Parts put one behind the
  other are parts. What `WriteOne` makes of an instruction is one, open only to
  the labels of the prologue's instructions, and grows it at most tenfold, fivefold in reach
  of the target (`Translates`, `Relocated`).
* `Laid`, `Built`, `Led`: a trampoline is the guard of at most 113 bytes, the relocated
  prologue and the jump back. A near one has at most 202 bytes, and there, as wherever the
  target is in reach, no branch is overstretched; any one has at most 323.
* `Invariant` has `Built` and `Led` of every trampoline. It is kept because slices are further
  apart than a trampoline is long, so that what is written for one leaves the jumps of the
  others alone (`LedStays`), because `Reset` forgets the labels before, and because a redirect
  is written without labels (`ActivateKeeps`).

The theorems:

* `TrampolineInvariance`, `LabelsInvariance`, `NearFitInvariance` for slices of at least 202
  bytes, which the source's 256 are. `BoundInvariance` is about the finding of
  `trampoline_far` and assumes nothing of the slices: no trampoline, wherever it is, has more
  than 323 bytes (`TrampolinesAreBounded`), so the source's slices are at most 67 too short.

**`Interceptor_proofs`** assumes that functions are no context numbers, that the mark of an
empty slot is no listener, and that the bounds are numbers. `IInv` has four parts.

* `DataOK`: the table holds exactly the contexts that live and are not destroyed; a jump in
  the code leads to an activated context of that address; a destroyed context that is still
  activated has its deactivation in the open transaction; and a task that frees a context is
  worked off only when the context is destroyed and out of the code. Contexts are created in
  order and an instrumented trampoline is an earlier context's, which is why
  `gum_interceptor_resolve` comes to an end and why what is saved is never a jump.
* `ThreadOK`: below the innermost call every call is in code that calls; above a call inside
  the interceptor no call is trapped; the guard key says whether there is such a call; the
  entries of the invocation stack are the calls that have an invocation, in order.
* `FrameOK`: a call counted before its context was destroyed (`early`) has its context and
  its array, no task under way takes them (`Spares`), and the listener of each entry it
  may still visit, or has read, is attached or waits in a task (`Held`). This is about the
  listeners and not about their entries, which are freed. One counted later finds the last, empty, array.
* `CountOK`: the counters are the cardinalities of the sets of counted calls.

`CountedCallsAreProtected` and `RunningListenersAreHeld` need all four: a task is found due
because the counter is 0, the counter is 0 because no call is counted, and a call that is
counted while the lock is released for the task is not early, because the context was
destroyed before. The API calls share one argument: what they change leaves the state
`Midway`, and `gum_interceptor_transaction_end` keeps the invariant from there
(`TransactionEndIInv`). Calls that reach a freed trampoline (the finding below the runs) are
covered too: the thread is then in its undefined state, which the properties of that thread
except and the others do not.

What the clients were told needs a second invariant, `VInv`, that holds in open transactions
too, where the code is behind the table. As long as no client has strayed, each function of
the table has exactly the listeners the clients hold attached (`Clients`); a function whose
jump is not written yet has its activation in the transaction, and one that is not in the
table is as compiled (`Pending`); and the transaction has only activations, of contexts that
are not destroyed (`Activations`). A transaction that has updates is dirty, and one that is
not open has none. A detach or a revert outside a transaction opens one of its own, so its
deactivation is the only update and is done before the call returns; `IInv` supplies the rest,
in particular that a jump in the code is of an activated context.

* `Invariance`, `Typed`, `CounterExact`, `Protected`, `ListenersHeld`, `StackMirrors`,
  `NoNesting`, `PatchedLive`, `SavedOriginal`, `ClientsView`.

`StackLemmas` has the facts about sequences used as stacks that several of these need.

Only model-checked: the liveness properties
`ExclusiveThreadsAreSampled`, `TestEnds` and `DetachedContextsAreFreed` (liveness under
fairness is outside what TLAPS can prove). Every other property of a passing run is a
theorem.

## 5. Not modelled

* **Interceptor:** the bytes of a patch. A prologue is rewritten in one step; what
  a thread fetches from a half-written one is below the level of the model. Also
  the API around `replace_fast` (the fast trampoline itself is in `TrampolineWriter`),
  ignore-other-threads, the ignore of the controller's own thread while it patches,
  `dispose` and `finalize` (which destroy pending tasks without looking at counters),
  stack translation, and reuse of a freed slice's memory.
* **Writer and relocator:** instruction encodings and decoding, the instructions that
  no trampoline uses, calls with arguments.
* **Code allocator:** deflectors, systems without writable and executable pages, and
  the freeing of batches at the end of the process.
* **frida attach:** the destructor of `frida_attach_impl`, the lookup in
  `/proc/self/maps`, backtraces, the pt_regs conversion.
* **Syscall trace:** the rewriting of syscall instructions
  (`text_segment_transformer`); `dispatch_syscall` does not check the range of the
  number it is given, which the model's `Sys` presupposes.
* **Attach context and handler manager:** maps, and everything for CUDA.
* **End-to-end test:** the dump of the trampoline with gdb, the build steps.
* **Other architectures**, CUDA attach, the daemon, the verifier, tools,
  benchmarks, examples and third-party code; maps, helpers and the VM of bpftime,
  which FreeProbe does not change. These are by far most of the repository's lines:
  libbpf, vmlinux headers, gum's stalkers and other backends come with it unchanged.

## 6. Plan

The model covers the hook path, and every safety property that a passing run checks is
proved. What the proofs have left is to carry the layers' promises across: `FridaAttach`
and `Interceptor` each take the other as a free choice, and a refinement between them would
state that choice as a theorem.
