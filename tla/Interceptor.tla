----------------------------- MODULE Interceptor ----------------------------
(***************************************************************************)
(* Frida-gum's interceptor (gum/guminterceptor.c) as FreeProbe builds it:  *)
(* control threads attach and detach listeners and replacements inside     *)
(* transactions, while application threads run through the trampolines     *)
(* that are being created, patched, unpatched and freed.                   *)
(*                                                                         *)
(* An API call holds the interceptor's lock and is one action up to the    *)
(* end of its transaction, where the deferred destructions run one by one  *)
(* with the lock released around each.  The application threads never take *)
(* the lock: every shared field they read is a step of theirs.             *)
(*                                                                         *)
(* The outcome of the sampling guard is a free choice here: module         *)
(* SamplingGuard says which choices it makes.                              *)
(***************************************************************************)
EXTENDS Integers, Sequences, FiniteSets, SequencesExt

CONSTANTS
  Thread,          \* application threads
  Controller,      \* threads that call the interceptor's API
  Function,        \* functions of the process
  Relocatable,     \* those whose prologue gum_x86_relocator_can_relocate
  Listener,        \* GumInvocationListener objects
  LeaveListener,   \* those that have an on_leave
  NoListener,      \* an empty slot of a listener array
  MaxContexts,     \* bound: function contexts ever created
  MaxCalls,        \* bound: calls begun, by all threads
  MaxDepth,        \* bound: nesting of a thread's calls
  MaxOps           \* bound: API calls other than flush

ASSUME FunctionAssumption ==
  Relocatable \subseteq Function /\ Function \cap Nat = {}
ASSUME ListenerAssumption ==
  LeaveListener \subseteq Listener /\ NoListener \notin Listener
ASSUME BoundsAssumption ==
  MaxContexts \in Nat /\ MaxCalls \in Nat /\ MaxDepth \in Nat /\ MaxOps \in Nat

\* A context is named by its creation number; 0 stands for NULL.
Ctx == 1..MaxContexts

\* An address that can be instrumented: a function, or the on_enter_trampoline
\* of a context (named by the context).
Address == Function \cup Ctx

VARIABLES
  \* the interceptor
  table,      \* function_by_address: the context of an address, or 0
  prologue,   \* the code at an address: 0 as compiled, or a jump to a context
  ctx,        \* the function contexts
  txn,        \* current_transaction
  lock,       \* holder of the interceptor's mutex, or the empty set
  job,        \* the end of a transaction a controller is working through
  \* the threads
  frames,     \* a thread's calls, innermost last
  stack,      \* its GumInvocationStack
  guardKey,   \* gum_interceptor_guard_key is set
  ignored,    \* its ignore_level
  calls, ops, \* the bounds' counters
  client      \* history: the listeners the clients hold attached to a function,
              \* and whether one has detached or reverted while a transaction was open

intercVars == <<table, prologue, ctx, txn, lock, job, client>>
threadVars == <<frames, stack, guardKey, ignored, calls>>
vars == <<table, prologue, ctx, txn, lock, job, frames, stack, guardKey,
          ignored, calls, ops, client>>

Task == [kind : {"array"}, ctx : Ctx, version : Nat]
          \cup [kind : {"listener"}, ctx : Ctx, listener : Listener]
          \cup [kind : {"context"}, ctx : Ctx]

Update == [ctx : Ctx, activate : BOOLEAN]

\* gum_function_context_new, and the prologue bytes that create_trampoline
\* copies and relocates: whatever is at the address at that moment.
NewContext(a) ==
  [state |-> "live", address |-> a, activated |-> FALSE, destroyed |-> FALSE,
   hasLeave |-> FALSE, usage |-> 0, arrays |-> << <<>> >>, freed |-> {},
   replacement |-> FALSE, overwritten |-> prologue[a]]

Unborn ==
  [state |-> "unborn", address |-> 0, activated |-> FALSE, destroyed |-> FALSE,
   hasLeave |-> FALSE, usage |-> 0, arrays |-> <<>>, freed |-> {},
   replacement |-> FALSE, overwritten |-> 0]

\* gum_interceptor_transaction_init
EmptyTransaction ==
  [level |-> 0, dirty |-> FALSE, updates |-> <<>>, destroys |-> <<>>]

Idle == [at |-> "idle", tasks |-> <<>>]

Init ==
  /\ table = [a \in Address |-> 0]
  /\ prologue = [a \in Address |-> 0]
  /\ ctx = [c \in Ctx |-> Unborn]
  /\ txn = EmptyTransaction
  /\ lock = {}
  /\ job = [k \in Controller |-> Idle]
  /\ frames = [t \in Thread |-> <<>>]
  /\ stack = [t \in Thread |-> <<>>]
  /\ guardKey = [t \in Thread |-> FALSE]
  /\ ignored = [t \in Thread |-> 0]
  /\ calls = 0
  /\ ops = 0
  /\ client = [wanted |-> [f \in Function |-> {}], strayed |-> FALSE]

-----------------------------------------------------------------------------
(* Function contexts and their listener arrays.                            *)

\* listener_entries, and the entries of it that are taken.
Entries(x) == x.arrays[Len(x.arrays)]
Taken(x) == {Entries(x)[i] : i \in DOMAIN Entries(x)} \ {NoListener}

\* gum_function_context_is_empty
IsEmpty(x) == ~x.replacement /\ Taken(x) = {}

\* The copying loop of gum_function_context_add_listener: an array without its
\* empty slots.
Compact(s) ==
  LET kept[n \in 0..Len(s)] ==
        IF n = 0 THEN <<>>
        ELSE IF s[n] = NoListener THEN kept[n - 1] ELSE Append(kept[n - 1], s[n])
  IN kept[Len(s)]

\* gum_function_context_add_listener
AddListener(x, l) ==
  [x EXCEPT !.arrays = Append(@, Append(Compact(Entries(x)), l)),
            !.hasLeave = @ \/ l \in LeaveListener]

\* gum_function_context_remove_listener: the ListenerEntry is freed and its slot
\* emptied, in place and at once.  In this order, but whoever reads the slot in
\* between holds the same freed entry as one who read it before.
RemoveListener(x, l) ==
  LET kept == [i \in DOMAIN Entries(x) |->
                 IF Entries(x)[i] = l THEN NoListener ELSE Entries(x)[i]]
  IN [x EXCEPT !.arrays[Len(x.arrays)] = kept,
               !.hasLeave = (Taken(x) \ {l}) \cap LeaveListener # {}]

-----------------------------------------------------------------------------
(* Transactions.                                                           *)

\* Mutant of Resolve: redirections are not followed.
ResolveNothing(f) == f

\* gum_interceptor_resolve: an address that is not instrumented but starts with
\* a jump stands for the jump's target, and so on along the jumps.
Resolve(f) ==
  LET follow(a) == IF table[a] = 0 /\ prologue[a] # 0 THEN prologue[a] ELSE a
      along[n \in 0..MaxContexts] == IF n = 0 THEN f ELSE follow(along[n - 1])
  IN along[MaxContexts]

Live(c) == c \in Ctx /\ ctx[c].state = "live"

\* gum_interceptor_instrument: the context of an address, a new one if need be,
\* or 0 when there is none and the prologue cannot be relocated.
Instrument(a) ==
  IF table[a] # 0 THEN table[a]
  ELSE IF a \in Function \ Relocatable THEN 0
  ELSE CHOOSE c \in Ctx : /\ ctx[c].state = "unborn"
                          /\ \A d \in Ctx : ctx[d].state = "unborn" => c <= d

CanInstrument(a) ==
  table[a] # 0 \/ a \in Function \ Relocatable \/ \E c \in Ctx : ctx[c].state = "unborn"

\* The update of tx that decides what is at address a: an activation of a
\* context that has been destroyed since does nothing.
Effective(tx, cx, a) ==
  {i \in DOMAIN tx.updates :
     LET u == tx.updates[i] IN
     cx[u.ctx].address = a /\ (u.activate => ~cx[u.ctx].destroyed)}

Patched(tx, cx, a) ==
  LET es == Effective(tx, cx, a) IN
  IF es = {} THEN prologue[a]
  ELSE LET u == tx.updates[CHOOSE i \in es : \A j \in es : j <= i] IN
       IF u.activate THEN u.ctx ELSE cx[u.ctx].overwritten

Activated(tx, cx, c) ==
  \/ cx[c].activated /\ [ctx |-> c, activate |-> FALSE] \notin Range(tx.updates)
  \/ ~cx[c].destroyed /\ [ctx |-> c, activate |-> TRUE] \in Range(tx.updates)

\* gum_interceptor_transaction_end, from contexts cx and transaction tx, up to
\* the loop over the destroy tasks: controller k keeps the lock and works them
\* off (RunTask).  A nested or clean transaction has nothing to do.
TransactionEnd(k, cx, tx) ==
  LET outer == [tx EXCEPT !.level = @ - 1] IN
  IF outer.level > 0 \/ ~tx.dirty
  THEN /\ txn' = outer
       /\ ctx' = cx
       /\ UNCHANGED <<prologue, lock, job>>
  ELSE IF tx.updates = <<>> /\ tx.destroys = <<>>
  THEN /\ txn' = [outer EXCEPT !.dirty = FALSE]
       /\ ctx' = cx
       /\ UNCHANGED <<prologue, lock, job>>
  ELSE /\ txn' = EmptyTransaction
       /\ prologue' = [a \in Address |-> Patched(tx, cx, a)]
       /\ ctx' = [c \in Ctx |-> [cx[c] EXCEPT !.activated = Activated(tx, cx, c)]]
       /\ lock' = {k}
       /\ job' = [job EXCEPT ![k] = [at |-> "run", tasks |-> tx.destroys]]

\* Mutant of DeactivationsOf: the jump stays in the prologue.
DeactivationsForgotten(cs) == <<>>

\* gum_function_context_destroy for the contexts in cs, already out of the
\* table: deactivation if it is active, then the deferred perform_destroy.
DeactivationsOf(cs) ==
  SetToSeq({[ctx |-> c, activate |-> FALSE] : c \in {d \in cs : ctx[d].activated}})

BeginOp(k) ==
  /\ lock = {}
  /\ job[k] = Idle
  /\ UNCHANGED threadVars

CountOp(k) ==
  /\ BeginOp(k)
  /\ ops < MaxOps
  /\ ops' = ops + 1

Opened == [txn EXCEPT !.level = @ + 1, !.dirty = TRUE]

-----------------------------------------------------------------------------
(* The API.                                                                *)

\* gum_interceptor_attach: OK, ALREADY_ATTACHED or WRONG_SIGNATURE.
Attach(k, f, l) ==
  LET a == Resolve(f)
      c == Instrument(a)
      x == IF table[a] # 0 THEN ctx[c] ELSE NewContext(a)
      activation == IF table[a] # 0 THEN <<>> ELSE << [ctx |-> c, activate |-> TRUE] >>
      oldArray == [kind |-> "array", ctx |-> c, version |-> Len(x.arrays)]
  IN
  /\ CountOp(k)
  /\ CanInstrument(a)
  /\ IF c = 0 \/ (table[a] # 0 /\ l \in Taken(x))
     THEN /\ TransactionEnd(k, ctx, Opened)
          /\ UNCHANGED <<table, client>>
     ELSE /\ table' = [table EXCEPT ![a] = c]
          /\ TransactionEnd(k, [ctx EXCEPT ![c] = AddListener(x, l)],
                [Opened EXCEPT !.updates = @ \o activation, !.destroys = Append(@, oldArray)])
          /\ client' = [client EXCEPT !.wanted[f] = @ \cup {l}]

\* gum_interceptor_detach: the listener leaves every function it is attached to.
Detach(k, l) ==
  LET hit == {c \in Ctx : (\E a \in Address : table[a] = c) /\ l \in Taken(ctx[c])}
      empty == {c \in hit : IsEmpty(RemoveListener(ctx[c], l))}
      cx == [c \in Ctx |->
               IF c \in hit
               THEN [RemoveListener(ctx[c], l) EXCEPT !.destroyed = c \in empty]
               ELSE ctx[c]]
      tasksOf(c) ==
        << [kind |-> "listener", ctx |-> c, listener |-> l] >>
          \o (IF c \in empty THEN << [kind |-> "context", ctx |-> c] >> ELSE <<>>)
      order == SetToSeq(hit)
  IN
  /\ CountOp(k)
  /\ table' = [a \in Address |-> IF table[a] \in empty THEN 0 ELSE table[a]]
  /\ TransactionEnd(k, cx,
       [Opened EXCEPT
          !.updates = @ \o DeactivationsOf(empty),
          !.destroys = @ \o FlattenSeq([i \in DOMAIN order |-> tasksOf(order[i])])])
  /\ client' = [wanted |-> [f \in Function |-> client.wanted[f] \ {l}],
                 strayed |-> client.strayed \/ txn.level > 0]

\* gum_interceptor_replace: OK, ALREADY_REPLACED or WRONG_SIGNATURE.
Replace(k, f) ==
  LET a == Resolve(f)
      c == Instrument(a)
      x == IF table[a] # 0 THEN ctx[c] ELSE NewContext(a)
      activation == IF table[a] # 0 THEN <<>> ELSE << [ctx |-> c, activate |-> TRUE] >>
  IN
  /\ CountOp(k)
  /\ CanInstrument(a)
  /\ IF c = 0 \/ x.replacement
     THEN /\ TransactionEnd(k, ctx, Opened)
          /\ UNCHANGED table
     ELSE /\ table' = [table EXCEPT ![a] = c]
          /\ TransactionEnd(k, [ctx EXCEPT ![c] = [x EXCEPT !.replacement = TRUE]],
                            [Opened EXCEPT !.updates = @ \o activation])
  /\ UNCHANGED client

\* gum_interceptor_revert
Revert(k, f) ==
  LET a == Resolve(f)
      c == table[a]
      x == [ctx[c] EXCEPT !.replacement = FALSE]
      empty == IF IsEmpty(x) THEN {c} ELSE {}
  IN
  /\ CountOp(k)
  /\ IF c = 0
     THEN /\ TransactionEnd(k, ctx, Opened)
          /\ UNCHANGED table
     ELSE /\ table' = IF empty = {} THEN table ELSE [table EXCEPT ![a] = 0]
          /\ TransactionEnd(k, [ctx EXCEPT ![c] = [x EXCEPT !.destroyed = c \in empty]],
               [Opened EXCEPT
                  !.updates = @ \o DeactivationsOf(empty),
                  !.destroys = IF empty = {} THEN @
                               ELSE Append(@, [kind |-> "context", ctx |-> c])])
  /\ client' = [client EXCEPT !.strayed = @ \/ txn.level > 0]

\* gum_interceptor_begin_transaction
BeginTransaction(k) ==
  /\ CountOp(k)
  /\ txn' = [txn EXCEPT !.level = @ + 1]
  /\ UNCHANGED <<table, prologue, ctx, lock, job, client>>

\* gum_interceptor_end_transaction
EndTransaction(k) ==
  /\ BeginOp(k)
  /\ txn.level > 0
  /\ TransactionEnd(k, ctx, txn)
  /\ UNCHANGED <<table, ops, client>>

\* gum_interceptor_flush
Flush(k) ==
  /\ BeginOp(k)
  /\ txn.level = 0
  /\ TransactionEnd(k, ctx, [txn EXCEPT !.level = 1])
  /\ UNCHANGED <<table, ops, client>>

-----------------------------------------------------------------------------
(* The destroy tasks at the end of a transaction.                          *)

\* Mutant of SeenUnused: tasks run whatever the usage counter says.
SeenUnusedAlways(c) == TRUE

\* The counter of a task's context decides whether the task may run.  Once the
\* context is freed its counter is whatever the freed memory holds.
SeenUnused(c) == Live(c) => ctx[c].usage = 0
SeenUsed(c) == Live(c) => ctx[c].usage # 0

\* The task is due: the lock is released for its notify.
TakeTask(k) ==
  /\ job[k].at = "run" /\ job[k].tasks # <<>>
  /\ SeenUnused(Head(job[k].tasks).ctx)
  /\ job' = [job EXCEPT ![k].at = "notify"]
  /\ lock' = {}
  /\ UNCHANGED <<table, prologue, ctx, txn, ops, client, threadVars>>

\* Mutant of RequeueTask: the transaction it goes to is not marked dirty.
RequeueTaskClean(k) ==
  /\ job[k].at = "run" /\ job[k].tasks # <<>>
  /\ SeenUsed(Head(job[k].tasks).ctx)
  /\ txn' = [txn EXCEPT !.destroys = Append(@, Head(job[k].tasks))]
  /\ job' = [job EXCEPT ![k].tasks = Tail(@)]
  /\ UNCHANGED <<table, prologue, ctx, lock, ops, client, threadVars>>

\* The task's context is in use: the task waits for the next transaction's end.
RequeueTask(k) ==
  /\ job[k].at = "run" /\ job[k].tasks # <<>>
  /\ SeenUsed(Head(job[k].tasks).ctx)
  /\ txn' = [txn EXCEPT !.dirty = TRUE, !.destroys = Append(@, Head(job[k].tasks))]
  /\ job' = [job EXCEPT ![k].tasks = Tail(@)]
  /\ UNCHANGED <<table, prologue, ctx, lock, ops, client, threadVars>>

\* task->notify: drop the listener's reference, free an old array, or free the
\* trampoline and the context (gum_function_context_perform_destroy).
Notify(k) ==
  LET task == Head(job[k].tasks) IN
  /\ job[k].at = "notify"
  /\ ctx' = CASE task.kind = "listener" -> ctx
              [] task.kind = "array" ->
                   [ctx EXCEPT ![task.ctx].freed = @ \cup {task.version}]
              [] task.kind = "context" ->
                   [ctx EXCEPT ![task.ctx].state = "freed"]
  /\ job' = [job EXCEPT ![k].at = "relock"]
  /\ UNCHANGED <<table, prologue, txn, lock, ops, client, threadVars>>

Relock(k) ==
  /\ job[k].at = "relock"
  /\ lock = {}
  /\ lock' = {k}
  /\ job' = [job EXCEPT ![k] = [at |-> "run", tasks |-> Tail(@.tasks)]]
  /\ UNCHANGED <<table, prologue, ctx, txn, ops, client, threadVars>>

\* gum_interceptor_transaction_destroy of the emptied copy; the API call ends.
Unlock(k) ==
  /\ job[k].at = "run" /\ job[k].tasks = <<>>
  /\ job' = [job EXCEPT ![k] = Idle]
  /\ lock' = {}
  /\ UNCHANGED <<table, prologue, ctx, txn, ops, client, threadVars>>

-----------------------------------------------------------------------------
(* Application threads.  A frame is a call in progress; "at" says where:    *)
(*   guard        in on_enter_trampoline, before begin_invocation           *)
(*   begin        in begin_invocation, counted in the usage counter         *)
(*   load, enter  about to read the listener array, iterating over it;      *)
(*                "running" is the listener whose entry it has read         *)
(*   on_enter     in a listener's on_enter                                  *)
(*   finish       past the listeners                                        *)
(*   invoke       in on_invoke_trampoline, running the relocated prologue   *)
(*   body         in the function itself                                    *)
(*   replacement  in the replacement function                               *)
(*   leave        in end_invocation, about to read the listener array       *)
(*   leaving      iterating over it                                         *)
(*   on_leave     in a listener's on_leave                                  *)
(*   stray        used a ListenerEntry that has been freed                  *)
(*   undefined    executed or used anything else that has been freed        *)

NewFrame(f, c) ==
  [fn |-> f, ctx |-> c, at |-> IF c = 0 THEN "body" ELSE "guard", notified |-> FALSE,
   trap |-> FALSE, version |-> 0, next |-> 1, running |-> NoListener, early |-> FALSE]

Top(t) == Last(frames[t])
At(t) == IF frames[t] = <<>> THEN "out" ELSE Top(t).at
SetTop(t, fr) == frames' = [frames EXCEPT ![t] = Append(Front(@), fr)]
MoveTo(t, where) == SetTop(t, [Top(t) EXCEPT !.at = where])
PopFrame(t) == frames' = [frames EXCEPT ![t] = Front(@)]

\* The context whose trampoline or listeners the innermost call is using.
InTrampoline == {"guard", "begin", "load", "enter", "on_enter", "finish",
                 "invoke", "leave", "leaving", "on_leave"}
Usable(t) == Live(Top(t).ctx)

AddUsage(c, n) == ctx' = [ctx EXCEPT ![c].usage = @ + n]

\* A call: the caller jumps to whatever is at the function's address.
Call(t, f) ==
  /\ calls < MaxCalls
  /\ Len(frames[t]) < MaxDepth
  /\ At(t) \in {"out", "body", "replacement", "on_enter", "on_leave"}
  /\ frames' = [frames EXCEPT ![t] = Append(@, NewFrame(f, prologue[f]))]
  /\ calls' = calls + 1
  /\ UNCHANGED <<intercVars, stack, guardKey, ignored, ops>>

\* gum_interceptor_ignore_current_thread, _unignore_current_thread
Ignore(t) ==
  /\ At(t) = "out" /\ ignored[t] = 0 /\ calls < MaxCalls
  /\ ignored' = [ignored EXCEPT ![t] = @ + 1]
  /\ UNCHANGED <<intercVars, frames, stack, guardKey, calls, ops>>

Unignore(t) ==
  /\ At(t) = "out" /\ ignored[t] > 0
  /\ ignored' = [ignored EXCEPT ![t] = @ - 1]
  /\ UNCHANGED <<intercVars, frames, stack, guardKey, calls, ops>>

\* The guard of SamplingGuard lets the call pass: jmp invoke_trampoline.
Skip(t) ==
  /\ At(t) = "guard" /\ Usable(t)
  /\ MoveTo(t, "invoke")
  /\ UNCHANGED <<intercVars, stack, guardKey, ignored, calls, ops>>

\* Mutant of Sample: the call is not counted.
SampleUncounted(t) ==
  /\ At(t) = "guard" /\ Usable(t)
  /\ SetTop(t, [Top(t) EXCEPT !.at = "begin", !.early = ~ctx[Top(t).ctx].destroyed])
  /\ UNCHANGED <<intercVars, stack, guardKey, ignored, calls, ops>>

\* The call is sampled: enter_thunk calls _gum_function_context_begin_invocation,
\* which counts the call in trampoline_usage_counter.
Sample(t) ==
  /\ At(t) = "guard" /\ Usable(t)
  /\ AddUsage(Top(t).ctx, 1)
  /\ SetTop(t, [Top(t) EXCEPT !.at = "begin", !.early = ~ctx[Top(t).ctx].destroyed])
  /\ UNCHANGED <<table, prologue, txn, lock, job, client, stack, guardKey, ignored, calls, ops>>

\* Mutant of Bypassed: the guard key is not consulted.
BypassedByReplacement(t) ==
  /\ stack[t] # <<>>
  /\ Last(stack[t]).calling_replacement
  /\ Last(stack[t]).fn = ctx[Top(t).ctx].address

\* The thread is inside the interceptor already, or it is the replacement of
\* this very function that calls it.
Bypassed(t) ==
  \/ guardKey[t]
  \/ /\ stack[t] # <<>>
     /\ Last(stack[t]).calling_replacement
     /\ Last(stack[t]).fn = ctx[Top(t).ctx].address

\* Mutant of Bypass: the call is not given back.
BypassKeepsCount(t) ==
  /\ At(t) = "begin" /\ Usable(t) /\ Bypassed(t)
  /\ MoveTo(t, "invoke")
  /\ UNCHANGED <<intercVars, stack, guardKey, ignored, calls, ops>>

\* begin_invocation's bypass: the original runs and the call is given back.
Bypass(t) ==
  /\ At(t) = "begin" /\ Usable(t) /\ Bypassed(t)
  /\ AddUsage(Top(t).ctx, -1)
  /\ MoveTo(t, "invoke")
  /\ UNCHANGED <<table, prologue, txn, lock, job, client, stack, guardKey, ignored, calls, ops>>

\* begin_invocation decides whether the return is trapped, and pushes an
\* invocation when it is or when there are listeners to notify.
Push(t) ==
  LET x == ctx[Top(t).ctx]
      notify == ignored[t] <= 0
      trap == x.replacement \/ (notify /\ x.hasLeave)
      entry == [fn |-> x.address, ctx |-> Top(t).ctx, frame |-> Len(frames[t]),
                calling_replacement |-> FALSE]
  IN
  /\ At(t) = "begin" /\ Usable(t) /\ ~Bypassed(t)
  /\ guardKey' = [guardKey EXCEPT ![t] = TRUE]
  /\ stack' = IF trap \/ notify THEN [stack EXCEPT ![t] = Append(@, entry)] ELSE stack
  /\ SetTop(t, [Top(t) EXCEPT !.notified = notify, !.trap = trap,
                              !.at = IF notify THEN "load" ELSE "finish"])
  /\ UNCHANGED <<intercVars, ignored, calls, ops>>

\* g_atomic_pointer_get (&function_ctx->listener_entries), entering or leaving.
LoadEntries(t) ==
  /\ At(t) \in {"load", "leave"} /\ Usable(t)
  /\ SetTop(t, [Top(t) EXCEPT !.version = Len(ctx[Top(t).ctx].arrays), !.next = 1,
                              !.at = IF @ = "load" THEN "enter" ELSE "leaving"])
  /\ UNCHANGED <<intercVars, stack, guardKey, ignored, calls, ops>>

\* The array the loop goes over, as it is now: detach empties slots in place.
Array(t) == ctx[Top(t).ctx].arrays[Top(t).version]

EndOfArray(t) == Top(t).running = NoListener /\ Top(t).next > Len(Array(t))

\* The slot of the next entry is read: an empty one is skipped.
ReadEntry(t) ==
  LET entry == Array(t)[Top(t).next] IN
  /\ At(t) \in {"enter", "leaving"} /\ Usable(t)
  /\ Top(t).running = NoListener /\ Top(t).next <= Len(Array(t))
  /\ IF entry = NoListener
     THEN SetTop(t, [Top(t) EXCEPT !.next = @ + 1])
     ELSE SetTop(t, [Top(t) EXCEPT !.running = entry])
  /\ UNCHANGED <<intercVars, stack, guardKey, ignored, calls, ops>>

\* The ListenerEntry that the thread has read is freed when detach empties its
\* slot, and with the array: every array has copies of its own.
EntryFreed(t) ==
  \/ Array(t)[Top(t).next] # Top(t).running
  \/ Top(t).version \in ctx[Top(t).ctx].freed

\* The entry leads to the callback; a listener without on_leave is skipped when
\* leaving.
VisitEntry(t) ==
  /\ At(t) \in {"enter", "leaving"} /\ Usable(t)
  /\ Top(t).running # NoListener /\ ~EntryFreed(t)
  /\ IF At(t) = "leaving" /\ Top(t).running \notin LeaveListener
     THEN SetTop(t, [Top(t) EXCEPT !.next = @ + 1, !.running = NoListener])
     ELSE MoveTo(t, IF At(t) = "enter" THEN "on_enter" ELSE "on_leave")
  /\ UNCHANGED <<intercVars, stack, guardKey, ignored, calls, ops>>

\* The callback may have asked for its function_data, which is in the entry,
\* before the entry was freed.
CallbackReturns(t) ==
  /\ At(t) \in {"on_enter", "on_leave"} /\ Usable(t)
  /\ SetTop(t, [Top(t) EXCEPT !.next = @ + 1, !.running = NoListener,
                              !.at = IF @ = "on_enter" THEN "enter" ELSE "leaving"])
  /\ UNCHANGED <<intercVars, stack, guardKey, ignored, calls, ops>>

\* The loop, or the callback when it asks for its function_data, reads an entry
\* that is freed: anything may happen.
UseFreedEntry(t) ==
  /\ At(t) \in {"enter", "on_enter", "leaving", "on_leave"} /\ Usable(t)
  /\ Top(t).running # NoListener /\ EntryFreed(t)
  /\ MoveTo(t, "stray")
  /\ UNCHANGED <<intercVars, stack, guardKey, ignored, calls, ops>>

\* Mutant of PopsEntry: the entry of a trapped call is popped too.
PopsTrapped(fr) == fr.notified

\* begin_invocation pops the entry it pushed only for the listeners.
PopsEntry(fr) == ~fr.trap /\ fr.notified

\* The end of begin_invocation: an untrapped invocation is popped and no longer
\* counted; the next hop is the replacement or the original.  The replacement
\* is read a second time here.  When it appeared since Push the untrapped call
\* has no stack entry of its own to mark.
FinishEnter(t) ==
  LET fr == Top(t)
      x == ctx[fr.ctx]
      popped == IF PopsEntry(fr) THEN Front(stack[t]) ELSE stack[t]
  IN
  /\ \/ At(t) = "enter" /\ Usable(t) /\ EndOfArray(t)
     \/ At(t) = "finish" /\ Usable(t)
  /\ guardKey' = [guardKey EXCEPT ![t] = FALSE]
  /\ IF x.replacement /\ fr.trap
     THEN /\ stack' = [stack EXCEPT ![t] =
                         Append(Front(@), [Last(@) EXCEPT !.calling_replacement = TRUE])]
          /\ MoveTo(t, "replacement")
     ELSE /\ stack' = [stack EXCEPT ![t] = popped]
          /\ MoveTo(t, IF x.replacement THEN "undefined" ELSE "invoke")
  /\ IF fr.trap THEN UNCHANGED ctx ELSE AddUsage(fr.ctx, -1)
  /\ UNCHANGED <<table, prologue, txn, lock, job, client, ignored, calls, ops>>

\* on_invoke_trampoline: the relocated copy of the prologue, then the rest of
\* the function.  The copy is the original's: see SavedPrologueIsOriginal.
Invoke(t) ==
  /\ At(t) = "invoke" /\ Usable(t)
  /\ MoveTo(t, "body")
  /\ UNCHANGED <<intercVars, stack, guardKey, ignored, calls, ops>>

\* The function returns: to its caller, or to on_leave_trampoline and
\* _gum_function_context_end_invocation.
Return(t) ==
  /\ At(t) \in {"body", "replacement"}
  /\ IF Top(t).trap
     THEN /\ MoveTo(t, "leave")
          /\ guardKey' = [guardKey EXCEPT ![t] = TRUE]
     ELSE /\ PopFrame(t)
          /\ UNCHANGED guardKey
  /\ UNCHANGED <<intercVars, stack, ignored, calls, ops>>

\* The end of end_invocation: pop, clear the guard, count down, and return to
\* the caller_ret_addr of the entry that was on top.
FinishLeave(t) ==
  /\ At(t) = "leaving" /\ Usable(t) /\ EndOfArray(t)
  /\ stack' = [stack EXCEPT ![t] = Front(@)]
  /\ guardKey' = [guardKey EXCEPT ![t] = FALSE]
  /\ AddUsage(Top(t).ctx, -1)
  /\ PopFrame(t)
  /\ UNCHANGED <<table, prologue, txn, lock, job, client, ignored, calls, ops>>

\* The context is gone under the thread's feet: anything may happen.
UseFreed(t) ==
  /\ At(t) \in InTrampoline /\ ~Usable(t)
  /\ MoveTo(t, "undefined")
  /\ UNCHANGED <<intercVars, stack, guardKey, ignored, calls, ops>>

-----------------------------------------------------------------------------
API(k) ==
  \/ \E f \in Function, l \in Listener : Attach(k, f, l)
  \/ \E l \in Listener : Detach(k, l)
  \/ \E f \in Function : Replace(k, f) \/ Revert(k, f)
  \/ BeginTransaction(k) \/ EndTransaction(k)

EndOfTransaction(k) ==
  TakeTask(k) \/ RequeueTask(k) \/ Notify(k) \/ Relock(k) \/ Unlock(k)

Proceed(t) ==
  \/ Skip(t) \/ Sample(t) \/ Bypass(t) \/ Push(t) \/ LoadEntries(t) \/ ReadEntry(t) \/ VisitEntry(t)
  \/ CallbackReturns(t) \/ UseFreedEntry(t) \/ FinishEnter(t) \/ Invoke(t) \/ Return(t) \/ FinishLeave(t)
  \/ UseFreed(t)

Next ==
  \/ \E k \in Controller : API(k) \/ Flush(k) \/ EndOfTransaction(k)
  \/ \E t \in Thread : (\E f \in Function : Call(t, f)) \/ Ignore(t) \/ Unignore(t) \/ Proceed(t)

Spec == Init /\ [][Next]_vars

\* A thread in a trampoline is not blocked by anything, nor is the end of a
\* transaction: the lock is held for bounded work only.  Nothing obliges a
\* client to call the API again, nor the application to call a function.
FairSpec ==
  /\ Spec
  /\ \A t \in Thread : WF_vars(Proceed(t))
  /\ \A k \in Controller : WF_vars(EndOfTransaction(k))

\* A client that ends the transactions it begins and flushes until
\* gum_interceptor_flush returns TRUE, as gumquickinterceptor.c does.
FlushingSpec ==
  FairSpec /\ \A k \in Controller : WF_vars(Flush(k)) /\ WF_vars(EndTransaction(k))

-----------------------------------------------------------------------------
Frame == [fn : Function, ctx : Ctx \cup {0}, notified : BOOLEAN, trap : BOOLEAN,
          version : Nat, next : Nat, early : BOOLEAN, running : Listener \cup {NoListener},
          at : InTrampoline \cup {"body", "replacement", "stray", "undefined"}]

\* The shape of the interceptor's and the threads' state.
TypeOK ==
  /\ table \in [Address -> Ctx \cup {0}]
  /\ prologue \in [Address -> Ctx \cup {0}]
  /\ \A c \in Ctx :
       /\ ctx[c].state \in {"unborn", "live", "freed"}
       /\ ctx[c].usage \in Nat
       /\ ctx[c].address \in Address \cup {0}
       /\ \A v \in DOMAIN ctx[c].arrays : ctx[c].arrays[v] \in Seq(Listener \cup {NoListener})
  /\ txn.level \in Nat /\ txn.dirty \in BOOLEAN
  /\ txn.updates \in Seq(Update) /\ txn.destroys \in Seq(Task)
  /\ lock \in SUBSET Controller
  /\ \A k \in Controller : job[k].tasks \in Seq(Task)
  /\ \A t \in Thread : frames[t] \in Seq(Frame)
  /\ guardKey \in [Thread -> BOOLEAN]

\* Nobody can say what the thread does from here on.
Undefined(t) == At(t) \in {"stray", "undefined"}

\* A call that begin_invocation has counted and not yet given back.
Counted(fr) ==
  \/ fr.at \in {"begin", "load", "enter", "on_enter", "finish", "leave", "leaving", "on_leave",
               "stray"}
  \/ fr.trap /\ fr.at \in {"invoke", "body", "replacement"}

CallsOf(c) ==
  {p \in Thread \X (1..MaxDepth) :
     /\ p[2] \in DOMAIN frames[p[1]]
     /\ frames[p[1]][p[2]].ctx = c
     /\ Counted(frames[p[1]][p[2]])}

\* trampoline_usage_counter is exact: on every path through begin_invocation
\* and end_invocation a call is counted once and given back once.
UsageCounterIsExact ==
  (\A t \in Thread : ~Undefined(t)) =>
    \A c \in Ctx : Live(c) => ctx[c].usage = Cardinality(CallsOf(c))

\* A call that was counted before its context was taken out of the table keeps
\* the context, and the listener array it is going over, until it is done.  The
\* entries in the array are not kept: see RunningListenersKeepTheirEntries.
CountedCallsAreProtected ==
  \A t \in Thread : \A i \in DOMAIN frames[t] :
    LET fr == frames[t][i] IN
    fr.early /\ Counted(fr) =>
      /\ Live(fr.ctx)
      /\ fr.at \in {"enter", "on_enter", "leaving", "on_leave"} =>
           fr.version \notin ctx[fr.ctx].freed

\* The destroy tasks that have not run: a task leaves its job at Relock.
TasksToRun(k) == IF job[k].at = "relock" THEN Range(Tail(job[k].tasks)) ELSE Range(job[k].tasks)
PendingTasks == Range(txn.destroys) \cup UNION {TasksToRun(k) : k \in Controller}

\* A listener whose entry a thread has read, to call it or from its callback, is
\* still attached to some function, or the reference that detach took is still held
\* by a task: the GObject outlives the call, whatever becomes of the entry.
RunningListenersAreHeld ==
  \A t \in Thread : \A i \in DOMAIN frames[t] :
    LET l == frames[t][i].running IN
    l # NoListener =>
      \/ \E a \in Address : table[a] # 0 /\ l \in Taken(ctx[table[a]])
      \/ \E task \in PendingTasks : task.kind = "listener" /\ task.listener = l

\* The calls of a thread that have an entry on its invocation stack.
HasInvocation(fr) ==
  \/ fr.trap /\ Counted(fr)
  \/ fr.notified /\ fr.at \in {"load", "enter", "on_enter", "stray"}

\* The invocation stack mirrors the thread's calls, whatever is attached,
\* detached, replaced or reverted between a call's entry and its return: the
\* entry that end_invocation pops is the one begin_invocation pushed.
StackMirrorsCalls ==
  \A t \in Thread : ~Undefined(t) =>
    /\ {stack[t][j].frame : j \in DOMAIN stack[t]}
         = {i \in DOMAIN frames[t] : HasInvocation(frames[t][i])}
    /\ \A i, j \in DOMAIN stack[t] : i < j => stack[t][i].frame < stack[t][j].frame
    /\ At(t) \in {"leave", "leaving", "on_leave"} => Last(stack[t]).ctx = Top(t).ctx

\* A listener is never called from inside a listener: calls that callbacks make
\* to instrumented functions go straight to the originals.
CallbacksDoNotNest ==
  \A t \in Thread :
    Cardinality({i \in DOMAIN frames[t] : frames[t][i].running # NoListener}) <= 1

\* A patched function leads to a trampoline that has not been freed.
PatchedFunctionsLeadToLiveTrampolines ==
  \A f \in Function : prologue[f] # 0 => Live(prologue[f])

\* The bytes a context saves and relocates are never another context's jump,
\* even for a function that is attached again in the transaction that detached it.
SavedPrologueIsOriginal == \A c \in Ctx : ctx[c].overwritten = 0

\* What the clients were told is what the code does: outside transactions a
\* function is patched for exactly the listeners attached to it, and is as
\* compiled when there are none and no replacement, as long as nobody has
\* detached or reverted while a transaction was open (bpftime does not).
ClientsViewHolds ==
  ~client.strayed /\ txn.level = 0 =>
    \A f \in Function :
      LET c == table[f] IN
      /\ prologue[f] = c
      /\ client.wanted[f] = IF c = 0 THEN {} ELSE Taken(ctx[c])
      /\ c # 0 => ctx[c].activated /\ ~ctx[c].destroyed /\ ~IsEmpty(ctx[c])

\* A context that was taken out of the table is freed in the end by a client
\* that flushes: the tasks put off for a call in progress are not forgotten.
DetachedContextsAreFreed ==
  \A c \in Ctx :
    ctx[c].destroyed ~> \/ ctx[c].state = "freed"
                        \/ \E t \in Thread : Undefined(t)

\* docs/frida_trampoline_context_analysis.md: with the counter at zero no thread
\* is executing the trampoline, and it can be freed safely.
NoThreadInFreedTrampoline ==
  \A t \in Thread : At(t) \in InTrampoline => Live(Top(t).ctx)

\* docs/frida_trampoline_context_analysis.md: an unhook during a call is put off
\* until the call is done, so that nothing the call accesses has been freed.  Yet
\* the entry that a running callback gets its function_data from is not put off.
RunningListenersKeepTheirEntries ==
  \A t \in Thread : At(t) \in {"on_enter", "on_leave"} => ~EntryFreed(t)

=============================================================================
