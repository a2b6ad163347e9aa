---------------------------- MODULE FridaAttach -----------------------------
(***************************************************************************)
(* bpftime's frida_attach_impl: user attaches with ids, grouped into one   *)
(* frida_internal_attach_entry per function, whose gum hook runs their     *)
(* programs on whichever application thread calls the function.            *)
(*                                                                         *)
(* Nothing here takes a lock: the attaching thread changes tables, hooks   *)
(* and user lists step by step while other threads go through the hooks,   *)
(* and an entry's is_overrided and user_ret are shared by all its callers. *)
(* gum's own part (module Interceptor) is abstracted to what it promises:  *)
(* which entry is hooked at a function, and when a call bypasses its hook. *)
(***************************************************************************)
EXTENDS Integers, Sequences, SequencesExt

CONSTANTS
  Function,     \* functions of the process
  Hookable,     \* those gum_interceptor_attach and _replace accept
  Thread,       \* application threads
  Value,        \* values an override program may return
  NoValue,      \* no value was set
  MaxAttaches,  \* bound: ids ever allocated
  MaxCalls,     \* bound: calls begun by all threads together
  MaxDepth      \* bound: nesting of a thread's calls

ASSUME HookableAssumption == Hookable \subseteq Function
ASSUME NoValueAssumption == NoValue \notin Value
ASSUME AttachBoundsAssumption ==
  MaxAttaches \in Nat /\ MaxCalls \in Nat /\ MaxDepth \in Nat

\* The types create_attach_with_ebpf_callback lets through; ATTACH_UREPLACE is an
\* override whose program always sets the value.  A refusal changes nothing.
AttachType == {"uprobe", "uretprobe", "override"}

\* Ids start at 1.  An internal entry is named by the id of the attach that
\* created it; 0 stands for none.
Id == 1..MaxAttaches

VARIABLES
  next_id,            \* base_attach_impl::next_id
  attaches,           \* id -> function and type
  internal_attaches,  \* function -> internal entry, or 0
  entry,              \* the internal entries
  gum,                \* function -> the entry gum hands to its hook, or 0
  op,                 \* what the attaching thread is in the middle of
  frames,             \* a thread's calls, innermost last
  callback,           \* curr_thread_override_return_callback: an entry, or 0
  cpu_context,        \* current_thread_gum_cpu_context: a frame, or 0
  calls

managerVars == <<next_id, attaches, internal_attaches, gum, op>>
vars == <<next_id, attaches, internal_attaches, entry, gum, op, frames, callback,
          cpu_context, calls>>

NoEntry == [state |-> "unborn", hook |-> "none", users |-> <<>>,
            is_overrided |-> FALSE, user_ret |-> NoValue]

Idle == [at |-> "idle"]

Init ==
  /\ next_id = 1
  /\ attaches = [i \in {} |-> 0]
  /\ internal_attaches = [f \in Function |-> 0]
  /\ entry = [e \in Id |-> NoEntry]
  /\ gum = [f \in Function |-> 0]
  /\ op = Idle
  /\ frames = [t \in Thread |-> <<>>]
  /\ callback = [t \in Thread |-> 0]
  /\ cpu_context = [t \in Thread |-> 0]
  /\ calls = 0

LiveEntry(e) == e # 0 /\ entry[e].state = "live"

\* An entry none of whose users has been erased under it.
SoundEntry(e) == LiveEntry(e) /\ Range(entry[e].users) \subseteq DOMAIN attaches

-----------------------------------------------------------------------------
(* Attaching and detaching.                                                *)

threadVars == <<frames, callback, cpu_context, calls>>

\* frida_internal_attach_entry::has_override
HasOverride(e) ==
  \E i \in Range(entry[e].users) : attaches[i].type = "override"

\* Mutant of AttachRefused: gum's error is not looked at.
AttachRefusedByOverride(f) ==
  internal_attaches[f] # 0 /\ HasOverride(internal_attaches[f])

\* gum refuses the function: the entry's constructor throws and attach_at with
\* it.  Or the entry has an override: -EEXIST.
AttachRefused(f) == IF internal_attaches[f] = 0 THEN f \notin Hookable
                    ELSE HasOverride(internal_attaches[f])

\* frida_internal_attach_entry's constructor: the type of the first attach
\* decides between a listener and a replacement.
HookFor(type) == IF type = "override" THEN "replace" ELSE "listener"

\* attach_at up to the entry: a new one is hooked before it has any user.
AttachAt(f, type) ==
  /\ op = Idle /\ next_id \in Id
  /\ ~AttachRefused(f)
  /\ IF internal_attaches[f] = 0
     THEN /\ internal_attaches' = [internal_attaches EXCEPT ![f] = next_id]
          /\ entry' = [entry EXCEPT
               ![next_id] = [NoEntry EXCEPT !.state = "live", !.hook = HookFor(type)]]
          /\ gum' = [gum EXCEPT ![f] = next_id]
     ELSE UNCHANGED <<internal_attaches, entry, gum>>
  /\ op' = [at |-> "push", fn |-> f, type |-> type]
  /\ UNCHANGED <<next_id, attaches, threadVars>>

\* The rest of attach_at: the id, the attach entry and its place in the list.
PushUser ==
  LET e == internal_attaches[op.fn] IN
  /\ op.at = "push"
  /\ next_id' = next_id + 1
  /\ attaches' = [i \in DOMAIN attaches \cup {next_id} |->
                    IF i = next_id THEN [fn |-> op.fn, type |-> op.type] ELSE attaches[i]]
  /\ entry' = [entry EXCEPT ![e].users = Append(@, next_id)]
  /\ op' = Idle
  /\ UNCHANGED <<internal_attaches, gum, threadVars>>

\* std::remove_if with the attach's own address, which the list holds once at most.
RemoveUser(users, i) ==
  IF i \in Range(users) THEN RemoveAt(users, CHOOSE n \in DOMAIN users : users[n] = i) ELSE users

Without(ids) == [i \in DOMAIN attaches \ ids |-> attaches[i]]

\* Mutant of DetachById: the entry stays when its last user has gone.
DetachByIdKeepsEntry(i) ==
  LET e == internal_attaches[attaches[i].fn] IN
  /\ op = Idle /\ i \in DOMAIN attaches
  /\ entry' = [entry EXCEPT ![e].users = RemoveUser(@, i)]
  /\ attaches' = Without({i})
  /\ UNCHANGED <<next_id, internal_attaches, gum, op, threadVars>>

\* detach_by_id: an entry that has lost its last user is erased next.
DetachById(i) ==
  LET e == internal_attaches[attaches[i].fn]
      left == RemoveUser(entry[e].users, i)
  IN
  /\ op = Idle /\ i \in DOMAIN attaches
  /\ entry' = [entry EXCEPT ![e].users = left]
  /\ attaches' = Without({i})
  /\ op' = IF left = <<>> THEN [at |-> "erase", fn |-> attaches[i].fn] ELSE Idle
  /\ UNCHANGED <<next_id, internal_attaches, gum, threadVars>>

\* Mutant of DetachByFuncAddr: only the entry goes.
DetachByFuncAddrLeaks(f) ==
  /\ op = Idle /\ internal_attaches[f] # 0
  /\ op' = [at |-> "erase", fn |-> f]
  /\ UNCHANGED <<next_id, attaches, internal_attaches, entry, gum, threadVars>>

\* detach_by_func_addr
DetachByFuncAddr(f) ==
  /\ op = Idle /\ internal_attaches[f] # 0
  /\ attaches' = Without(Range(entry[internal_attaches[f]].users))
  /\ op' = [at |-> "erase", fn |-> f]
  /\ UNCHANGED <<next_id, internal_attaches, entry, gum, threadVars>>

\* Mutant of Unhook: the destructor only takes listeners back.
UnhookListener ==
  /\ op.at = "erase"
  /\ gum' = IF entry[internal_attaches[op.fn]].hook = "listener"
            THEN [gum EXCEPT ![op.fn] = 0] ELSE gum
  /\ op' = [op EXCEPT !.at = "free"]
  /\ UNCHANGED <<next_id, attaches, internal_attaches, entry, threadVars>>

\* ~frida_internal_attach_entry: gum_interceptor_detach or _revert ...
Unhook ==
  /\ op.at = "erase"
  /\ gum' = [gum EXCEPT ![op.fn] = 0]
  /\ op' = [op EXCEPT !.at = "free"]
  /\ UNCHANGED <<next_id, attaches, internal_attaches, entry, threadVars>>

\* ... and the entry is gone, whoever is in a callback with it.
FreeEntry ==
  LET e == internal_attaches[op.fn] IN
  /\ op.at = "free"
  /\ entry' = [entry EXCEPT ![e] = [NoEntry EXCEPT !.state = "freed"]]
  /\ internal_attaches' = [internal_attaches EXCEPT ![op.fn] = 0]
  /\ op' = Idle
  /\ UNCHANGED <<next_id, attaches, gum, threadVars>>

-----------------------------------------------------------------------------
(* The threads' calls.  "at" says where a call is:                          *)
(*   hooked       in the hook, before it touches the entry                  *)
(*   uprobes      uprobe_listener_on_enter's loop over the users            *)
(*   uprobe       in a uprobe's program                                     *)
(*   uretprobes, uretprobe   the same on leaving                            *)
(*   filter       in the override handler, before run_filter_callback       *)
(*   program      in the override program                                   *)
(*   decide       about to read is_overrided                                *)
(*   body         in the function itself                                    *)
(*   threw        an exception left a callback                              *)
(*   undefined    used a freed entry, or a list that changed under a loop   *)

NewFrame(f, e, where) ==
  [fn |-> f, entry |-> e, hook |-> IF e = 0 THEN "none" ELSE entry[e].hook,
   at |-> where, users |-> <<>>, next |-> 1, user |-> 0, set |-> NoValue,
   disturbed |-> FALSE]

Depth(t) == Len(frames[t])
Top(t) == Last(frames[t])
At(t) == IF frames[t] = <<>> THEN "out" ELSE Top(t).at
SetTop(t, fr) == frames' = [frames EXCEPT ![t] = Append(Front(@), fr)]
MoveTo(t, where) == SetTop(t, [Top(t) EXCEPT !.at = where])
PopFrame(t) == frames' = [frames EXCEPT ![t] = Front(@)]
ToBody(t) == SetTop(t, NewFrame(Top(t).fn, Top(t).entry, "body"))

\* Mutant of Bypasses: listeners are entered from listeners.
BypassesReplaced(t, f) ==
  LET hooked == {d \in DOMAIN frames[t] : frames[t][d].entry # 0} IN
  \E d \in hooked : /\ \A c \in hooked : c <= d
                    /\ frames[t][d].fn = f /\ frames[t][d].hook = "replace"

\* gum's bypass: the thread is inside a listener, or its innermost hooked call
\* is a replaced call of this very function.
Bypasses(t, f) ==
  LET hooked == {d \in DOMAIN frames[t] : frames[t][d].entry # 0} IN
  \/ \E d \in hooked : frames[t][d].at \in {"uprobe", "uretprobe"}
  \/ \E d \in hooked : /\ \A c \in hooked : c <= d
                       /\ frames[t][d].fn = f /\ frames[t][d].hook = "replace"

BeginCall(t, fr) ==
  /\ calls < MaxCalls /\ Depth(t) < MaxDepth
  /\ At(t) \in {"out", "body", "program", "uprobe", "uretprobe"}
  /\ calls' = calls + 1
  /\ frames' = [frames EXCEPT ![t] = Append(@, fr)]
  /\ UNCHANGED <<managerVars, entry, callback, cpu_context>>

\* There is no hook, or gum bypasses it.
CallOriginal(t, f) ==
  /\ gum[f] = 0 \/ Bypasses(t, f)
  /\ BeginCall(t, NewFrame(f, 0, "body"))

\* There is a hook and the sampling guard lets the call pass by it.
CallUnsampled(t, f) ==
  /\ gum[f] # 0 /\ ~Bypasses(t, f)
  /\ BeginCall(t, NewFrame(f, 0, "body"))

\* The call is sampled.
CallHooked(t, f) ==
  /\ gum[f] # 0 /\ ~Bypasses(t, f)
  /\ BeginCall(t, NewFrame(f, gum[f], "hooked"))

\* The loop over the users finds them as they were when it began.
LoopIsSound(t) == SoundEntry(Top(t).entry) /\ Top(t).users = entry[Top(t).entry].users

\* The call uses an entry or a user that has been freed, goes over a list that
\* another thread is changing, or runs a program that has been erased.
GoneWrong(t) ==
  /\ \/ At(t) \in {"hooked", "decide"} /\ ~LiveEntry(Top(t).entry)
     \/ At(t) = "filter" /\ ~SoundEntry(Top(t).entry)
     \/ At(t) \in {"uprobes", "uretprobes"} /\ ~LoopIsSound(t)
     \/ At(t) \in {"uprobe", "uretprobe", "program"} /\ Top(t).user \notin DOMAIN attaches
  /\ MoveTo(t, "undefined")
  /\ UNCHANGED <<managerVars, entry, callback, cpu_context, calls>>

\* uprobe_listener_on_enter, up to its loop over the users.
OnEnter(t) ==
  /\ At(t) = "hooked" /\ Top(t).hook = "listener" /\ LiveEntry(Top(t).entry)
  /\ cpu_context' = [cpu_context EXCEPT ![t] = Depth(t)]
  /\ SetTop(t, [Top(t) EXCEPT !.at = "uprobes", !.next = 1, !.users = entry[Top(t).entry].users])
  /\ UNCHANGED <<managerVars, entry, callback, calls>>

\* The function returns: gum calls on_leave if the listener is still attached.
Return(t) ==
  /\ At(t) = "body"
  /\ IF Top(t).hook = "listener" /\ gum[Top(t).fn] = Top(t).entry
     THEN SetTop(t, [Top(t) EXCEPT !.at = "uretprobes", !.next = 1,
                                   !.users = entry[Top(t).entry].users])
     ELSE PopFrame(t)
  /\ UNCHANGED <<managerVars, entry, callback, cpu_context, calls>>

\* iterate_uprobe_callbacks, iterate_uretprobe_callbacks: the next user's
\* program runs if it is of the loop's type.
VisitUser(t) ==
  LET fr == Top(t)
      wanted == IF fr.at = "uprobes" THEN "uprobe" ELSE "uretprobe"
  IN
  /\ At(t) \in {"uprobes", "uretprobes"}
  /\ LoopIsSound(t)
  /\ fr.next \in DOMAIN fr.users
  /\ IF attaches[fr.users[fr.next]].type = wanted
     THEN SetTop(t, [fr EXCEPT !.at = wanted, !.user = fr.users[fr.next]])
     ELSE SetTop(t, [fr EXCEPT !.next = @ + 1])
  /\ UNCHANGED <<managerVars, entry, callback, cpu_context, calls>>

ProgramReturns(t) ==
  /\ At(t) \in {"uprobe", "uretprobe"}
  /\ SetTop(t, [Top(t) EXCEPT !.next = @ + 1, !.set = NoValue,
                              !.at = IF @ = "uprobe" THEN "uprobes" ELSE "uretprobes"])
  /\ UNCHANGED <<managerVars, entry, callback, cpu_context, calls>>

\* The end of on_enter forgets the cpu context; on_leave never had one.
LoopEnds(t) ==
  /\ At(t) \in {"uprobes", "uretprobes"}
  /\ LoopIsSound(t)
  /\ Top(t).next > Len(Top(t).users)
  /\ IF At(t) = "uprobes"
     THEN ToBody(t) /\ cpu_context' = [cpu_context EXCEPT ![t] = 0]
     ELSE PopFrame(t) /\ UNCHANGED cpu_context
  /\ UNCHANGED <<managerVars, entry, callback, calls>>

-----------------------------------------------------------------------------
(* The override handler.                                                   *)

\* Between its reset of is_overrided and its reading of it.
InHandler(fr) == fr.at \in {"filter", "program", "decide"}

\* The innermost call of t becomes fr, and the other calls that cs selects, if
\* they are in the handler, are noted as disturbed (history).
Disturbing(t, fr, cs(_, _)) ==
  frames' = [u \in Thread |-> [d \in DOMAIN frames[u] |->
    IF u = t /\ d = Depth(t) THEN fr
    ELSE [frames[u][d] EXCEPT
            !.disturbed = @ \/ (InHandler(frames[u][d]) /\ cs(u, frames[u][d]))]]]

\* Mutant of HandlerStarts: is_overrided keeps what the last call left in it.
HandlerStartsStale(t) ==
  LET e == Top(t).entry IN
  /\ At(t) = "hooked" /\ Top(t).hook = "replace" /\ LiveEntry(e)
  /\ callback' = [callback EXCEPT ![t] = e]
  /\ cpu_context' = [cpu_context EXCEPT ![t] = Depth(t)]
  /\ Disturbing(t, [Top(t) EXCEPT !.at = "filter"], LAMBDA u, fr : u = t \/ fr.entry = e)
  /\ UNCHANGED <<managerVars, entry, calls>>

\* The override handler resets the entry's flag and makes the entry this
\* thread's override callback: for good, it is never taken back.
HandlerStarts(t) ==
  LET e == Top(t).entry IN
  /\ At(t) = "hooked" /\ Top(t).hook = "replace" /\ LiveEntry(e)
  /\ entry' = [entry EXCEPT ![e].is_overrided = FALSE]
  /\ callback' = [callback EXCEPT ![t] = e]
  /\ cpu_context' = [cpu_context EXCEPT ![t] = Depth(t)]
  /\ Disturbing(t, [Top(t) EXCEPT !.at = "filter"], LAMBDA u, fr : u = t \/ fr.entry = e)
  /\ UNCHANGED <<managerVars, calls>>

\* run_filter_callback: without an override among the users it throws.
RunFilter(t) ==
  /\ At(t) = "filter" /\ SoundEntry(Top(t).entry)
  /\ IF HasOverride(Top(t).entry)
     THEN SetTop(t, [Top(t) EXCEPT !.at = "program", !.user = entry[Top(t).entry].users[1]])
     ELSE MoveTo(t, "threw")
  /\ UNCHANGED <<managerVars, entry, callback, cpu_context, calls>>

\* bpftime_set_retval, bpftime_override_return: through whatever callback this
\* thread has.  A program uses it once at most.
SetRetval(t, v) ==
  LET e == callback[t]
      fr == [Top(t) EXCEPT !.set = v]
  IN
  /\ At(t) \in {"program", "uprobe", "uretprobe"} /\ Top(t).set = NoValue
  /\ IF LiveEntry(e)
     THEN /\ entry' = [entry EXCEPT ![e].is_overrided = TRUE, ![e].user_ret = v]
          /\ Disturbing(t, fr, LAMBDA u, other : other.entry = e)
     ELSE /\ MoveTo(t, IF e = 0 THEN "threw" ELSE "undefined")
          /\ UNCHANGED entry
  /\ UNCHANGED <<managerVars, callback, cpu_context, calls>>

FilterReturns(t) ==
  /\ At(t) = "program"
  /\ cpu_context' = [cpu_context EXCEPT ![t] = 0]
  /\ MoveTo(t, "decide")
  /\ UNCHANGED <<managerVars, entry, callback, calls>>

\* The handler returns the overridden value or calls the original.
Decide(t) ==
  /\ At(t) = "decide" /\ LiveEntry(Top(t).entry)
  /\ IF entry[Top(t).entry].is_overrided THEN PopFrame(t) ELSE ToBody(t)
  /\ UNCHANGED <<managerVars, entry, callback, cpu_context, calls>>

-----------------------------------------------------------------------------
Manager ==
  \/ \E f \in Function : (\E ty \in AttachType : AttachAt(f, ty)) \/ DetachByFuncAddr(f)
  \/ \E i \in Id : DetachById(i)
  \/ PushUser \/ Unhook \/ FreeEntry

ThreadStep(t) ==
  \/ \E f \in Function : CallOriginal(t, f) \/ CallUnsampled(t, f) \/ CallHooked(t, f)
  \/ \E v \in Value : SetRetval(t, v)
  \/ OnEnter(t) \/ VisitUser(t) \/ ProgramReturns(t) \/ LoopEnds(t) \/ Return(t)
  \/ HandlerStarts(t) \/ RunFilter(t) \/ FilterReturns(t) \/ Decide(t) \/ GoneWrong(t)

\* An exception out of a callback meets gum's frames and ends the process, and
\* nothing can be said of it once it has used freed memory.
Running == \A t \in Thread : At(t) \notin {"threw", "undefined"}

Next == Running /\ (Manager \/ \E t \in Thread : ThreadStep(t))

Spec == Init /\ [][Next]_vars

-----------------------------------------------------------------------------
\* The shape of the tables; a function gum cannot hook has no entry.
TypeOK ==
  /\ next_id \in 1..(MaxAttaches + 1)
  /\ DOMAIN attaches \subseteq 1..(next_id - 1)
  /\ \A i \in DOMAIN attaches : attaches[i] \in [fn : Hookable, type : AttachType]
  /\ internal_attaches \in [Function -> Id \cup {0}]
  /\ gum \in [Function -> Id \cup {0}]
  /\ \A f \in Function \ Hookable : internal_attaches[f] = 0
  /\ callback \in [Thread -> Id \cup {0}]
  /\ cpu_context \in [Thread -> 0..MaxDepth]

\* The ids and the user lists are two views of one thing, whatever was attached
\* and detached and by which of the two detaches: an id is in the list of its
\* function's entry and in no other, once, and no entry is without users.
AttachTablesAgree ==
  op = Idle =>
    /\ \A i \in DOMAIN attaches :
         internal_attaches[attaches[i].fn] # 0
         /\ i \in Range(entry[internal_attaches[attaches[i].fn]].users)
    /\ \A f \in Function : internal_attaches[f] # 0 =>
         LET users == entry[internal_attaches[f]].users IN
         /\ users # <<>> /\ IsInjective(users)
         /\ \A i \in Range(users) : i \in DOMAIN attaches /\ attaches[i].fn = f

\* gum's hooks are exactly the live entries: a function nobody is attached to
\* is not hooked any more, and no hook leads to a freed entry.
HooksFollowEntries ==
  /\ op = Idle => gum = internal_attaches
  /\ \A f \in Function : gum[f] # 0 => LiveEntry(gum[f])

Took(t) ==
  LET fr == Top(t)
      e == entry[fr.entry]
  IN
  At(t) = "decide" /\ LiveEntry(fr.entry) =>
    /\ e.is_overrided <=> fr.set # NoValue
    /\ e.is_overrided => e.user_ret = fr.set

\* When no other call of the function was in the handler meanwhile, and the
\* program did not itself call into another overridden function, what the
\* handler does is what this call's program asked for, whatever earlier calls,
\* other functions' programs and threads with a stale callback left behind.
OverrideTakesEffect == \A t \in Thread : At(t) = "decide" /\ ~Top(t).disturbed => Took(t)

\* run_filter_callback throws, or meets a freed user, only while an attach or a
\* detach is under way: otherwise a call that is in the override handler of a
\* live entry finds the override there, however it got into the handler.
HandlersFindTheirOverride ==
  \A t \in Thread : op = Idle /\ At(t) = "filter" /\ LiveEntry(Top(t).entry) =>
    SoundEntry(Top(t).entry) /\ HasOverride(Top(t).entry)

\* While a uprobe's program runs, the thread's cpu context is that of the call
\* it was run for, also when the program calls hooked functions.
UprobesHaveContext ==
  \A t \in Thread : \A d \in DOMAIN frames[t] :
    frames[t][d].at = "uprobe" => cpu_context[t] = d

=============================================================================
