---------------------------- MODULE SyscallTrace ----------------------------
(***************************************************************************)
(* bpftime's syscall_trace_attach_impl: programs attached to the entry or  *)
(* the exit of one or of all system calls, run by dispatch_syscall on the  *)
(* thread that makes the call (its syscall instructions are rewritten to   *)
(* lead there).                                                            *)
(*                                                                         *)
(* A program overrides the result through a callback kept per thread.      *)
(* dispatch_syscall sets it to a lambda over its own locals and takes it   *)
(* away again; the override handler of frida_attach_impl (module           *)
(* FridaAttach) sets it to its entry and leaves it.  Signal handlers of    *)
(* the application make system calls and call hooked functions too, so     *)
(* both nest at any point of a dispatch.                                   *)
(*                                                                         *)
(* The loops of a dispatch go over the sets themselves, without a lock,    *)
(* while another thread attaches and detaches.  An insertion or removal    *)
(* and an increment of the iterator are taken to be whole steps.           *)
(***************************************************************************)
EXTENDS Integers, Sequences, SequencesExt

CONSTANTS
  Thread,       \* application threads
  Sys,          \* system calls that are traced, other than exit and exit_group
  Value,        \* values a program may override the result with
  Kernel,       \* what the system call itself returns
  NoValue,      \* no value was set
  MaxAttaches,  \* bound: ids ever allocated
  MaxCalls,     \* bound: system calls and overridden calls begun by a thread
  MaxDepth      \* bound: nesting of them

ASSUME ValuesAssumption == NoValue \notin Value /\ Kernel \notin Value /\ Kernel # NoValue
ASSUME SysAssumption == 0 \notin Sys
ASSUME TraceBoundsAssumption ==
  MaxAttaches \in Nat /\ MaxCalls \in Nat /\ MaxDepth \in Nat

Id == 1..MaxAttaches
All == 0   \* sys_nr -1: every system call

VARIABLES
  next_id,         \* base_attach_impl::next_id
  attach_entries,  \* id -> the system call and the side of it
  callbacks,       \* the sets sys_enter_, sys_exit_, global_enter_ and global_exit_callbacks
  frames,          \* the dispatches and override handlers a thread is in, innermost last
  override,        \* curr_thread_override_return_callback
  finished,        \* history: the dispatch a thread came out of last
  calls

tableVars == <<next_id, attach_entries, callbacks>>
vars == <<next_id, attach_entries, callbacks, frames, override, finished, calls>>

Side == {"enter", "exit"}

\* The callback: none, the lambda of a thread's d-th frame, or an entry's.
None == 0
Entry == -1

NoProgram == 0   \* end(), where the iterator of a loop stops

\* While a loop runs: the program its iterator is on, those at or behind it, and
\* the first id that was not yet given when the loop began.
Frame == [kind : {"dispatch", "handler"}, sys : Sys \cup {All},
          at : {"enter", "enter_all", "syscall", "exit", "exit_all", "run", "threw", "undefined"},
          prog : Id \cup {NoProgram}, passed : SUBSET Id, since : Nat,
          is_overrided : BOOLEAN, user_ret : Value \cup {NoValue},
          \* history: what the programs asked for, the system call was made,
          \* another frame of the thread came in between
          asked : Value \cup {NoValue}, made : BOOLEAN, disturbed : BOOLEAN]

NewFrame(kind, s, at) ==
  [kind |-> kind, sys |-> s, at |-> at, prog |-> NoProgram, passed |-> {}, since |-> 0,
   is_overrided |-> FALSE, user_ret |-> NoValue,
   asked |-> NoValue, made |-> FALSE, disturbed |-> FALSE]

NotYet == [ret |-> NoValue, asked |-> NoValue, made |-> FALSE, disturbed |-> TRUE]

Init ==
  /\ next_id = 1
  /\ attach_entries = [i \in {} |-> 0]
  /\ callbacks = [side \in Side |-> [s \in Sys \cup {All} |-> {}]]
  /\ frames = [t \in Thread |-> <<>>]
  /\ override = [t \in Thread |-> None]
  /\ finished = [t \in Thread |-> NotYet]
  /\ calls = [t \in Thread |-> 0]

-----------------------------------------------------------------------------
(* Attaching and detaching.                                                *)

\* create_attach_with_ebpf_callback; a refusal (type, private data, sys_nr out
\* of range) changes nothing.
CreateAttach(s, side) ==
  /\ next_id \in Id
  /\ next_id' = next_id + 1
  /\ attach_entries' = [i \in DOMAIN attach_entries \cup {next_id} |->
       IF i = next_id THEN [sys |-> s, side |-> side] ELSE attach_entries[i]]
  /\ callbacks' = [callbacks EXCEPT ![side][s] = @ \cup {next_id}]
  /\ UNCHANGED <<frames, override, finished, calls>>

\* Mutant of DetachById: a global exit program is looked for among the enter ones.
DetachByIdWrongSide(i) ==
  LET e == attach_entries[i]
      side == IF e.sys = All THEN "enter" ELSE e.side
  IN
  /\ i \in DOMAIN attach_entries
  /\ callbacks' = [callbacks EXCEPT ![side][e.sys] = @ \ {i}]
  /\ attach_entries' = [j \in DOMAIN attach_entries \ {i} |-> attach_entries[j]]
  /\ UNCHANGED <<next_id, frames, override, finished, calls>>

\* detach_by_id, with its four branches; an unknown id changes nothing.
DetachById(i) ==
  LET e == attach_entries[i]
      Erase(side, s) == callbacks' = [callbacks EXCEPT ![side][s] = @ \ {i}]
  IN
  /\ i \in DOMAIN attach_entries
  /\ \/ e.side = "enter" /\ e.sys = All /\ Erase("enter", All)
     \/ e.side # "enter" /\ e.sys = All /\ Erase("exit", All)
     \/ e.side = "enter" /\ e.sys # All /\ Erase("enter", e.sys)
     \/ e.side # "enter" /\ e.sys # All /\ Erase("exit", e.sys)
  /\ attach_entries' = [j \in DOMAIN attach_entries \ {i} |-> attach_entries[j]]
  /\ UNCHANGED <<next_id, frames, override, finished, calls>>

-----------------------------------------------------------------------------
(* dispatch_syscall.                                                       *)

Depth(t) == Len(frames[t])
Top(t) == Last(frames[t])
At(t) == IF frames[t] = <<>> THEN "out" ELSE Top(t).at
SetTop(t, fr) == frames' = [frames EXCEPT ![t] = Append(Front(@), fr)]

\* The frame that a signal interrupts, if any, has been disturbed.
Pushed(t, fr) ==
  Append([d \in DOMAIN frames[t] |->
            IF d = Depth(t) THEN [frames[t][d] EXCEPT !.disturbed = TRUE] ELSE frames[t][d]],
         fr)

CanBegin(t) ==
  /\ calls[t] < MaxCalls /\ Depth(t) < MaxDepth
  /\ At(t) \notin {"threw", "undefined"}

\* begin() of a set: its programs lie in the order of their addresses, any order.
Firsts(progs) == IF progs = {} THEN {NoProgram} ELSE progs

\* Frame fr with the iterator of a loop on its first program i, or at its end.
LoopFrom(fr, i) ==
  [fr EXCEPT !.prog = i, !.passed = {i} \ {NoProgram},
             !.since = IF i = NoProgram THEN 0 ELSE next_id]

\* Both loops of a side are left out when neither has a program as they begin.
FirstLoop(side, s) ==
  IF callbacks[side][s] \cup callbacks[side][All] # {} THEN side
  ELSE IF side = "enter" THEN "enter_all" ELSE "exit_all"

\* dispatch_syscall up to the first program of its first loop, i.
Dispatch(t, s, i) ==
  /\ CanBegin(t)
  /\ i \in Firsts(callbacks["enter"][s])
  /\ frames' = [frames EXCEPT ![t] =
                  Pushed(t, LoopFrom(NewFrame("dispatch", s, FirstLoop("enter", s)), i))]
  /\ override' = [override EXCEPT ![t] = Depth(t) + 1]
  /\ calls' = [calls EXCEPT ![t] = @ + 1]
  /\ UNCHANGED <<tableVars, finished>>

\* The override handler of a hooked function (frida_internal_attach_entry.cpp).
OverrideHandler(t) ==
  /\ CanBegin(t)
  /\ frames' = [frames EXCEPT ![t] = Pushed(t, NewFrame("handler", All, "run"))]
  /\ override' = [override EXCEPT ![t] = Entry]
  /\ calls' = [calls EXCEPT ![t] = @ + 1]
  /\ UNCHANGED <<tableVars, finished>>

\* bpftime_set_retval and bpftime_override_return with value v, from the
\* innermost frame: the callback gets it, or there is none and they throw.
Overridden(t, v) ==
  LET d == override[t]
      asked == [frames[t] EXCEPT ![Depth(t)].asked = v]
  IN CASE d = None -> [asked EXCEPT ![Depth(t)].at = "threw"]
       [] d = Entry -> asked
       [] d \in Nat \ {0} -> [asked EXCEPT ![d].is_overrided = TRUE, ![d].user_ret = v]

InLoop(t) ==
  /\ At(t) \in {"enter", "enter_all", "exit", "exit_all"}
  /\ Top(t).prog # NoProgram

\* The set that the loop of the innermost frame goes over.
Looped(t) ==
  CASE At(t) = "enter"     -> callbacks["enter"][Top(t).sys]
    [] At(t) = "enter_all" -> callbacks["enter"][All]
    [] At(t) = "exit"      -> callbacks["exit"][Top(t).sys]
    [] OTHER               -> callbacks["exit"][All]

\* Where the iterator can go: to any program of the set as it is now that is not
\* behind it, and to the end when those left were inserted behind it meanwhile.
Nexts(t) ==
  LET left == Looped(t) \ Top(t).passed
  IN left \cup {i \in {NoProgram} : \A j \in left : j >= Top(t).since}

\* Frame fr with the iterator moved on to program i, or to the end.
MoveTo(fr, i) ==
  [fr EXCEPT !.prog = i,
             !.passed = IF i = NoProgram THEN {} ELSE @ \cup {i},
             !.since = IF i = NoProgram THEN 0 ELSE @]

\* The program under the iterator runs, and may override the result; then the
\* iterator moves on to i.
RunProgram(t, v, i) ==
  /\ InLoop(t)
  /\ Top(t).prog \in DOMAIN attach_entries
  /\ i \in Nexts(t)
  /\ LET ran == IF v = NoValue THEN frames[t] ELSE Overridden(t, v) IN
     frames' = [frames EXCEPT ![t] = [ran EXCEPT ![Depth(t)] = MoveTo(@, i)]]
  /\ UNCHANGED <<tableVars, override, finished, calls>>

\* The program under the iterator has been detached: it and the iterator's node
\* are freed memory.
RunFreedProgram(t) ==
  /\ InLoop(t)
  /\ Top(t).prog \notin DOMAIN attach_entries
  /\ SetTop(t, [Top(t) EXCEPT !.at = "undefined"])
  /\ UNCHANGED <<tableVars, override, finished, calls>>

\* The loop over the system call's own programs is done; the global ones follow.
GlobalPrograms(t, i) ==
  /\ At(t) \in {"enter", "exit"} /\ Top(t).prog = NoProgram
  /\ i \in Firsts(callbacks[At(t)][All])
  /\ SetTop(t, LoopFrom([Top(t) EXCEPT !.at = IF @ = "enter" THEN "enter_all" ELSE "exit_all"], i))
  /\ UNCHANGED <<tableVars, override, finished, calls>>

Return(t, ret) ==
  /\ frames' = [frames EXCEPT ![t] = Front(@)]
  /\ finished' = [finished EXCEPT ![t] =
       [ret |-> ret, asked |-> Top(t).asked, made |-> Top(t).made, disturbed |-> Top(t).disturbed]]

\* Mutant of EnterDone: the early return comes before the reset.
EnterDoneKeepsCallback(t) ==
  /\ At(t) = "enter_all" /\ Top(t).prog = NoProgram
  /\ IF Top(t).is_overrided
     THEN /\ Return(t, Top(t).user_ret)
          /\ UNCHANGED override
     ELSE /\ SetTop(t, [Top(t) EXCEPT !.at = "syscall"])
          /\ override' = [override EXCEPT ![t] = Depth(t)]
          /\ UNCHANGED finished
  /\ UNCHANGED <<tableVars, calls>>

\* Mutant of EnterDone: the callback is not set again for the exit programs.
EnterDoneSetsOnce(t) ==
  /\ At(t) = "enter_all" /\ Top(t).prog = NoProgram
  /\ override' = [override EXCEPT ![t] = None]
  /\ IF Top(t).is_overrided
     THEN Return(t, Top(t).user_ret)
     ELSE SetTop(t, [Top(t) EXCEPT !.at = "syscall"]) /\ UNCHANGED finished
  /\ UNCHANGED <<tableVars, calls>>

\* The callback is reset; an overridden call returns without being made, another
\* sets the callback again.
EnterDone(t) ==
  /\ At(t) = "enter_all" /\ Top(t).prog = NoProgram
  /\ IF Top(t).is_overrided
     THEN /\ Return(t, Top(t).user_ret)
          /\ override' = [override EXCEPT ![t] = None]
     ELSE /\ SetTop(t, [Top(t) EXCEPT !.at = "syscall"])
          /\ override' = [override EXCEPT ![t] = Depth(t)]
          /\ UNCHANGED finished
  /\ UNCHANGED <<tableVars, calls>>

\* orig_syscall, and the start of the loop over the exit programs.
Syscall(t, i) ==
  /\ At(t) = "syscall"
  /\ i \in Firsts(callbacks["exit"][Top(t).sys])
  /\ SetTop(t, LoopFrom([Top(t) EXCEPT !.at = FirstLoop("exit", Top(t).sys), !.made = TRUE], i))
  /\ UNCHANGED <<tableVars, override, finished, calls>>

\* Mutant of ExitDone: the kernel's result is returned all the same.
ExitDoneIgnoresOverride(t) ==
  /\ At(t) = "exit_all" /\ Top(t).prog = NoProgram
  /\ Return(t, Kernel)
  /\ override' = [override EXCEPT ![t] = None]
  /\ UNCHANGED <<tableVars, calls>>

\* The end of dispatch_syscall.
ExitDone(t) ==
  /\ At(t) = "exit_all" /\ Top(t).prog = NoProgram
  /\ Return(t, IF Top(t).is_overrided THEN Top(t).user_ret ELSE Kernel)
  /\ override' = [override EXCEPT ![t] = None]
  /\ UNCHANGED <<tableVars, calls>>

\* The override program, which may set no value, and the end of its handler: the
\* callback stays set.
RunOverride(t, v) ==
  /\ At(t) = "run"
  /\ LET ran == IF v = NoValue THEN frames[t] ELSE Overridden(t, v) IN
     frames' = [frames EXCEPT ![t] = IF Last(ran).at = "threw" THEN ran ELSE Front(ran)]
  /\ UNCHANGED <<tableVars, override, finished, calls>>

Step(t) ==
  \/ \E v \in Value \cup {NoValue}, i \in Id \cup {NoProgram} : RunProgram(t, v, i)
  \/ RunFreedProgram(t)
  \/ \E v \in Value \cup {NoValue} : RunOverride(t, v)
  \/ \E i \in Id \cup {NoProgram} : GlobalPrograms(t, i) \/ Syscall(t, i)
  \/ EnterDone(t) \/ ExitDone(t)

Next ==
  \/ \E s \in Sys \cup {All}, side \in Side : CreateAttach(s, side)
  \/ \E i \in Id : DetachById(i)
  \/ \E t \in Thread :
       \/ \E s \in Sys, i \in Id \cup {NoProgram} : Dispatch(t, s, i)
       \/ OverrideHandler(t)
       \/ Step(t)

Spec == Init /\ [][Next]_vars

-----------------------------------------------------------------------------
\* The sets that dispatch_syscall runs hold each attached program once, on the
\* side it was attached to, and nothing that has been detached and freed.
CallbackSetsMatchEntries ==
  \A side \in Side, s \in Sys \cup {All} :
    callbacks[side][s] = {i \in DOMAIN attach_entries :
                            attach_entries[i] = [sys |-> s, side |-> side]}

\* The thread's callback never refers to the locals of a dispatch that has
\* returned, nor to those of one that an inner dispatch interrupts.
CallbackOutlivesNoDispatch ==
  \A t \in Thread :
    override[t] \in Nat \ {0} =>
      /\ override[t] = Depth(t)
      /\ Top(t).kind = "dispatch"

\* A dispatch that no signal handler interrupted does what its programs asked
\* for: an override on entry replaces the system call, one on exit its result,
\* and without one the kernel's result is returned.
DispatchDoesWhatProgramsAsk ==
  \A t \in Thread :
    LET d == finished[t] IN
    ~d.disturbed => IF d.asked = NoValue THEN d.ret = Kernel /\ d.made ELSE d.ret = d.asked

\* A program that overrides finds a callback unless an inner dispatch of the
\* same thread has taken it away.
OnlyNestedDispatchesMakeOverridesThrow ==
  \A t \in Thread : \A d \in DOMAIN frames[t] :
    frames[t][d].at = "threw" => frames[t][d].disturbed

=============================================================================
