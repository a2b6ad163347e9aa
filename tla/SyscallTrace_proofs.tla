------------------------- MODULE SyscallTrace_proofs ------------------------
(***************************************************************************)
(* Proofs about SyscallTrace: for every set of threads, system calls and   *)
(* values, and however deep dispatches and override handlers nest.         *)
(***************************************************************************)
EXTENDS SyscallTrace, StackLemmas

Outcome == [ret : Value \cup {NoValue, Kernel}, asked : Value \cup {NoValue},
            made : BOOLEAN, disturbed : BOOLEAN]

\* The shape of the tables and of what the threads are in.
TraceType ==
  /\ next_id \in Nat \ {0}
  /\ DOMAIN attach_entries \subseteq 1..(next_id - 1)
  /\ \A i \in DOMAIN attach_entries :
       attach_entries[i] \in [sys : Sys \cup {All}, side : Side]
  /\ callbacks \in [Side -> [Sys \cup {All} -> SUBSET Id]]
  /\ frames \in [Thread -> Seq(Frame)]
  /\ override \in [Thread -> Nat \cup {Entry}]
  /\ finished \in [Thread -> Outcome]

\* Where a frame is tells its kind, a dispatch past the system call has made it,
\* only a disturbed frame throws, and what the programs of an undisturbed
\* dispatch asked for has come to it.
FrameOK(fr) ==
  /\ fr.kind = "handler" => fr.at \in {"run", "threw"}
  /\ fr.kind = "dispatch" => fr.at # "run"
  /\ fr.at \in {"exit", "exit_all"} => fr.made
  /\ fr.at = "threw" => fr.disturbed
  /\ fr.kind = "dispatch" /\ ~fr.disturbed =>
       IF fr.asked = NoValue THEN ~fr.is_overrided
                             ELSE fr.is_overrided /\ fr.user_ret = fr.asked

\* Callback o fits a thread whose innermost frame is fr, at depth d: an
\* undisturbed frame has its own, and a dispatch's lambda is the innermost one's.
CallbackOK(fr, d, o) ==
  /\ ~fr.disturbed /\ fr.at \notin {"threw", "undefined"} =>
       o = IF fr.kind = "dispatch" THEN d ELSE Entry
  /\ o \in Nat \ {0} => o = d /\ fr.kind = "dispatch"

\* The frames fs of a thread and its callback o.  Only the innermost frame can be
\* undisturbed.
StackOK(fs, o) ==
  /\ \A d \in 1..Len(fs) : FrameOK(fs[d])
  /\ \A d \in 1..(Len(fs) - 1) : fs[d].disturbed
  /\ IF fs = <<>> THEN o \notin Nat \ {0} ELSE CallbackOK(fs[Len(fs)], Len(fs), o)

\* The inductive invariant.
IInv ==
  /\ TraceType
  /\ CallbackSetsMatchEntries
  /\ \A t \in Thread : StackOK(frames[t], override[t])
  /\ DispatchDoesWhatProgramsAsk

-----------------------------------------------------------------------------
\* The innermost frame is replaced, the others stay.
LEMMA ReplaceTop ==
  ASSUME NEW fs \in Seq(Frame), fs # <<>>, NEW o, StackOK(fs, o),
         NEW gs \in Seq(Frame), Len(gs) = Len(fs),
         \A d \in 1..(Len(fs) - 1) : gs[d] = fs[d],
         FrameOK(gs[Len(fs)]), NEW p, CallbackOK(gs[Len(fs)], Len(fs), p)
  PROVE  StackOK(gs, p)
<1>1. Len(fs) \in Nat \ {0}
  BY FrontProps
<1>2. gs # <<>>
  BY <1>1, EmptySeq
<1>3. \A d \in 1..Len(gs) : FrameOK(gs[d])
  BY <1>1 DEF StackOK
<1>4. \A d \in 1..(Len(gs) - 1) : gs[d].disturbed
  BY <1>1 DEF StackOK
<1> QED
  BY <1>1, <1>2, <1>3, <1>4 DEF StackOK

\* The innermost frame is left: the one below has been disturbed.
LEMMA PopTop ==
  ASSUME NEW fs \in Seq(Frame), fs # <<>>, NEW o, StackOK(fs, o),
         NEW p, p \in {None, Entry}
  PROVE  StackOK(Front(fs), p)
<1> DEFINE gs == Front(fs)
<1>1. /\ Len(fs) \in Nat \ {0} /\ gs \in Seq(Frame)
      /\ Len(gs) = Len(fs) - 1 /\ \A d \in 1..(Len(fs) - 1) : gs[d] = fs[d]
  BY FrontProps
<1> HIDE DEF gs
<1>2. \A d \in 1..Len(gs) : FrameOK(gs[d]) /\ gs[d].disturbed
  BY <1>1 DEF StackOK
<1>3. p \notin Nat \ {0}
  BY DEF None, Entry
<1>4. gs # <<>> => Len(gs) \in 1..Len(gs)
  BY <1>1, FrontProps
<1>5. gs # <<>> => CallbackOK(gs[Len(gs)], Len(gs), p)
  BY <1>2, <1>3, <1>4 DEF CallbackOK
<1> QED
  BY <1>1, <1>2, <1>3, <1>5 DEF StackOK, gs

\* A signal handler, or the thread itself, enters a new frame.
LEMMA PushFrame ==
  ASSUME NEW t \in Thread, IInv, CanBegin(t),
         NEW fr \in Frame, FrameOK(fr), NEW p, CallbackOK(fr, Depth(t) + 1, p)
  PROVE  Pushed(t, fr) \in Seq(Frame) /\ StackOK(Pushed(t, fr), p)
<1> DEFINE fs == frames[t]
           es == [d \in DOMAIN fs |-> IF d = Depth(t) THEN [fs[d] EXCEPT !.disturbed = TRUE] ELSE fs[d]]
           gs == Append(es, fr)
<1>1. fs \in Seq(Frame) /\ Len(fs) \in Nat /\ DOMAIN fs = 1..Len(fs) /\ Depth(t) = Len(fs)
  BY LenProperties DEF IInv, TraceType, Depth
<1>2. StackOK(fs, override[t])
  BY DEF IInv
<1>3. \A d \in 1..Len(fs) : fs[d] \in Frame
  BY <1>1, ElementOfSeq
<1>4. \A d \in 1..Len(fs) : es[d] \in Frame
  BY <1>1, <1>3, ZenonT(40) DEF Frame
<1>5. es \in Seq(Frame) /\ Len(es) = Len(fs)
  <2>1. es \in [1..Len(fs) -> Frame]
    BY <1>1, <1>4
  <2> HIDE DEF es
  <2> QED
    BY <1>1, <2>1, FunctionIsSeq
<1>6. \A d \in 1..Len(fs) : FrameOK(es[d]) /\ es[d].disturbed
  <2> SUFFICES ASSUME NEW d \in 1..Len(fs)
               PROVE  FrameOK(es[d]) /\ es[d].disturbed
    OBVIOUS
  <2>1. FrameOK(fs[d]) /\ (d # Len(fs) => fs[d].disturbed)
    BY <1>1, <1>2 DEF StackOK
  <2>2. es[d] = IF d = Depth(t) THEN [fs[d] EXCEPT !.disturbed = TRUE] ELSE fs[d]
    BY <1>1
  <2>3. fs[d] \in Frame
    BY <1>3
  <2> HIDE DEF es, fs
  <2> QED
    BY <1>1, <2>1, <2>2, <2>3 DEF FrameOK, Frame
<1> HIDE DEF es
<1>7. /\ gs \in Seq(Frame) /\ gs # <<>> /\ Len(gs) = Len(es) + 1
      /\ \A d \in 1..Len(es) : gs[d] = es[d]
      /\ gs[Len(es) + 1] = fr
  BY <1>5, PushProps
<1> HIDE DEF gs
<1>8. \A d \in 1..Len(gs) : FrameOK(gs[d])
  BY <1>1, <1>5, <1>6, <1>7
<1>9. \A d \in 1..(Len(gs) - 1) : gs[d].disturbed
  BY <1>1, <1>5, <1>6, <1>7
<1>10. CallbackOK(gs[Len(gs)], Len(gs), p)
  BY <1>1, <1>5, <1>7
<1>11. StackOK(gs, p)
  BY <1>7, <1>8, <1>9, <1>10 DEF StackOK
<1>12. gs = Pushed(t, fr)
  BY DEF gs, es, Pushed
<1> QED
  BY <1>7, <1>11, <1>12

\* A step of one thread: its stack, its callback and its last outcome are replaced.
LEMMA ThreadStep ==
  ASSUME IInv, NEW t \in Thread, NEW gs \in Seq(Frame), NEW p \in Nat \cup {Entry},
         StackOK(gs, p), NEW r \in Outcome,
         ~r.disturbed => IF r.asked = NoValue THEN r.ret = Kernel /\ r.made ELSE r.ret = r.asked,
         frames' = [frames EXCEPT ![t] = gs],
         override' = [override EXCEPT ![t] = p],
         finished' = [finished EXCEPT ![t] = r],
         UNCHANGED tableVars
  PROVE  IInv'
<1>1. TraceType'
  BY DEF IInv, TraceType, tableVars
<1>2. CallbackSetsMatchEntries'
  BY DEF IInv, CallbackSetsMatchEntries, tableVars
<1>3. \A u \in Thread : StackOK(frames'[u], override'[u])
  BY DEF IInv, TraceType
<1>4. DispatchDoesWhatProgramsAsk'
  BY DEF IInv, TraceType, DispatchDoesWhatProgramsAsk
<1> QED
  BY <1>1, <1>2, <1>3, <1>4 DEF IInv

\* What a thread came out of last, kept by a step that does not end a dispatch.
LEMMA KeepOutcome ==
  ASSUME IInv, NEW t \in Thread
  PROVE  /\ finished[t] \in Outcome
         /\ ~finished[t].disturbed =>
              IF finished[t].asked = NoValue THEN finished[t].ret = Kernel /\ finished[t].made
                                             ELSE finished[t].ret = finished[t].asked
         /\ finished = [finished EXCEPT ![t] = finished[t]]
         /\ override = [override EXCEPT ![t] = override[t]]
         /\ override[t] \in Nat \cup {Entry}
  BY DEF IInv, TraceType, DispatchDoesWhatProgramsAsk

\* The inductive invariant holds before anything is attached.
LEMMA InitIInv == Init => IInv
<1> SUFFICES ASSUME Init PROVE IInv
  OBVIOUS
<1>0. <<>> \in Seq(Frame) /\ Len(<<>>) = 0
  BY EmptySeq
<1>1. TraceType
  BY <1>0, ValuesAssumption DEF Init, TraceType, Side, NotYet, Outcome, None, Entry
<1>2. CallbackSetsMatchEntries
  BY DEF Init, CallbackSetsMatchEntries, Side
<1>3. ASSUME NEW t \in Thread
      PROVE  StackOK(frames[t], override[t])
  BY <1>0 DEF Init, StackOK, None
<1>4. DispatchDoesWhatProgramsAsk
  BY DEF Init, DispatchDoesWhatProgramsAsk, NotYet
<1> QED
  BY <1>1, <1>2, <1>3, <1>4 DEF IInv

\* What a thread's innermost frame is when it is somewhere.
LEMMA TopFacts ==
  ASSUME IInv, NEW t \in Thread, At(t) # "out"
  PROVE  /\ frames[t] \in Seq(Frame) /\ frames[t] # <<>>
         /\ Len(frames[t]) \in Nat \ {0} /\ Depth(t) = Len(frames[t])
         /\ Top(t) = frames[t][Len(frames[t])] /\ Top(t) \in Frame /\ At(t) = Top(t).at
         /\ StackOK(frames[t], override[t])
         /\ FrameOK(Top(t)) /\ CallbackOK(Top(t), Depth(t), override[t])
<1>1. frames[t] \in Seq(Frame) /\ frames[t] # <<>> /\ StackOK(frames[t], override[t])
  BY DEF IInv, TraceType, At
<1>2. /\ Len(frames[t]) \in Nat \ {0} /\ Depth(t) = Len(frames[t])
      /\ Top(t) = frames[t][Len(frames[t])] /\ Top(t) \in Frame /\ At(t) = Top(t).at
  BY <1>1, FrontProps DEF Depth, Top, At
<1>3. FrameOK(Top(t)) /\ CallbackOK(Top(t), Depth(t), override[t])
  BY <1>1, <1>2 DEF StackOK
<1> QED
  BY <1>1, <1>2, <1>3

-----------------------------------------------------------------------------
\* Moving the iterator of a loop changes nothing else of its frame.
LEMMA LoopFromKeeps ==
  ASSUME IInv, NEW fr \in Frame, NEW i \in Id \cup {NoProgram}
  PROVE  /\ LoopFrom(fr, i) \in Frame
         /\ FrameOK(fr) => FrameOK(LoopFrom(fr, i))
         /\ \A d, o : CallbackOK(fr, d, o) => CallbackOK(LoopFrom(fr, i), d, o)
<1>1. next_id \in Nat /\ {i} \ {NoProgram} \in SUBSET Id
  BY DEF IInv, TraceType
<1>2. LoopFrom(fr, i) \in Frame
  BY <1>1 DEF LoopFrom, Frame
<1>3. /\ LoopFrom(fr, i).kind = fr.kind /\ LoopFrom(fr, i).at = fr.at
      /\ LoopFrom(fr, i).made = fr.made /\ LoopFrom(fr, i).disturbed = fr.disturbed
      /\ LoopFrom(fr, i).asked = fr.asked /\ LoopFrom(fr, i).user_ret = fr.user_ret
      /\ LoopFrom(fr, i).is_overrided = fr.is_overrided
  BY DEF LoopFrom, Frame
<1> QED
  BY <1>2, <1>3 DEF FrameOK, CallbackOK

LEMMA MoveToKeeps ==
  ASSUME NEW fr \in Frame, NEW i \in Id \cup {NoProgram}
  PROVE  /\ MoveTo(fr, i) \in Frame
         /\ FrameOK(fr) => FrameOK(MoveTo(fr, i))
         /\ \A d, o : CallbackOK(fr, d, o) => CallbackOK(MoveTo(fr, i), d, o)
<1>1. fr.passed \in SUBSET Id /\ fr.since \in Nat
  BY DEF Frame
<1>2. MoveTo(fr, i) \in Frame
  BY <1>1 DEF MoveTo, Frame
<1>3. /\ MoveTo(fr, i).kind = fr.kind /\ MoveTo(fr, i).at = fr.at
      /\ MoveTo(fr, i).made = fr.made /\ MoveTo(fr, i).disturbed = fr.disturbed
      /\ MoveTo(fr, i).asked = fr.asked /\ MoveTo(fr, i).user_ret = fr.user_ret
      /\ MoveTo(fr, i).is_overrided = fr.is_overrided
  BY DEF MoveTo, Frame
<1> QED
  BY <1>2, <1>3 DEF FrameOK, CallbackOK

-----------------------------------------------------------------------------
\* create_attach_with_ebpf_callback keeps the sets and the entries in agreement.
LEMMA CreateAttachIInv ==
  ASSUME IInv, NEW s \in Sys \cup {All}, NEW side \in Side, CreateAttach(s, side)
  PROVE  IInv'
<1> USE DEF CreateAttach
<1>1. next_id \in Id /\ next_id \notin DOMAIN attach_entries
  BY DEF IInv, TraceType
<1> DEFINE e == [sys |-> s, side |-> side]
<1>2. /\ DOMAIN attach_entries' = DOMAIN attach_entries \cup {next_id}
      /\ attach_entries'[next_id] = e
      /\ \A i \in DOMAIN attach_entries : attach_entries'[i] = attach_entries[i]
  BY <1>1
<1>3. TraceType'
  <2>1. next_id' \in Nat \ {0} /\ DOMAIN attach_entries' \subseteq 1..(next_id' - 1)
    BY <1>1, <1>2 DEF IInv, TraceType
  <2>2. \A i \in DOMAIN attach_entries' :
          attach_entries'[i] \in [sys : Sys \cup {All}, side : Side]
    BY <1>2 DEF IInv, TraceType
  <2>3. callbacks' \in [Side -> [Sys \cup {All} -> SUBSET Id]]
    BY <1>1 DEF IInv, TraceType
  <2> QED
    BY <2>1, <2>2, <2>3 DEF IInv, TraceType
<1>4. CallbackSetsMatchEntries'
  <2> SUFFICES ASSUME NEW d \in Side, NEW z \in Sys \cup {All}
               PROVE  callbacks'[d][z] = {i \in DOMAIN attach_entries' :
                                            attach_entries'[i] = [sys |-> z, side |-> d]}
    BY DEF CallbackSetsMatchEntries
  <2>1. callbacks[d][z] = {i \in DOMAIN attach_entries :
                             attach_entries[i] = [sys |-> z, side |-> d]}
    BY DEF IInv, CallbackSetsMatchEntries
  <2>2. callbacks'[d][z] = IF d = side /\ z = s THEN callbacks[d][z] \cup {next_id}
                                              ELSE callbacks[d][z]
    BY DEF IInv, TraceType
  <2>3. e = [sys |-> z, side |-> d] <=> d = side /\ z = s
    OBVIOUS
  <2> HIDE DEF e, CreateAttach
  <2> QED
    BY <1>1, <1>2, <2>1, <2>2, <2>3
<1> QED
  BY <1>3, <1>4 DEF IInv, DispatchDoesWhatProgramsAsk

\* detach_by_id keeps the sets and the entries in agreement.
LEMMA DetachByIdIInv ==
  ASSUME IInv, NEW i \in Id, DetachById(i)
  PROVE  IInv'
<1> DEFINE e == attach_entries[i]
<1>1. /\ i \in DOMAIN attach_entries
      /\ e.side \in Side /\ e.sys \in Sys \cup {All} /\ e = [sys |-> e.sys, side |-> e.side]
      /\ callbacks' = [callbacks EXCEPT ![e.side][e.sys] = @ \ {i}]
      /\ DOMAIN attach_entries' = DOMAIN attach_entries \ {i}
      /\ \A j \in DOMAIN attach_entries' : attach_entries'[j] = attach_entries[j]
      /\ UNCHANGED <<next_id, frames, override, finished>>
  <2>1. /\ i \in DOMAIN attach_entries
        /\ e.side \in Side /\ e.sys \in Sys \cup {All} /\ e = [sys |-> e.sys, side |-> e.side]
    BY DEF DetachById, IInv, TraceType
  <2>2. callbacks' = [callbacks EXCEPT ![e.side][e.sys] = @ \ {i}]
    BY <2>1 DEF DetachById, Side
  <2> QED
    BY <2>1, <2>2 DEF DetachById
<1> HIDE DEF e
<1>2. TraceType'
  BY <1>1 DEF IInv, TraceType
<1>3. CallbackSetsMatchEntries'
  <2> SUFFICES ASSUME NEW d \in Side, NEW z \in Sys \cup {All}
               PROVE  callbacks'[d][z] = {j \in DOMAIN attach_entries' :
                                            attach_entries'[j] = [sys |-> z, side |-> d]}
    BY DEF CallbackSetsMatchEntries
  <2>1. callbacks[d][z] = {j \in DOMAIN attach_entries :
                             attach_entries[j] = [sys |-> z, side |-> d]}
    BY DEF IInv, CallbackSetsMatchEntries
  <2>2. callbacks'[d][z] = IF d = e.side /\ z = e.sys THEN callbacks[d][z] \ {i}
                                                      ELSE callbacks[d][z]
    BY <1>1 DEF IInv, TraceType
  <2>3. e = [sys |-> z, side |-> d] <=> d = e.side /\ z = e.sys
    BY <1>1
  <2> QED
    BY <1>1, <2>1, <2>2, <2>3 DEF e
<1> QED
  BY <1>1, <1>2, <1>3 DEF IInv, DispatchDoesWhatProgramsAsk

-----------------------------------------------------------------------------
\* Entering a dispatch or an override handler.
LEMMA EnterIInv ==
  ASSUME IInv, NEW t \in Thread,
         OverrideHandler(t) \/ \E s \in Sys, i \in Id \cup {NoProgram} : Dispatch(t, s, i)
  PROVE  IInv'
<1>0. Depth(t) \in Nat
  BY LenProperties DEF IInv, TraceType, Depth
<1>1. ASSUME NEW s \in Sys, NEW i \in Id \cup {NoProgram}, Dispatch(t, s, i)
      PROVE  IInv'
  <2> DEFINE fr == LoopFrom(NewFrame("dispatch", s, FirstLoop("enter", s)), i)
  <2>0. FirstLoop("enter", s) \in {"enter", "enter_all"}
    BY DEF FirstLoop
  <2>1. fr \in Frame /\ FrameOK(fr)
    <3> DEFINE new == NewFrame("dispatch", s, FirstLoop("enter", s))
    <3>1. new \in Frame /\ FrameOK(new) /\ new.kind = "dispatch" /\ ~new.disturbed
      BY <2>0 DEF NewFrame, Frame, FrameOK
    <3> HIDE DEF new
    <3>2. LoopFrom(new, i) \in Frame /\ FrameOK(LoopFrom(new, i))
      BY <3>1, LoopFromKeeps
    <3> QED
      BY <3>2 DEF new
  <2>2. CallbackOK(fr, Depth(t) + 1, Depth(t) + 1)
    BY DEF NewFrame, LoopFrom, CallbackOK
  <2> HIDE DEF fr
  <2>3. Pushed(t, fr) \in Seq(Frame) /\ StackOK(Pushed(t, fr), Depth(t) + 1)
    BY <1>1, <2>1, <2>2, PushFrame DEF Dispatch
  <2>4. /\ frames' = [frames EXCEPT ![t] = Pushed(t, fr)]
        /\ override' = [override EXCEPT ![t] = Depth(t) + 1]
        /\ UNCHANGED <<tableVars, finished>>
    BY <1>1 DEF Dispatch, fr
  <2>5. /\ finished' = [finished EXCEPT ![t] = finished[t]]
        /\ UNCHANGED tableVars
    BY <2>4, KeepOutcome
  <2>6. Depth(t) + 1 \in Nat \cup {Entry}
    BY <1>0
  <2> QED
    BY <2>3, <2>4, <2>5, <2>6, KeepOutcome, ThreadStep
<1>2. ASSUME OverrideHandler(t)
      PROVE  IInv'
  <2> DEFINE fr == NewFrame("handler", All, "run")
  <2>1. fr \in Frame /\ FrameOK(fr)
    BY DEF NewFrame, Frame, FrameOK
  <2>2. CallbackOK(fr, Depth(t) + 1, Entry)
    BY DEF NewFrame, CallbackOK, Entry
  <2> HIDE DEF fr
  <2>3. Pushed(t, fr) \in Seq(Frame) /\ StackOK(Pushed(t, fr), Entry)
    BY <1>2, <2>1, <2>2, PushFrame DEF OverrideHandler
  <2>4. /\ frames' = [frames EXCEPT ![t] = Pushed(t, fr)]
        /\ override' = [override EXCEPT ![t] = Entry]
        /\ UNCHANGED <<tableVars, finished>>
    BY <1>2 DEF OverrideHandler, fr
  <2>5. /\ finished' = [finished EXCEPT ![t] = finished[t]]
        /\ UNCHANGED tableVars
    BY <2>4, KeepOutcome
  <2> QED
    BY <2>3, <2>4, <2>5, KeepOutcome, ThreadStep
<1> QED
  BY <1>1, <1>2

\* The innermost frame moves on in a way that leaves the outcome alone.
LEMMA MoveIInv ==
  ASSUME IInv, NEW t \in Thread, At(t) # "out", NEW fr \in Frame, FrameOK(fr),
         NEW p \in Nat \cup {Entry}, CallbackOK(fr, Depth(t), p),
         NEW gs \in Seq(Frame), Len(gs) = Depth(t),
         \A d \in 1..(Depth(t) - 1) : gs[d] = frames[t][d], gs[Depth(t)] = fr,
         frames' = [frames EXCEPT ![t] = gs],
         override' = [override EXCEPT ![t] = p],
         UNCHANGED <<tableVars, finished>>
  PROVE  IInv'
<1>1. StackOK(gs, p)
  BY TopFacts, ReplaceTop
<1>2. finished' = [finished EXCEPT ![t] = finished[t]] /\ UNCHANGED tableVars
  BY KeepOutcome
<1> QED
  BY <1>1, <1>2, KeepOutcome, ThreadStep

\* A step that changes the innermost frame of a thread and no other keeps it.
LEMMA SetTopIInv ==
  ASSUME IInv, NEW t \in Thread, At(t) # "out", NEW fr \in Frame, FrameOK(fr),
         NEW p \in Nat \cup {Entry}, CallbackOK(fr, Depth(t), p),
         SetTop(t, fr), override' = [override EXCEPT ![t] = p],
         UNCHANGED <<tableVars, finished>>
  PROVE  IInv'
<1> DEFINE gs == Append(Front(frames[t]), fr)
<1>1. frames[t] \in Seq(Frame) /\ frames[t] # <<>> /\ Depth(t) = Len(frames[t])
  BY TopFacts
<1>2. /\ gs \in Seq(Frame) /\ Len(gs) = Depth(t)
      /\ \A d \in 1..(Depth(t) - 1) : gs[d] = frames[t][d]
      /\ gs[Depth(t)] = fr
  BY <1>1, SetTopProps
<1>3. frames' = [frames EXCEPT ![t] = gs]
  BY DEF SetTop
<1> HIDE DEF gs
<1> QED
  BY <1>2, <1>3, MoveIInv

-----------------------------------------------------------------------------
\* What overriding makes of the innermost frame fr of a thread with callback o.
OverriddenTop(fr, o, v) ==
  IF o = None THEN [fr EXCEPT !.asked = v, !.at = "threw"]
  ELSE IF o = Entry THEN [fr EXCEPT !.asked = v]
  ELSE [fr EXCEPT !.asked = v, !.is_overrided = TRUE, !.user_ret = v]

\* Overriding from the innermost frame, in a dispatch's loop or in a handler,
\* changes that frame only, and the new frame fits.
LEMMA OverriddenProps ==
  ASSUME IInv, NEW t \in Thread, NEW v \in Value,
         At(t) \in {"enter", "enter_all", "exit", "exit_all", "run"}
  PROVE  LET fr == OverriddenTop(Top(t), override[t], v)
         IN /\ Overridden(t, v) = [frames[t] EXCEPT ![Depth(t)] = fr]
            /\ fr \in Frame /\ FrameOK(fr) /\ CallbackOK(fr, Depth(t), override[t])
<1> DEFINE fs == frames[t]
           n == Depth(t)
           top == Top(t)
           o == override[t]
           fr == OverriddenTop(top, o, v)
<1>1. /\ fs \in Seq(Frame) /\ n \in Nat \ {0} /\ n = Len(fs) /\ top = fs[n]
      /\ top \in Frame /\ FrameOK(top) /\ CallbackOK(top, n, o)
      /\ DOMAIN fs = 1..n
      /\ top.at \in {"enter", "enter_all", "exit", "exit_all", "run"}
  BY TopFacts, LenProperties
<1>2. o \in Nat \cup {Entry}
  BY KeepOutcome
<1>3. n \in DOMAIN fs
  BY <1>1
<1>4. CASE o = None
  <2> DEFINE a == [top EXCEPT !.asked = v]
             f == [fs EXCEPT ![n] = a]
             c == [top EXCEPT !.asked = v, !.at = "threw"]
  <2>1. Overridden(t, v) = [f EXCEPT ![n].at = "threw"]
    BY <1>1, <1>4 DEF Overridden, None, Depth
  <2>2. f[n] = a /\ [f EXCEPT ![n] = c] = [fs EXCEPT ![n] = c]
    BY <1>3, ExceptTwice
  <2>3. [a EXCEPT !.at = "threw"] = c
    BY <1>1 DEF Frame
  <2>4. [f EXCEPT ![n].at = "threw"] = [f EXCEPT ![n] = [f[n] EXCEPT !.at = "threw"]]
    OBVIOUS
  <2>5. Overridden(t, v) = [fs EXCEPT ![n] = c]
    <3> HIDE DEF f, a, c
    <3> QED
      BY <2>1, <2>2, <2>3, <2>4
  <2>6. top.disturbed
    BY <1>1, <1>4 DEF CallbackOK, FrameOK, Frame, None, Entry
  <2>7. c \in Frame
    BY <1>1 DEF Frame
  <2>8. FrameOK(c)
    BY <1>1, <2>6 DEF FrameOK, Frame
  <2>9. CallbackOK(c, n, o)
    BY <1>1, <1>4, <2>6 DEF CallbackOK, Frame, None
  <2> HIDE DEF c
  <2>10. fr = c
    BY <1>4 DEF OverriddenTop, c
  <2> QED
    BY <2>5, <2>7, <2>8, <2>9, <2>10
<1>5. CASE o = Entry
  <2> DEFINE c == [top EXCEPT !.asked = v]
  <2>1. Overridden(t, v) = [fs EXCEPT ![n] = c]
    BY <1>1, <1>5 DEF Overridden, None, Entry
  <2>2. top.kind = "handler" \/ top.disturbed
    BY <1>1, <1>5 DEF CallbackOK, FrameOK, Frame, Entry
  <2>3. c \in Frame
    BY <1>1 DEF Frame
  <2>4. FrameOK(c)
    BY <1>1, <2>2 DEF FrameOK, Frame
  <2>5. CallbackOK(c, n, o)
    BY <1>1, <1>5, <2>2 DEF CallbackOK, Frame, Entry
  <2> HIDE DEF c
  <2>6. fr = c
    BY <1>5 DEF OverriddenTop, c, None, Entry
  <2> QED
    BY <2>1, <2>3, <2>4, <2>5, <2>6
<1>6. CASE o \in Nat \ {0}
  <2> DEFINE a == [top EXCEPT !.asked = v]
             b == [a EXCEPT !.is_overrided = TRUE]
             c == [b EXCEPT !.user_ret = v]
             f == [fs EXCEPT ![n] = a]
             g == [f EXCEPT ![n] = b]
  <2>0. o = n /\ top.kind = "dispatch"
    BY <1>1, <1>6 DEF CallbackOK
  <2>1. Overridden(t, v) = [g EXCEPT ![n] = [g[n] EXCEPT !.user_ret = v]]
    <3>1. f[n] = a
      BY <1>1
    <3>2. Overridden(t, v) = [[f EXCEPT ![n].is_overrided = TRUE] EXCEPT ![n].user_ret = v]
      BY <1>1, <1>6, <2>0 DEF Overridden, None, Entry
    <3> QED
      BY <3>1, <3>2
  <2>2. g = [fs EXCEPT ![n] = b] /\ g[n] = b
    <3> HIDE DEF fs, n, a, b
    <3>1. g = [fs EXCEPT ![n] = b]
      BY <1>3, ExceptTwice
    <3> QED
      BY <1>3, <3>1, ExceptTwice
  <2>3. Overridden(t, v) = [fs EXCEPT ![n] = c]
    <3>1. c = [g[n] EXCEPT !.user_ret = v]
      BY <2>2
    <3> HIDE DEF fs, n, a, b, c, g
    <3> QED
      BY <1>3, <2>1, <2>2, <3>1, ExceptTwice
  <2>4. c \in Frame
    BY <1>1 DEF Frame
  <2>5. FrameOK(c)
    <3>1. v # NoValue
      BY ValuesAssumption
    <3>2. /\ c.kind = "dispatch" /\ c.at = top.at /\ c.made = top.made /\ c.asked = v
          /\ c.is_overrided = TRUE /\ c.user_ret = v
      BY <1>1, <2>0 DEF Frame
    <3>3. top.at \notin {"run", "threw"}
      BY <1>1, <2>0 DEF FrameOK
    <3> HIDE DEF c
    <3> QED
      BY <1>1, <3>1, <3>2, <3>3 DEF FrameOK
  <2>6. CallbackOK(c, n, o)
    BY <1>1, <2>0 DEF CallbackOK, Frame
  <2>7. fr = c
    BY <1>6 DEF OverriddenTop, None, Entry
  <2> HIDE DEF c
  <2> QED
    BY <2>3, <2>4, <2>5, <2>6, <2>7
<1>7. o = None \/ o = Entry \/ o \in Nat \ {0}
  BY <1>2 DEF None
<1> HIDE DEF fs, n, top, o, fr
<1> QED
  BY <1>4, <1>5, <1>6, <1>7 DEF fs, n, top, o, fr

\* The innermost frame is replaced, and nothing else of the thread.
LEMMA ExceptTopIInv ==
  ASSUME IInv, NEW t \in Thread, At(t) # "out", NEW fr \in Frame, FrameOK(fr),
         CallbackOK(fr, Depth(t), override[t]),
         frames' = [frames EXCEPT ![t] = [frames[t] EXCEPT ![Depth(t)] = fr]],
         UNCHANGED <<tableVars, override, finished>>
  PROVE  IInv'
<1> DEFINE fs == frames[t]
           n == Depth(t)
           gs == [fs EXCEPT ![n] = fr]
<1>1. fs \in Seq(Frame) /\ n \in Nat \ {0} /\ n = Len(fs) /\ DOMAIN fs = 1..n
  BY TopFacts, LenProperties
<1>2. gs \in Seq(Frame) /\ Len(gs) = n
  BY <1>1, ExceptSeq
<1>3. gs[n] = fr /\ \A d \in 1..(n - 1) : gs[d] = fs[d]
  BY <1>1
<1>4. override[t] \in Nat \cup {Entry} /\ override' = [override EXCEPT ![t] = override[t]]
  BY KeepOutcome
<1> HIDE DEF gs
<1>5. frames' = [frames EXCEPT ![t] = gs]
  BY DEF gs
<1> QED
  BY <1>2, <1>3, <1>4, <1>5, MoveIInv

\* A program of a dispatch runs, and may override the result.
LEMMA RunProgramIInv ==
  ASSUME IInv, NEW t \in Thread, NEW v \in Value \cup {NoValue},
         NEW i \in Id \cup {NoProgram}, RunProgram(t, v, i)
  PROVE  IInv'
<1> DEFINE fs == frames[t]
           n == Depth(t)
           fr == IF v = NoValue THEN Top(t) ELSE OverriddenTop(Top(t), override[t], v)
           ran == IF v = NoValue THEN fs ELSE Overridden(t, v)
<1>1. At(t) \in {"enter", "enter_all", "exit", "exit_all"}
  BY DEF RunProgram, InLoop
<1>2. /\ fs \in Seq(Frame) /\ n = Len(fs) /\ n \in Nat \ {0} /\ DOMAIN fs = 1..n /\ Top(t) = fs[n]
      /\ Top(t) \in Frame /\ FrameOK(Top(t)) /\ CallbackOK(Top(t), n, override[t])
  BY <1>1, TopFacts, LenProperties
<1>3. /\ ran = [fs EXCEPT ![n] = fr]
      /\ fr \in Frame /\ FrameOK(fr) /\ CallbackOK(fr, n, override[t])
  <2>1. CASE v = NoValue
    <3>1. [fs EXCEPT ![n] = fs[n]] = fs
      BY <1>2
    <3> QED
      BY <1>2, <2>1, <3>1
  <2>2. CASE v # NoValue
    <3>1. v \in Value
      BY <2>2
    <3> QED
      BY <1>1, <2>2, <3>1, OverriddenProps
  <2> QED
    BY <2>1, <2>2
<1>4. frames' = [frames EXCEPT ![t] = [ran EXCEPT ![n] = MoveTo(ran[n], i)]]
  BY DEF RunProgram
<1>5. UNCHANGED <<tableVars, override, finished>>
  BY DEF RunProgram
<1> HIDE DEF fr, ran, fs, n
<1>6. n \in DOMAIN fs
  BY <1>2
<1>7. ran[n] = fr
  BY <1>3, <1>6, ExceptTwice
<1>8. [ran EXCEPT ![n] = MoveTo(fr, i)] = [fs EXCEPT ![n] = MoveTo(fr, i)]
  BY <1>3, <1>6, ExceptTwice
<1>9. frames' = [frames EXCEPT ![t] = [fs EXCEPT ![n] = MoveTo(fr, i)]]
  BY <1>4, <1>7, <1>8
<1>10. MoveTo(fr, i) \in Frame /\ FrameOK(MoveTo(fr, i)) /\ CallbackOK(MoveTo(fr, i), n, override[t])
  BY <1>3, MoveToKeeps
<1> QED
  BY <1>1, <1>5, <1>9, <1>10, ExceptTopIInv DEF fs, n

\* The program of a loop has been freed: nothing is known of what follows.
LEMMA RunFreedIInv ==
  ASSUME IInv, NEW t \in Thread, RunFreedProgram(t)
  PROVE  IInv'
<1> DEFINE top == Top(t)
           fr == [top EXCEPT !.at = "undefined"]
<1>1. At(t) \in {"enter", "enter_all", "exit", "exit_all"} /\ SetTop(t, fr)
  BY DEF RunFreedProgram, InLoop
<1>2. /\ top \in Frame /\ At(t) = top.at /\ FrameOK(top) /\ CallbackOK(top, Depth(t), override[t])
  BY <1>1, TopFacts
<1>3. fr \in Frame
  BY <1>2 DEF Frame
<1>4. FrameOK(fr)
  BY <1>1, <1>2 DEF FrameOK, Frame
<1>5. CallbackOK(fr, Depth(t), override[t])
  BY <1>2 DEF CallbackOK, Frame
<1>6. override[t] \in Nat \cup {Entry} /\ override' = [override EXCEPT ![t] = override[t]]
  BY KeepOutcome DEF RunFreedProgram
<1>7. UNCHANGED <<tableVars, finished>>
  BY DEF RunFreedProgram
<1> HIDE DEF fr
<1> QED
  BY <1>1, <1>3, <1>4, <1>5, <1>6, <1>7, SetTopIInv

\* The innermost dispatch moves on without leaving.
LEMMA AdvanceIInv ==
  ASSUME IInv, NEW t \in Thread,
         \/ \E i \in Id \cup {NoProgram} : GlobalPrograms(t, i) \/ Syscall(t, i)
         \/ EnterDone(t) /\ ~Top(t).is_overrided
  PROVE  IInv'
<1>0. At(t) \in {"enter", "exit", "syscall", "enter_all"}
  BY DEF GlobalPrograms, Syscall, EnterDone
<1> DEFINE top == Top(t)
<1>1. /\ top \in Frame /\ At(t) = top.at /\ FrameOK(top)
      /\ CallbackOK(top, Depth(t), override[t]) /\ Depth(t) \in Nat \ {0}
  BY <1>0, TopFacts
<1>2. top.kind = "dispatch"
  BY <1>0, <1>1 DEF FrameOK, Frame
<1>3. override[t] \in Nat \cup {Entry} /\ override = [override EXCEPT ![t] = override[t]]
  BY KeepOutcome
<1>5. ASSUME NEW i \in Id \cup {NoProgram}, GlobalPrograms(t, i)
      PROVE  IInv'
  <2> DEFINE a == [top EXCEPT !.at = IF @ = "enter" THEN "enter_all" ELSE "exit_all"]
             fr == LoopFrom(a, i)
  <2>1. top.at \in {"enter", "exit"} /\ SetTop(t, fr) /\ UNCHANGED <<tableVars, finished, override>>
    BY <1>1, <1>5 DEF GlobalPrograms
  <2>2. a \in Frame
    BY <1>1, <2>1 DEF Frame
  <2>3. FrameOK(a)
    BY <1>1, <1>2, <2>1 DEF FrameOK, Frame
  <2>4. CallbackOK(a, Depth(t), override[t])
    BY <1>1, <1>2, <2>1 DEF CallbackOK, Frame
  <2> HIDE DEF a
  <2>5. fr \in Frame /\ FrameOK(fr) /\ CallbackOK(fr, Depth(t), override[t])
    BY <2>2, <2>3, <2>4, LoopFromKeeps
  <2> HIDE DEF fr
  <2>6. override' = [override EXCEPT ![t] = override[t]]
    BY <1>3, <2>1
  <2> QED
    BY <1>0, <1>3, <2>1, <2>5, <2>6, SetTopIInv
<1>6. ASSUME NEW i \in Id \cup {NoProgram}, Syscall(t, i)
      PROVE  IInv'
  <2> DEFINE a == [top EXCEPT !.at = FirstLoop("exit", top.sys), !.made = TRUE]
             fr == LoopFrom(a, i)
  <2>1. top.at = "syscall" /\ SetTop(t, fr) /\ UNCHANGED <<tableVars, finished, override>>
    BY <1>1, <1>6 DEF Syscall
  <2>0. FirstLoop("exit", top.sys) \in {"exit", "exit_all"}
    BY DEF FirstLoop
  <2>2. a \in Frame
    BY <1>1, <2>0 DEF Frame
  <2>3. FrameOK(a)
    BY <1>1, <1>2, <2>0, <2>1 DEF FrameOK, Frame
  <2>4. CallbackOK(a, Depth(t), override[t])
    BY <1>1, <1>2, <2>0, <2>1 DEF CallbackOK, Frame
  <2> HIDE DEF a
  <2>5. fr \in Frame /\ FrameOK(fr) /\ CallbackOK(fr, Depth(t), override[t])
    BY <2>2, <2>3, <2>4, LoopFromKeeps
  <2> HIDE DEF fr
  <2>6. override' = [override EXCEPT ![t] = override[t]]
    BY <1>3, <2>1
  <2> QED
    BY <1>0, <1>3, <2>1, <2>5, <2>6, SetTopIInv
<1>7. CASE EnterDone(t) /\ ~top.is_overrided
  <2> DEFINE fr == [top EXCEPT !.at = "syscall"]
  <2>1. /\ top.at = "enter_all" /\ SetTop(t, fr) /\ UNCHANGED <<tableVars, finished>>
        /\ override' = [override EXCEPT ![t] = Depth(t)]
    BY <1>1, <1>7 DEF EnterDone
  <2>3. fr \in Frame
    BY <1>1 DEF Frame
  <2>4. FrameOK(fr)
    BY <1>1, <1>2, <2>1 DEF FrameOK, Frame
  <2>5. CallbackOK(fr, Depth(t), Depth(t))
    BY <1>1, <1>2 DEF CallbackOK, Frame
  <2> HIDE DEF fr
  <2>6. Depth(t) \in Nat \cup {Entry}
    BY <1>1
  <2> QED
    BY <1>0, <2>1, <2>3, <2>4, <2>5, <2>6, SetTopIInv
<1> QED
  BY <1>5, <1>6, <1>7

\* dispatch_syscall returns, before or after the system call.
LEMMA ReturnIInv ==
  ASSUME IInv, NEW t \in Thread, ExitDone(t) \/ (EnterDone(t) /\ Top(t).is_overrided)
  PROVE  IInv'
<1>0. At(t) \in {"exit_all", "enter_all"}
  BY DEF ExitDone, EnterDone
<1> DEFINE top == Top(t)
           ret == IF top.is_overrided THEN top.user_ret ELSE Kernel
           r == [ret |-> ret, asked |-> top.asked, made |-> top.made, disturbed |-> top.disturbed]
<1>1. /\ frames[t] \in Seq(Frame) /\ frames[t] # <<>> /\ StackOK(frames[t], override[t])
      /\ top \in Frame /\ At(t) = top.at /\ FrameOK(top)
  BY <1>0, TopFacts
<1>2. top.kind = "dispatch"
  BY <1>0, <1>1 DEF FrameOK, Frame
<1>3. /\ frames' = [frames EXCEPT ![t] = Front(frames[t])]
      /\ finished' = [finished EXCEPT ![t] = r]
      /\ override' = [override EXCEPT ![t] = None]
      /\ UNCHANGED tableVars
      /\ top.at = "exit_all" \/ top.is_overrided
  BY <1>1 DEF ExitDone, EnterDone, Return
<1>4. r \in Outcome
  BY <1>1 DEF Outcome, Frame
<1>5. ~r.disturbed => IF r.asked = NoValue THEN r.ret = Kernel /\ r.made ELSE r.ret = r.asked
  BY <1>1, <1>2, <1>3 DEF FrameOK, Frame
<1>6. Front(frames[t]) \in Seq(Frame) /\ StackOK(Front(frames[t]), None)
  BY <1>1, FrontProps, PopTop
<1> HIDE DEF r
<1> QED
  BY <1>3, <1>4, <1>5, <1>6, ThreadStep DEF None

\* The override handler of a hooked function ends, or its program throws.
LEMMA RunOverrideIInv ==
  ASSUME IInv, NEW t \in Thread, NEW v \in Value \cup {NoValue}, RunOverride(t, v)
  PROVE  IInv'
<1> DEFINE fs == frames[t]
           n == Depth(t)
           fr == IF v = NoValue THEN Top(t) ELSE OverriddenTop(Top(t), override[t], v)
           ran == IF v = NoValue THEN fs ELSE Overridden(t, v)
<1>0. At(t) = "run"
  BY DEF RunOverride
<1>1. /\ fs \in Seq(Frame) /\ fs # <<>> /\ n = Len(fs) /\ n \in Nat \ {0} /\ DOMAIN fs = 1..n
      /\ Top(t) = fs[n] /\ Top(t).at = "run" /\ StackOK(fs, override[t])
      /\ Top(t) \in Frame /\ FrameOK(Top(t)) /\ CallbackOK(Top(t), n, override[t])
  BY <1>0, TopFacts, LenProperties
<1>2. override[t] \in {None, Entry}
  BY <1>1, KeepOutcome DEF FrameOK, CallbackOK, Frame, None
<1>3. /\ ran = [fs EXCEPT ![n] = fr]
      /\ fr \in Frame /\ FrameOK(fr) /\ CallbackOK(fr, n, override[t])
  <2>1. CASE v = NoValue
    <3>1. [fs EXCEPT ![n] = fs[n]] = fs
      BY <1>1
    <3> QED
      BY <1>1, <2>1, <3>1
  <2>2. CASE v # NoValue
    <3>1. v \in Value
      BY <2>2
    <3> QED
      BY <1>0, <2>2, <3>1, OverriddenProps
  <2> QED
    BY <2>1, <2>2
<1>4. UNCHANGED <<tableVars, override, finished>>
  BY DEF RunOverride
<1>5. frames' = [frames EXCEPT ![t] = IF Last(ran).at = "threw" THEN ran ELSE Front(ran)]
  BY DEF RunOverride
<1>6. CASE Last(ran).at = "threw"
  <2>1. frames' = [frames EXCEPT ![t] = [fs EXCEPT ![n] = fr]]
    BY <1>3, <1>5, <1>6
  <2> HIDE DEF fr, ran
  <2> QED
    BY <1>0, <1>3, <1>4, <2>1, ExceptTopIInv
<1>7. CASE Last(ran).at # "threw"
  <2> HIDE DEF fr, ran
  <2>1. ran \in Seq(Frame) /\ Len(ran) = n /\ ran # <<>>
    BY <1>1, <1>3, ExceptSeq, EmptySeq
  <2>2. ran[n] = fr /\ \A d \in 1..(n - 1) : ran[d] = fs[d]
    BY <1>1, <1>3
  <2>3. StackOK(ran, override[t])
    BY <1>1, <1>3, <2>1, <2>2, ReplaceTop
  <2>4. Front(ran) \in Seq(Frame) /\ StackOK(Front(ran), override[t])
    BY <1>2, <2>1, <2>3, FrontProps, PopTop
  <2>5. frames' = [frames EXCEPT ![t] = Front(ran)]
    BY <1>5, <1>7
  <2>6. /\ finished' = [finished EXCEPT ![t] = finished[t]] /\ UNCHANGED tableVars
        /\ override' = [override EXCEPT ![t] = override[t]]
    BY <1>4, KeepOutcome
  <2> QED
    BY <2>4, <2>5, <2>6, KeepOutcome, ThreadStep
<1> QED
  BY <1>6, <1>7

-----------------------------------------------------------------------------
\* Every action keeps the inductive invariant.
LEMMA NextIInv == IInv /\ [Next]_vars => IInv'
<1> SUFFICES ASSUME IInv, [Next]_vars
             PROVE  IInv'
  OBVIOUS
<1>1. CASE UNCHANGED vars
  <2> USE <1>1 DEF vars
  <2>1. TraceType'
    BY DEF IInv, TraceType
  <2>2. CallbackSetsMatchEntries'
    BY DEF IInv, CallbackSetsMatchEntries
  <2>3. DispatchDoesWhatProgramsAsk'
    BY DEF IInv, DispatchDoesWhatProgramsAsk
  <2>4. (\A t \in Thread : StackOK(frames[t], override[t]))'
    BY DEF IInv
  <2> QED
    BY <2>1, <2>2, <2>3, <2>4 DEF IInv
<1>2. ASSUME NEW t \in Thread, EnterDone(t)
      PROVE  IInv'
  <2>1. CASE Top(t).is_overrided
    BY <1>2, <2>1, ReturnIInv
  <2>2. CASE ~Top(t).is_overrided
    BY <1>2, <2>2, AdvanceIInv
  <2> QED
    BY <2>1, <2>2
<1>3. ASSUME NEW t \in Thread, Step(t)
      PROVE  IInv'
  <2>1. ASSUME NEW v \in Value \cup {NoValue}, NEW i \in Id \cup {NoProgram}, RunProgram(t, v, i)
        PROVE  IInv'
    BY <2>1, RunProgramIInv
  <2>2. ASSUME NEW v \in Value \cup {NoValue}, RunOverride(t, v)
        PROVE  IInv'
    BY <2>2, RunOverrideIInv
  <2>3. ASSUME NEW i \in Id \cup {NoProgram}, GlobalPrograms(t, i) \/ Syscall(t, i)
        PROVE  IInv'
    BY <2>3, AdvanceIInv
  <2>4. CASE RunFreedProgram(t)
    BY <2>4, RunFreedIInv
  <2>5. CASE ExitDone(t)
    BY <2>5, ReturnIInv
  <2> QED
    BY <1>2, <1>3, <2>1, <2>2, <2>3, <2>4, <2>5 DEF Step
<1>4. ASSUME Next
      PROVE  IInv'
  <2>1. ASSUME NEW s \in Sys \cup {All}, NEW side \in Side, CreateAttach(s, side)
        PROVE  IInv'
    BY <2>1, CreateAttachIInv
  <2>2. ASSUME NEW i \in Id, DetachById(i)
        PROVE  IInv'
    BY <2>2, DetachByIdIInv
  <2>3. ASSUME NEW t \in Thread, NEW s \in Sys, NEW i \in Id \cup {NoProgram}, Dispatch(t, s, i)
        PROVE  IInv'
    BY <2>3, EnterIInv
  <2>4. ASSUME NEW t \in Thread, OverrideHandler(t)
        PROVE  IInv'
    BY <2>4, EnterIInv
  <2> QED
    BY <1>3, <1>4, <2>1, <2>2, <2>3, <2>4 DEF Next
<1> QED
  BY <1>1, <1>4

\* The inductive invariant of the dispatch holds in every reachable state.
THEOREM TraceInvariant == Spec => []IInv
  BY InitIInv, NextIInv, PTL DEF Spec

\* create_attach_with_ebpf_callback and detach_by_id keep the sets that
\* dispatch_syscall runs in agreement with the entries they own.
THEOREM CallbackSetsAgree == Spec => []CallbackSetsMatchEntries
<1>1. IInv => CallbackSetsMatchEntries
  BY DEF IInv
<1> QED
  BY <1>1, TraceInvariant, PTL

\* curr_thread_override_return_callback never refers to the locals of a
\* dispatch_syscall that has returned or is interrupted by another.
THEOREM CallbacksAreScoped == Spec => []CallbackOutlivesNoDispatch
<1>1. IInv => CallbackOutlivesNoDispatch
  <2> SUFFICES ASSUME IInv, NEW t \in Thread, override[t] \in Nat \ {0}
               PROVE  override[t] = Depth(t) /\ Top(t).kind = "dispatch"
    BY DEF CallbackOutlivesNoDispatch
  <2>1. frames[t] # <<>> /\ CallbackOK(frames[t][Len(frames[t])], Len(frames[t]), override[t])
    BY DEF IInv, StackOK
  <2> QED
    BY <2>1 DEF CallbackOK, Depth, Top, Last
<1> QED
  BY <1>1, TraceInvariant, PTL

\* A dispatch_syscall that nothing interrupted returns what its programs asked
\* for, however many of them ran and whatever other threads did.
THEOREM DispatchIsFaithful == Spec => []DispatchDoesWhatProgramsAsk
<1>1. IInv => DispatchDoesWhatProgramsAsk
  BY DEF IInv
<1> QED
  BY <1>1, TraceInvariant, PTL

\* bpftime_set_retval and bpftime_override_return throw only in a frame that an
\* inner one of the same thread interrupted.
THEOREM OverridesThrowOnlyNested == Spec => []OnlyNestedDispatchesMakeOverridesThrow
<1>1. IInv => OnlyNestedDispatchesMakeOverridesThrow
  <2> SUFFICES ASSUME IInv, NEW t \in Thread, NEW d \in DOMAIN frames[t],
                      frames[t][d].at = "threw"
               PROVE  frames[t][d].disturbed
    BY DEF OnlyNestedDispatchesMakeOverridesThrow
  <2>1. frames[t] \in Seq(Frame) /\ d \in 1..Len(frames[t])
    BY LenProperties DEF IInv, TraceType
  <2> QED
    BY <2>1 DEF IInv, StackOK, FrameOK
<1> QED
  BY <1>1, TraceInvariant, PTL

=============================================================================
