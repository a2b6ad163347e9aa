--------------------------- MODULE TrampolineWriter -------------------------
(***************************************************************************)
(* How FreeProbe's trampolines are written: the label bookkeeping of the   *)
(* x86 code writer (gum/arch-x86/gumx86writer.c), the relocator that copies *)
(* a function's prologue through it (gum/arch-x86/gumx86relocator.c), and  *)
(* the trampoline with the sampling guard that                             *)
(* backend-x86/guminterceptor-x86.c writes with both.                      *)
(*                                                                         *)
(* One writer serves every function context, under the interceptor's lock, *)
(* so writing a trampoline is one action.  Code is a sequence of pieces:   *)
(* what matters of an instruction is its length and, for a jump to a       *)
(* label, which label and how wide its displacement is.                    *)
(***************************************************************************)
EXTENDS Integers, Sequences, FiniteSets, FiniteSetsExt

CONSTANTS
  Code,         \* functions' first instructions: sequences of Insn
  SliceSize,    \* GUM_INTERCEPTOR_CODE_SLICE_SIZE
  MaxContexts   \* bound: trampolines written

\* What the relocator tells apart, each instruction with its length; "to" is
\* the instruction a conditional branch leads to, 0 for one further away.
Kind == {"plain", "rip", "push_rip", "call_rip", "jmp_rip", "call", "call_next",
         "jmp", "ret", "jcc", "jrcxz"}

\* The shortest encoding: an opcode and a disp8, a disp32, or a ModRM and a disp32.
Shortest(kind) ==
  CASE kind \in {"plain", "ret"} -> 1
    [] kind \in {"jcc", "jrcxz", "jmp"} -> 2
    [] kind \in {"call", "call_next"} -> 5
    [] kind \in {"rip", "push_rip", "call_rip", "jmp_rip"} -> 6

Insn == {i \in [kind : Kind, size : 1..15, to : Nat] : i.size >= Shortest(i.kind)}

ASSUME CodeAssumption == Code \subseteq Seq(Insn)
ASSUME SliceSizeAssumption == SliceSize \in Nat \ {0}
ASSUME MaxContextsAssumption == MaxContexts \in Nat

\* GUM_INTERCEPTOR_NEAR_REDIRECT_SIZE, GUM_INTERCEPTOR_FULL_REDIRECT_SIZE
NearRedirect == 5
FullRedirect == 16

\* Slices are far enough apart for one that overflows to be told from the next.
SliceOf(n) == 1000 * n

VARIABLES
  writer,     \* GumInterceptorBackend.writer
  memory,     \* displacement stored in the jump that ends at an address
  contexts    \* the trampolines written so far

vars == <<writer, memory, contexts>>

\* The sums f[1] + ... + f[k] for k up to n.
RunningSum(f, n) ==
  LET sum[k \in 0..n] == IF k = 0 THEN 0 ELSE sum[k - 1] + f[k] IN sum

-----------------------------------------------------------------------------
(* The writer.                                                             *)

Bytes(n) == [op |-> "bytes", len |-> n, id |-> <<>>, wide |-> FALSE]
Label(i) == [op |-> "label", len |-> 0, id |-> i, wide |-> FALSE]
Flush == [op |-> "flush", len |-> 0, id |-> <<>>, wide |-> FALSE]

\* put_jcc_short_label, put_jmp_short_label: GUM_LREF_SHORT
ShortJump(i) == [op |-> "jump", len |-> 2, id |-> i, wide |-> FALSE]
\* put_jmp_near_label, put_call_indirect_label: GUM_LREF_NEAR
NearJump(i) == [op |-> "jump", len |-> 5, id |-> i, wide |-> TRUE]
IndirectCall(i) == [op |-> "jump", len |-> 6, id |-> i, wide |-> TRUE]

\* gum_x86_writer_put_jmp_address: with a disp32 or, out of its reach, the
\* address in the code stream.  Its form of two bytes, for an address less than
\* 128 bytes away, is left out: slices lie in pages of their own, and where a
\* page's border brings them that close the trampoline is only shorter.
JmpAddress(near) == Bytes(IF near THEN 5 ELSE 16)

Fits(r, distance) == r.wide \/ distance \in -128..127

\* Mutant of Reset: the labels of the trampoline before stay.
ResetKeepsLabels(w, address) == [w EXCEPT !.base = address, !.code = address]

\* gum_x86_writer_reset
Reset(w, address) ==
  [base |-> address, code |-> address, label_defs |-> {}, label_refs |-> <<>>]

Defined(w, i) == \E d \in w.label_defs : d.id = i
AddressOf(w, i) == (CHOOSE d \in w.label_defs : d.id = i).address

\* gum_x86_writer_flush: the references are patched in order up to the first
\* whose label is not defined or out of its reach; all of them are forgotten.
Resolvable(w, r) == Defined(w, r.id) /\ Fits(r, AddressOf(w, r.id) - r.address)

PatchedRefs(w) ==
  {i \in DOMAIN w.label_refs : \A j \in 1..i : Resolvable(w, w.label_refs[j])}

Patch(w, mem) ==
  LET patched == {w.label_refs[i] : i \in PatchedRefs(w)} IN
  [a \in DOMAIN mem |->
     IF \E r \in patched : r.address = a
     THEN AddressOf(w, (CHOOSE r \in patched : r.address = a).id) - a
     ELSE mem[a]]

\* One call of the writer, on its state and the memory it writes to.  A jump to
\* a label is first written as a jump to itself; a label is defined once.
Put(s, p) ==
  LET w == s.writer
      here == w.code + p.len
  IN
  CASE p.op = "bytes" -> [s EXCEPT !.writer.code = here]
    [] p.op = "label" ->
         IF Defined(w, p.id) THEN s
         ELSE [s EXCEPT !.writer.label_defs = @ \cup {[id |-> p.id, address |-> here]}]
    [] p.op = "jump" ->
         [writer |-> [w EXCEPT
            !.code = here,
            !.label_refs = Append(@, [id |-> p.id, address |-> here, wide |-> p.wide])],
          memory |-> [a \in DOMAIN s.memory \cup {here} |->
                        IF a = here THEN -p.len ELSE s.memory[a]]]
    [] p.op = "flush" ->
         IF w.label_defs = {} THEN s
         ELSE [writer |-> [w EXCEPT !.label_refs = <<>>],
               memory |-> Patch(w, s.memory)]

PutAll(s, pieces) ==
  LET done[k \in 0..Len(pieces)] == IF k = 0 THEN s ELSE Put(done[k - 1], pieces[k])
  IN done[Len(pieces)]

-----------------------------------------------------------------------------
(* The relocator.                                                          *)

\* read_one sets eoi: nothing follows this instruction.
EndsInput(insn) == insn.kind \in {"jmp", "jmp_rip", "ret"}

SizeOf(code, n) == RunningSum([i \in 1..n |-> code[i].size], n)[n]

\* Mutant of Enough: as much is read for a short redirect as for a long one.
EnoughForFull(code, min_bytes) == {n \in DOMAIN code : SizeOf(code, n) >= FullRedirect}

\* The instructions read until min_bytes of input have been, and whether there
\* are enough of them before the end of input: gum_x86_relocator_can_relocate.
Enough(code, min_bytes) == {n \in DOMAIN code : SizeOf(code, n) >= min_bytes}
CanRelocate(code, min_bytes) ==
  /\ Enough(code, min_bytes) # {}
  /\ \A i \in 1..(Min(Enough(code, min_bytes)) - 1) : ~EndsInput(code[i])

\* gum_x86_writer_put_call_address: out of a disp32's reach the call goes through
\* a quadword that a short jump skips.
CallAddress(i, near) ==
  IF near THEN <<Bytes(5)>>
  ELSE << IndirectCall(<<i, "storage">>), ShortJump(<<i, "carry_on">>),
          Label(<<i, "storage">>), Bytes(8), Label(<<i, "carry_on">>) >>

\* gum_x86_relocator_rewrite_conditional_branch, n instructions having been read
RewriteConditional(insn, i, n, near) ==
  IF insn.to \in 1..n THEN << ShortJump(<<insn.to, "insn">>) >>
  ELSE IF insn.kind = "jcc" /\ near THEN <<Bytes(6)>>
  ELSE << ShortJump(<<i, "is_true">>), ShortJump(<<i, "is_false">>),
          Label(<<i, "is_true">>), JmpAddress(near), Label(<<i, "is_false">>) >>

\* gum_x86_relocator_rewrite_if_rip_relative: an operand out of reach is
\* accessed through a scratch register saved below the red zone, a call or jump
\* through the stack.
RewriteRipRelative(insn, near) ==
  IF near THEN Bytes(insn.size)
  ELSE CASE insn.kind = "rip" -> Bytes(insn.size + 28)
         [] insn.kind = "push_rip" -> Bytes(44)
         [] insn.kind = "call_rip" -> Bytes(35)
         [] insn.kind = "jmp_rip" -> Bytes(20)

\* gum_x86_relocator_write_one: the instruction's label and its translation.
\* An unconditional branch always leads to the address it led to.
WriteOne(insn, i, n, near) ==
  << Label(<<i, "insn">>) >> \o
  CASE insn.kind \in {"jcc", "jrcxz"} -> RewriteConditional(insn, i, n, near)
    [] insn.kind \in {"rip", "push_rip", "call_rip", "jmp_rip"} ->
         << RewriteRipRelative(insn, near) >>
    [] insn.kind = "call" -> CallAddress(i, near)
    [] insn.kind = "call_next" -> << Bytes(15) >>
    [] insn.kind = "jmp" -> << JmpAddress(near) >>
    [] insn.kind \in {"plain", "ret"} -> << Bytes(insn.size) >>

\* gum_x86_relocator_write_all
WriteAll(code, n, near) ==
  LET written[k \in 0..n] ==
        IF k = 0 THEN <<>> ELSE written[k - 1] \o WriteOne(code[k], k, n, near)
  IN written[n]

-----------------------------------------------------------------------------
(* The interceptor's backend.                                              *)

\* reach: what a disp32 in this slice can address.
Reach == SUBSET {"thunk", "function", "target"}

\* The context pointer, the push of it at on_enter_trampoline, and the sampling
\* guard up to the jl.
GuardHead == << Bytes(8 + 6 + 3 + 5 + 9 + 7 + 4 + 2 + 3 + 7), ShortJump(<<0, "sampling_skip">>) >>

\* The reset of the bucket and jmp enter_thunk; the fast path; on_leave_trampoline.
GuardTail(nearThunk) ==
  << Bytes(4 + 3), JmpAddress(nearThunk), Label(<<0, "sampling_skip">>),
     Bytes(3 + 4), NearJump(<<0, "invoke_trampoline">>), Bytes(6), JmpAddress(nearThunk) >>

\* _gum_interceptor_backend_create_trampoline: a fast context has nothing but
\* on_invoke_trampoline.
Trampoline(x) ==
  LET relocated == WriteAll(x.code, x.n, "target" \in x.reach)
      back == IF EndsInput(x.code[x.n]) THEN <<>> ELSE << JmpAddress("function" \in x.reach) >>
  IN (IF x.fast THEN <<>> ELSE GuardHead \o GuardTail("thunk" \in x.reach))
       \o << Label(<<0, "invoke_trampoline">>) >> \o relocated \o back \o <<Flush>>

\* gum_interceptor_backend_prepare_trampoline: a slice allocated near the
\* function needs a short redirect; a fast context does not ask for one.
RedirectSize(near) == IF near THEN NearRedirect ELSE FullRedirect

\* gum_interceptor_backend_create_thunks has left the writer behind a thunk.
Init ==
  /\ writer = [base |-> 0, code |-> 0, label_defs |-> {}, label_refs |-> <<>>]
  /\ memory = <<>>
  /\ contexts = <<>>

CreateTrampoline(fast, near, reach, code) ==
  LET redirect == RedirectSize(near)
      x == [fast |-> fast, reach |-> reach, code |-> code, redirect |-> redirect,
            n |-> Min(Enough(code, redirect)), base |-> SliceOf(Len(contexts) + 1),
            pieces |-> <<>>]
      pieces == Trampoline(x)
      done == PutAll([writer |-> Reset(writer, x.base), memory |-> memory], pieces)
  IN
  /\ Len(contexts) < MaxContexts
  /\ fast => ~near
  /\ near => "function" \in reach
  /\ CanRelocate(code, redirect)
  /\ writer' = done.writer
  /\ memory' = done.memory
  /\ contexts' = Append(contexts, [x EXCEPT !.pieces = pieces])

\* _gum_interceptor_backend_activate_trampoline writes the redirect, with the
\* same writer and no labels, over the prologue: a jump to on_enter_trampoline,
\* or to the replacement of a fast context, wherever that is.
ActivateTrampoline(c, near) ==
  LET x == contexts[c]
      padding == Bytes(SizeOf(x.code, x.n) - JmpAddress(near).len)
      done == PutAll([writer |-> Reset(writer, 0), memory |-> memory],
                     <<JmpAddress(near), Flush, padding, Flush>>)
  IN
  /\ x.fast \/ near = ("function" \in x.reach)
  /\ writer' = done.writer
  /\ memory' = done.memory
  /\ UNCHANGED contexts

Next ==
  \/ \E fast, near \in BOOLEAN, reach \in Reach, code \in Code :
       CreateTrampoline(fast, near, reach, code)
  \/ \E c \in DOMAIN contexts, near \in BOOLEAN : ActivateTrampoline(c, near)

Spec == Init /\ [][Next]_vars

-----------------------------------------------------------------------------
\* Where the pieces of a trampoline end, from their lengths alone.
Ends(x) ==
  LET n == Len(x.pieces)
      sum == RunningSum([i \in 1..n |-> x.pieces[i].len], n)
  IN [k \in 0..n |-> x.base + sum[k]]

Jumps(x) == {j \in DOMAIN x.pieces : x.pieces[j].op = "jump"}
LabelsOf(x, j) == {k \in DOMAIN x.pieces : x.pieces[k] = Label(x.pieces[j].id)}

\* A short branch inside a prologue that is relocated out of reach of what its
\* instructions refer to can end up too far from its label.
Overstretched(x) ==
  /\ x.redirect = FullRedirect /\ "target" \notin x.reach
  /\ \E j \in Jumps(x) : \E k \in LabelsOf(x, j) : ~Fits(x.pieces[j], Ends(x)[k] - Ends(x)[j])

\* Every jump to a label leads to that label in its own trampoline, whichever
\* trampolines were written before and after with the same writer, and none is left
\* as a jump to itself: those of the sampling guard whatever the prologue is, those of
\* the relocated prologue unless a branch in it is overstretched.
JumpsReachTheirLabels ==
  \A c \in DOMAIN contexts :
    LET x == contexts[c]
        end == Ends(x)
    IN \A j \in Jumps(x) :
         \/ \E k \in LabelsOf(x, j) : memory[end[j]] = end[k] - end[j]
         \/ x.pieces[j].id[1] # 0 /\ Overstretched(x)

Length(x) == Ends(x)[Len(x.pieces)] - x.base

\* A trampoline for a slice allocated near its function fits the slice, sampling
\* guard included, whatever the prologue is rewritten to.
NearTrampolinesFit ==
  \A c \in DOMAIN contexts :
    contexts[c].redirect = NearRedirect => Length(contexts[c]) <= SliceSize

\* The assertion of guminterceptor-x86.c:309, for every slice.
TrampolinesFit == \A c \in DOMAIN contexts : Length(contexts[c]) <= SliceSize

=============================================================================
