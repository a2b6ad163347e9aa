------------------------- MODULE MCTrampolineWriter -------------------------
(***************************************************************************)
(* Instances of TrampolineWriter for TLC.                                  *)
(***************************************************************************)
EXTENDS TrampolineWriter

I(kind, size) == [kind |-> kind, size |-> size, to |-> 0]
Branch(kind, to) == [kind |-> kind, size |-> 2, to |-> to]

Rest == << I("plain", 15), I("plain", 15) >>

\* Every kind of instruction, branches to and fro inside the prologue, one of them
\* overstretched, and the longest translations a short redirect can meet.
MixedCode ==
  { << I("plain", 1), I("plain", 3), I("plain", 3) >> \o Rest,
    << I("plain", 4), I("call", 5), I("call", 5), I("call", 5) >> \o Rest,
    << I("plain", 2), Branch("jcc", 1), I("rip", 7) >> \o Rest,
    << Branch("jcc", 3), I("jcc", 2), I("call_rip", 6), Branch("jrcxz", 1), I("plain", 5) >> \o Rest,
    << I("jrcxz", 2), Branch("jrcxz", 4), I("call_next", 5), I("push_rip", 6), I("ret", 1) >>,
    << I("jcc", 2), I("jrcxz", 2), I("push_rip", 6), I("rip", 15) >>,
    << I("plain", 4), I("jmp_rip", 6) >>,
    << I("call", 5), I("plain", 6), I("jmp", 5) >>,
    << I("jcc", 2), I("jcc", 2), I("rip", 15) >> \o Rest,
    [i \in 1..8 |-> I("jcc", 2)],
    [i \in 1..8 |-> IF i = 8 THEN Branch("jcc", 1) ELSE I("jcc", 2)],
    << I("ret", 1) >> }

\* Sixteen bytes of short branches to elsewhere, or of pushes from memory.
DenseCode == { [i \in 1..8 |-> I("jcc", 2)], [i \in 1..3 |-> I("push_rip", 6)] }

=============================================================================
