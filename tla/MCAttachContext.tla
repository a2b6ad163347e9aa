--------------------------- MODULE MCAttachContext --------------------------
(***************************************************************************)
(* Instances of AttachContext for TLC.                                     *)
(***************************************************************************)
EXTENDS AttachContext

\* The threads that run bpftime_agent_main are alike.
Symmetry == Permutations(Injector)

Used == {fd \in Fd : ~Is(fd, "unused")}

\* Links lead to the first n descriptors.
TargetsIn(n) == \A l \in Used : Is(l, "link") => handlers[l].target \in 1..n

KindsIn(kinds) == \A fd \in Used : Is(fd, "perf") => handlers[fd].kind \in kinds

\* A link is in the table, attached, or being instantiated.
LinkAround ==
  \/ attaches # {}
  \/ \E l \in Used : Is(l, "link")
  \/ \E i \in Injector : agent[i].stack # <<>>

\* Tables of three descriptors change up to four times, at any time (three times
\* around an agent that came by LD_PRELOAD, which gets no signal).  After the last
\* change, what follows is of interest only while something can be attached.
Raced ==
  /\ Used \subseteq 1..3 /\ TargetsIn(3) /\ KindsIn({"uprobe", "unhookable"})
  /\ serverOps <= (IF injected_with_frida THEN 4 ELSE 3)
  /\ serverOps = 4 => LinkAround

\* Larger ones are filled once, before one initialization that no signal disturbs;
\* five descriptors in order, behind the only program.
Undisturbed ==
  /\ injected_with_frida /\ inits <= 1 /\ signals = 0
  /\ Cardinality(Used) = serverOps /\ (inits = 1 => changed = 0)
  /\ IF 5 \notin Used THEN TargetsIn(4)
     ELSE /\ Used = 1..5 /\ KindsIn({"uprobe", "unhookable"})
          /\ \A fd \in Fd : Is(fd, "prog") <=> handlers[fd] = Prog(TRUE) /\ fd = 1

Bound == Raced \/ Undisturbed

=============================================================================
