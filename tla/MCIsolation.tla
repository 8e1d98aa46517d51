---------------------------- MODULE MCIsolation ----------------------------
(***************************************************************************)
(* Two callers, one key, and memory for three versions of the document, or *)
(* for fewer with reads, replays and conflicts between them.  One write by *)
(* a caller is enough to show a shared cell.                               *)
(***************************************************************************)
EXTENDS Isolation, TLC

CONSTANTS
  c1,
  c2,
  MaxHeap,         \* bound on the cells ever allocated
  MaxAnswers,      \* bound on the answers callers hold
  MaxScribbles     \* bound on the answers callers write to

MCCaller == {c1, c2}

MCSymmetry == Permutations(MCCaller)

MCIsolationNext ==
  /\ IsolationNext
  /\ Len(heap') <= MaxHeap
  /\ Cardinality(answers') <= MaxAnswers
  /\ Cardinality({a \in answers' : a.touched}) <= MaxScribbles

MCIsolationSpec == IsolationInit /\ [][MCIsolationNext]_isolationVars
=============================================================================
