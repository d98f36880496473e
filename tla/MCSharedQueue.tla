--------------------------- MODULE MCSharedQueue ---------------------------
(***************************************************************************)
(* SharedQueue on a small instance.                                        *)
(***************************************************************************)
EXTENDS SharedQueue

CONSTANTS
  MaxInserts,   \* bound on the number of insertions
  t1, t2, t3, a, b

ThreeThreads == {t1, t2, t3}
TwoItems == {a, b}

BoundedNext == QueueNext /\ next_ticket' <= MaxInserts

BoundedSpec == QueueInit /\ [][BoundedNext]_queueVars

BoundedFairSpec ==
  BoundedSpec /\ \A t \in Threads : WF_queueVars(Continue(t))
=============================================================================
