--------------------------- MODULE MCSqliteQueue ---------------------------
(***************************************************************************)
(* Small instances of SqliteQueue for TLC.                                 *)
(***************************************************************************)
EXTENDS SqliteQueue, TLC

CONSTANTS j1, j2, j3, w1, w2, g1

\* Two jobs share a group of limit one, or one job is alone in it; the others have no group.
FirstTwoInGroup == [j \in Jobs |-> IF j \in {j1, j2} THEN g1 ELSE NoGroup]
OnlyFirstInGroup == [j \in Jobs |-> IF j = j1 THEN g1 ELSE NoGroup]
LimitOne == [g \in Groups |-> 1]

\* No job has a missing handler, or the ungrouped one has.
NoneUnhandled == {}
LastUnhandled == {j3}

\* One job may be tried twice, the others once.
Budgets == [j \in Jobs |-> IF j = j1 THEN 2 ELSE 0]

\* Goroutines are interchangeable.
WorkerSymmetry == Permutations(Workers)
=============================================================================
