--------------------------- MODULE MCInMemoryQueue ---------------------------
(* Small instances of InMemoryQueue for TLC.                                *)
EXTENDS InMemoryQueue

CONSTANTS j1, j2, j3

AllTwice == [j \in Jobs |-> 2]
=============================================================================
