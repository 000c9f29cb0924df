--------------------------- MODULE MCPullPipeline ---------------------------
(***************************************************************************)
(* Small instances of PullPipeline for TLC.                                *)
(***************************************************************************)
EXTENDS PullPipeline, TLC

CONSTANTS c1, c2, p1, p2

\* The pipeline takes the missing chapters as a set and none is imported.
ChapterSymmetry == Permutations({c1, c2})
=============================================================================
