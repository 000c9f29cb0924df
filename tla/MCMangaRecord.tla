--------------------------- MODULE MCMangaRecord ---------------------------
(***************************************************************************)
(* MangaRecord with two providers, both bound, for TLC.                    *)
(***************************************************************************)
EXTENDS MangaRecord

BoundToBoth == {<<"A", "A">>, <<"B", "B">>}
ReadsA == <<"A", "A">>
=============================================================================
