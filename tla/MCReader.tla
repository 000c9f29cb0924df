------------------------------ MODULE MCReader ------------------------------
(* Instances of Reader for TLC. *)
EXTENDS Reader

Unread == [read |-> FALSE, page |-> 0]

\* Two chapters of two pages; the second was left at its second page.
TwoChapters == 2
TwoCounts == [c \in 1 .. 2 |-> 2]
NothingRead == [c \in 1 .. 2 |-> Unread]

\* A chapter of one page before one of two: each input is at a boundary.
GrowingCounts == [c \in 1 .. 2 |-> c]

\* Chapters of two and three pages.
MixedCounts == [c \in 1 .. 2 |-> c + 1]
SecondBegun == [c \in 1 .. 2 |-> IF c = 2 THEN [read |-> FALSE, page |-> 2] ELSE Unread]

AllDevices == {"touch", "mouse", "key", "footer", "topbar", "scroll", "mode"}
=============================================================================
