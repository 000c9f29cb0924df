---------------------------- MODULE MCPluginHost ----------------------------
(* Instances of PluginHost for TLC. *)
EXTENDS PluginHost, TLC

CONSTANTS p1, p2, b1, b2, r1, r2, c1

BothOrOne == {{b1, b2}, {b1}}
OnlyOne   == {{b1}}

\* Requests are interchangeable.
Symmetry == Permutations({r1, r2})
=============================================================================
