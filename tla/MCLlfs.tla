------------------------------- MODULE MCLlfs -------------------------------
(* Small instances of Llfs for TLC.                                        *)
EXTENDS Llfs

CONSTANTS f1, f2, f3

\* From one byte, which may be the byte that also marks a free sector, to more
\* than a sector holds.
ShortAndLong == {<<0>>, <<1, 0, 1>>}
OneWrite == {<<1, 0, 1>>}

Symmetry == Permutations({f1, f2})
=============================================================================
