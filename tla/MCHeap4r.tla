------------------------------ MODULE MCHeap4r ------------------------------
(* Small instances of Heap4r for TLC.                                      *)
EXTENDS Heap4r, TLC

CONSTANTS t1, t2

Symmetry == Permutations({t1, t2})

\* Nothing, less than a unit, whole units, the largest sizes that a header can
\* be added to, those that it cannot, and a product that does not fit.
AllSizes == {<<1, 0>>, <<1, 1>>, <<1, 16>>, <<1, 17>>, <<2, 16>>, <<1, 120>>,
             <<1, 247>>, <<1, 248>>, <<1, 255>>, <<32, 8>>}
=============================================================================
