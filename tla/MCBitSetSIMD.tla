---------------------------- MODULE MCBitSetSIMD -----------------------------
EXTENDS BitSetSIMD

CONSTANT Begins, Sizes

MCBlocks == {b \in Begins \X Sizes :
               /\ b[1] + b[2] <= 8 * Bytes
               /\ b[1] >= 8 * IndexBytes => (b[1] % 8) + b[2] > 8}

(* Zero, one, alternating bits, the largest number that fits and the smallest  *)
(* that does not (a vertex id equal to a power of two).                        *)
MCValues == [n \in Sizes |-> {0, 1, (2^n) \div 3, 2^n - 1, 2^n}]
=============================================================================
