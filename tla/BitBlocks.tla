------------------------------ MODULE BitBlocks ------------------------------
(* What the block operations of BitSetSIMD mean.  A bit set is the set of the  *)
(* positions that are one; position 0 is the most significant bit of byte 0,   *)
(* and a block is read as a big-endian number.  Module BitSetSIMD shows that   *)
(* the byte and mask arithmetic of the code computes these operators.          *)
EXTENDS Integers, Sequences, FiniteSetsExt, PairTypes

(* value >> n *)
Shifted(value, n) ==
  LET shifted[k \in 0 .. n] == IF k = 0 THEN value ELSE shifted[k - 1] \div 2
  IN  shifted[n]

BitOf(value, i) == Shifted(value, i) % 2

(* The value needs no more than size bits. *)
FitsIn(value, size) == Shifted(value, size) = 0

(* ceil(log2(n)): the bits of the numbers below n. *)
CeilLog2(n) == CHOOSE i \in 0 .. n : FitsIn(n - 1, i) /\ (i > 0 => ~ FitsIn(n - 1, i - 1))

BlockGet(ones, begin, size) ==
  LET value[k \in 0 .. size] ==
        IF k = 0 THEN 0 ELSE 2 * value[k - 1] + IF begin + k - 1 \in ones THEN 1 ELSE 0
  IN  value[size]

(* A value wider than the block is not masked: its upper bits are or-ed into   *)
(* the bits before the block, as far as the byte in which the block begins.    *)
BlockSet(ones, begin, size, value) ==
  (ones \ (begin .. begin + size - 1))
    \cup {p \in 8 * (begin \div 8) .. begin + size - 1 : BitOf(value, begin + size - 1 - p) = 1}

(* The numbers of a list in consecutive blocks. *)
BlocksSet(ones, begin, size, nums) ==
  LET after[k \in 0 .. Len(nums)] ==
        IF k = 0 THEN ones ELSE BlockSet(after[k - 1], begin + (k - 1) * size, size, nums[k])
  IN  after[Len(nums)]

(* BlockSet when the bits in the first byte of a block of several bytes go to  *)
(* byte first instead: begin_idx has eight bits, and wraps in a long bit set.  *)
BlockSetAt(ones, first, begin, size, value) ==
  LET last  == begin + size - 1
      begun == 8 * (begin \div 8)
      Placed(P) == {IF p < begun + 8 /\ last >= begun + 8 THEN 8 * first + p - begun ELSE p : p \in P}
  IN  (ones \ Placed(begin .. last))
        \cup Placed({p \in begun .. last : BitOf(value, last - p) = 1})

(* Linear search through num blocks that are expected in ascending order: it   *)
(* stops at the first block that is not below the value.                       *)
BlockFind(ones, begin, size, num, value) ==
  LET block(i) == BlockGet(ones, begin + i * size, size)
      notBelow == {i \in 0 .. num - 1 : block(i) >= value}
  IN  IF notBelow # {} /\ block(Min(notBelow)) = value THEN Neighbor ELSE NonNeighbor

(* The search of the SIMD variant compares every block, in any order. *)
BlockFindSIMD(ones, begin, size, num, value) ==
  IF \E i \in 0 .. num - 1 : BlockGet(ones, begin + i * size, size) = value
  THEN Neighbor ELSE NonNeighbor
=============================================================================
