----------------------------- MODULE CountEncode -----------------------------
(* CountEncode: the flag word and list of BloomEncode, with numbers of         *)
(* ElementSize bits; a list that is too long leaves one counter per hash value *)
(* instead.                                                                    *)
EXTENDS BloomEncode

CONSTANT ElementSize     \* element_size_ = ELEMENT_SIZE

CountNums == (Total - Flag) \div ElementSize     \* element_nums_

(* Counters are numbered from 1: the first begins before the flag word ends    *)
(* when it is shorter than that.                                               *)
CountHash(u, w) == (Mixed(u, w) % CountNums) + 1

CountAt(c, u, w) == BlockGet(c, CountHash(u, w) * ElementSize, ElementSize)

\* Variant: the counter is taken back by every second neighbour.
SetCountParity(u, nums) ==
  LET after[k \in 0 .. Len(nums)] ==
        IF k = 0 THEN SetFlag({}, FALSE)
        ELSE LET prev == after[k - 1]
             IN  BlockSet(prev, CountHash(u, nums[k]) * ElementSize, ElementSize,
                          1 - CountAt(prev, u, nums[k]))
  IN  after[Len(nums)]

SetCountEncode(u, nums) ==
  LET after[k \in 0 .. Len(nums)] ==
        IF k = 0 THEN SetFlag({}, FALSE)
        ELSE LET prev == after[k - 1]
             IN  BlockSet(prev, CountHash(u, nums[k]) * ElementSize, ElementSize,
                          CountAt(prev, u, nums[k]) + 1)
  IN  after[Len(nums)]

CountEncodeVertex(u, nums) ==
  IF Len(nums) <= CountNums THEN SetFullEncode(nums, ElementSize) ELSE SetCountEncode(u, nums)

(* The search of a list stops at the first number that is not above w, as if   *)
(* the list were in descending order.                                          *)
CountNonNeighborTest(c, u, w) ==
  LET num(i)   == BlockGet(c, Flag + (i - 1) * ElementSize, ElementSize)
      notAbove == {i \in 1 .. CountNums : num(i) <= w}
  IN  IF GetFlag(c)
      THEN IF notAbove # {} /\ num(Min(notAbove)) = w THEN Neighbor ELSE NonNeighbor
      ELSE IF CountAt(c, u, w) = 0 THEN NonNeighbor ELSE Uncertain
=============================================================================
