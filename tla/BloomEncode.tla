----------------------------- MODULE BloomEncode -----------------------------
(* BloomEncode: a flag word, then either the whole list or the hash values of  *)
(* the neighbours.  A code is the set of its ones (module BitBlocks).          *)
EXTENDS Integers, Sequences, BitBlocks

CONSTANTS V,             \* VERTEX_SIZE
          Flag,          \* 32 in the code: bits of the flag word and of a slot
          Total,         \* PER_ENCODE_BIT_SIZE
          Params         \* (HASH_PARAM1[0], HASH_PARAM2[1])

BlockNum == (Total - Flag) \div Flag           \* block_size_ of BloomEncode

GetFlag(c) == BlockGet(c, 0, Flag) # 0
SetFlag(c, flag) == BlockSet(c, 0, Flag, IF flag THEN 1 ELSE 0)

(* SetFullEncode: numbers of the given width behind the flag word. *)
SetFullEncode(nums, size) == BlocksSet(SetFlag({}, TRUE), Flag, size, nums)

Mixed(u, w) == Params[1] * u + Params[2] * w

BloomHash(u, w) == (Mixed(u, w) % (Total - Flag)) + Flag

\* Variant: the last neighbour is not hashed.
BloomEncodeShort(u, nums) ==
  IF Len(nums) <= BlockNum THEN SetFullEncode(nums, Flag)
  ELSE SetFlag({}, FALSE) \cup {BloomHash(u, nums[i]) : i \in 1 .. Len(nums) - 1}

BloomEncodeVertex(u, nums) ==
  IF Len(nums) <= BlockNum THEN SetFullEncode(nums, Flag)
  ELSE SetFlag({}, FALSE) \cup {BloomHash(u, nums[i]) : i \in DOMAIN nums}

BloomNonNeighborTest(c, u, w) ==
  IF GetFlag(c) THEN BlockFindSIMD(c, Flag, Flag, BlockNum, w)
  ELSE IF BloomHash(u, w) \in c THEN Uncertain ELSE NonNeighbor
=============================================================================
