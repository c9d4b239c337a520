--------------------------- MODULE DeltaSIMDEncode ---------------------------
(* DeltaSIMDEncode and its versions V1 to V3.  The first byte of a code has    *)
(* the decodable bit, two bits for the type of the block and five for its      *)
(* size; then come the block in a codec's layout and the hash bits.  A code is *)
(* the set of its ones (module BitBlocks).                                     *)
EXTENDS DeltaSIMDCodec, BitBlocks

CONSTANTS V,             \* VERTEX_SIZE
          PerBits        \* PER_ENCODE_BIT_SIZE

MaxBytesLen == (PerBits \div 8) - 1

FullHash == 1
LeftMost == 2
RightMost == 4
Middle == 8

IsDecodable(c) == 0 \in c

\* Variant: one slot too many.
HashOneMore(w, begin) == (w % ((PerBits - begin + 1) % Word)) + begin

Hash(w, begin) == (w % ((PerBits - begin) % Word)) + begin

SetEncodeSize(c, size) == BlockSet(c, 3, 5, size)
GetEncodeSize(c) == BlockGet(c, 3, 5)

SetBlockModel(c, type) ==
  BlockSet(c, 1, 2, CASE type = LeftMost -> 0 [] type \in {FullHash, Middle} -> 1 [] type = RightMost -> 3)

GetBlockModel(c) == IF 1 \in c THEN RightMost ELSE IF 2 \in c THEN Middle ELSE LeftMost

(* Bytes written from the second byte of the code on. *)
PutBytes(c, bytes) == FoldLeftDomain(LAMBDA acc, i : BlockSet(acc, 8 * i, 8, bytes[i]), c, bytes)

(* GetEncodePointer; behind the code the memory holds junk.  A size of five    *)
(* bits reaches no further than 8 + 31 * 4 + 12 bytes.                         *)
GetEncodePointer(c, junk) ==
  [i \in 1 .. MaxBytesLen |-> BlockGet(c, 8 * i, 8)] \o [i \in 1 .. 144 |-> junk]

IsOne(c, pos, junk) == IF pos < PerBits THEN pos \in c ELSE BitOf(junk, 7 - (pos % 8)) = 1
-----------------------------------------------------------------------------
(* A block is its first index (from 1 on) and its size. *)
TypeOf(list, block) ==
  CASE block[2] = 0 -> FullHash
    [] block[2] > 0 /\ block[1] + block[2] - 1 = Len(list) -> RightMost
    [] block[1] = 1 /\ block[2] \in 1 .. Len(list) - 1 -> LeftMost
    [] OTHER -> Middle

Inside(list, block) == SubSeq(list, block[1], block[1] + block[2] - 1)

\* Variant: the neighbour right behind the block is lost.
OutsideSkipsOne(list, block) ==
  SubSeq(list, 1, block[1] - 1) \o SubSeq(list, block[1] + block[2] + 1, Len(list))

Outside(list, block) == SubSeq(list, 1, block[1] - 1) \o SubSeq(list, block[1] + block[2], Len(list))

(* The bytes DynamicChoose reckons with; V3 counts the control bytes twice. *)
BlockBytes(ver, list, block) ==
  GetRequiredBytes(ver, Inside(list, block)) + IF ver = "V3" THEN Groups(block[2]) ELSE 0

(* The blocks in the order they are tried: from each neighbour on, of growing  *)
(* size until one does not fit.                                                *)
Tried(ver, list) ==
  LET n == Len(list)
      least(b) == IF b \in {1, n} THEN 1 ELSE 2
      fits(b, s) == BlockBytes(ver, list, <<b, s>>) <= MaxBytesLen
      most(b) == Max({least(b) - 1} \cup
                     {s \in least(b) .. n - b + 1 : \A t \in least(b) .. s : fits(b, t)})
  IN  FlattenSeq([b \in 1 .. n |-> [i \in 1 .. most(b) - least(b) + 1 |-> <<b, least(b) + i - 1>>]])

HashBits(ver, list, block) == (MaxBytesLen - BlockBytes(ver, list, block)) * 8

(* Distinct hash values of the neighbours outside a block. *)
HashCount(list, block, bits) ==
  LET out == Outside(list, block) IN Cardinality({out[i] % bits : i \in DOMAIN out})

FullHashScoreCount(list) ==
  LET bits == MaxBytesLen * 8
  IN  ((V * (bits - HashCount(list, <<1, 0>>, bits))) % Word) \div bits

(* The vertices between the ends of a block. *)
Span(list, block) ==
  LET first == list[block[1]]
      last  == list[block[1] + block[2] - 1]
  IN  CASE TypeOf(list, block) = RightMost -> V - first + 1
        [] TypeOf(list, block) = LeftMost  -> last
        [] OTHER                           -> last - first + 1

(* ScoreCount, by which V0, V1 and V2 choose: whether a block is taken after   *)
(* one of the given score, and its own score.                                  *)
ScoreCount(list, block, bits, score) ==
  LET span == Span(list, block)
      most == IF span >= score THEN bits
              ELSE bits - (((score - span) * bits) % Word) \div (V - span)
      count == HashCount(list, block, bits)
      new == span + (((V - span) * (bits - count)) % Word) \div bits
  IN  IF bits = 0 THEN [taken |-> span > score, score |-> span]
      ELSE [taken |-> (Len(list) - block[2]) * 35 <= most * 100 /\ count <= most, score |-> new]

(* HashCount::GetVal, by which V3 chooses. *)
GetVal(list, block, bits, score) ==
  LET type == TypeOf(list, block)
      first == IF type = LeftMost THEN 0 ELSE list[block[1]]
      last  == IF type = RightMost THEN V ELSE list[block[1] + block[2] - 1]
      zero == IF bits = 0 THEN 0
              ELSE ((V - last + first) \div bits) * (bits - HashCount(list, block, bits))
      new == (last - first + 1 + zero) % Word
  IN  [taken |-> new > score, score |-> new]

Score(ver, list, block, score) ==
  IF ver = "V3" THEN GetVal(list, block, HashBits(ver, list, block), score)
  ELSE ScoreCount(list, block, HashBits(ver, list, block), score)

(* The best of the blocks tried; at first there is none. *)
BestOf(ver, list, tried) ==
  LET best[i \in 0 .. Len(tried)] ==
        IF i = 0 THEN [score |-> FullHashScoreCount(list), block |-> <<1, 0>>]
        ELSE LET prev == best[i - 1]
                 val  == Score(ver, list, tried[i], prev.score)
             IN  IF val.taken THEN [score |-> val.score, block |-> tried[i]] ELSE prev
  IN  best[Len(tried)].block

(* DynamicChoose, up to ConstructEncode. *)
BestBlock(ver, list) == BestOf(ver, list, Tried(ver, list))

(* The parts of a code around the bytes of a block.  The size is written only  *)
(* when there is a block.                                                      *)
PutParts(c, list, block, bytes) ==
  LET type  == TypeOf(list, block)
      model == SetBlockModel(c, type)
      sized == IF type = FullHash THEN model ELSE SetEncodeSize(model, block[2])
      hash_begin == (Len(bytes) + 1) * 8
      out   == Outside(list, block)
  IN  PutBytes(sized, bytes)
        \cup IF hash_begin = PerBits THEN {} ELSE {Hash(out[i], hash_begin) : i \in DOMAIN out}

ConstructEncode(ver, c, list, block) ==
  PutParts(c, list, block, IF block[2] = 0 THEN <<>> ELSE EncodeArray(ver, Inside(list, block)))

(* V3: more than 40 integers are reckoned with one byte each. *)
EncodeByteLen(ver, list) ==
  IF ver = "V3" /\ Len(list) > 40 THEN Len(list) + Groups(Len(list)) ELSE GetRequiredBytes(ver, list)

Fits(ver, list) == EncodeByteLen(ver, list) <= MaxBytesLen

(* EncodeVertex.  V3 first writes the number of bytes into the field of the    *)
(* size, whatever it is.                                                       *)
EncodeVertex(ver, c, list) ==
  LET start == IF ver = "V3" THEN SetEncodeSize(c, EncodeByteLen(ver, list)) ELSE c
  IN  IF list = <<>> THEN start \cup {0}
      ELSE IF Fits(ver, list)
           THEN PutBytes(SetEncodeSize(start \cup {0}, Len(list)), EncodeArray(ver, list))
      ELSE ConstructEncode(ver, start, list, BestBlock(ver, list))
-----------------------------------------------------------------------------
FindDecodable(ver, c, w, junk) ==
  IF GetEncodeSize(c) # 0 /\ FindWithCount(ver, GetEncodePointer(c, junk), GetEncodeSize(c), w) = EXIST
  THEN Neighbor ELSE NonNeighbor

(* res & type: the side of the block that its type says has no neighbour. *)
Ruled(res, type) == res = NOT_EXIST \/ (res = LESS_THAN_MIN /\ type = LeftMost)
                                    \/ (res = GRATER_THAN_MAX /\ type = RightMost)

FromHash(c, w, hash_begin, junk) ==
  IF hash_begin = PerBits \/ IsOne(c, Hash(w, hash_begin), junk) THEN Uncertain ELSE NonNeighbor

(* With the result of the search in the block. *)
AfterFind(c, w, res, junk) ==
  IF res = EXIST THEN Neighbor
  ELSE IF Ruled(res, GetBlockModel(c)) THEN NonNeighbor
  ELSE FromHash(c, w, (1 + GetEncodeLength(GetEncodePointer(c, junk), GetEncodeSize(c))) * 8, junk)

FindNonDecodable(ver, c, w, junk) ==
  IF GetEncodeSize(c) = 0 THEN FromHash(c, w, 8, junk)
  ELSE AfterFind(c, w, FindWithCount(ver, GetEncodePointer(c, junk), GetEncodeSize(c), w), junk)

NonNeighborTest(ver, c, w, junk) ==
  IF IsDecodable(c) THEN FindDecodable(ver, c, w, junk) ELSE FindNonDecodable(ver, c, w, junk)
=============================================================================
