---------------------------- MODULE HybridEncode -----------------------------
(* HybridEncode: a vertex code is PerBits bits.  A short list is stored in     *)
(* full from bit 1 on (bit 0 is one).  Of a longer list one contiguous block   *)
(* is stored and the rest is hashed into the bits that are left:               *)
(*   | 0 | model (2) | block size (LogK) | block (size * VBits) | hash |       *)
(* A code is the set of its one bits (module BitBlocks).                       *)
EXTENDS Integers, Sequences, BitBlocks

CONSTANTS V,             \* VERTEX_SIZE
          PerBits,       \* PER_ENCODE_BIT_SIZE
          Word           \* 2^32 in the code: scores are computed modulo Word

VBits          == CeilLog2(V)
MaxKCoreSize   == (PerBits - 1) \div VBits
LogK           == CeilLog2(MaxKCoreSize + 1)
MaxIntegerSize == (PerBits - 3 - LogK) \div VBits
BlockBegin     == 3 + LogK
Upper          == V + 1                \* vertex_id_upper_

(* A code has room for its header and one id, a word for the numbers of a      *)
(* score, and an id as many bits as the last one needs, which is one more than *)
(* the others when V is a power of two.                                        *)
HasRoom == /\ V \in Nat /\ V > 1 /\ Word \in Nat /\ Word > 4 * V
           /\ PerBits \in Nat /\ PerBits > 0 /\ MaxIntegerSize > 0
IdsFit  == FitsIn(V, VBits)

FullHash == 1
LeftMost == 2
RightMost == 4
Middle == 8

\* Variant: one cell too many.
HashOneMore(v, begin) == (v % (PerBits - begin + 1)) + begin

Hash(v, begin) == (v % (PerBits - begin)) + begin

IsDecodable(c) == 0 \in c

(* SetBlockModel: the two bits of a block type. *)
ModelBits(type) == CASE type = LeftMost -> 0 [] type \in {FullHash, Middle} -> 1 [] type = RightMost -> 3

GetBlockModel(c) == IF 1 \in c THEN RightMost ELSE IF 2 \in c THEN Middle ELSE LeftMost

GetBlockNum(c) == BlockGet(c, 3, LogK)

PutList(c, begin, list) == BlocksSet(c, begin, VBits, list)
-----------------------------------------------------------------------------
(* The choice of the block.  A candidate is the size of the block and the      *)
(* (0-based) index of its first neighbour; DynamicChoose tries them in the     *)
(* order of sizes, then of indices.                                            *)
Candidates(n) ==
  {<<0, 0>>} \cup {c \in (1 .. MaxIntegerSize) \X (0 .. n) :
                     c[1] + c[2] <= n /\ (c[1] = 1 => c[2] \in {0, n - 1})}

TypeOf(cand, n) == CASE cand[1] = 0 -> FullHash
                     [] cand[1] > 0 /\ cand[2] = 0 -> LeftMost
                     [] cand[1] > 0 /\ cand[2] = n - cand[1] /\ cand[2] > 0 -> RightMost
                     [] OTHER -> Middle

Block(list, cand) == SubSeq(list, cand[2] + 1, cand[2] + cand[1])
\* Variant: the neighbour right after the block is lost.
LeftSkipsOne(list, cand) == SubSeq(list, 1, cand[2]) \o SubSeq(list, cand[2] + cand[1] + 2, Len(list))

Left(list, cand)  == SubSeq(list, 1, cand[2]) \o SubSeq(list, cand[2] + cand[1] + 1, Len(list))

HashSize(cand) == PerBits - BlockBegin - cand[1] * VBits

(* hash_count_: distinct hash values of the neighbours outside the block.  The *)
(* right-most block is scored with another count: of one neighbour, without    *)
(* the neighbour before it; of several, with the count of the block one        *)
(* position to its left, because the count is not moved on after the loop.     *)
Counted(list, cand) ==
  IF TypeOf(cand, Len(list)) = RightMost
  THEN IF cand[1] = 1 THEN SubSeq(list, 1, Len(list) - 2)
                      ELSE Left(list, <<cand[1], cand[2] - 1>>)
  ELSE Left(list, cand)

HashCount(list, cand) ==
  LET outside == Counted(list, cand)
  IN  IF HashSize(cand) = 0 THEN 0 ELSE Cardinality({outside[i] % HashSize(cand) : i \in DOMAIN outside})

(* HashCount::GetScore: an estimate of the pairs that the code will deny. *)
GetScore(list, cand) ==
  LET type  == TypeOf(cand, Len(list))
      free  == HashSize(cand) - HashCount(list, cand)
      first == IF type = LeftMost THEN 0 ELSE list[cand[2] + 1]
      last  == IF type = RightMost THEN V ELSE list[cand[2] + cand[1]]
      hashed(n) == IF HashSize(cand) = 0 THEN 0 ELSE (n \div HashSize(cand)) * free
  IN  IF type = FullHash THEN hashed(V)
      ELSE (((last - first + 1) % Word) + hashed((V - last + first) % Word)) % Word

Before(a, b) == a[1] < b[1] \/ (a[1] = b[1] /\ a[2] < b[2])

(* The first candidate with the highest score. *)
Best(list) ==
  LET C == Candidates(Len(list))
  IN  CHOOSE c \in C : \A d \in C \ {c} :
        \/ GetScore(list, d) < GetScore(list, c)
        \/ GetScore(list, d) = GetScore(list, c) /\ Before(c, d)

SetNonDecodable(block, left, type) ==
  LET header == BlockSet(BlockSet({}, 1, 2, ModelBits(type)), 3, LogK, Len(block))
      hash_begin == BlockBegin + Len(block) * VBits
  IN  PutList(header, BlockBegin, block)
        \cup (IF hash_begin = PerBits THEN {} ELSE {Hash(left[i], hash_begin) : i \in DOMAIN left})

(* The code is left as it was when no candidate scores above zero. *)
DynamicChoose(c, list) ==
  LET best == Best(list)
  IN  IF GetScore(list, best) = 0 THEN c
      ELSE SetNonDecodable(Block(list, best), Left(list, best), TypeOf(best, Len(list)))

(* A list that fits is written over the old code, which is not cleared. *)
EncodeVertex(c, list) ==
  IF Len(list) <= MaxKCoreSize THEN PutList(c \cup {0}, 1, list) ELSE DynamicChoose(c, list)
-----------------------------------------------------------------------------
(* Queries. *)
NonNeighborTest(c, w) ==
  LET block_num  == GetBlockNum(c)
      type       == GetBlockModel(c)
      hash_begin == BlockBegin + block_num * VBits
      slot(i)    == IF block_num = 0 THEN 0 ELSE BlockGet(c, BlockBegin + i * VBits, VBits)
      min        == IF type = LeftMost THEN 0 ELSE slot(0)
      max        == IF type = RightMost THEN Upper ELSE slot(block_num - 1)
  IN  IF IsDecodable(c) THEN BlockFind(c, 1, VBits, MaxKCoreSize, w)
      ELSE IF w >= min /\ w <= max THEN BlockFind(c, BlockBegin, VBits, block_num, w)
      ELSE IF hash_begin = PerBits \/ Hash(w, hash_begin) \in c THEN Uncertain ELSE NonNeighbor

NEpairTest(code, u, v) ==
  LET one == NonNeighborTest(code[u], v)
      two == NonNeighborTest(code[v], u)
  IN  IF IsDecodable(code[u]) = IsDecodable(code[v]) THEN MinType(one, two)
      ELSE IF IsDecodable(code[u]) THEN one ELSE two

\* Variant: the lower bound ignores the type of the block.
DecodeNoModel(c) ==
  LET num == GetBlockNum(c)
  IN  IF IsDecodable(c) THEN [decodable |-> TRUE] ELSE
      [decodable |-> FALSE, block_num |-> num, hash_begin |-> BlockBegin + num * VBits,
       min |-> IF num = 0 THEN 0 ELSE BlockGet(c, BlockBegin, VBits),
       max |-> IF num = 0 THEN 0 ELSE IF GetBlockModel(c) = RightMost THEN Upper
               ELSE BlockGet(c, BlockBegin + (num - 1) * VBits, VBits)]

(* Decode: the header of a code, unpacked once for many queries. *)
Decode(c) ==
  LET num == GetBlockNum(c)
      type == GetBlockModel(c)
  IN  IF IsDecodable(c) THEN [decodable |-> TRUE] ELSE
      [decodable |-> FALSE, block_num |-> num, hash_begin |-> BlockBegin + num * VBits,
       min |-> IF num = 0 \/ type = LeftMost THEN 0 ELSE BlockGet(c, BlockBegin, VBits),
       max |-> IF num = 0 THEN 0 ELSE IF type = RightMost THEN Upper
               ELSE BlockGet(c, BlockBegin + (num - 1) * VBits, VBits)]

(* The range test with one unsigned comparison. *)
DecodedTest(c, info, w) ==
  IF info.decodable THEN BlockFind(c, 1, VBits, MaxKCoreSize, w)
  ELSE IF (w - info.min) % Word <= (info.max - info.min) % Word
       THEN BlockFind(c, BlockBegin, VBits, info.block_num, w)
  ELSE IF info.hash_begin = PerBits \/ Hash(w, info.hash_begin) \in c THEN Uncertain ELSE NonNeighbor

\* Variant: the end that is not decodable is asked.
DecodedNEpairTestSwapped(code, u, v) ==
  LET iu == Decode(code[u])
      iv == Decode(code[v])
      one == DecodedTest(code[u], iu, v)
      two == DecodedTest(code[v], iv, u)
  IN  CASE iu.decodable /\ ~iv.decodable  -> two
        [] ~iu.decodable /\ iv.decodable  -> one
        [] iu.decodable /\ iv.decodable   -> IF one = Neighbor THEN one ELSE two
        [] ~iu.decodable /\ ~iv.decodable -> IF one # Uncertain THEN one ELSE two

(* NEpairTest over decoded headers: the second end is asked only when the      *)
(* answer of the first does not settle the pair.                               *)
DecodedNEpairTest(code, u, v) ==
  LET iu == Decode(code[u])
      iv == Decode(code[v])
      one == DecodedTest(code[u], iu, v)
      two == DecodedTest(code[v], iv, u)
  IN  CASE iu.decodable /\ ~iv.decodable  -> one
        [] ~iu.decodable /\ iv.decodable  -> two
        [] iu.decodable /\ iv.decodable   -> IF one = Neighbor THEN one ELSE two
        [] ~iu.decodable /\ ~iv.decodable -> IF one # Uncertain THEN one ELSE two
-----------------------------------------------------------------------------
(* IsFull looks at the last VBits bits of the code. *)
IsFull(c) == BlockGet(c, PerBits - VBits, VBits) # 0

UnFull == 0
Full == 1
NonDecodable == 2

GetEncodeType(c) == IF ~IsDecodable(c) THEN NonDecodable ELSE IF IsFull(c) THEN Full ELSE UnFull

(* InsertPair: both ends are encoded again from their lists in the database;   *)
(* the new neighbour is appended to the list of the end of lower type.         *)
InsertPair(code, db, u, v) ==
  LET swap == GetEncodeType(code[u]) > GetEncodeType(code[v])
      one  == IF swap THEN v ELSE u
      two  == IF swap THEN u ELSE v
      code1 == [code EXCEPT ![one] = EncodeVertex(@, Append(db[one], two))]
  IN  IF NEpairTest(code, u, v) = Uncertain THEN code
      ELSE [code1 EXCEPT ![two] = EncodeVertex(@, db[two])]

RemoveNeighbor(code, db, u, v) ==
  [code EXCEPT ![u] = EncodeVertex(@, SelectSeq(db[u], LAMBDA n : n # v))]

(* DeletePair: the two tests have opposite senses. *)
DeletePair(code, db, u, v) ==
  LET code1 == IF NonNeighborTest(code[u], v) # NonNeighbor THEN RemoveNeighbor(code, db, u, v) ELSE code
  IN  IF NonNeighborTest(code1[v], u) = NonNeighbor THEN RemoveNeighbor(code1, db, v, u) ELSE code1
=============================================================================
