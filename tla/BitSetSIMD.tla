----------------------------- MODULE BitSetSIMD ------------------------------
(* The byte arithmetic of util/bitset_simd.h: a bit set is an array of bytes   *)
(* and a block of up to 32 bits may start and end anywhere in it.  The module  *)
(* runs the operations side by side on the bytes and on the set of ones that   *)
(* they are meant to represent (module BitBlocks).                             *)
EXTENDS Integers, Bitwise

CONSTANTS Bytes,         \* size_: bytes of the bit set
          IndexBytes,    \* 256 in the code: the values of begin_idx, a uint8_t
          Blocks,        \* the (begin, size) pairs of the blocks written
          Values,        \* Values[size]: the numbers written to such a block
          MaxOps         \* bound on the number of writes

B == INSTANCE BitBlocks

(* A block within one byte behind the first IndexBytes would make the loop of  *)
(* BlockSet run off the bit set; the counters there are longer than a byte.    *)
ASSUME BlocksAssumption ==
  \A b \in Blocks : b[1] \div 8 >= IndexBytes => (b[1] + b[2] - 1) \div 8 > b[1] \div 8

VARIABLES data,          \* the bytes
          ones,          \* the positions meant to be one
          ops

vars == <<data, ones, ops>>

Low(x, n)  == x % 2^n                  \* x & (n low one bits)
\* Variant: the shifted value is not cut to a byte.
CastNone(x) == x

Cast8(x)   == x % 256                  \* assignment to uint8_t

\* Variants: the block is not cleared; the bits before it are not masked off.
ZeroNone(x, m, n)     == x
OneBlockLeft(x, m, n) == x - Low(x, 8 - m - n)

(* x & ZERO_BLOCK_MASK[m][n]: clears the n bits from bit m (from the left).    *)
ZeroBlock(x, m, n) == x - Low(x, 8 - m) + Low(x, 8 - m - n)

(* (x & ONE_BLOCK_MASK[m][n]), not shifted. *)
OneBlock(x, m, n) == Low(x, 8 - m) - Low(x, 8 - m - n)

Mod8(x) == x % 8
Div8(x) == x \div 8

(* The while loop of BlockSet: whole bytes, from the right. *)
MiddleBytes(d, end, size, value) ==
  LET n == IF size > 8 THEN (size - 1) \div 8 ELSE 0     \* iterations
  IN  [data |-> [i \in DOMAIN d |-> IF i \in end - n .. end - 1
                                    THEN Cast8(value \div 2^(8 * (end - 1 - i))) ELSE d[i]],
       size |-> size - 8 * n,
       value |-> value \div 2^(8 * n)]

BeginIdx(begin) == Div8(begin) % IndexBytes

BlockSet(d, begin, size, value) ==
  LET begin_idx == BeginIdx(begin)
      end_idx   == Div8(begin + size - 1)
      left      == 7 - Mod8(begin + size - 1)
  IN  IF begin_idx # end_idx
      THEN LET d1 == [d EXCEPT ![end_idx] = Low(@, left) | Cast8(value * 2^left)]
               m  == MiddleBytes(d1, end_idx, size - (8 - left), value \div 2^(8 - left))
           IN  [m.data EXCEPT ![begin_idx] = ZeroBlock(@, Mod8(begin), m.size) | Cast8(m.value)]
      ELSE [d EXCEPT ![begin_idx] = ZeroBlock(@, Mod8(begin), size) | Cast8(value * 2^left)]

BlockGet(d, begin, size) ==
  LET i    == Div8(begin)
      last == begin + size - 1
      j    == Div8(last)
      last_mod == Mod8(last)
      middle == [k \in 0 .. j - i - 1 |->
                   IF k = 0 THEN d[j] \div 2^(7 - last_mod)
                            ELSE d[j - k] * 2^(8 * (k - 1) + last_mod + 1)]
      sum[k \in -1 .. j - i - 1] == IF k = -1 THEN 0 ELSE sum[k - 1] + middle[k]
  IN  IF i = j
      THEN OneBlock(d[i], Mod8(begin), size) \div 2^(7 - last_mod)
      ELSE sum[j - i - 1] + OneBlock(d[i], Mod8(begin), 8 - Mod8(begin)) * 2^(size - 8 + Mod8(begin))

SetOne(d, pos)  == [d EXCEPT ![Div8(pos)] = @ | 2^(7 - Mod8(pos))]
SetZero(d, pos) == [d EXCEPT ![Div8(pos)] = @ & (255 - 2^(7 - Mod8(pos)))]
IsOne(d, pos)   == (d[Div8(pos)] & 2^(7 - Mod8(pos))) # 0

(* Dump and the BlockSet of whole words, between which the words of a code are *)
(* text in a file.  A word is four bytes, the first the most significant; it   *)
(* is kept here as its two halves, which the model checker can represent.      *)
Dump(d) == [i \in 0 .. (Bytes \div 4) - 1 |->
              <<d[4 * i] * 256 + d[4 * i + 1], d[4 * i + 2] * 256 + d[4 * i + 3]>>]

Load(words) ==
  [j \in 0 .. Bytes - 1 |->
     LET half == words[j \div 4][((j % 4) \div 2) + 1]
     IN  IF j % 2 = 0 THEN half \div 256 ELSE half % 256]
-----------------------------------------------------------------------------
Init == data = [i \in 0 .. Bytes - 1 |-> 0] /\ ones = {} /\ ops = 0

WriteBlock(b, n, value) ==
  /\ ops < MaxOps
  /\ data' = BlockSet(data, b, n, value)
  /\ ones' = B!BlockSetAt(ones, Div8(b) % IndexBytes, b, n, value)
  /\ ops' = ops + 1

WriteOne(p) ==
  /\ ops < MaxOps
  /\ data' = SetOne(data, p)
  /\ ones' = ones \cup {p}
  /\ ops' = ops + 1

WriteZero(p) ==
  /\ ops < MaxOps
  /\ data' = SetZero(data, p)
  /\ ones' = ones \ {p}
  /\ ops' = ops + 1

Clear ==
  /\ ops < MaxOps
  /\ data' = [i \in DOMAIN data |-> 0]
  /\ ones' = {}
  /\ ops' = ops + 1

(* EncodePersistent in one run of the program, LoadFromDb in the next. *)
Reload ==
  /\ ops < MaxOps
  /\ data' = Load(Dump(data))
  /\ ops' = ops + 1
  /\ UNCHANGED ones

Next == \/ \E b \in Blocks : \E value \in Values[b[2]] : WriteBlock(b[1], b[2], value)
        \/ \E b \in Blocks : WriteOne(b[1]) \/ WriteZero(b[1])
        \/ Clear
        \/ Reload

Spec == Init /\ [][Next]_vars
-----------------------------------------------------------------------------
(* The bytes stay bytes. *)
TypeOK == data \in [0 .. Bytes - 1 -> 0 .. 255]

(* The writes of BitSetSIMD (BlockSet with its three cases of byte boundaries, *)
(* SetOne, SetZero, Clear) change exactly the bits of the block, except that a *)
(* value that is too wide spills into the byte before it, and that behind the  *)
(* first IndexBytes the upper bits of a block end up in a byte of the front.   *)
(* Writing the bits to a file and reading them back changes none.              *)
WritesExact == \A p \in 0 .. 8 * Bytes - 1 : IsOne(data, p) <=> p \in ones

(* BlockGet reassembles every block, wherever it begins and ends, from the     *)
(* bytes that a different series of writes and reloads left behind.            *)
ReadsExact == \A b \in Blocks : BlockGet(data, b[1], b[2]) = B!BlockGet(ones, b[1], b[2])
=============================================================================
