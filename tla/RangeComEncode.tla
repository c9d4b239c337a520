--------------------------- MODULE RangeComEncode ----------------------------
(* RangeCompEncode with its three ways to store a list behind the flag word:   *)
(* numbers of fixed width (BitsComp), variable-length bytes (VbyteComp) and    *)
(* variable-length bytes of differences (VbyteDeltaComp).  Of a list that does *)
(* not fit a window of consecutive neighbours is stored.                       *)
EXTENDS Integers, Sequences, SequencesExt, BitBlocks, VertexIds

CONSTANTS Shift,         \* 32 in the code: bits of the flag word
          Total,         \* PER_ENCODE_BIT_SIZE
          Base,          \* 128 in the code: values of a byte without its top bit
          Word           \* 2^32 in the code

VBits   == CeilLog2(V)                       \* VERTEX_BIT_SIZE
MaxNums == (Total - Shift) \div VBits
Room    == (Total - Shift) \div 8            \* bytes behind the flag word

(* The bounds that EncodeVertex puts around a list before a window is chosen. *)
Bounded(list) == <<0>> \o list \o <<V + 1>>

(* The search through numbers in ascending order. *)
Search(nums, w) ==
  LET notBelow == {i \in DOMAIN nums : nums[i] >= w}
  IN  IF notBelow # {} /\ nums[Min(notBelow)] = w THEN Neighbor ELSE NonNeighbor
-----------------------------------------------------------------------------
(* BitsComp: a code is the set of its ones. *)
PutBits(c, list) == BlocksSet(c, Shift, VBits, list)

BitsFits(list) == Len(list) * VBits <= Total - Shift

(* The first window of MaxNums numbers with the largest span. *)
BitsStart(b) ==
  LET span(i) == b[i + MaxNums - 1] - b[i]
      starts  == 1 .. Len(b) - MaxNums + 1
  IN  Min({i \in starts : \A j \in starts : span(j) <= span(i)})

(* DynamicEncode does not advance past the two bounds of the window: the       *)
(* numbers between them are written over both.                                 *)
BitsDynamicEncode(b) ==
  LET i == BitsStart(b)
      bounds == BlockSet(BlockSet({}, Shift, VBits, b[i]), Shift, VBits, b[i + MaxNums - 1])
  IN  PutBits(bounds, SubSeq(b, i + 1, i + MaxNums - 2))

BitsEncodeVertex(list) ==
  IF BitsFits(list) THEN PutBits(BlockSet({}, 0, Shift, 1), list)
                    ELSE BitsDynamicEncode(Bounded(list))

(* The slots from a position on that the loop of Find looks at. *)
BitsScan(c, from, w) == BlockFind(c, from, VBits, (Total - from - 1) \div VBits, w)

BitsNonNeighborTest(c, w) ==
  LET min == BlockGet(c, Shift, VBits)
      max == BlockGet(c, Shift + VBits, VBits)
  IN  IF BlockGet(c, 0, Shift) # 0 THEN BitsScan(c, Shift, w)
      ELSE IF w \in {min, max} THEN Neighbor
      ELSE IF w < min \/ w > max THEN Uncertain
      ELSE BitsScan(c, Shift + 2 * VBits, w)
-----------------------------------------------------------------------------
\* Variant: the bound of a byte is taken as its largest value.
IntegerBytesOneLess(v) == Min({4} \cup {n \in 1 .. 3 : v <= Base^n})

(* VbyteComp: a code is its flag and Room bytes.  The bytes of a number: *)
IntegerBytes(v) == Min({4} \cup {n \in 1 .. 3 : v < Base^n})

(* Two numbers fit, so that a window always has two bounds. *)
ASSUME ComAssumption == /\ V \in Nat /\ V > 1 /\ Base > 1 /\ Word > V + 1
                        /\ Shift % 8 = 0 /\ Total > Shift /\ MaxNums > 2
                        /\ Base^4 > V + 1 /\ 2 * IntegerBytes(V + 1) <= Room

(* compress: the digits of v, from the highest; all but the last are marked. *)
Compress(v) ==
  LET n == IntegerBytes(v)
  IN  [i \in 1 .. n |-> ((v \div Base^(n - i)) % Base) + IF i < n THEN Base ELSE 0]

Size(nums) == FoldLeft(LAMBDA n, v : n + IntegerBytes(v), 0, nums)

(* The numbers written one after the other; the other bytes are zero. *)
PutBytes(flag, nums) ==
  LET data == FlattenSeq([i \in DOMAIN nums |-> Compress(nums[i])])
  IN  [flag |-> flag, bytes |-> [i \in 1 .. Room |-> IF i <= Len(data) THEN data[i] ELSE 0]]

(* decode, until the end of the code. *)
Numbers(bytes) ==
  FoldLeft(LAMBDA st, b : LET v == st.part * Base + (b % Base)
                          IN  IF b < Base THEN [nums |-> Append(st.nums, v), part |-> 0]
                                          ELSE [st EXCEPT !.part = v],
           [nums |-> <<>>, part |-> 0], bytes).nums

(* The number of entries, from each one on, that fit. *)
BlockLens(b) ==
  [i \in 1 .. Len(b) - 1 |->
     Max({n \in 0 .. Len(b) - i + 1 : Size(SubSeq(b, i, i + n - 1)) <= Room})]

(* The score of a window is taken with the number behind it; behind the last   *)
(* there is none, and whatever the memory holds (beyond) is read.  The last    *)
(* window of the largest score is taken.                                       *)
VbyteStart(b, lens, beyond) ==
  LET ext   == Append(b, beyond)
      score == [i \in DOMAIN lens |-> (ext[i + lens[i]] - b[i]) % Word]
      top   == Max(Range(score))
  IN  Max({i \in DOMAIN lens : score[i] = top})

(* The bounds of the window, then what is between them. *)
VbyteWindow(b, i, n) == <<b[i], b[i + n - 1]>> \o SubSeq(b, i + 1, i + n - 2)

VbyteEncodeVertex(list) ==
  LET b    == Bounded(list)
      lens == BlockLens(b)
  IN  IF Size(list) <= Room THEN {PutBytes(TRUE, list)}
      ELSE {PutBytes(FALSE, VbyteWindow(b, i, lens[i])) :
              i \in {VbyteStart(b, lens, x) : x \in 0 .. Word - 1}}

VbyteNonNeighborTest(c, w) ==
  LET nums == Numbers(c.bytes)
  IN  IF c.flag THEN Search(nums, w)
      ELSE IF w \in {nums[1], nums[2]} THEN Neighbor
      ELSE IF w < nums[1] \/ w > nums[2] THEN Uncertain
      ELSE Search(SubSeq(nums, 3, Len(nums)), w)
-----------------------------------------------------------------------------
(* VbyteDeltaComp. *)
GetDeltas(list, pre) ==
  [i \in DOMAIN list |-> list[i] - IF i = 1 THEN pre ELSE list[i - 1]]

(* A window with its inner numbers as differences. *)
DeltaWindow(b, i, j) == <<b[i], b[j]>> \o GetDeltas(SubSeq(b, i + 1, j - 1), b[i])

(* The first window of the largest span that fits, short of the upper bound. *)
DeltaBest(b) ==
  LET W == {w \in (1 .. Len(b) - 3) \X (2 .. Len(b) - 1) :
              w[1] < w[2] /\ Size(DeltaWindow(b, w[1], w[2])) <= Room}
      span(w) == b[w[2]] - b[w[1]]
  IN  CHOOSE w \in W : \A x \in W \ {w} :
        span(x) < span(w) \/ (span(x) = span(w) /\ (w[1] < x[1] \/ (w[1] = x[1] /\ w[2] < x[2])))

DeltaFits(list) == Size(GetDeltas(list, 0)) <= Room

DeltaEncodeVertex(list) ==
  LET b == Bounded(list)
      w == DeltaBest(b)
  IN  IF DeltaFits(list) THEN PutBytes(TRUE, GetDeltas(list, 0))
                         ELSE PutBytes(FALSE, DeltaWindow(b, w[1], w[2]))

(* The sums of the differences from a first value on. *)
Sums(nums, pre) ==
  LET s[i \in 0 .. Len(nums)] == IF i = 0 THEN pre ELSE s[i - 1] + nums[i]
  IN  [i \in DOMAIN nums |-> s[i]]

DeltaNonNeighborTest(c, w) ==
  LET nums == Numbers(c.bytes)
  IN  IF c.flag THEN Search(Sums(nums, 0), w)
      ELSE IF w \in {nums[1], nums[2]} THEN Neighbor
      ELSE IF w < nums[1] \/ w > nums[2] THEN Uncertain
      ELSE Search(Sums(SubSeq(nums, 3, Len(nums)), nums[1]), w)
=============================================================================
