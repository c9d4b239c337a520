----------------------------- MODULE RangeEncode -----------------------------
(* RangeEncode: an encoding is a flag and max_int_size slots of 32 bits.  A    *)
(* short list is stored whole, in the remaining slots 0; of a long one the     *)
(* window of max_int_size consecutive neighbours that spans the most ids,      *)
(* where 0 and V + 1 may stand for the neighbours beyond the ends of the list. *)
EXTENDS Integers, Sequences, FiniteSetsExt, PairTypes, Lists, VertexIds

CONSTANT MaxInt    \* max_int_size_ = K_SIZE - 1

Slots == 1 .. MaxInt
Upper == V + 1

NonNeighborTest(c, w) ==
  LET min == c.slot[1]
      max == c.slot[MaxInt]
  IN  IF \E i \in Slots : c.slot[i] = w THEN Neighbor
      ELSE IF c.flag \/ (min < w /\ w < max) THEN NonNeighbor
      ELSE Uncertain

NEpairTest(code, u, v) == MinType(NonNeighborTest(code[u], v), NonNeighborTest(code[v], u))

(* What the slots get when the window starts at neighbour start (counted from  *)
(* 1): start 0 puts 0 before the first neighbour, the last start V + 1 behind  *)
(* the last one.                                                               *)
Window(list, start) ==
  [i \in Slots |-> IF start + i - 1 = 0 THEN 0
                   ELSE IF start + i - 1 > Len(list) THEN Upper
                   ELSE list[start + i - 1]]

Span(list, start) == Window(list, start)[MaxInt] - Window(list, start)[1]

\* Variant: the window is always the first.
FirstStart(list) == 0

(* The first window of the largest span. *)
BestStart(list) ==
  LET starts == 0 .. Len(list) - MaxInt + 2
  IN  Min({s \in starts : \A t \in starts : Span(list, t) <= Span(list, s)})

\* Variant: the list is not sorted.
EncodeUnsorted(c, neighbors) ==
  IF Len(neighbors) <= MaxInt
  THEN [flag |-> TRUE, slot |-> [i \in Slots |-> IF i <= Len(neighbors) THEN neighbors[i] ELSE 0]]
  ELSE [flag |-> FALSE, slot |-> Window(neighbors, BestStart(neighbors))]

EncodeVertex(c, neighbors) ==
  LET list == Sorted(neighbors)
  IN  IF Len(list) <= MaxInt
      THEN [flag |-> TRUE, slot |-> [i \in Slots |-> IF i <= Len(list) THEN list[i] ELSE 0]]
      ELSE [flag |-> FALSE, slot |-> Window(list, BestStart(list))]

BlankCode == [flag |-> FALSE, slot |-> [i \in Slots |-> 0]]
-----------------------------------------------------------------------------
(* GetEncodeType, in the order of the enumeration EncodeType. *)
GetEncodeType(c) == IF ~c.flag THEN 2 ELSE IF c.slot[MaxInt] = 0 THEN 0 ELSE 1
Full == 1

(* GetBlockInt has no return statement after its loops: with every slot in use *)
(* it runs on over whatever follows the encoding until it meets a zero.        *)
Strays == {<<>>} \cup {<<x>> : x \in 1 .. V}

GetBlockInt(c) ==
  LET stored == Kept([i \in Slots |-> c.slot[i]], {0})
  IN  IF GetEncodeType(c) = Full THEN {stored \o s : s \in Strays} ELSE {stored}

(* The lists that GetAllNeighbors may return. *)
GetAllNeighbors(code, db, v) == IF code[v].flag THEN GetBlockInt(code[v]) ELSE {db[v]}

Result(code, v, encoding, defined) ==
  [code |-> [w \in DOMAIN code |-> IF w = v THEN encoding ELSE code[w]], defined |-> defined]

(* Only the end of lower type is told of the new edge. *)
InsertPair(code, db, u, v) ==
  LET swap == GetEncodeType(code[u]) > GetEncodeType(code[v])
      one  == IF swap THEN v ELSE u
      two  == IF swap THEN u ELSE v
  IN  {Result(code, one, EncodeVertex(code[one], Append(n, two)), GetEncodeType(code[one]) # Full) :
         n \in GetAllNeighbors(code, db, one)}

\* Variant: erase takes everything from v on.
RemoveToEnd(code, db, u, v) ==
  {Result(code, u, IF v \in Range(n) THEN EncodeVertex(code[u], SelectSeq(n, LAMBDA x : x < v)) ELSE code[u],
          GetEncodeType(code[u]) # Full) : n \in GetAllNeighbors(code, db, u)}

(* std::find and erase: the first entry for v goes. *)
RemoveNeighbor(code, db, u, v) ==
  {Result(code, u, IF v \in Range(n) THEN EncodeVertex(code[u], WithoutFirst(n, v)) ELSE code[u],
          GetEncodeType(code[u]) # Full) : n \in GetAllNeighbors(code, db, u)}

RemoveIfStored(code, db, u, v) ==
  IF NonNeighborTest(code[u], v) # NonNeighbor THEN RemoveNeighbor(code, db, u, v)
  ELSE {[code |-> code, defined |-> TRUE]}

DeletePair(code, db, u, v) ==
  UNION {{[r2 EXCEPT !.defined = @ /\ r1.defined] : r2 \in RemoveIfStored(r1.code, db, v, u)} :
           r1 \in RemoveIfStored(code, db, u, v)}
=============================================================================
