------------------------- MODULE DeltaSIMDContract --------------------------
(* EncodeVertex of the four SIMD encoders, for every list of neighbours of a   *)
(* vertex, against the contract of module VertexCode.                          *)
EXTENDS DeltaSIMDEncode

CONSTANTS Junk,          \* bytes the memory behind a code may hold
          Ids,           \* the vertices that occur in lists
          MaxLen,        \* longest list
          MaxCopies      \* how often a neighbour may occur in a list

VC == INSTANCE VertexCode

(* A single integer fits any code, and no list of integers is too long for the *)
(* five bits of its size.                                                      *)
ASSUME SimdAssumption == /\ V \in Nat /\ Ids \subseteq 1 .. V /\ V < Word \div 2
                         /\ PerBits % 32 = 0 /\ MaxBytesLen \in 5 .. 39
                         /\ Junk \subseteq 0 .. 255 /\ Byte \in 2 .. 256 /\ V < Byte^4

VARIABLES list,
          simd           \* the code of each version

vars == <<list, simd>>

Encodings(l) == [ver \in Versions |-> EncodeVertex(ver, {}, l)]

Init == list = <<>> /\ simd = Encodings(list)

(* The next longer sorted list, encoded into codes that are all zero. *)
Extend(w) ==
  /\ Len(list) < MaxLen
  /\ list # <<>> => Last(list) <= w
  /\ Cardinality({i \in DOMAIN list : list[i] = w}) < MaxCopies
  /\ list' = Append(list, w)
  /\ simd' = Encodings(list')

Next == \E w \in Ids : Extend(w)

Spec == Init /\ [][Next]_vars
-----------------------------------------------------------------------------
(* The codes keep to the room they have. *)
TypeOK == list \in Seq(Ids) /\ simd \in [Versions -> SUBSET (0 .. PerBits - 1)]

(* What a code of a version answers about every vertex, whatever the memory    *)
(* behind it holds, which loads of 16 bytes read.                              *)
Meets(ver, c, complete) ==
  \A junk \in Junk, w \in 1 .. V :
    NonNeighborTest(ver, c, w, junk) \in VC!Answers(VC!Encoded(complete, Range(list)), w)

(* A code searched as if its flag were the other one, as DirectedSIMD may do:  *)
(* a list stored in full still affirms its neighbours and no others, and a     *)
(* summary, of which only the block is searched, affirms no other vertex and   *)
(* denies some neighbour, unless copies are all that the block leaves out.     *)
WrongFlagAnswers(c) ==
  LET neighbors == Range(list)
      found(w, junk) == FindDecodable("V0", c, w, junk)
  IN  \A junk \in Junk :
        IF IsDecodable(c)
        THEN \A w \in 1 .. V : (FindNonDecodable("V0", c, w, junk) = Neighbor) = (w \in neighbors)
        ELSE /\ \A w \in (1 .. V) \ neighbors : found(w, junk) = NonNeighbor
             /\ IsInjective(list) => \E w \in neighbors : found(w, junk) = NonNeighbor

(* V0, V1 and V2: whatever block DynamicChoose selects, a code never denies a  *)
(* neighbour and never affirms another vertex, and a list that is stored in    *)
(* full answers for every vertex.  The code without a block, which             *)
(* DynamicChoose seldom selects, does as well.  Searched with the wrong flag a *)
(* code answers as module DirPeelBuild says.                                   *)
LinearMeetsContract ==
  /\ \A ver \in {"V0", "V1", "V2"} : Meets(ver, simd[ver], Fits(ver, list))
  /\ WrongFlagAnswers(simd["V0"])
  /\ list # <<>> => Meets("V0", ConstructEncode("V0", {}, list, <<1, 0>>), FALSE)

(* V3: the same of every code. *)
V3MeetsContract == Meets("V3", simd["V3"], Fits("V3", list))

(* How many integers a code of V3 stores, alone or before hash bits. *)
V3Stored == IF Fits("V3", list) THEN Len(list) ELSE BestBlock("V3", list)[2]

(* V3: the same of the codes that store integers, up to 20 of them, of lists   *)
(* that take less than 128 bytes.  From 21 integers on the search loses some,  *)
(* as DFS returns with its first child, and 128 bytes or more, which           *)
(* EncodeVertex writes into the five bits of the size first, reach the bit     *)
(* that says a list is stored in full.                                         *)
V3BlocksMeetContract ==
  EncodeByteLen("V3", list) < 128 /\ (list = <<>> \/ V3Stored \in 1 .. 20) => V3MeetsContract

(* A list of up to 3 * MaxLen ids, with gaps that vary with the list. *)
LongList ==
  IF list = <<>> THEN <<>>
  ELSE [i \in 1 .. 3 * Len(list) - (Last(list) % 3) |-> 4 * i + (list[(i + 2) \div 3] % 3)]

(* The search tree of V3: EncodeArray arranges the integers so that the search *)
(* of FindWithCount finds those and no others, and tells the ids below and     *)
(* above them.  Of 21 integers or more the search misses some, as DFS never    *)
(* goes past the first child of an inner node.                                 *)
TreeSearchExact ==
  \A junk \in Junk :
    LET long == LongList
        n    == Len(long)
        in   == EncodeArray("V3", long) \o [i \in 1 .. 16 |-> junk]
    IN  n \in 1 .. 20 =>
          \A w \in 1 .. 4 * n + 5 :
            FindWithCount("V3", in, n, w) =
              CASE w \in Range(long)              -> EXIST
                [] w < long[1]                    -> LESS_THAN_MIN
                [] w > Last(long)                 -> GRATER_THAN_MAX
                [] w \in long[1] .. Last(long) /\ w \notin Range(long) -> NOT_EXIST
=============================================================================
