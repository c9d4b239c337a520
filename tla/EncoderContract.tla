-------------------------- MODULE EncoderContract ---------------------------
(* EncodeVertex of every encoder, for every list of neighbours of a vertex:    *)
(* the bits, bytes or slots it writes answer as the contract of module         *)
(* VertexCode says, so the results about the build algorithms, which know only *)
(* that contract, apply to the encoder.                                        *)
EXTENDS Encoders, RangeComEncode

CONSTANTS ElementSize,   \* element_size_ of CountEncode
          Params,
          Centres,       \* the vertices whose lists are encoded
          Ids,           \* the vertices that occur in lists
          MaxLen,        \* longest list
          MaxCopies      \* how often a neighbour may occur in a list

B  == INSTANCE CountEncode WITH Flag <- Shift   \* and BloomEncode
VC == INSTANCE VertexCode

ASSUME ContractAssumption == /\ H!HasRoom /\ H!IdsFit /\ FitsIn(V, Shift) /\ B!BlockNum > 0 /\ FitsIn(V, ElementSize)
                             /\ MaxInt \in Nat /\ MaxInt >= 2 /\ Centres \cup Ids \subseteq 1 .. V

VARIABLES vertex, list,
          hybrid, range, bits, vbyte, delta, bloom, count   \* a code of each encoder

vars == <<vertex, list, hybrid, range, bits, vbyte, delta, bloom, count>>

Init ==
  /\ vertex \in Centres
  /\ list = <<>>
  /\ hybrid = H!EncodeVertex({}, <<>>)
  /\ range = EncodeVertex(BlankCode, <<>>)
  /\ bits = BitsEncodeVertex(<<>>)
  /\ vbyte \in VbyteEncodeVertex(<<>>)
  /\ delta = DeltaEncodeVertex(<<>>)
  /\ bloom = B!BloomEncodeVertex(vertex, <<>>)
  /\ count = B!CountEncodeVertex(vertex, <<>>)

(* The next longer sorted list.  RangeEncode writes over its previous code and *)
(* sorts for itself, so it gets the list backwards; the others clear the code. *)
Extend(w) ==
  /\ w # vertex
  /\ Len(list) < MaxLen
  /\ list # <<>> => Last(list) <= w
  /\ Cardinality({i \in DOMAIN list : list[i] = w}) < MaxCopies
  /\ list' = Append(list, w)
  /\ hybrid' = H!EncodeVertex({}, list')
  /\ range' = EncodeVertex(range, Reverse(list'))
  /\ bits' = BitsEncodeVertex(list')
  /\ vbyte' \in VbyteEncodeVertex(list')
  /\ delta' = DeltaEncodeVertex(list')
  /\ bloom' = B!BloomEncodeVertex(vertex, list')
  /\ count' = B!CountEncodeVertex(vertex, list')
  /\ UNCHANGED vertex

Next == \E w \in Ids : Extend(w)

Spec == Init /\ [][Next]_vars
-----------------------------------------------------------------------------
(* The codes keep to the room they have. *)
TypeOK ==
  /\ hybrid \subseteq 0 .. HybridBits - 1
  /\ range \in [flag : BOOLEAN, slot : [Slots -> 0 .. Upper]]
  /\ bits \subseteq 0 .. Total - 1
  /\ {vbyte, delta} \subseteq [flag : BOOLEAN, bytes : [1 .. Room -> 0 .. 2 * Base - 1]]
  /\ bloom \cup count \subseteq 0 .. Total - 1

(* What a test may answer about any other vertex, when the list fits or not.   *)
Meets(Test(_), fits) ==
  \A w \in (1 .. V) \ {vertex} : Test(w) \in VC!Answers(VC!Encoded(fits, Range(list)), w)

(* Whatever block DynamicChoose selects, EncodeVertex and NonNeighborTest of   *)
(* HybridEncode together never deny a neighbour and never affirm another       *)
(* vertex, and a list that is stored in full answers for every vertex.         *)
HybridMeetsContract ==
  /\ H!IsDecodable(hybrid) = (Len(list) <= H!MaxKCoreSize)
  /\ Meets(LAMBDA w : H!NonNeighborTest(hybrid, w), Len(list) <= H!MaxKCoreSize)

(* The query path over decoded headers (Decode and the NonNeighborTest with    *)
(* DecodeInfo) gives the same answers as the direct one, and so does the       *)
(* search in any order that is used when HSIMD is set.                         *)
HybridPathsAgree ==
  \A w \in 1 .. V :
    /\ H!DecodedTest(hybrid, H!Decode(hybrid), w) = H!NonNeighborTest(hybrid, w)
    /\ LET begin == IF H!IsDecodable(hybrid) THEN 1 ELSE H!BlockBegin
           num   == IF H!IsDecodable(hybrid) THEN H!MaxKCoreSize ELSE H!GetBlockNum(hybrid)
       IN  BlockFindSIMD(hybrid, begin, H!VBits, num, w) = BlockFind(hybrid, begin, H!VBits, num, w)

(* Whatever window EncodeVertex of RangeEncode selects, the same of its        *)
(* NonNeighborTest.                                                            *)
RangeMeetsContract ==
  /\ range.flag = (Len(list) <= MaxInt)
  /\ Meets(LAMBDA w : NonNeighborTest(range, w), Len(list) <= MaxInt)

(* The vertices a code of RangeEncode answers for. *)
Settled(c) == {w \in 1 .. V : NonNeighborTest(c, w) # Uncertain}

(* EncodeVertex selects the window that answers for the most vertices, but for *)
(* one: the scores of the two windows at the ends count the vertices they      *)
(* settle, that of an inner window is one less.                                *)
WindowIsBest ==
  ~range.flag =>
    \A s \in 0 .. Len(list) - MaxInt + 2 :
      Cardinality(Settled(range)) + 1
        >= Cardinality(Settled([flag |-> FALSE, slot |-> Window(list, s)]))

(* The three compressed layouts, numbers of fixed width, variable-length bytes *)
(* and differences: BitsComp::Find, VbyteComp::Find and VbyteDeltaComp::Find   *)
(* never deny a neighbour, affirm only neighbours, and answer for every vertex *)
(* when the whole list fits, whatever DynamicEncode reads behind the list when *)
(* it scores its windows.  Of the first layout this is claimed only where a    *)
(* full set of numbers leaves a bit of the code unused: on an exact fit        *)
(* BitsComp::Find stops short of the last slot (compression.h:65) and denies   *)
(* the neighbour stored there.                                                 *)
ExactFit == (Total - Shift) % VBits = 0

CompressedMeetContract ==
  /\ ~ExactFit => Meets(LAMBDA w : BitsNonNeighborTest(bits, w), BitsFits(list))
  /\ Meets(LAMBDA w : VbyteNonNeighborTest(vbyte, w), Size(list) <= Room)
  /\ Meets(LAMBDA w : DeltaNonNeighborTest(delta, w), DeltaFits(list))

(* BloomEncode::NonNeighborTest: the same, over hash values. *)
BloomMeetsContract ==
  Meets(LAMBDA w : B!BloomNonNeighborTest(bloom, vertex, w), Len(list) <= B!BlockNum)

(* CountEncode::NonNeighborTest: the counters, which begin within the flag     *)
(* word, never deny a neighbour and leave the flag readable; no code affirms   *)
(* another vertex.  Nothing is claimed of the denials of a list of several     *)
(* neighbours stored whole: the search stops at the first smaller entry of the *)
(* ascending list (count_encode.h:55), so it denies all but the smallest.      *)
CountMeetsContract ==
  LET whole   == Len(list) <= B!CountNums
      Test(w) == B!CountNonNeighborTest(count, vertex, w)
  IN  /\ B!GetFlag(count) = whole
      /\ \A w \in (1 .. V) \ {vertex} : Test(w) = Neighbor => w \in Range(list)
      /\ ~whole \/ Cardinality(Range(list)) <= 1 => Meets(Test, whole)
=============================================================================
