----------------------- MODULE EncoderContractProofs ------------------------
(* HybridEncode and RangeEncode meet the contract of a code for every list of  *)
(* neighbours, by what module EncoderProofs shows of their codes, and so the   *)
(* indexes RangeVend builds with them are right for every graph.               *)
EXTENDS EncoderContract, EncoderProofs

(* The list is one of vertices in their order; Extend keeps it so. *)
Listed == vertex \in Vertex /\ list \in Seq(Vertex) /\ SortedList(list)

(* The invariant of Spec: each code is that of the list, RangeEncode's that of *)
(* a list with the same entries.                                               *)
HybridInv == Listed /\ hybrid = H!EncodeVertex({}, list)

Same(l, m) == l \in Seq(Vertex) /\ Len(l) = Len(m) /\ \A w : Names(l, w) <=> Names(m, w)

RangeInv == Listed /\ \E l, x : Same(l, list) /\ range = EncodeVertex(x, l)

(* Extend leaves a list of vertices in their order. *)
LEMMA ExtendLists ==
  ASSUME Listed, NEW w \in Ids, Extend(w)
  PROVE  Listed'
<1>1. /\ vertex \in Vertex /\ list \in Seq(Vertex) /\ SortedList(list)
      /\ list' = Append(list, w) /\ vertex' = vertex
      /\ list # <<>> => list[Len(list)] <= w
  BY DEF Listed, Extend, Last
<1>2. w \in Vertex /\ Vertex \in SUBSET Int
  BY ContractAssumption DEF Vertex
<1>3. list' \in Seq(Vertex) /\ SortedList(list')
  BY <1>1, <1>2, AppendSorted
<1> QED BY <1>1, <1>3 DEF Listed

(* The lists at the start. *)
LEMMA InitLists ==
  ASSUME Init
  PROVE  Listed
<1>1. vertex \in Centres /\ list = <<>>
  BY DEF Init
<1>2. vertex \in Vertex
  BY <1>1, ContractAssumption DEF Vertex
<1>3. SortedList(<<>>)
  BY DEF SortedList
<1> QED BY <1>1, <1>2, <1>3 DEF Listed

(* The invariant of Spec for HybridEncode is one. *)
LEMMA HybridInvariant == Spec => []HybridInv
<1>1. Init => HybridInv
  BY InitLists DEF Init, HybridInv
<1>2. HybridInv /\ [Next]_vars => HybridInv'
  <2> SUFFICES ASSUME HybridInv, [Next]_vars
               PROVE  HybridInv'
    OBVIOUS
  <2>1. CASE Next
    <3>1. PICK w \in Ids : Extend(w)
      BY <2>1 DEF Next
    <3>2. Listed'
      BY <3>1, ExtendLists DEF HybridInv
    <3> QED BY <3>1, <3>2 DEF HybridInv, Extend
  <2>2. CASE UNCHANGED vars
    BY <2>2 DEF HybridInv, Listed, vars
  <2> QED BY <2>1, <2>2
<1> QED BY <1>1, <1>2, PTL DEF Spec

(* The answers of the contract. *)
LEMMA RightAnswers ==
  ASSUME NEW l, l \in Seq(Vertex), NEW w, NEW fits \in BOOLEAN
  PROVE  VC!Answers(VC!Encoded(fits, Range(l)), w)
           = IF fits THEN {RightAnswer(l, w)} ELSE {RightAnswer(l, w), Uncertain}
<1>1. w \in Range(l) <=> Names(l, w)
  BY DEF Range, Names
<1> QED BY <1>1 DEF VC!Answers, VC!Encoded, VC!Neighbor, VC!NonNeighbor, VC!Uncertain, RightAnswer,
                    Neighbor, NonNeighbor, Uncertain

(* A list read backwards names the same vertices. *)
LEMMA Backwards ==
  ASSUME NEW l \in Seq(Vertex)
  PROVE  Same(Reverse(l), l)
BY ReadBackwards DEF Same, Reverse

(* The invariant of Spec for RangeEncode is one. *)
LEMMA RangeInvariant == Spec => []RangeInv
<1>1. Init => RangeInv
  <2> SUFFICES ASSUME Init
               PROVE  RangeInv
    OBVIOUS
  <2>1. Listed /\ list = <<>> /\ range = EncodeVertex(BlankCode, <<>>)
    BY InitLists DEF Init
  <2>2. Same(list, list)
    BY <2>1 DEF Listed, Same
  <2> QED BY <2>1, <2>2 DEF RangeInv
<1>2. RangeInv /\ [Next]_vars => RangeInv'
  <2> SUFFICES ASSUME RangeInv, [Next]_vars
               PROVE  RangeInv'
    OBVIOUS
  <2>1. CASE Next
    <3>1. PICK w \in Ids : Extend(w)
      BY <2>1 DEF Next
    <3>2. Listed'
      BY <3>1, ExtendLists DEF RangeInv
    <3>3. Same(Reverse(list'), list')
      BY <3>2, Backwards DEF Listed
    <3> QED BY <3>1, <3>2, <3>3 DEF RangeInv, Extend
  <2>2. CASE UNCHANGED vars
    BY <2>2 DEF RangeInv, Listed, Same, vars
  <2> QED BY <2>1, <2>2
<1> QED BY <1>1, <1>2, PTL DEF Spec

(* The codes have room. *)
LEMMA Roomy == HybridRoom /\ HasRoom
<1>1. H!HasRoom /\ H!IdsFit /\ MaxInt \in Nat /\ MaxInt >= 2
  BY ContractAssumption
<1> QED BY <1>1 DEF HybridRoom, HasRoom, H!HasRoom

(* HybridEncode meets the contract of a code, for every list of neighbours and *)
(* every size of a code that has room for the ids: EncodeVertex and            *)
(* NonNeighborTest together never deny a neighbour and never affirm another    *)
(* vertex, whatever block DynamicChoose selects.                               *)
THEOREM HybridEncodeMeetsContract == Spec => []HybridMeetsContract
<1>1. HybridInv => HybridMeetsContract
  <2> SUFFICES ASSUME HybridInv
               PROVE  HybridMeetsContract
    OBVIOUS
  <2>1. list \in Seq(Vertex) /\ SortedList(list) /\ hybrid = H!EncodeVertex({}, list)
    BY DEF HybridInv, Listed
  <2> DEFINE fits == Len(list) <= H!MaxKCoreSize
  <2>3. /\ H!IsDecodable(hybrid) <=> fits
        /\ \A w \in Vertex :
             /\ fits => H!NonNeighborTest(hybrid, w) = RightAnswer(list, w)
             /\ H!NonNeighborTest(hybrid, w) \in {RightAnswer(list, w), Uncertain}
    BY <2>1, Roomy, HybridCode
  <2>4. fits \in BOOLEAN
    OBVIOUS
  <2> HIDE DEF fits
  <2>5. ASSUME NEW w \in Vertex
        PROVE  H!NonNeighborTest(hybrid, w) \in VC!Answers(VC!Encoded(fits, Range(list)), w)
    <3>1. VC!Answers(VC!Encoded(fits, Range(list)), w)
            = IF fits THEN {RightAnswer(list, w)} ELSE {RightAnswer(list, w), Uncertain}
      BY <2>4, RightAnswers DEF HybridInv, Listed
    <3> QED BY <2>3, <3>1
  <2>6. H!IsDecodable(hybrid) \in BOOLEAN
    BY DEF H!IsDecodable
  <2>7. H!IsDecodable(hybrid) = fits
    BY <2>3, <2>4, <2>6
  <2> QED BY <2>5, <2>7 DEF HybridMeetsContract, Meets, Vertex, fits
<1> QED BY <1>1, HybridInvariant, PTL

(* The three ways HybridEncode has to ask a code agree for every list: the     *)
(* direct test, the one over a decoded header, and the search in any order.    *)
THEOREM HybridEncodePathsAgree == Spec => []HybridPathsAgree
<1>1. HybridInv => HybridPathsAgree
  <2> SUFFICES ASSUME HybridInv, NEW w \in Vertex
               PROVE  /\ H!DecodedTest(hybrid, H!Decode(hybrid), w) = H!NonNeighborTest(hybrid, w)
                      /\ LET begin == IF H!IsDecodable(hybrid) THEN 1 ELSE H!BlockBegin
                             num   == IF H!IsDecodable(hybrid) THEN H!MaxKCoreSize ELSE H!GetBlockNum(hybrid)
                         IN  BlockFindSIMD(hybrid, begin, H!VBits, num, w) = BlockFind(hybrid, begin, H!VBits, num, w)
    BY DEF HybridPathsAgree, Vertex
  <2>1. list \in Seq(Vertex) /\ SortedList(list) /\ hybrid = H!EncodeVertex({}, list) /\ w \in Vertex
    BY DEF HybridInv, Listed
  <2>2. H!DecodedTest(hybrid, H!Decode(hybrid), w) = H!NonNeighborTest(hybrid, w)
    BY <2>1, Roomy, HybridCode
  <2>3. LET begin == IF H!IsDecodable(hybrid) THEN 1 ELSE H!BlockBegin
            num   == IF H!IsDecodable(hybrid) THEN H!MaxKCoreSize ELSE H!GetBlockNum(hybrid)
        IN  BlockFindSIMD(hybrid, begin, H!VBits, num, w) = BlockFind(hybrid, begin, H!VBits, num, w)
    BY <2>1, Roomy, HybridSearches
  <2> QED BY <2>2, <2>3
<1> QED BY <1>1, HybridInvariant, PTL

(* RangeEncode meets the contract of a code, for every list of neighbours and  *)
(* every number of slots from two on: EncodeVertex and NonNeighborTest         *)
(* together never deny a neighbour and never affirm another vertex, whatever   *)
(* window is selected and whatever the slots held before.                      *)
THEOREM RangeEncodeMeetsContract == Spec => []RangeMeetsContract
<1>1. RangeInv => RangeMeetsContract
  <2> SUFFICES ASSUME RangeInv
               PROVE  RangeMeetsContract
    OBVIOUS
  <2>1. PICK l, x : Same(l, list) /\ range = EncodeVertex(x, l)
    BY DEF RangeInv
  <2> DEFINE fits == Len(list) <= MaxInt
  <2>2. /\ l \in Seq(Vertex) /\ Len(l) = Len(list) /\ Len(list) \in Nat /\ MaxInt \in Int
        /\ \A w : Names(l, w) <=> Names(list, w)
        /\ list \in Seq(Vertex)
    BY <2>1, Roomy DEF Same, RangeInv, Listed, HasRoom
  <2>3. fits \in BOOLEAN
    OBVIOUS
  <2>4. range.flag = fits
    <3>1. Len(Sorted(l)) = Len(list)
      BY <2>2 DEF Sorted
    <3>2. CASE fits
      BY <2>1, <3>1, <3>2 DEF EncodeVertex
    <3>3. CASE ~ fits
      <4>1. range = [flag |-> FALSE, slot |-> Window(Sorted(l), BestStart(Sorted(l)))]
        BY <2>1, <3>1, <3>3 DEF EncodeVertex
      <4>2. range.flag = FALSE
        BY <4>1
      <4> HIDE DEF fits
      <4>3. fits = FALSE
        BY <2>3, <3>3
      <4> QED BY <4>2, <4>3
    <3> QED BY <3>2, <3>3
  <2>5. ASSUME NEW w \in Vertex
        PROVE  /\ fits => NonNeighborTest(range, w) = RightAnswer(list, w)
               /\ NonNeighborTest(range, w) \in {RightAnswer(list, w), Uncertain}
    <3>1. LET answer == NonNeighborTest(EncodeVertex(x, l), w)
              told   == IF Names(l, w) THEN Neighbor ELSE NonNeighbor
          IN  /\ Len(l) <= MaxInt => answer = told
              /\ Len(l) > MaxInt => answer = told \/ answer = Uncertain
      BY <2>2, Roomy, RangeTest
    <3>2. /\ NonNeighborTest(EncodeVertex(x, l), w) = NonNeighborTest(range, w)
          /\ (IF Names(l, w) THEN Neighbor ELSE NonNeighbor) = RightAnswer(list, w)
      BY <2>1, <2>2 DEF RightAnswer
    <3>3. Len(l) <= MaxInt \/ Len(l) > MaxInt
      BY <2>2
    <3> QED BY <2>2, <3>1, <3>2, <3>3
  <2> HIDE DEF fits
  <2>6. ASSUME NEW w \in Vertex
        PROVE  NonNeighborTest(range, w) \in VC!Answers(VC!Encoded(fits, Range(list)), w)
    <3>1. VC!Answers(VC!Encoded(fits, Range(list)), w)
            = IF fits THEN {RightAnswer(list, w)} ELSE {RightAnswer(list, w), Uncertain}
      BY <2>2, <2>3, RightAnswers
    <3> QED BY <2>5, <3>1
  <2> QED BY <2>4, <2>6 DEF RangeMeetsContract, Meets, Vertex, fits
<1> QED BY <1>1, RangeInvariant, PTL

-----------------------------------------------------------------------------
(* The Range index and the Hybrid index: the build of RangeVend with either    *)
(* encoder.  The updates of the Hybrid index are left out: InsertPair and      *)
(* DeletePair of HybridEncode deny edges.                                      *)
CONSTANTS Hybrid,              \* whether it is the Hybrid index
          MaxStray, MaxOps     \* see VendIndex

VARIABLES adjacency_list, phase, idx, vert, pos, bin, degrees, filtered, code,
          stray, edges, defined, ops

(* RangeEncode sorts for itself. *)
OrderlyFor(l) == Hybrid = TRUE => SortedList(l)

LongestStored             == IF Hybrid = TRUE THEN H!MaxIntegerSize ELSE MaxInt
Blank                     == IF Hybrid = TRUE THEN {} ELSE BlankCode
Encoding(c, l)            == IF Hybrid = TRUE THEN H!EncodeVertex(c, l) ELSE EncodeVertex(c, l)
Answers(codes, u, v)      == {IF Hybrid = TRUE THEN H!NEpairTest(codes, u, v) ELSE NEpairTest(codes, u, v)}
Inserted(codes, db, u, v) == IF Hybrid = TRUE THEN {} ELSE InsertPair(codes, db, u, v)
Deleted(codes, db, u, v)  == IF Hybrid = TRUE THEN {} ELSE DeletePair(codes, db, u, v)

I == INSTANCE RangeVendBuildProofs WITH
  Orderly <- OrderlyFor, MaxKCore <- LongestStored, encodes_Blank <- Blank,
  encodes_EncodeVertex <- Encoding, encodes_NEpairTest <- Answers,
  encodes_InsertPair <- Inserted, encodes_DeletePair <- Deleted

(* The words of the build. *)
LEMMA BuildWords ==
  /\ I!Vertex = Vertex /\ I!Neighbor = Neighbor /\ I!NonNeighbor = NonNeighbor
  /\ \A l, w : I!Names(l, w) <=> Names(l, w)
BY DEF I!Vertex, Vertex, I!Names, Names, I!Neighbor, Neighbor, I!NonNeighbor, NonNeighbor

(* What either encoder keeps of the edges, in the words of the build. *)
LEMMA EncoderKeeps == I!EncoderKeepsEdges /\ I!EncoderAddsNone /\ I!EncoderKeepsOthers
<1>1. CASE Hybrid = TRUE
  <2>1. LongestStored = H!MaxIntegerSize /\ \A codes, u, v : Answers(codes, u, v) = {H!NEpairTest(codes, u, v)}
    BY <1>1 DEF LongestStored, Answers
  <2>2. \A codes, u, L : I!Held(codes, u, L) <=> HybridHolds(codes, u, L)
    BY <1>1, BuildWords DEF I!Held, HybridHolds, OrderlyFor, Encoding, Blank
  <2>3. \A codes, u, v, L, M : I!Covered(codes, u, v, L, M) <=> HybridCovers(codes, u, v, L, M)
    BY <2>1, <2>2, BuildWords DEF I!Covered, HybridCovers
  <2>4. I!EncoderKeepsEdges
    BY <2>1, <2>3, BuildWords, Roomy, HybridKeepsEdges DEF I!EncoderKeepsEdges
  <2>5. I!EncoderAddsNone
    BY <2>1, <2>2, BuildWords, Roomy, HybridAddsNone DEF I!EncoderAddsNone
  <2>6. I!EncoderKeepsOthers
    BY <1>1 DEF I!EncoderKeepsOthers, Deleted
  <2> QED BY <2>4, <2>5, <2>6
<1>2. CASE Hybrid # TRUE
  <2>1. LongestStored = MaxInt /\ \A codes, u, v : Answers(codes, u, v) = {NEpairTest(codes, u, v)}
    BY <1>2 DEF LongestStored, Answers
  <2>2. \A codes, u, L : I!Held(codes, u, L) <=> RangeHolds(codes, u, L)
    BY <1>2, BuildWords DEF I!Held, RangeHolds, OrderlyFor, Encoding, Blank
  <2>3. \A codes, u, v, L, M : I!Covered(codes, u, v, L, M) <=> Covers(codes, u, v, L, M)
    BY <2>1, <2>2, BuildWords DEF I!Covered, Covers
  <2>4. I!EncoderKeepsEdges
    BY <2>1, <2>3, BuildWords, Roomy, RangeKeepsEdges DEF I!EncoderKeepsEdges
  <2>5. I!EncoderAddsNone
    BY <2>1, <2>2, BuildWords, Roomy, RangeAddsNone DEF I!EncoderAddsNone
  <2>6. \A codes, E : I!CoversAll(codes, E) <=> CoversAll(codes, E)
    BY <2>3, BuildWords DEF I!CoversAll, CoversAll
  <2>7. \A lists, E : I!ListsName(lists, E) <=> ListsName(lists, E)
    BY BuildWords DEF I!ListsName, ListsName
  <2>8. I!EncoderKeepsOthers
    BY <1>2, <2>6, <2>7, BuildWords, Roomy, RangeKeepsOthers DEF I!EncoderKeepsOthers, Deleted
  <2> QED BY <2>4, <2>5, <2>8
<1> QED BY <1>1, <1>2

(* The graphs LoadData can leave, without a gap that is filled in wrongly. *)
Graphs == I!GapFree(SUBSET I!PairsOf(I!Vertex))

(* They meet the assumptions of the theorems about the build: the lists that   *)
(* are loaded are in order, and stay so when entries are filtered.             *)
LEMMA GraphsSound ==
  /\ V \in Nat /\ LongestStored \in Nat
  /\ I!Sound(Graphs) /\ \A g \in Graphs : I!LeavesOrderly(g)
<1>1. V \in Nat /\ MaxInt \in Nat /\ H!MaxIntegerSize \in Nat
  BY Roomy, HybridSizes DEF HybridRoom, HasRoom
<1>2. LongestStored \in Nat
  BY <1>1 DEF LongestStored
<1>3. I!Sound(Graphs)
  BY <1>1, I!GapFreeSound DEF Graphs
<1>4. ASSUME NEW E
      PROVE  I!LeavesOrderly(I!Loaded(E))
  <2>1. \A v \in 0 .. V : \A F : I!SortedList(I!Kept(I!Loaded(E)[v], F))
    BY <1>1, I!LoadedSorted
  <2> QED BY <2>1 DEF I!LeavesOrderly, I!SortedList, SortedList, OrderlyFor
<1>5. \A g \in Graphs : \E E : g = I!Loaded(E)
  BY DEF Graphs, I!GapFree, I!GraphsFrom
<1> QED BY <1>1, <1>2, <1>3, <1>4, <1>5

(* Neither index denies an edge of the graph it was built from: no finished    *)
(* BuildEncoding leaves codes of which NEpairTest answers NonNeighbor for one. *)
THEOREM IndexDeniesNoEdge == I!SpecOver(Graphs) => []I!NoFalseNegative
BY EncoderKeeps, GraphsSound, I!BuildDeniesNoEdge

(* Both answer Neighbor for edges only. *)
THEOREM IndexAffirmsEdges == I!SpecOver(Graphs) => []I!OnlyEdgesAffirmed
BY EncoderKeeps, GraphsSound, I!BuildAffirmsOnlyEdges

(* Both implement the abstract index, which denies no edge there is: the       *)
(* Hybrid index through its build, the Range index through its build and then  *)
(* every Graph::RemoveEdge that reads nothing behind a code.                   *)
THEOREM IndexKeepsPromise == I!LifeOver(Graphs) => I!KeepsPromise
BY EncoderKeeps, GraphsSound, I!LifeKeepsPromise

(* When the build is done, the pair test of HybridEncode does not depend on    *)
(* the order of the two ends, and the one over decoded headers, which asks one *)
(* end only when it may, agrees with it.                                       *)
HybridQueriesAgree ==
  phase = "done" => \A u, v \in Vertex : u # v =>
     /\ H!NEpairTest(code, u, v) = H!NEpairTest(code, v, u)
     /\ H!DecodedNEpairTest(code, u, v) = H!NEpairTest(code, u, v)

(* The ways to ask the Hybrid index about a pair agree after every build: two  *)
(* codes of which neither is decodable are of lists that name each other's     *)
(* vertex both or neither, so the first answer other than Uncertain is the     *)
(* smaller of the two.                                                         *)
THEOREM HybridIndexPathsAgree ==
  ASSUME Hybrid = TRUE
  PROVE  I!SpecOver(Graphs) => []HybridQueriesAgree
<1>1. I!LongListsAgree => HybridQueriesAgree
  <2> SUFFICES ASSUME I!LongListsAgree, phase = "done", NEW u \in Vertex, NEW v \in Vertex, u # v
               PROVE  /\ H!NEpairTest(code, u, v) = H!NEpairTest(code, v, u)
                      /\ H!DecodedNEpairTest(code, u, v) = H!NEpairTest(code, u, v)
    BY DEF HybridQueriesAgree
  <2>1. PICK L, M :
          /\ I!Held(code, u, L) /\ I!Held(code, v, M)
          /\ Len(L) > H!MaxIntegerSize /\ Len(M) > H!MaxIntegerSize => (Names(L, v) <=> Names(M, u))
    BY BuildWords DEF I!LongListsAgree, LongestStored
  <2>2. HybridHolds(code, u, L) /\ HybridHolds(code, v, M)
    BY <2>1, BuildWords DEF I!Held, HybridHolds, OrderlyFor, Encoding, Blank
  <2> QED BY <2>1, <2>2, Roomy, PathsAgreeOn
<1>2. I!SpecOver(Graphs) => []I!LongListsAgree
  BY GraphsSound, I!BuildLongListsAgree
<1> QED BY <1>1, <1>2, PTL
=============================================================================
