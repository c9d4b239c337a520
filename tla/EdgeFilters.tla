------------------------------- MODULE EdgeFilters -----------------------------
(* The indexes that hash edges.  Four are one Bloom filter over all edges:     *)
(* BFilterBitEncode keeps bits, BBFilterEncode bits within one block chosen by *)
(* a further hash, BFilterIntEncode counters, CBFilterEncode counters of a few *)
(* bits packed side by side.  The fifth, BitHashEncode, keeps an edge as a bit *)
(* in the code of its smaller end.  They are run side by side on the same      *)
(* graph, from BuildEncoding over insertions and deletions.  Updates of the    *)
(* graph never change the database.  BuildEncoding reads the lists in memory,  *)
(* which name a neighbour once more for every time the database was filled.    *)
EXTENDS Integers, FiniteSets, FiniteSetsExt, Sequences, SequencesExt, BitBlocks

CONSTANTS V,             \* VERTEX_SIZE
          HashParams,    \* the pairs (HASH_PARAM1[i], HASH_PARAM2[i])
          BitHashNums,   \* BIT_HASH_BEST_NUMS and INT_HASH_BEST_NUMS: how many
          IntHashNums,   \* of them the bit and the counting filters use
          CountHashNums, \* COUNT_HASH_BEST_NUMS, of the packed filter
          HashSize,      \* hash_size_: cells of the plain filters
          BlockSize,     \* block_size_ and block_nums_ of the blocked filter
          BlockNums,
          BlockParams,   \* (block_hash1_, block_hash2_)
          VertexBits,    \* hash_size_ of BitHashEncode: PER_ENCODE_BIT_SIZE
          ElementSize,   \* element_size_ and element_nums_ of the packed filter:
          ElementNums,   \* bits of a counter, number of counters
          IndexBytes,    \* 256 in the code: bytes that BlockSet can address
          CountWord,     \* 2^32 in the code: counters are uint32_t when in use
          Copies,        \* how often the list of each vertex may have been loaded
          MaxCopies,     \* bound on that
          MaxOps         \* bound on insertions and deletions

Vertex == 1 .. V

ASSUME FilterAssumption == /\ V \in Nat /\ HashSize \in Nat \ {0}
                           /\ BlockSize \in Nat \ {0} /\ BlockNums \in Nat \ {0}
                           /\ VertexBits \in Nat \ {0}
                           /\ HashParams \in Seq(Nat \X Nat)
                           /\ {BitHashNums, IntHashNums, CountHashNums} \subseteq DOMAIN HashParams
                           /\ ElementSize > 8 /\ ElementNums \in Nat \ {0}
                           /\ IndexBytes \in Nat \ {0} /\ CountWord \in Nat \ {0}
                           /\ MaxCopies \in Nat /\ Copies \subseteq [1 .. V -> 1 .. MaxCopies]

VARIABLES db,            \* the edges in the database, fixed once the graph is built
          copies,        \* how often each list in memory names its members
          built,
          edges,         \* the graph as its user has updated it
          bits, blocks, counts,
          packed,        \* CBFilterEncode: the positions that are one
          codes,         \* BitHashEncode: per vertex, the positions that are one
          ops

vars == <<db, copies, built, edges, bits, blocks, counts, packed, codes, ops>>

(* The key of an edge is its smaller and its greater end. *)
Mix(e, params, size) == (Min(e) * params[1] + Max(e) * params[2]) % size

\* Variant: blocks are counted from one.
BlockHashFromOne(e, i) ==
  (Mix(e, BlockParams, BlockNums) + 1) * BlockSize + Mix(e, HashParams[i], BlockSize)

Hash(e, i)      == Mix(e, HashParams[i], HashSize)
BlockHash(e, i) == Mix(e, BlockParams, BlockNums) * BlockSize + Mix(e, HashParams[i], BlockSize)

Cells(e)      == {Hash(e, i) : i \in 1 .. BitHashNums}
BlockCells(e) == {BlockHash(e, i) : i \in 1 .. BitHashNums}
IntCells(e)   == {Hash(e, i) : i \in 1 .. IntHashNums}

(* The entries of edges in the lists of their smaller ends: an edge and the    *)
(* number of its copy.                                                         *)
Entries(E) == {x \in E \X (1 .. MaxCopies) : x[2] <= copies[Min(x[1])]}

Once(e) == {<<e, 1>>}

\* Variant: the counters only remember whether a cell is used.
TallyOnce(X, c) == IF \E x \in X : c \in IntCells(x[1]) THEN 1 ELSE 0

(* How often EdgeSet, over the entries X, adds one to a cell. *)
Tally(X, c) == Cardinality({y \in X \X (1 .. IntHashNums) : Hash(y[1][1], y[2]) = c})

-----------------------------------------------------------------------------
(* The packed counting filter.  A counter is its first bit. *)
PackedHash(e, i) == Mix(e, HashParams[i], ElementNums) * ElementSize

Counters(e) == [i \in 1 .. CountHashNums |-> PackedHash(e, i)]

Count(ones, at) == BlockGet(ones, at, ElementSize)

(* BlockSet(at, element_size_, BlockGet(at, element_size_) + by); nothing      *)
(* stops a counter at zero or at its largest value.                            *)
AddAt(ones, at, by) ==
  BlockSetAt(ones, (at \div 8) % IndexBytes, at, ElementSize, (Count(ones, at) + by) % CountWord)

\* Variant: the counters of an edge are read before any of them is written.
AddAtOnce(ones, ats, by) ==
  LET after[k \in 0 .. Len(ats)] ==
        IF k = 0 THEN ones
        ELSE LET prev == after[k - 1]
             IN  BlockSetAt(prev, (ats[k] \div 8) % IndexBytes, ats[k], ElementSize,
                            (Count(ones, ats[k]) + by) % CountWord)
  IN  after[Len(ats)]

(* One counter after the other. *)
AddAll(ones, ats, by) ==
  LET after[k \in 0 .. Len(ats)] ==
        IF k = 0 THEN ones ELSE LET prev == after[k - 1] IN AddAt(prev, ats[k], by)
  IN  after[Len(ats)]

(* The edges as BuildEncoding meets them: by smaller, then by greater end, and *)
(* every copy of one before the next.                                          *)
InOrder(E) == SetToSortSeq(E, LAMBDA d, e : Min(d) < Min(e) \/ (Min(d) = Min(e) /\ Max(d) < Max(e)))

CountersOf(E) ==
  LET s == InOrder(E)
      ofEdge(e) == FlattenSeq([j \in 1 .. copies[Min(e)] |-> Counters(e)])
  IN  FlattenSeq([k \in DOMAIN s |-> ofEdge(s[k])])
-----------------------------------------------------------------------------
VertexHash(v) == v % VertexBits

DbQuery(v) == {w \in Vertex : w # v /\ {v, w} \in db}

EncodeVertex(v, neighbors) == {VertexHash(w) : w \in {n \in neighbors : v < n}}
-----------------------------------------------------------------------------
Init ==
  /\ db \in SUBSET PairsOf(Vertex)
  /\ copies \in Copies
  /\ built = FALSE
  /\ edges = db
  /\ bits = {}
  /\ blocks = {}
  /\ counts = [c \in 0 .. HashSize - 1 |-> 0]
  /\ packed = {}
  /\ codes = [v \in Vertex |-> {}]
  /\ ops = 0

(* BuildEncoding: EdgeSet for every entry of an edge at its smaller end. *)
BuildEncoding ==
  /\ ~built
  /\ built' = TRUE
  /\ bits' = bits \cup UNION {Cells(e) : e \in db}
  /\ blocks' = blocks \cup UNION {BlockCells(e) : e \in db}
  /\ counts' = [c \in DOMAIN counts |-> counts[c] + Tally(Entries(db), c)]
  /\ packed' = AddAll(packed, CountersOf(db), 1)
  /\ codes' = [v \in Vertex |-> EncodeVertex(v, DbQuery(v))]
  /\ UNCHANGED <<db, copies, edges, ops>>

Insert(e) ==
  /\ built
  /\ ops < MaxOps
  /\ edges' = edges \cup {e}
  /\ bits' = bits \cup Cells(e)
  /\ blocks' = blocks \cup BlockCells(e)
  /\ counts' = [c \in DOMAIN counts |-> counts[c] + Tally(Once(e), c)]
  /\ packed' = AddAll(packed, Counters(e), 1)
  /\ codes' = [codes EXCEPT ![Min(e)] = @ \cup {VertexHash(Max(e))}]
  /\ ops' = ops + 1
  /\ UNCHANGED <<db, copies, built>>

\* Variant: cells that fall to zero are kept at one.
LoweredToOne(n, by) == IF n > by + 1 THEN n - by ELSE Min({n, 1})

(* BFilterIntEncode::DeletePair takes one off each cell that is not zero.      *)
Lowered(n, by) == IF n > by THEN n - by ELSE 0

\* Variant: the cells of the deleted edge are cleared and nothing is rebuilt.
DeleteClears(e) ==
  /\ built
  /\ ops < MaxOps
  /\ edges' = edges \ {e}
  /\ bits' = bits \ Cells(e)
  /\ blocks' = blocks \ BlockCells(e)
  /\ counts' = [c \in DOMAIN counts |-> Lowered(counts[c], Tally(Once(e), c))]
  /\ packed' = AddAll(packed, Counters(e), -1)
  /\ codes' = [codes EXCEPT ![Min(e)] = @ \ {VertexHash(Max(e))}]
  /\ ops' = ops + 1
  /\ UNCHANGED <<db, copies, built>>

(* BFilterBitVend::Delete: a bit cannot be taken back, so the filter is        *)
(* cleared and built again from the database; counters are lowered.            *)
(* BitHashEncode encodes the smaller end again from its list there.            *)
Delete(e) ==
  /\ built
  /\ ops < MaxOps
  /\ edges' = edges \ {e}
  /\ bits' = UNION {Cells(d) : d \in db}
  /\ blocks' = UNION {BlockCells(d) : d \in db}
  /\ counts' = [c \in DOMAIN counts |-> Lowered(counts[c], Tally(Once(e), c))]
  /\ packed' = AddAll(packed, Counters(e), -1)
  /\ codes' = [codes EXCEPT ![Min(e)] = EncodeVertex(Min(e), DbQuery(Min(e)) \ {Max(e)})]
  /\ ops' = ops + 1
  /\ UNCHANGED <<db, copies, built>>

(* Insertions of new edges and deletions of existing ones. *)
Next ==
  \/ BuildEncoding
  \/ \E e \in PairsOf(Vertex) \ edges : Insert(e)
  \/ \E e \in edges : Delete(e)

Spec == Init /\ [][Next]_vars
-----------------------------------------------------------------------------
(* The NEpairTest of the five indexes: a pair is denied when one of its cells  *)
(* is not set, else it is Uncertain.                                           *)
BitNEpairTest(e)   == IF Cells(e) \subseteq bits THEN Uncertain ELSE NonNeighbor
BlockNEpairTest(e) == IF BlockCells(e) \subseteq blocks THEN Uncertain ELSE NonNeighbor
IntNEpairTest(e)   == IF \A c \in IntCells(e) : counts[c] # 0 THEN Uncertain ELSE NonNeighbor
PackedNEpairTest(e) ==
  IF \A i \in 1 .. CountHashNums : Count(packed, PackedHash(e, i)) # 0 THEN Uncertain ELSE NonNeighbor
HashNEpairTest(e)  == IF VertexHash(Max(e)) \in codes[Min(e)] THEN Uncertain ELSE NonNeighbor

(* EdgeSet, InsertPair and DeletePair stay within the filters, whichever block *)
(* BlockHash chooses, and no counter falls below zero.                         *)
TypeOK == /\ bits \subseteq 0 .. HashSize - 1
          /\ blocks \subseteq 0 .. BlockNums * BlockSize - 1
          /\ counts \in [0 .. HashSize - 1 -> Nat]
          /\ packed \subseteq 0 .. ElementNums * ElementSize - 1
          /\ codes \in [Vertex -> SUBSET (0 .. VertexBits - 1)]

(* What the counters are to count: the present graph once, and the further     *)
(* copies of the edges it was built with.                                      *)
Counted == (edges \X {1}) \cup {x \in Entries(db) : x[2] > 1}

(* Under insertions of new edges and deletions of existing ones the counters   *)
(* are those of a filter built from scratch over the present graph, whatever   *)
(* cells the edges share, and on top of that the copies that EdgeSet found in  *)
(* lists loaded several times, which no DeletePair takes off.                  *)
CountsExact == built => \A c \in DOMAIN counts : counts[c] = Tally(Counted, c)

(* How often EdgeSet, over the entries X, adds one to a packed counter. *)
PackedTally(X, at) == Cardinality({y \in X \X (1 .. CountHashNums) : PackedHash(y[1][1], y[2]) = at})

(* The counters that begin behind the bytes BlockSet can address: all but the  *)
(* first few of any real filter.  Of their bits BlockSet writes those behind   *)
(* the first byte where they belong.                                           *)
Far == {at \in {ElementSize * k : k \in 0 .. ElementNums - 1} : at \div 8 >= IndexBytes}
CountRange(at) == 2^((at + ElementSize) - 8 * ((at \div 8) + 1))

(* Although the index of BlockSet wraps, and counters share bytes, a counter   *)
(* of CBFilterEncode behind the addressable bytes is that of a filter built    *)
(* over the present graph and the further copies, up to overflow of its bits   *)
(* behind the first byte: what the wrapped writes and overflows destroy lies   *)
(* in the front.                                                               *)
PackedExact ==
  built => \A at \in Far : Count(packed, at) = PackedTally(Counted, at) % CountRange(at)

(* The counting filters never deny an edge of the graph, inserted ones         *)
(* included; the packed one as long as the counters of the edge are Far and    *)
(* have room for what they count.                                              *)
CountersNeverDeny ==
  built => \A e \in edges :
    /\ IntNEpairTest(e) # NonNeighbor
    /\ (\A i \in 1 .. CountHashNums : /\ PackedHash(e, i) \in Far
                                      /\ PackedTally(Counted, PackedHash(e, i)) < CountRange(PackedHash(e, i)))
         => PackedNEpairTest(e) # NonNeighbor

(* The bit filters and the bit hash never deny an edge of the graph as it was  *)
(* built, across the rebuilds that deletions cause.                            *)
BuiltEdgesNotDenied ==
  built => \A e \in edges \cap db :
    NonNeighbor \notin {BitNEpairTest(e), BlockNEpairTest(e), HashNEpairTest(e)}
=============================================================================
