# VEND in TLA+

VEND ("vertex encoding for edge nonexistence determination") keeps, beside a graph
database, a small encoding of every vertex. `Determine(v1, v2)` answers from two
encodings whether the pair is an edge (`Neighbor`), is no edge (`NonNeighbor`) or
must be looked up (`Uncertain`). Only the last answer costs a look at the adjacency
lists, so **an edge answered `NonNeighbor` is lost for good**. That no index ever
does this is the central property here; the rest says when the algorithms end, what
they encode in full, that the bit layouts hold what they should, and that the runs
of the program leave files from which later runs answer correctly.

The program is sequential and single-threaded (`MULTI_THREAD 0`). What is hard in it
is not interleaving but long sequences of in-place updates of several arrays, bit
layouts at their limits, undefined reads past the end of an array, two copies of the
graph (database and encodings) of which updates change only one, and runs that are
killed between two writes. Compile-time flags are those of `config.h` (`DB_QUERY 1,
IN_MEMORY 1, UNDIRECTED 1, THRESHOLD 0, VARY_K 0`).

## The system's parts and the modules

| Part of the code | Module | State and actions |
|---|---|---|
| `PairType`, what an index promises | `PairTypes`, `VendPromise` | abstract index: the graph and the sets of pairs that may be denied or affirmed; `Build`, `Insert`, `Delete` |
| what a build may assume of an encoder | `VertexCode` | a code is "stored in full or not" and a list; `Answers` is the contract, `PairAnswers` combines the answers of two ends as the two encoder families do |
| `RangeCompVend`, `DeltaSIMDVEND::BuildEncoding` | `PeelBuild` (+ `PeelBuildProofs`) | one action per iteration of each loop: `EncodeFirst`, `EndFirst`, `SkipFiltered`, `SkipTooLong`, `Peel`, `NextRound`, `EncodeRest`, `Finish` |
| `RangeVend::BuildEncoding` (Range, Hybrid, Bloom, Count) | `RangeVendBuild` (+ `RangeVendBuildProofs`) | `vert`, `pos`, `bin`, `degrees`, `idx`; `PeelNext` (with the whole loop over the neighbours), `Overrun`, `EndKCore`, `EncodeRest`, `Finish` |
| `DirSIMDVend::BuildEncoding`, `DirectedSIMD` | `DirPeelBuild` (+ `DirPeelBuildProofs`) | the peeling build over out- and in-lists: `EncodeFirst`, `EndFirst`, `Skip`, `Peel`, `NextRound`, `EncodeRest`, `Finish`; `SIMDNEpairTestDirected` is the pair test, which reads each code by the flag of the vertex's other code |
| `Directed_Hyb_Vend::BuildEncoding`, `DirectedHybrid` | `DirHybVend` | `RangeVendBuild` over the out-list followed by the in-list of a vertex, the two codes of a vertex and their pair test |
| `BitSetSIMD` | `BitBlocks`, `BitSetSIMD` | `BitBlocks` says what block operations mean on sets of ones; `BitSetSIMD` has the bytes, masks, casts and the 8-bit index of the code, and the words of the encoding file (`Reload`), and is checked against it |
| `HybridEncode`, `HashCount` | `HybridEncode`, `Encoders` (+ `EncoderProofs`, `EncoderContractProofs`) | bits of a code, choice of the block by score, the query paths, `InsertPair`, `DeletePair` |
| loops over lists, `std::sort` | `Lists` (+ `DataTheorems`) | what a loop keeps of a list, a sorted list, a list without its first `e` |
| `RangeEncode` | `RangeEncode`, `VertexIds` (+ `EncoderProofs`, `EncoderContractProofs`) | slots, window, `InsertPair`, `DeletePair`, `GetBlockInt` with its undefined end |
| `RangeCompEncode`, `compression.h` | `RangeComEncode` | `BitsComp`, `VbyteComp`, `VbyteDeltaComp`: encode, window, search |
| `BloomEncode`, `CountEncode` | `BloomEncode`, `CountEncode` | full lists, or hashed bits or counters |
| these encoders against the contract | `EncoderContract` | a list that grows; every encoder encodes it |
| `Graph::AddEdge/RemoveEdge`, the update drivers | `VendIndex` | build, then updates over any encoder; composed with `RangeEncode` and with `HybridEncode` in `MCVendIndex` |
| Bloom filters over edges, `BitHashEncode` | `EdgeFilters` (+ `EdgeFiltersProofs`) | five indexes side by side, one of them with counters packed into a bit set: `BuildEncoding`, `Insert`, `Delete` |
| `Graph::Init/LoadData/SaveData`, encoding files, `main` | `GraphStore` (+ `GraphStoreProofs`) | the database, the files, the current run; `BuildStore`, `BuildIndex`, `Query`, `SaveVertex`, `PersistVertex`, `Done`, `Kill` |
| `DeltaSIMDCodec` to `V3`, `SearchTree` | `DeltaSIMDCodec` | control bytes, differences, the arrangement of V3 as a tree, both searches |
| `DeltaSIMDEncode` to `V3` | `DeltaSIMDEncode`, `DeltaSIMDContract` | header byte, choice of the block, hash bits, queries; a list that grows is encoded by all four |

A list may name a neighbour several times. With `IN_MEMORY 1` `Graph::Init` fetches the lists from
the database and then appends the file (`graph.cpp:34` and `:43`), so an index is built over an
empty database from lists that name each neighbour once, after a fill from lists that name each
twice or more, and after a fill that was cut off more often at the vertices that were saved. The
peeling builds and the filters have a variable `copies` for this; `RangeVendBuild`, `VendIndex` and
`DirHybVend` have the lists as sequences; `GraphStore` shows where the copies come from.

How the parts fit together: the builds (`PeelBuild`, `RangeVendBuild`) are checked over
the contract `VertexCode`, not over one encoder. `EncoderContract` shows that the
encoders, down to their bits and bytes, meet that contract, and `DeltaSIMDContract` does so
for the SIMD encoders (of V3, for codes that store up to 20 integers). It also checks what the
search of a code by the wrong flag answers, which is what `DirPeelBuild` assumes of it. `BitSetSIMD` shows that
the mask arithmetic under the encoders computes `BitBlocks`. `MCVendIndex` puts
the bucket build, a real encoder and the updates together (`kind` says which index a
behaviour is about), and `GraphStore`
looks at what several runs of the program leave for each other.

`DeltaSIMDCodec` and `DeltaSIMDEncode` were also compared with the compiled encoders: on random
sorted lists with 64 to 256 bits per code and `Byte = 256`, the bits of the codes and all
answers of the four versions agreed. The program for this comparison is not kept here.

Definitions named in a comment `Variant:` are plausible mistakes in the definition that
follows. No specification uses them; they document which mistake each property catches.

## Runs

| Run | Module, configuration | Properties | What it shows |
|---|---|---|---|
| `peel_build` | `MCPeelBuild`, `MCPeelBuild.cfg` | `NoFalseNegative`, `PeelInv`, `PeelComplete`, `EdgeFilteredExact`, `BuildEnds`, `KeepsPromise` | Peeling builds of RangeCompVend and DeltaSIMDVEND over every graph of five vertices, with lists that were loaded once, twice, or twice in part: the inductive invariant (with the types), completeness of the peeling, the edge count of DeltaSIMDVEND, termination, and refinement of the abstract index. |
| `index` | `MCVendIndex`, `MCVendIndex.cfg` | `TypeOK`, `FilteredPrefix`, `BinTracksFirst`, `PeelComplete`, `PathsAgree`, `DirectedKeepsArcs`, `BuildEnds`, `KeepsPromise` | RangeVend's bucket-array build composed with RangeEncode (and deletions of any pairs), with HybridEncode, and over out- and in-lists with DirectedHybrid, on dense graphs of six vertices in which missing degrees are filled in rightly: the arrays stay consistent, the build ends, the index keeps its promise from the build through the deletions, the query paths agree, and no arc is denied over lists in which two vertices name each other equally often. |
| `range_build_gap` (counterexample) | `MCRangeVendBuild`, `MCRangeVendBuildGap.cfg` | `NoFalseNegative` | Where a degree is missing and several vertices have the degree below it, its bucket is given a wrong index; RangeVend then moves the wrong vertex, and the Range index denies an edge. |
| `bitset` | `MCBitSetSIMD`, `MCBitSetSIMD.cfg` | `TypeOK`, `WritesExact`, `ReadsExact` | The byte and mask arithmetic of BitSetSIMD writes and reads exactly the bits of the block, at every offset and width across byte boundaries, where the 8-bit index of the first byte wraps around, and through a dump to the encoding file and back. |
| `hybrid_insert` (counterexample) | `MCVendIndex`, `MCVendIndexInsert.cfg` | `NoEdgeDenied` | An insertion appends the new neighbour behind greater ids, and the search of the stored list stops before it. |
| `store` | `MCGraphStore`, `MCGraphStore.cfg` | `TypeOK`, `QueryExact`, `UniformCopies` | Sequences of build and query runs over the database and the encoding files, killed and repeated: queries over complete files are exact, and without kills every edge has the same number of copies. |
| `encoders` | `MCEncoderContract`, `MCEncoderContract.cfg` | `TypeOK`, `HybridMeetsContract`, `HybridPathsAgree`, `RangeMeetsContract`, `WindowIsBest`, `CompressedMeetContract`, `BloomMeetsContract`, `CountMeetsContract` | For every sorted list of neighbours the layouts of seven encoders, down to their bits and bytes, meet the contract that the build algorithms rely on (CountEncode except for lists of several neighbours stored whole); the three query paths of HybridEncode agree, and the window of RangeEncode is the best one. |
| `filters` | `MCEdgeFilters`, `MCEdgeFilters.cfg` | `TypeOK`, `CountsExact`, `PackedExact`, `CountersNeverDeny`, `BuiltEdgesNotDenied` | The four Bloom filters and the bit hash built over lists that were loaded once, twice, or twice in part, and over insertions of new edges and deletions of existing ones: counters are those of the entries they were built from, less one entry per deleted edge and with one per inserted edge, packed ones up to their width and the 8-bit index of the bit set, the counting filters deny no edge, and the others deny no edge of the built graph. |
| `simd` | `MCDeltaSIMD`, `MCDeltaSIMD.cfg` | `TypeOK`, `LinearMeetsContract`, `V3BlocksMeetContract`, `TreeSearchExact` | For every list of neighbours, each once or twice, the codes of the four SIMD encoders, down to control bytes and differences, meet the contract of a code (V3 where it stores up to 20 integers), whatever the memory behind a code holds; the search tree of V3 finds exactly the integers of lists of up to 20. |
| `simd_v3` (counterexample) | `MCDeltaSIMD`, `MCDeltaSIMDV3.cfg` | `V3MeetsContract` | A V3 code without a block of integers keeps the number of bytes of the whole list in the field of the block's size, so the hash bits are read as integers and a neighbour is denied. |
| `directed` | `MCDirPeelBuild`, `MCDirPeelBuild.cfg` | `DirPeelInv`, `FilteredArcsNotDenied`, `SIMDArcsNotDenied` | The peeling build of DirSIMDVend over every directed graph of four vertices, with UNDIRECTED 0 and 1 and out-lists that were loaded once or twice: the inductive invariant, that the pair test, which takes the flag of the wrong code, denies no arc with a filtered end, and when it denies no other arc either. |
| `directed_hybrid` (counterexample) | `MCDirHybVend`, `MCDirHybVend.cfg` | `NoArcDenied` | With UNDIRECTED 1 the reverse of every line is also put into the out-lists of a directed graph; the degrees of the two ends then disagree, a vertex is filtered although its lists cannot be stored in full, and an arc is denied. |

### Bounds

* `V` is 3 to 5 where every graph (and every order `std::sort` may leave) is
  enumerated. Five vertices give a core that cannot be peeled beside vertices that
  can, chains of removals over several rounds, and ties of degrees.
* `index` has six vertices, enough for vertices to stay unpeeled in graphs whose missing degrees
  are filled in rightly (`FillIsRight`, see the counterexamples below). It starts from the graphs of at least `MinEdges` edges, with vertices
  numbered by degree (the code treats ids alike up to their order in lists), from a core whose
  lists are too long for a decodable hybrid code, and from a single edge, for which `bin` is
  read past its end. The three indexes have the same capacity `MaxKCore`, and a code carries the
  kind of its index (the class of the encoder behind `encodes_`). Each edge becomes an arc to the greater
  vertex for the directed index, and in half of its graphs the reverse is there too where the
  ids sum to a multiple of three. These have `UNDIRECTED 0` and an empty database, so that two vertices name each
  other equally often (`Balanced`); two graphs also occur with `UNDIRECTED 1`, with a
  filled database, and with all reverses. Of the unbalanced ones among them
  `DirectedKeepsArcs` says nothing.
* `directed` has four vertices and every set of arcs (with `UNDIRECTED 1`, every one without a
  pair of opposite arcs), with out-lists that name each member once, twice, or twice at one vertex only, and three bytes for both
  lists: a neighbour named twice or two named once fit in one of the lists; more, or one in each, do not. `directed_hybrid` is one file of seven vertices.
* `peel_build` and `filters` start from lists that all name each neighbour once, that all name each
  twice, and that do so twice at the smaller vertices only, as a fill that was cut off leaves them.
* In `bitset` and `filters` the index of the first byte wraps at `IndexBytes` bytes
  instead of 256, so that some blocks begin behind it.
* `Capacity`, `MaxKCore`, `MaxInt`, `PerBits` are so small that the same few vertices
  have lists that fit, fit exactly, and do not fit.
* Word sizes are scaled: the flag word has 8 bits instead of 32, a byte of the
  variable-length code has `Base` values instead of 128, scores wrap at `Word`. A
  list then needs one, two or several bytes per id within `V = 17`.
* In `simd` a byte of data has 6 values instead of 256, so that differences below 50 take
  one to three bytes, and a code has 64 bits. Five ids, each up to twice, give lists that fit (in one group
  and in two), and, for each version, blocks at either end and in the middle. V0 to V2
  choose a code without a block on none of these lists; `LinearMeetsContract` builds that
  code explicitly. The memory behind a code is all zeros or all ones. `LongList` feeds
  the search tree with every length up to 20.
* Hash parameters are the first entries of the tables of the code; filters have 8 or 9
  cells, so edges share cells.
* `MaxOps`, `MaxRuns` bound the number of updates and of runs of the program;
  `MaxStray` is the largest value a read past the end of `bin` returns (beyond
  `V + 2` all values behave alike).
* `CHECK_DEADLOCK FALSE` is set where the modelled life simply ends: lists that are
  as long as allowed, bounds on updates or runs. The two peeling builds check
  deadlock and let a finished build stutter.

### Fairness

Only the builds have liveness properties (`BuildEnds`). They are loops of one thread, so
weak fairness of the steps of the build is what running the program means; in `index`
the deletions that may follow have no fairness.
The store and the updates wait for their users and have none.

## Proofs

`PeelBuildProofs` proves, for every number of vertices, every simple graph, any numbers of
copies in the lists and every capacity test `Fits`:

* `PeelInvariant`: `Spec => []PeelInv`
* `TypeCorrect`: `Spec => []TypeOK`
* `NeverDeniesAnEdge`: `Spec => []NoFalseNegative`
* `PeelsEverythingThatFits`: `Spec => []PeelComplete`
* `BuildKeepsPromise`: `Spec => KeepsPromise`, the refinement of `VendPromise`
* `CountStaysExact`: `Spec => []EdgeFilteredExact`

`DirPeelBuildProofs` proves, for every number of vertices, every directed graph (with
`UNDIRECTED 1`, every one without opposite arcs), any numbers of copies in the out-lists and
every size function `Bytes`:

* `DirPeelInvariant`: `Spec => []DirPeelInv`
* `NeverDeniesAFilteredArc`: `Spec => []FilteredArcsNotDenied`
* `SIMDNeverDeniesAnArc`: `Spec => []SIMDArcsNotDenied`

`EdgeFiltersProofs` proves, for every graph, every size and every hash parameters of the
filters, any numbers of copies in the lists and any number of updates:

* `CountsStayExact`: `Spec => []CountsExact`
* `CountersDenyNoEdge`: the int filter denies no edge, inserted ones included
* `BuiltEdgesKept`: `Spec => []BuiltEdgesNotDenied`

`RangeVendBuildProofs` proves of the bucket build `RangeVend::BuildEncoding`, for every number of
vertices, every capacity, every order that sorting by degree may give, every value read past
the end of `bin`, and every loaded graph whose missing degrees are filled in rightly:

* `BuildTypes`, `BuildFilteredPrefix`, `BuildBinTracksFirst`, `BuildPeelComplete`:
  `SpecOver(G) => []TypeOK` and so on for `FilteredPrefix`, `BinTracksFirst`, `PeelComplete`
* `BuildDeniesNoEdge`: `SpecOver(G) => []NoFalseNegative` for any encoder with
  `EncoderKeepsEdges` (a pair is not denied when the lists of both ends name the other one, or
  when that of one end does and is short enough to be stored in full)
* `BuildAffirmsOnlyEdges`: for any encoder with `EncoderAddsNone`, only edges are affirmed

`G` is any set of graphs that are `Sound`: lists of vertices that name each other equally often,
perhaps several times (a reloaded file), without loops, and with `FillIsRight`.
`LoadedMultigraph` and `GapFreeSound` show that what `LoadData` leaves is sound up to
`FillIsRight`. An encoder may ask for lists in some order (`Orderly`); then the lists that the
build gives it must have that order (`LeavesOrderly`), which `LoadedSorted` shows of what `LoadData` leaves. Further:

* `BuildLongListsAgree`: when the build is done, two lists too long to be stored in full name each
  other's vertex both or neither
* `LifeKeepsPromise`: `LifeOver(G) => KeepsPromise`: the build and then any number of
  `Graph::RemoveEdge` implement the abstract index, for any encoder with the two conditions above
  and `EncoderKeepsOthers` (`DeletePair` keeps what the codes hold of the pairs that stay).
  `LifeOver` takes only deletions that read nothing behind a code, and no insertions

`EncoderContractProofs` proves of the two encoders of this build, for every list of neighbours in
order, every number of vertices and every size of a code:

* `HybridEncodeMeetsContract`: `Spec => []HybridMeetsContract`
* `HybridEncodePathsAgree`: `Spec => []HybridPathsAgree`
* `RangeEncodeMeetsContract`: `Spec => []RangeMeetsContract`

and of the indexes built with either (`Hybrid` says with which), for every graph whose missing
degrees are filled in rightly:

* `IndexDeniesNoEdge`, `IndexAffirmsEdges`: no edge is denied, and only edges are affirmed
* `IndexKeepsPromise`: the Hybrid index through its build, and the Range index through its build
  and deletions, implement the abstract index
* `HybridIndexPathsAgree`: after a build of the Hybrid index `NEpairTest` does not depend on the
  order of the ends and agrees with the test over decoded headers

`GraphStoreProofs` proves of the runs of the program, for every data file, any index types, any
number of runs and kills at any write:

* `StoreTypes`: `Spec => []TypeOK`
* `QueriesExact`: `Spec => []QueryExact`
* `CopiesUniform`: `Spec => []UniformCopies`

The assumptions on the peeling build are `VAssumption` (`V` is a natural number, and lists name their members a positive number of times) and `FitsAssumption` (the
capacity test returns a Boolean), on the directed one `DirAssumption` (`V`, `MaxBytesLen`
and the sizes are natural numbers, copies are positive), on the filters `FilterAssumption` (sizes are positive, the
tables hold pairs of natural numbers and as many as are used), on the store `StoreAssumption`
(`V` is positive, `NoVend` is not an index type, and a missing file is not a list of codes), on the
encoders `ContractAssumption` (a code of `RangeEncode` has two slots at least, and one of
`HybridEncode` has room for its header and an id, and ids fit their bits). Monotonicity of `Fits` or `Bytes` is not needed.

`NoFalseNegative` is not inductive: it speaks of finished builds only. `PeelInv` adds
what makes it so, besides types: a filtered vertex has a decodable code
(`FilteredDecodable`); of two adjacent filtered vertices one lists the other, and a
filtered vertex lists its neighbours that are not filtered (`FilteredCovers`); a vertex
encoded by the last loop lists all its neighbours that are not filtered (`RestCovers`);
codes list neighbours only (`ListsAreEdges`); the lists of the vertices of the first loop
fit; and a vertex that is not filtered although its remaining list fits is
scheduled for this round or the next (`PeelPending`), which gives completeness when both
are empty. The proof has one lemma per action that changes the
codes and one (`StillPending`) for the schedule. The refinement maps the build to the
single step `Build` of the promise, taken when the phase becomes "done".

`DirPeelInv` is its analogue for two lists per vertex. A removed vertex has two decodable
codes, because lists that fit one code together fit one each; an arc with a removed end
is stored at a removed end, in the out-code of its first or the in-code of its second vertex;
and a vertex that could be removed is scheduled, because vertices name each other in one of
their lists (`Graphs`). The harder step is from there to the pair test: a vertex that was
not removed may have a decodable code that lacks removed neighbours, and a single decodable
code decides alone, while each code is searched by the flag of the other one. If an end of the arc is removed, the arc is in
a decodable code of a removed vertex, whose search says Neighbor by any flag (`AnyFlag`), and either
that answer decides or it is the smaller one (`FilteredArcNotDenied`). Otherwise both codes list the
arc, and it is denied only where a summary is taken for a full list (`OtherFlagHarmless`, `ArcNotDenied`).

`EdgeFilteredExact` says that the count of `DeltaSIMDVEND` is the number of edges with a filtered end
times the number of copies, where all lists have equally many, and lies between the
least and the greatest number of copies times that where they do not. `CountStaysExact` needs one more fact than `PeelInv` has: no vertex still to be encoded in the
first round is filtered (`CountInv`). The removal of a vertex adds its edges to the neighbours
that are left, which are disjoint from those counted before and as many as these neighbours
(`RemovalAdds`); the first round reaches the same number by taking off what it counted too much
(`FirstAdds`).

The bucket build is the one whose invariant is hardest to find. `BuildInv` says that `vert` and
`pos` are inverse; that the filtered vertices are those before the index; that for some degree
`c` which the loop has reached, no remaining vertex has a smaller degree and `bin[d]` separates,
for every `d` above `c`, the smaller degrees from the others (`Bucketed`); and that
`degrees` counts what is left of a list, or bounds it from above when it is not above `c`
(`Counted`): the code stops lowering a degree at that of the vertex being removed. One
iteration of the k-core loop runs a whole loop over neighbours, so the module first shows
what that inner loop keeps (`LowerAllFacts`), by induction over its steps: every neighbour of
greater degree trades places with the first of its bucket, which never passes the index.
`FilledRight` shows that sorting and filling in establish `Bucketed`; this is where
`FillIsRight` is needed. `CodeInv` adds what the codes hold: of an edge with a filtered end, the end filtered
first was given the other, and its list was short enough to be stored in full unless the
loop bound was read past the end of `bin`, in which case no list is too long. Deletions keep `LifeInv`: of
every edge that is left, the codes still hold what makes the pair test right. A deletion changes
the codes of its two ends only, and the lists it reads from the database name every edge.

For `RangeEncode` the proof goes through the window of a list that does not fit (`BestStartFacts`): it
consists of entries of the sorted list without a gap, so that what lies between its bounds and is not
stored is not in the list. `DeletePair` takes one entry out of a list stored in full, and reads one
that is not from the database again (`RemoveKeepsList`); the pairs that stay are kept either way (`RangeKeepsOthers`).

For `HybridEncode` it goes down to the bits. `BlockSetGet` and `BlocksSetFacts` say that a number written
to a block that is wide enough is read back and that blocks side by side do not disturb each other;
`HybridSizes` that the header, the block and the hash bits fit the code for any sizes with
`HasRoom` and `IdsFit`. `DynamicChoose` weighs blocks of consecutive entries; `BestIsChosen` shows
that one of them is preferred to all others and has a score above zero, so that a list that does
not fit never goes without a code. `HybridLayout` and `HybridSummary` say what the code then holds: an
id within the bounds of the block is in the list only if it is in the block, and every other id of
the list has its hash bit set, from which the answer follows (`HybridSummaryTest`). The test over a
decoded header subtracts in unsigned arithmetic and compares once, which is the same (`UnsignedRange`). `HybridIndexPathsAgree` needs `BuildLongListsAgree`: the test over decoded headers
takes the first answer that is not Uncertain and `NEpairTest` the smaller one, which is the
same only if the two lists do not contradict each other.

Induction over data is done without the library's induction theorems: `LeastNat` (a nonempty set
of numbers has a least member) follows from their first-order half, and `SetInduction`, `LoopRuns`
and `LoopInvariant` in `DataTheorems` rest on it. Loops are recursive functions there, and
sorting is defined by the place of an entry among the others, for which `Sorted` and
`Ascending` are shown to be what the code relies on.

`FilterInv` says that the counters count the entries of the lists they were built from, with one entry
for every edge inserted since and one less for every edge deleted (`Counted`): a deletion takes off
one of the copies. Where lists were loaded once these are the counters of a build over the present graph. It also says that both
bit filters cover the whole database, also edges that were deleted, and that the code of a smaller end
covers those of its edges that are in the database and in the graph. The last two differ because a
deletion rebuilds a bit filter as a whole and the code of one vertex without one neighbour.
The counters rest on `TallyAdds`: one more entry adds exactly its own additions to a cell.

`StoreInv` follows the data through the runs: the database names nothing but edges, all of them
once it has been written as a whole, and all of those of the vertices already written while it
is being written (`StoredEdges`); a build works on exactly the edges, whatever a killed run left
(`LoadedEdges`); the lines of a file are the codes of one build, also when the file is incomplete,
and a build that is writing has written as many as it went through vertices (`StoredCodes`,
`LoadedCodes`). A query then needs two more facts: `SearchFinds`, that halving the range of an
ordered list finds what it holds (`HalvedPart` is the invariant of `std::lower_bound`), and
`PeeledAnswers`, that of two codes of one build the pair test of either family makes a right or
an uncertain answer. `CopyInv` counts: with `c` copies of every edge in the database a build
works on `c + 1`, and a run that fills the database leaves `2c + 1`; a kill in between is what
breaks it. Codes are those of the contract
`VertexCode`; any set of vertices may have been peeled, in the order of their ids (`Encodings`).

Only model-checked: termination (liveness is out of the prover's reach); the packed counters,
which are written one after the other with wrap-around, and with them `TypeOK` and
`CountersNeverDeny` of the filters; insertions into an index; the directed hybrid index, whose lists
are two; that the window of `RangeEncode` is the best one; and the compressed, Bloom, count and SIMD
encoders and the masks of `BitSetSIMD`, which sum and fold over bytes.
The theorems' properties are also checked by the runs on small instances, except those of
`CountersDenyNoEdge`, which is a part of `CountersNeverDeny`, of `BuildDeniesNoEdge`,
`BuildAffirmsOnlyEdges` and the theorems on the two indexes, which `KeepsPromise` and
`PathsAgree` imply in the run `index`, and of `BuildLongListsAgree`. `StoreInv` and
`CopyInv` are no properties of a run; on the instance of the run `store` TLC finds them to hold, with copies counted up to 40.

## What the code does and a comment or document says otherwise

Four runs end in a counterexample:

* `range_build_gap`: a degree that no vertex has gets the index of the degree before it plus one
  (`range_vend.cpp:212`), which is right only if a single vertex has that one. On the graph of
  `MCRangeVendBuild` four vertices have degree 3 and none has degree 4; when vertex 7 comes down
  to degree 4 it is moved among those of degree 3, is filtered with three neighbours left where
  two fit, and the edge 6-7 is denied. Building an index after the database was filled lists every
  neighbour twice (`graph.cpp:106`), which makes every odd degree such a gap.
* `hybrid_insert`: an inserted neighbour is appended behind greater ids and not found.
* `simd_v3`: `EncodeVertex` of V3 leaves the number of bytes of the list in the field of the
  block's size (`delta_simd_encode.h:478`). A code that gets no block keeps it, its hash
  bits are read as integers, and neighbours are denied whatever the memory behind it holds.
* `directed_hybrid`: `LoadData` puts the reverse of every line into the out-lists of a directed
  graph too (`graph.cpp:128`, `UNDIRECTED 1`). The removal of a vertex then lowers the degree
  of the other end of an arc once too often or not often enough. On the graph of
  `MCDirHybVend` a vertex is filtered although its out-list does not fit, and an arc is denied.
  Loading the file over a filled database unbalances the lists as well, with `UNDIRECTED 0` too: it doubles the
  out-lists, but the database holds no in-lists (`graph.h:95`, `graph.cpp:123`). Where two vertices
  name each other equally often the run `index` finds no such case.

Others were met with the same modules and other constants, and have no run of their own:
`DirectedSIMD` searches a code as the flag of the vertex's other code says
(`directed_simd.h:100`), and where that makes a summary pass for a full list it denies arcs;
`SIMDArcsNotDenied` is about the other codes.
With `UNDIRECTED 1` both directed indexes can affirm the reverse of an arc.
`CountEncode` ends the search of a full list at the first smaller number
(`count_encode.h:55`) and so denies all but the smallest neighbour, although the pair test is to
"test whether vertex2 is a neighbor to vertex1" (`encode.h:38`); `CountMeetsContract` claims the
contract of the counters and of lists of one neighbour only. Its `GetIntSize` (`count_encode.h:78`) lets the build filter
vertices that are only counted. `BitSetSIMD::BlockSet` keeps the index of the first byte in 8
bits (`bitset_simd.h:88`), so in the packed counting filter, the one bit set of more than 256
bytes that is written by blocks, the upper bits of almost every counter go to the front; `PackedExact` states what is left.
Further,
with `VERTEX_SIZE` a power of two, ids have one bit too few (`config.cpp:64`; the comment at
`hybrid_encode.h:41` says an id takes log(|V|) bits) and `HybridMeetsContract` fails; `Graph::Init`
takes an encoding file that exists for a complete one (`graph.cpp:39`), so after a build
killed while it wrote, queries answer from blank codes (`QueryExact` is about complete
files); of 21 integers or more the search tree of V3 misses some, as `DFS` returns after its
first child (`delta_simd_codec.cpp:362`; `TreeSearchExact` and `V3BlocksMeetContract` end at 20), and a
list that takes 128 bytes or more sets the decodable bit of a V3 code (`delta_simd_encode.h:478`);
`HybridEncode::DeletePair` encodes an end again when it does *not* list the other
(`hybrid_encode.cpp:163`) and an edge recorded there alone is denied; an edge between two vertices of the first round is counted twice by `RangeCompVend`
(`range_com_vend.cpp:42`), which prints more edges than the graph has; `EdgeFilteredExact` is about `DeltaSIMDVEND`, which takes them off again; `RangeEncode::InsertPair`
tells only one end (`range_encode.cpp:107`); deletions read lists back from the database,
so a removed pair can be affirmed again; a deletion rebuilds `BFilterBitVend` and
`BitHashEncode` codes without inserted edges; deleting a pair that is no edge lowers
counters of real ones (`bfilter_int_encode.cpp:41`); `BitsComp::Find` leaves out the last
slot when ids fill the code exactly (`compression.h:65`) and denies the neighbour there
(`CompressedMeetContract` is about codes with spare bits, see `ExactFit`);
`DynamicEncode` overwrites the bounds it stores (`compression.h:54`), which costs
answers but denies no edge; and `DynamicChoose` of `HybridEncode` scores the right-most block with the
count of the block before it (`hybrid_encode.cpp:212`), which may cost the best block and denies no edge.

## Not modelled

* RocksDB, the file system and `std::sort`/`std::binary_search` are external: what the
  code relies on is in `GraphStore` (ordered lists per key, whole lines of a file).
* The hybrid delta encoder is commented out from end to end (`src/encode/single/hybrid_delta_encode.h`, `.cpp`),
  its index leaves the encoder null, and only it would use the varint codec: dead code.
* The insertions and deletions of the SIMD encoder V3. They encode a list again with
  `EncodeVertex` of V3, which already fails the contract in `simd_v3`; the missing sort and
  the reversed test are those of `HybridEncode`.
* The SIMD searches with `HSIMD` other than 0, and what `UNDIRECTED 0` changes in the indexes
  of undirected graphs.
* Graph files that hold a line and its reverse, for the directed SIMD index with
  `UNDIRECTED 1` (`DirHybVend` has them).
* The files of the directed indexes: two of the kind in `GraphStore`, one per list.
* `large_graph.cpp` repeats the build in several passes over files; the score, timing and
  memory experiments and the counters under `METRIC` change no state of an index.
* Third-party sources in the tree: the JSON library, CLI11, googletest, easylogging and the RocksDB
  headers. They are about nine tenths of the lines of C++ in the repository; the modules
  stand for nearly half of the program's own code, and most of what is left of that are drivers,
  timers, tables of constants and the items above.

## Plan

1. Runs over directed graph files with opposite arcs and `UNDIRECTED 1` for the directed SIMD
   index (its lists would become sequences).
2. Prove that the directed peeling build is complete, and that it refines a promise over arcs.
3. Prove that the directed hybrid build, over out- and in-lists, is an instance of
   `RangeVendBuildProofs`, and that the compressed encoders meet the contract.
