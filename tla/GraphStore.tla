----------------------------- MODULE GraphStore ------------------------------
(* What the runs of the program leave behind for each other: the database and  *)
(* the files of encodings.  A run is one command for one index type (main      *)
(* deletes its Graph before the next).  The build of type NoVend fills the     *)
(* database, the builds of the other types write their file unless it exists,  *)
(* and a query run reads both.  A run may be killed while it writes.           *)
EXTENDS Integers, Sequences, VertexCode, Lists

CONSTANTS V,             \* VERTEX_SIZE
          VendTypes,     \* the index types other than NoVend
          NoFile,        \* stands for a file that is not there
          MaxRuns        \* bound on the number of runs

Vertex == 1 .. V
NoVend == "NoVend"

ASSUME StoreAssumption ==
  V \in Nat \ {0} /\ NoVend \notin VendTypes /\ NoFile \notin Seq(Code(Vertex))

VARIABLES file,          \* the edges of the data file
          db,            \* lists of neighbours
          encodes,       \* per type: NoFile or the lines written, one per vertex
          run,           \* the current run: what it does and for which type
          adj, mem,      \* its adjacency_list_ and encodings
          next,          \* the next vertex to be written
          saved,         \* some run has written the whole database
          killed,        \* some run has been killed
          runs

vars == <<file, db, encodes, run, adj, mem, next, saved, killed, runs>>

Idle == [does |-> "nothing", type |-> NoVend]
NoLists == [v \in Vertex |-> <<>>]

LoadDataFromDb == [v \in Vertex |-> Sorted(db[v])]

Neighbours(v) == {w \in Vertex : w # v /\ {v, w} \in file}

\* Variant: LoadData without the second push_back.
LoadOneWay(lists) ==
  [v \in Vertex |-> Sorted(lists[v] \o Ascending({w \in Neighbours(v) : w > v}))]

(* LoadData appends the edges of the file to the lists, then sorts them. *)
LoadData(lists) == [v \in Vertex |-> Sorted(lists[v] \o Ascending(Neighbours(v)))]

(* What BuildEncoding leaves: the codes after some vertices were peeled, here  *)
(* in the order of their ids, and the others encoded over what remained.  This *)
(* stands for the builds that keep their promise; what RangeVend makes of      *)
(* repeated entries is in RangeVendBuild.                                      *)
Encodings(lists) ==
  {[v \in Vertex |->
      Encoded(v \in P, {w \in Range(lists[v]) : w \notin P \/ (v \in P /\ v < w)})] :
     P \in SUBSET Vertex}

Blanks == [v \in Vertex |-> Blank]

\* Variant: the key of a line is taken for a vertex counted from zero.
LoadEncodeShifted(t) ==
  [v \in Vertex |-> IF encodes[t] # NoFile /\ v - 1 \in DOMAIN encodes[t] THEN encodes[t][v - 1] ELSE Blank]

(* LoadFromDb: codes without a line stay blank; so do all without a file. *)
LoadEncode(t) ==
  [v \in Vertex |-> IF encodes[t] # NoFile /\ v <= Len(encodes[t]) THEN encodes[t][v] ELSE Blank]
-----------------------------------------------------------------------------
Init ==
  /\ file \in SUBSET PairsOf(Vertex)
  /\ db = NoLists
  /\ encodes = [t \in VendTypes |-> NoFile]
  /\ run = Idle
  /\ adj = NoLists
  /\ mem = Blanks
  /\ next = 1
  /\ saved = FALSE
  /\ killed = FALSE
  /\ runs = 0

Start(does, t) ==
  /\ run = Idle
  /\ runs < MaxRuns
  /\ run' = [does |-> does, type |-> t]
  /\ next' = 1
  /\ runs' = runs + 1
  /\ UNCHANGED <<file, db, saved, killed>>

(* BuildExecution for NoVend: Init, then LoadAndSaveData. *)
BuildStore ==
  /\ Start("save", NoVend)
  /\ adj' = LoadData(LoadDataFromDb)
  /\ UNCHANGED <<encodes, mem>>

\* Variant: every build encodes, and the file is opened for appending.
BuildIndexAppends(t) ==
  /\ Start("persist", t)
  /\ adj' = LoadData(LoadDataFromDb)
  /\ mem' \in Encodings(adj')
  /\ encodes' = [encodes EXCEPT ![t] = IF @ = NoFile THEN <<>> ELSE @]

(* BuildExecution for an index whose file is not there yet; opening the file   *)
(* for output creates it.                                                      *)
BuildIndex(t) ==
  /\ encodes[t] = NoFile
  /\ Start("persist", t)
  /\ adj' = LoadData(LoadDataFromDb)
  /\ mem' \in Encodings(adj')
  /\ encodes' = [encodes EXCEPT ![t] = <<>>]

(* QueryExecution; also a build whose file exists comes as far as this. *)
Query(t) ==
  /\ Start("query", t)
  /\ adj' = LoadDataFromDb
  /\ mem' = IF t = NoVend THEN Blanks ELSE LoadEncode(t)
  /\ UNCHANGED encodes

Exit == run' = Idle /\ adj' = NoLists /\ mem' = Blanks /\ next' = 1

(* One iteration of SaveData: the list is appended to the one that is there. *)
SaveVertex ==
  /\ run.does = "save"
  /\ next <= V
  /\ db' = [db EXCEPT ![next] = @ \o adj[next]]
  /\ next' = next + 1
  /\ UNCHANGED <<file, encodes, run, adj, mem, saved, killed, runs>>

(* One line of EncodePersistent. *)
PersistVertex ==
  /\ run.does = "persist"
  /\ next <= V
  /\ encodes' = [encodes EXCEPT ![run.type] = Append(@, mem[next])]
  /\ next' = next + 1
  /\ UNCHANGED <<file, db, run, adj, mem, saved, killed, runs>>

Done ==
  /\ run.does = "query" \/ (run # Idle /\ next = V + 1)
  /\ saved' = (saved \/ run.does = "save")
  /\ Exit
  /\ UNCHANGED <<file, db, encodes, killed, runs>>

Kill ==
  /\ run.does \in {"save", "persist"}
  /\ next <= V
  /\ killed' = TRUE
  /\ Exit
  /\ UNCHANGED <<file, db, encodes, saved, runs>>

Next ==
  \/ BuildStore
  \/ \E t \in VendTypes : BuildIndex(t)
  \/ \E t \in VendTypes \cup {NoVend} : Query(t)
  \/ SaveVertex
  \/ PersistVertex
  \/ Done
  \/ Kill

Spec == Init /\ [][Next]_vars
-----------------------------------------------------------------------------
(* std::lower_bound: n entries are left to be searched from first on, and the  *)
(* half with x is searched next; as many rounds as there are entries are       *)
(* enough.                                                                     *)
Halved(s, x, part) ==
  LET half == part.n \div 2
  IN  IF part.n = 0 THEN part
      ELSE IF s[part.first + half] < x
           THEN [first |-> part.first + half + 1, n |-> part.n - half - 1]
           ELSE [first |-> part.first, n |-> half]

LowerBound(s, x) ==
  LET part[k \in 0 .. Len(s)] ==
        IF k = 0 THEN [first |-> 1, n |-> Len(s)] ELSE Halved(s, x, part[k - 1])
  IN  part[Len(s)].first

(* std::binary_search: correct on sorted lists only. *)
BinarySearch(s, x) == LowerBound(s, x) <= Len(s) /\ s[LowerBound(s, x)] = x

(* TestEdgeByAdj searches the shorter list. *)
TestEdgeByAdj(u, v) ==
  IF Len(adj[u]) > Len(adj[v]) THEN BinarySearch(adj[v], u) ELSE BinarySearch(adj[u], v)

(* What Execute may count a pair as: an edge (TRUE) or not. *)
Counted(u, v) ==
  IF run.type = NoVend THEN {TestEdgeByAdj(u, v)}
  ELSE {IF t = Uncertain THEN TestEdgeByAdj(u, v) ELSE t = Neighbor : t \in PairAnswers(mem, u, v)}

Right == \A u, v \in Vertex : u # v => Counted(u, v) = {{u, v} \in file}

(* Lists of vertices in the database and in memory, and at most one line per   *)
(* vertex in a file of encodings (EncodePersistent).                           *)
TypeOK ==
  /\ db \in [Vertex -> Seq(Vertex)]
  /\ adj \in [Vertex -> Seq(Vertex)]
  /\ mem \in [Vertex -> Code(Vertex)]
  /\ next \in 1 .. V + 1
  /\ \A t \in VendTypes : encodes[t] # NoFile => Len(encodes[t]) <= V

(* Once the database has been written as a whole, and for an index whose file  *)
(* is complete, every pair is counted as what it is in the data file, however  *)
(* often and in whatever order the builds were run, killed and run again.      *)
QueryExact ==
  run.does = "query" /\ saved
    /\ (run.type # NoVend => encodes[run.type] # NoFile /\ Len(encodes[run.type]) = V) => Right

(* As long as no run is killed, every edge has the same number of copies in    *)
(* the lists an index is built from, so that they are a multigraph as          *)
(* RangeVendBuild needs it.                                                    *)
UniformCopies ==
  run.does = "persist" /\ ~killed =>
    \A u, v \in Vertex :
      /\ Times(adj[u], v) > 0 <=> u # v /\ {u, v} \in file
      /\ u # v /\ {u, v} \in file =>
           \A x, y \in Vertex : x # y /\ {x, y} \in file => Times(adj[x], y) = Times(adj[u], v)
=============================================================================
