------------------------------ MODULE VendIndex ------------------------------
(* The life of an index over RangeVend: BuildEncoding, then insertions and     *)
(* deletions of edges through Graph::AddEdge and Graph::RemoveEdge.  These     *)
(* change the encodings only: the calls that would update the database are     *)
(* commented out, so the lists that InsertPair and DeletePair read from it     *)
(* stay those of the graph that was built.                                     *)
EXTENDS RangeVendBuild

CONSTANTS MaxOps,                         \* bound on insertions and deletions
          encodes_InsertPair(_, _, _, _), \* encodings, database, u, v |-> possible results
          encodes_DeletePair(_, _, _, _)  \* a result is a record [code, defined]

VARIABLES edges,                  \* the graph as its user has updated it
          defined,                \* no undefined behaviour has been met
          ops

buildVars == <<adjacency_list, phase, idx, vert, pos, bin, degrees, filtered, stray>>
indexVars == <<buildVars, code, edges, defined, ops>>

(* DbQuery: the lists that LoadAndSaveData stored, one sorted copy. *)
db == [v \in Vertex |-> Ascending(Range(adjacency_list[v]))]

IndexInit(graphs, blank) ==
  /\ InitWith(graphs, blank)
  /\ edges = EdgeSet
  /\ defined = TRUE
  /\ ops = 0

BuildStep == Next /\ UNCHANGED <<edges, defined, ops>>

(* Nothing is claimed of what follows undefined behaviour, and nothing of it is *)
(* explored.                                                                   *)
Update(results) ==
  /\ phase = "done"
  /\ defined
  /\ ops < MaxOps
  /\ \E r \in results : code' = r.code /\ defined' = r.defined
  /\ ops' = ops + 1
  /\ UNCHANGED buildVars

AddEdge(u, v) ==
  /\ Update(encodes_InsertPair(code, db, u, v))
  /\ edges' = edges \cup {{u, v}}

RemoveEdge(u, v) ==
  /\ Update(encodes_DeletePair(code, db, u, v))
  /\ edges' = edges \ {{u, v}}

(* The drivers draw any two distinct vertices, joined by an edge or not. *)
Insertions == \E u, v \in Vertex : u # v /\ AddEdge(u, v)
Deletions  == \E u, v \in Vertex : u # v /\ RemoveEdge(u, v)
-----------------------------------------------------------------------------
(* After the build and after every insertion and deletion, no edge of the      *)
(* graph is answered NonNeighbor: NEpairTest would send the user away without  *)
(* a look at the database.                                                     *)
NoEdgeDenied ==
  phase = "done" /\ defined =>
    \A u, v \in Vertex : u # v /\ {u, v} \in edges => NonNeighbor \notin encodes_NEpairTest(code, u, v)

(* The pairs that may get an answer; nothing is said of them after undefined   *)
(* behaviour.                                                                  *)
Told(t) == IF defined THEN Answered(t) ELSE {}

Promise == INSTANCE VendPromise WITH
  Pair <- PairsOf(Vertex), ready <- phase = "done",
  denied <- Told(NonNeighbor), affirmed <- IF ops = 0 THEN Told(Neighbor) ELSE {}

(* The Range index over its life and the Hybrid index after the build          *)
(* implement the abstract index: the build and every Graph::RemoveEdge answer  *)
(* rightly for the graph as it then is, as long as no undefined behaviour is   *)
(* met.  Only Neighbor is not promised after a deletion: a list read again     *)
(* from the database brings deleted neighbours back.                           *)
KeepsPromise == Promise!Spec
=============================================================================
