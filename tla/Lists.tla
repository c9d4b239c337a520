-------------------------------- MODULE Lists --------------------------------
(* Adjacency lists: what a loop over a list leaves of it, std::sort, and how   *)
(* often a list names a vertex.                                                *)
EXTENDS Integers, Sequences, FiniteSetsExt

(* The entries of a list that are not filtered, in their order. *)
Kept(list, filtered) ==
  LET kept[k \in 0 .. Len(list)] ==
        IF k = 0 THEN <<>>
        ELSE IF list[k] \in filtered THEN kept[k - 1] ELSE Append(kept[k - 1], list[k])
  IN  kept[Len(list)]

(* The place of entry i among the sorted entries; equal ones keep their order. *)
Place(list, i) ==
  Cardinality({j \in 1 .. Len(list) : list[j] < list[i] \/ (list[j] = list[i] /\ j <= i)})

Sorted(list) ==
  [k \in 1 .. Len(list) |-> list[CHOOSE i \in 1 .. Len(list) : Place(list, i) = k]]

(* The elements of a set in their order. *)
Ascending(S) ==
  [k \in 1 .. Cardinality(S) |-> CHOOSE x \in S : Cardinality({y \in S : y <= x}) = k]

(* std::find and erase: a list that holds e, without the first e. *)
WithoutFirst(list, e) ==
  LET first == Min({i \in 1 .. Len(list) : list[i] = e})
  IN  [k \in 1 .. Len(list) - 1 |-> list[IF k < first THEN k ELSE k + 1]]

(* How often a list names e. *)
Times(list, e) == Cardinality({i \in 1 .. Len(list) : list[i] = e})
=============================================================================
