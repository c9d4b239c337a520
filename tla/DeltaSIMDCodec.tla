--------------------------- MODULE DeltaSIMDCodec ----------------------------
(* The four codecs of the SIMD encoders.  Integers are stored in groups of     *)
(* four: one control byte per group, with the length of each integer in two    *)
(* bits, and behind all control bytes the integers, as differences, in one to  *)
(* four bytes each.  V0 takes every difference from the integer before, V1     *)
(* from the first of the group, V2 from the one before in the group; V3 is V2  *)
(* with the groups arranged as a search tree.                                  *)
EXTENDS Integers, Sequences, SequencesExt, FiniteSetsExt

CONSTANTS Byte,          \* 256 in the code: values of a byte of data
          Word           \* 2^32 in the code

Versions == {"V0", "V1", "V2", "V3"}

Groups(n) == (n + 3) \div 4

GetOneEncodeLength(x) == Min({4} \cup {k \in 1 .. 3 : x < Byte^k})
-----------------------------------------------------------------------------
(* SearchTree, for up to 40 integers: the groups are its nodes, of which at    *)
(* most four have children and none a grandchild's child.                      *)
Children(g, node) ==
  LET from == CASE node = 0 -> 1 [] node = 3 -> Max({4, g - 5}) [] OTHER -> 4
      to   == CASE node = 0 -> Min({g - 1, 3}) [] node = 3 -> g - 1 [] node = 2 -> g - 6 [] OTHER -> 0
  IN  [i \in 1 .. Max({0, to - from + 1}) |-> from + i - 1]

(* The places of the integers of a group in the stored array. *)
Places(n, node) == [l \in 1 .. Min({4, n - 4 * node}) |-> 4 * node + l]

(* search_children: the places below a node from the smallest integer to the   *)
(* greatest.  The own integers lie between the children, those left over       *)
(* before the last child.                                                      *)
Below(n, node) ==
  LET own  == Places(n, node)
      kids == Children(Groups(n), node)
  IN  IF kids = <<>> THEN own
      ELSE FlattenSeq([i \in 1 .. Len(kids) - 1 |-> Append(Places(n, kids[i]), own[i])])
             \o SubSeq(own, Len(kids), 4) \o Places(n, Last(kids))

(* init_order: the root holds the smallest and the greatest integer. *)
InOrder(n) ==
  LET own  == Places(n, 0)
      kids == Children(Groups(n), 0)
  IN  IF kids = <<>> THEN own
      ELSE <<own[1]>> \o FlattenSeq([i \in 1 .. Len(kids) - 1 |-> Append(Below(n, kids[i]), own[i + 1])])
             \o SubSeq(own, Len(kids) + 1, 3) \o Below(n, Last(kids)) \o <<own[4]>>

ary_order == [n \in 0 .. 40 |-> InOrder(n)]

\* Variant: the integers stay in ascending order.
ArrangedNot(ver, s) == s

(* The integers as they are stored; ary_order is a table of these orders. *)
Arranged(ver, s) ==
  IF ver # "V3" THEN s ELSE [p \in DOMAIN s |-> s[CHOOSE i \in DOMAIN s : ary_order[Len(s)][i] = p]]
-----------------------------------------------------------------------------
FirstOfGroup(i) == i % 4 = 1

(* GenValue: what is stored of the i-th integer. *)
GenValue(ver, s, i) ==
  LET pre == CASE ver = "V0" -> IF i = 1 THEN 0 ELSE s[i - 1]
               [] ver = "V1" -> IF FirstOfGroup(i) THEN 0 ELSE s[i - ((i - 1) % 4)]
               [] OTHER      -> IF FirstOfGroup(i) THEN 0 ELSE s[i - 1]
  IN  (s[i] - pre) % Word

Values(ver, s) == [i \in DOMAIN s |-> GenValue(ver, Arranged(ver, s), i)]

GetRequiredBytes(ver, s) ==
  FoldLeft(LAMBDA n, x : n + GetOneEncodeLength(x), Groups(Len(s)), Values(ver, s))

EncodeDelta(x) == [k \in 1 .. GetOneEncodeLength(x) |-> (x \div Byte^(k - 1)) % Byte]

(* The control bytes and the data of the values x. *)
EncodeDeltas(x) ==
  LET code(i) == IF i > Len(x) THEN 0 ELSE GetOneEncodeLength(x[i]) - 1
      control == [g \in 1 .. Groups(Len(x)) |->
                    FoldLeft(LAMBDA key, l : key + code(4 * (g - 1) + l) * 4^(l - 1), 0, <<1, 2, 3, 4>>)]
  IN  control \o FlattenSeq([i \in DOMAIN x |-> EncodeDelta(x[i])])

EncodeArray(ver, s) == EncodeDeltas(Values(ver, s))
-----------------------------------------------------------------------------
(* Reading.  in is the code from the control bytes on, with the bytes of the   *)
(* memory behind it that a load of 16 bytes may reach.                         *)
LengthAt(in, i) == ((in[(i + 3) \div 4] \div 4^((i - 1) % 4)) % 4) + 1

(* The length of the first n integers; lengthTable has the sums by groups. *)
DataLength(in, n) == FoldLeftDomain(LAMBDA sum, i : sum + LengthAt(in, i), 0, [i \in 1 .. n |-> 0])

GetEncodeLength(in, n) == Groups(n) + DataLength(in, n)

(* DecodeData: the four integers behind a control byte, by shuffleTable.  A    *)
(* group (from 0 on) lies behind the full groups before it.                    *)
DecodeData(in, n, node) ==
  [l \in 1 .. 4 |->
     LET from == Groups(n) + DataLength(in, 4 * node + l - 1)
     IN  FoldLeftDomain(LAMBDA x, k : x + in[from + k] * Byte^(k - 1), 0,
                        [k \in 1 .. LengthAt(in, 4 * node + l) |-> 0])]

(* RecoveryFromDelta; pre is the last integer of the group before. *)
RecoveryFromDelta(ver, data, pre) ==
  [l \in 1 .. 4 |->
     (CASE ver = "V0" -> FoldLeft(LAMBDA a, b : a + b, pre, SubSeq(data, 1, l))
        [] ver = "V1" -> data[1] + IF l = 1 THEN 0 ELSE data[l]
        [] OTHER      -> FoldLeft(LAMBDA a, b : a + b, 0, SubSeq(data, 1, l))) % Word]

(* The integers of all groups, in the order of their places. *)
Recovered(ver, in, n) ==
  LET data == [node \in 0 .. Groups(n) - 1 |-> DecodeData(in, n, node)]
      group[node \in 0 .. Groups(n) - 1] ==
        RecoveryFromDelta(ver, data[node], IF node = 0 THEN 0 ELSE group[node - 1][4])
  IN  group

EXIST == 0
LESS_THAN_MIN == 2
GRATER_THAN_MAX == 4
NOT_EXIST == 15

\* Variant: the integers that fill up the last group are compared too.
ComparedAll(n, node) == 1 .. 4

(* LAST_COMPARE_MASK: the integers of a group that are compared. *)
Compared(n, node) == IF node = Groups(n) - 1 THEN 1 .. n - 4 * node ELSE 1 .. 4

(* The comparison is that of signed integers. *)
Smaller(group, lanes, w) == {l \in lanes : (IF group[l] < Word \div 2 THEN group[l] ELSE group[l] - Word) < w}
Equal(group, lanes, w) == {l \in lanes : group[l] = w}

Found(group, lanes, w) == IF Equal(group, lanes, w) # {} THEN EXIST ELSE NOT_EXIST

(* FindWithCount of V0, V1 and V2: the first group that is not wholly below w  *)
(* settles it.                                                                 *)
FindLinear(group, n, w) ==
  LET notBelow == {g \in DOMAIN group : Smaller(group[g], Compared(n, g), w) # Compared(n, g)}
      g == Min(notBelow)
  IN  IF notBelow = {} THEN GRATER_THAN_MAX
      ELSE IF g = 0 /\ Smaller(group[0], Compared(n, 0), w) = {}
           THEN IF group[0][1] = w THEN EXIST ELSE LESS_THAN_MIN
      ELSE Found(group[g], Compared(n, g), w)

(* DFS: of the children of an inner node only the first is ever taken. *)
DFS(group, n, node, w) ==
  LET lanes == Compared(n, node)
      kids  == Children(Groups(n), node)
      mask  == IF Len(kids) = 1 THEN 1 .. 4 ELSE {}
  IN  IF kids = <<>> \/ Equal(group[node], lanes, w) # {} THEN Found(group[node], lanes, w)
      ELSE IF Smaller(group[node], lanes, w) = mask
           THEN Found(group[kids[1]], Compared(n, kids[1]), w)
      ELSE NOT_EXIST

(* FindWithCount of V3, with HSIMD = 0.  The masks of the root's children: *)
FindTree(group, n, w) ==
  LET lanes == Compared(n, 0)
      below == Smaller(group[0], lanes, w)
      kids  == Children(Groups(n), 0)
      mask(i) == IF i = Len(kids) THEN 1 .. 3 ELSE 1 .. i
      taken == {i \in DOMAIN kids : mask(i) = below}
  IN  IF Equal(group[0], lanes, w) # {} THEN EXIST
      ELSE IF below = {} THEN LESS_THAN_MIN
      ELSE IF below = lanes THEN GRATER_THAN_MAX
      ELSE IF taken = {} THEN NOT_EXIST ELSE DFS(group, n, kids[Min(taken)], w)

FindWithCount(ver, in, n, w) ==
  IF ver = "V3" THEN FindTree(Recovered(ver, in, n), n, w) ELSE FindLinear(Recovered(ver, in, n), n, w)
=============================================================================
