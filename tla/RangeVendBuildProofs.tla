------------------------ MODULE RangeVendBuildProofs -------------------------
(* RangeVend::BuildEncoding keeps its arrays in order, peels every vertex it   *)
(* should, and leaves an encoding for every edge.                              *)
EXTENDS VendIndex, DataTheorems

CONSTANT Orderly(_)   \* the lists that EncodeVertex may rely on being given

(* The arrays of RangeVend::BuildEncoding: what sorting by degree and filling  *)
(* in the buckets establishes, and what the loop over the neighbours of one    *)
(* vertex keeps.                                                               *)

(* The arrays of the build when no vertex has more than m neighbours. *)
AllArrays(m) == [vert : [0 .. V -> 0 .. V], pos : [0 .. V -> 0 .. V],
                 bin : [0 .. m -> 0 .. V + 1], degrees : [0 .. V -> 0 .. m]]

Inverses(vs, ps) ==
  \A i \in 0 .. V : /\ vs[i] \in 0 .. V /\ ps[i] \in 0 .. V
                    /\ ps[vs[i]] = i /\ vs[ps[i]] = i

(* From index from on no vertex has a degree below c, and bin separates the    *)
(* smaller degrees from the others, for every degree above c.                  *)
Bucketed(vs, bs, ds, m, from, c) ==
  /\ \A i \in from .. V : ds[vs[i]] >= c
  /\ \A d \in c + 1 .. m :
       /\ bs[d] \in from .. V + 1
       /\ \A i \in from .. V : i < bs[d] <=> ds[vs[i]] < d

(* A vertex n of degree nd moves to the front of its bucket, index fb, and     *)
(* from there to the bucket below: the arrays before and after.                *)
Trade(vs, ps, bs, ds, n, vs2, ps2, bs2, ds2, m) ==
  LET fb == bs[ds[n]] IN
  /\ \A i \in 0 .. V : vs2[i] = IF i = fb THEN n ELSE IF i = ps[n] THEN vs[fb] ELSE vs[i]
  /\ \A v \in 0 .. V : ps2[v] = IF v = vs[fb] THEN ps[n] ELSE IF v = n THEN fb ELSE ps[v]
  /\ \A d \in 0 .. m : bs2[d] = IF d = ds[n] THEN fb + 1 ELSE bs[d]
  /\ \A v \in 0 .. V : ds2[v] = IF v = n THEN ds[n] - 1 ELSE ds[v]

(* n is behind index from and its degree may be lowered. *)
Movable(vs, ps, bs, ds, n, m, from, c) ==
  /\ Inverses(vs, ps) /\ Bucketed(vs, bs, ds, m, from, c)
  /\ \A v \in 0 .. V : ds[v] \in 0 .. m
  /\ ps[n] >= from /\ c < ds[n]

(* The move keeps vert and pos inverse and the buckets in order, and stays     *)
(* behind index from.                                                          *)
LEMMA TradeStep ==
  ASSUME V \in Nat, NEW m \in Nat, NEW from \in Nat, NEW c \in Nat,
         NEW vs, NEW ps, NEW bs, NEW ds, NEW n \in 0 .. V,
         Movable(vs, ps, bs, ds, n, m, from, c),
         NEW vs2, NEW ps2, NEW bs2, NEW ds2,
         Trade(vs, ps, bs, ds, n, vs2, ps2, bs2, ds2, m)
  PROVE  /\ Inverses(vs2, ps2)
         /\ Bucketed(vs2, bs2, ds2, m, from, c)
         /\ \A i \in 0 .. V : i < from => vs2[i] = vs[i]
<1>0. /\ Inverses(vs, ps) /\ Bucketed(vs, bs, ds, m, from, c)
      /\ \A v \in 0 .. V : ds[v] \in 0 .. m
      /\ ps[n] >= from /\ c < ds[n]
  BY DEF Movable
<1> USE <1>0
<1> DEFINE nd == ds[n]
           np == ps[n]
           fb == bs[nd]
           fv == vs[fb]
<1>1. nd \in c + 1 .. m /\ nd \in 0 .. m /\ nd \in Nat
  OBVIOUS
<1>2. np \in 0 .. V /\ np \in from .. V /\ vs[np] = n
  BY DEF Inverses
<1>3. /\ fb \in from .. V + 1
      /\ \A i \in from .. V : i < fb <=> ds[vs[i]] < nd
  BY <1>1 DEF Bucketed
<1>4. fb <= np
  <2>1. np < fb <=> nd < nd
    BY <1>2, <1>3
  <2> QED BY <1>1, <1>2, <1>3, <2>1
<1>5. fb \in 0 .. V /\ fb \in from .. V
  BY <1>2, <1>3, <1>4
<1>6. fv \in 0 .. V /\ ps[fv] = fb
  BY <1>5 DEF Inverses
<1>7. ds[fv] \in Nat /\ ds[fv] >= nd
  <2>1. fb < fb <=> ds[fv] < nd
    BY <1>3, <1>5
  <2>2. ds[fv] \in Nat
    BY <1>6
  <2> QED BY <1>1, <1>5, <2>1, <2>2
<1>8. fv = n <=> fb = np
  BY <1>2, <1>6
<1> DEFINE T == /\ \A i \in 0 .. V : vs2[i] = IF i = fb THEN n ELSE IF i = np THEN fv ELSE vs[i]
                /\ \A v \in 0 .. V : ps2[v] = IF v = fv THEN np ELSE IF v = n THEN fb ELSE ps[v]
                /\ \A d \in 0 .. m : bs2[d] = IF d = nd THEN fb + 1 ELSE bs[d]
                /\ \A v \in 0 .. V : ds2[v] = IF v = n THEN nd - 1 ELSE ds[v]
<1>9. T
  BY DEF Trade
<1>10. \A i \in 0 .. V : /\ vs[i] \in 0 .. V /\ ps[i] \in 0 .. V
                         /\ ps[vs[i]] = i /\ vs[ps[i]] = i
  BY DEF Inverses
<1>11. bs[nd] = fb
  OBVIOUS
<1> HIDE DEF nd, np, fb, fv
<1>12. Inverses(vs2, ps2)
  <2> SUFFICES ASSUME NEW i \in 0 .. V
               PROVE  /\ vs2[i] \in 0 .. V /\ ps2[i] \in 0 .. V
                      /\ ps2[vs2[i]] = i /\ vs2[ps2[i]] = i
    BY DEF Inverses
  <2>1. /\ vs[i] \in 0 .. V /\ ps[i] \in 0 .. V /\ ps[vs[i]] = i /\ vs[ps[i]] = i
    BY <1>10
  <2>2. vs2[i] = IF i = fb THEN n ELSE IF i = np THEN fv ELSE vs[i]
    BY <1>9
  <2>3. ps2[i] = IF i = fv THEN np ELSE IF i = n THEN fb ELSE ps[i]
    BY <1>9
  <2>4. vs2[i] \in 0 .. V /\ ps2[i] \in 0 .. V
    BY <1>2, <1>5, <1>6, <2>1, <2>2, <2>3
  <2>5. ps2[vs2[i]] = IF vs2[i] = fv THEN np ELSE IF vs2[i] = n THEN fb ELSE ps[vs2[i]]
    BY <1>9, <2>4
  <2>6. vs2[ps2[i]] = IF ps2[i] = fb THEN n ELSE IF ps2[i] = np THEN fv ELSE vs[ps2[i]]
    BY <1>9, <2>4
  <2>7. ps[n] = np /\ vs[fb] = fv
    BY DEF np, fv
  <2>8. ps2[vs2[i]] = i
    BY <1>6, <1>8, <2>1, <2>2, <2>5, <2>7
  <2>9. vs2[ps2[i]] = i
    BY <1>2, <1>8, <2>1, <2>3, <2>6, <2>7
  <2> QED BY <2>4, <2>8, <2>9
<1>13. ASSUME NEW i \in 0 .. V, i < from
       PROVE  vs2[i] = vs[i]
  <2>1. i # fb /\ i # np
    BY <1>2, <1>5, <1>13
  <2> QED BY <1>9, <2>1
<1>14. ASSUME NEW i \in from .. V
       PROVE  /\ i \in 0 .. V /\ ds[vs[i]] \in Nat
              /\ ds2[vs2[i]] = IF i = fb THEN nd - 1 ELSE IF i = np THEN ds[fv] ELSE ds[vs[i]]
  <2>1. i \in 0 .. V
    OBVIOUS
  <2>2. vs[i] \in 0 .. V /\ ps[vs[i]] = i
    BY <1>10, <2>1
  <2>3. vs2[i] = IF i = fb THEN n ELSE IF i = np THEN fv ELSE vs[i]
    BY <1>9, <2>1
  <2>4. vs[i] = n => i = np
    BY <2>2 DEF np
  <2>5. \A v \in 0 .. V : ds2[v] = IF v = n THEN nd - 1 ELSE ds[v]
    BY <1>9
  <2> HIDE DEF T
  <2>6. ds2[vs2[i]] = IF i = fb THEN nd - 1 ELSE IF i = np THEN ds[fv] ELSE ds[vs[i]]
    BY <1>6, <1>8, <2>2, <2>3, <2>4, <2>5
  <2> QED BY <2>1, <2>2, <2>6
<1>15. \A i \in from .. V : ds[vs[i]] >= c
  BY DEF Bucketed
<1>16. ASSUME NEW i \in from .. V
       PROVE  ds2[vs2[i]] >= c
  <2>1. nd - 1 >= c /\ ds[fv] >= c /\ ds[vs[i]] >= c
    BY <1>1, <1>7, <1>15
  <2> QED BY <1>14, <2>1
<1>17. ASSUME NEW d \in c + 1 .. m
       PROVE  /\ bs2[d] \in from .. V + 1
              /\ \A i \in from .. V : i < bs2[d] <=> ds2[vs2[i]] < d
  <2>1. d \in 0 .. m /\ d \in Nat
    OBVIOUS
  <2>2. /\ bs[d] \in from .. V + 1
        /\ \A i \in from .. V : i < bs[d] <=> ds[vs[i]] < d
    BY DEF Bucketed
  <2>3. bs2[d] = IF d = nd THEN fb + 1 ELSE bs[d]
    BY <1>9, <2>1
  <2>4. bs2[d] \in from .. V + 1
    BY <1>5, <2>2, <2>3
  <2>5. ASSUME NEW i \in from .. V
        PROVE  i < bs2[d] <=> ds2[vs2[i]] < d
    <3>1. i < bs[d] <=> ds[vs[i]] < d
      BY <2>2
    <3>2. fb < bs[d] <=> ds[fv] < d
      BY <1>5, <2>2 DEF fv
    <3>3. np < bs[d] <=> nd < d
      <4>1. ds[vs[np]] = nd
        BY <1>2 DEF nd
      <4> QED BY <1>2, <2>2, <4>1
    <3>4. i < fb <=> ds[vs[i]] < nd
      BY <1>3
    <3>5. /\ i \in 0 .. V /\ ds[vs[i]] \in Nat
          /\ ds2[vs2[i]] = IF i = fb THEN nd - 1 ELSE IF i = np THEN ds[fv] ELSE ds[vs[i]]
      BY <1>14
    <3>6. bs[d] \in Nat /\ fb \in Nat /\ np \in Nat /\ i \in Nat
      BY <1>2, <1>5, <2>2, <3>5
    <3>7. i = fb => ds[vs[i]] = ds[fv]
      BY DEF fv
    <3>8. CASE d = nd
      <4>1. bs[d] = fb
        BY <1>11, <3>8
      <4> QED BY <1>1, <1>4, <1>7, <2>3, <3>1, <3>3, <3>5, <3>6, <3>8, <4>1
    <3>9. CASE d # nd
      BY <1>1, <1>4, <1>7, <2>1, <2>3, <3>1, <3>2, <3>3, <3>4, <3>5, <3>6, <3>7, <3>9
    <3> QED BY <3>8, <3>9
  <2> QED BY <2>4, <2>5
<1>18. Bucketed(vs2, bs2, ds2, m, from, c)
  BY <1>16, <1>17 DEF Bucketed
<1> QED BY <1>12, <1>13, <1>18

(* The arrays of the build in order, from index from on. *)
InOrder(a, m, from, c) ==
  /\ a \in AllArrays(m)
  /\ Inverses(a.vert, a.pos)
  /\ Bucketed(a.vert, a.bin, a.degrees, m, from, c)

(* The types of their entries. *)
LEMMA ArrayTypes ==
  ASSUME V \in Nat, NEW m \in Nat, NEW a \in AllArrays(m)
  PROVE  /\ \A v \in 0 .. V : a.degrees[v] \in 0 .. m /\ a.degrees[v] \in Nat
         /\ \A v \in 0 .. V : a.vert[v] \in 0 .. V /\ a.pos[v] \in 0 .. V
<1>1. a.degrees \in [0 .. V -> 0 .. m]
  BY Zenon DEF AllArrays
<1>2. a.vert \in [0 .. V -> 0 .. V]
  BY Zenon DEF AllArrays
<1>3. a.pos \in [0 .. V -> 0 .. V]
  BY Zenon DEF AllArrays
<1>4. \A v \in 0 .. V : a.degrees[v] \in 0 .. m /\ a.degrees[v] \in Nat
  BY <1>1
<1>5. \A v \in 0 .. V : a.vert[v] \in 0 .. V
  BY <1>2
<1>6. \A v \in 0 .. V : a.pos[v] \in 0 .. V
  BY <1>3
<1> QED BY <1>4, <1>5, <1>6

OneLowered(b, a, n, m, from, c) ==
  /\ InOrder(b, m, from, c)
  /\ \A i \in 0 .. V : i < from => b.vert[i] = a.vert[i]
  /\ \A v \in 0 .. V :
       b.degrees[v] = IF v = n /\ c < a.degrees[n] THEN a.degrees[n] - 1 ELSE a.degrees[v]

(* One iteration of the loop over the neighbours keeps them in order. *)
LEMMA LowerStep ==
  ASSUME V \in Nat, NEW m \in Nat, NEW from \in Nat, NEW c \in Nat,
         NEW a, NEW n \in 0 .. V, InOrder(a, m, from, c), a.pos[n] >= from
  PROVE  OneLowered(LowerDegree(c, a, n), a, n, m, from, c)
<1> DEFINE nd == a.degrees[n]
           np == a.pos[n]
           fb == a.bin[nd]
           fv == a.vert[fb]
           b  == LowerDegree(c, a, n)
<1>1. /\ a.vert \in [0 .. V -> 0 .. V] /\ a.pos \in [0 .. V -> 0 .. V]
      /\ a.bin \in [0 .. m -> 0 .. V + 1] /\ a.degrees \in [0 .. V -> 0 .. m]
  BY Zenon DEF AllArrays, InOrder
<1>2. \A v \in 0 .. V : a.degrees[v] \in 0 .. m
  BY <1>1
<1>3. nd \in 0 .. m /\ nd \in Nat
  BY <1>2
<1>4. CASE c >= nd
  <2>1. b = a
    BY <1>4, Zenon DEF LowerDegree
  <2> QED BY <1>3, <1>4, <2>1 DEF OneLowered
<1>5. CASE c < nd
  <2>0. ~ (c >= nd)
    BY <1>3, <1>5
  <2>1. Inverses(a.vert, a.pos) /\ Bucketed(a.vert, a.bin, a.degrees, m, from, c)
    BY DEF InOrder
  <2>2. fb \in from .. V + 1 /\ (\A i \in from .. V : i < fb <=> a.degrees[a.vert[i]] < nd)
    BY <1>3, <1>5, <2>1 DEF Bucketed
  <2>3. np \in 0 .. V /\ a.vert[np] = n
    BY <2>1 DEF Inverses
  <2>4. np < fb <=> nd < nd
    BY <2>2, <2>3
  <2>5. fb \in 0 .. V
    BY <1>3, <2>2, <2>3, <2>4
  <2>6. fv \in 0 .. V /\ a.pos[fv] = fb
    BY <2>1, <2>5, Zenon DEF Inverses
  <2>7. b = [pos     |-> [a.pos EXCEPT ![n] = fb, ![fv] = np],
             vert    |-> [a.vert EXCEPT ![np] = fv, ![fb] = n],
             bin     |-> [a.bin EXCEPT ![nd] = fb + 1],
             degrees |-> [a.degrees EXCEPT ![n] = nd - 1]]
    <3>1. CASE fb # np
      BY <2>0, <3>1, Zenon DEF LowerDegree
    <3>2. CASE fb = np
      <4>1. fv = n
        BY <2>3, <3>2
      <4>2. a.pos = [a.pos EXCEPT ![n] = fb, ![fv] = np]
        BY <1>1, <3>2, <4>1, Zenon
      <4>3. a.vert = [a.vert EXCEPT ![np] = fv, ![fb] = n]
        BY <1>1, <2>3, <3>2, <4>1, Zenon
      <4>4. b = [pos |-> a.pos, vert |-> a.vert, bin |-> [a.bin EXCEPT ![nd] = fb + 1],
                 degrees |-> [a.degrees EXCEPT ![n] = nd - 1]]
        BY <2>0, <3>2 DEF LowerDegree
      <4> QED BY <4>2, <4>3, <4>4, Zenon
    <3> QED BY <3>1, <3>2, Zenon
  <2> HIDE DEF b
  <2>8. /\ b.pos = [a.pos EXCEPT ![n] = fb, ![fv] = np]
        /\ b.vert = [a.vert EXCEPT ![np] = fv, ![fb] = n]
        /\ b.bin = [a.bin EXCEPT ![nd] = fb + 1]
        /\ b.degrees = [a.degrees EXCEPT ![n] = nd - 1]
    BY <2>7, Zenon
  <2>9. fb + 1 \in 0 .. V + 1 /\ nd - 1 \in 0 .. m
    BY <1>3, <1>5, <2>5
  <2>10. /\ b.vert \in [0 .. V -> 0 .. V] /\ b.pos \in [0 .. V -> 0 .. V]
         /\ b.bin \in [0 .. m -> 0 .. V + 1] /\ b.degrees \in [0 .. V -> 0 .. m]
    <3> HIDE DEF nd, np, fb, fv
    <3>1. b.vert \in [0 .. V -> 0 .. V]
      <4>1. a.vert \in [0 .. V -> 0 .. V]
        BY <1>1, Zenon
      <4>2. b.vert = [a.vert EXCEPT ![np] = fv, ![fb] = n]
        BY <2>8
      <4> QED BY <2>6, <4>1, <4>2, Zenon
    <3>2. b.pos \in [0 .. V -> 0 .. V]
      <4>1. a.pos \in [0 .. V -> 0 .. V]
        BY <1>1, Zenon
      <4>2. b.pos = [a.pos EXCEPT ![n] = fb, ![fv] = np]
        BY <2>8
      <4> QED BY <2>3, <2>5, <4>1, <4>2, Zenon
    <3>3. b.bin \in [0 .. m -> 0 .. V + 1]
      <4>1. a.bin \in [0 .. m -> 0 .. V + 1]
        BY <1>1, Zenon
      <4>2. b.bin = [a.bin EXCEPT ![nd] = fb + 1]
        BY <2>8
      <4> QED BY <2>9, <4>1, <4>2, Zenon
    <3>4. b.degrees \in [0 .. V -> 0 .. m]
      <4>1. a.degrees \in [0 .. V -> 0 .. m]
        BY <1>1, Zenon
      <4>2. b.degrees = [a.degrees EXCEPT ![n] = nd - 1]
        BY <2>8
      <4> QED BY <2>9, <4>1, <4>2
    <3> QED BY <3>1, <3>2, <3>3, <3>4, Zenon
  <2>12. b \in AllArrays(m)
    BY <2>7, <2>8, <2>10, Zenon DEF AllArrays
  <2>13. Trade(a.vert, a.pos, a.bin, a.degrees, n, b.vert, b.pos, b.bin, b.degrees, m)
    <3>1. fb = np <=> fv = n
      BY <2>3, <2>6, Zenon
    <3>2. \A i \in 0 .. V : b.vert[i] = IF i = fb THEN n ELSE IF i = np THEN fv ELSE a.vert[i]
      <4> HIDE DEF nd, np, fb, fv
      <4> QED BY <1>1, <2>8, Zenon
    <3>3. \A v \in 0 .. V : b.pos[v] = IF v = fv THEN np ELSE IF v = n THEN fb ELSE a.pos[v]
      <4> HIDE DEF nd, np, fb, fv
      <4> QED BY <1>1, <2>8, Zenon
    <3>4. \A d \in 0 .. m : b.bin[d] = IF d = nd THEN fb + 1 ELSE a.bin[d]
      <4> HIDE DEF nd, np, fb, fv
      <4> QED BY <1>1, <2>8, Zenon
    <3>5. \A v \in 0 .. V : b.degrees[v] = IF v = n THEN nd - 1 ELSE a.degrees[v]
      <4> HIDE DEF nd, np, fb, fv
      <4> QED BY <1>1, <2>8, Zenon
    <3> QED BY <3>2, <3>3, <3>4, <3>5, Zenon DEF Trade
  <2>14. /\ Inverses(b.vert, b.pos)
         /\ Bucketed(b.vert, b.bin, b.degrees, m, from, c)
         /\ \A i \in 0 .. V : i < from => b.vert[i] = a.vert[i]
    <3> DEFINE vs == a.vert
               ps == a.pos
               bs == a.bin
               ds == a.degrees
               vs2 == b.vert
               ps2 == b.pos
               bs2 == b.bin
               ds2 == b.degrees
    <3>1. Movable(vs, ps, bs, ds, n, m, from, c)
      BY <1>2, <1>5, <2>1 DEF Movable
    <3>4. Trade(vs, ps, bs, ds, n, vs2, ps2, bs2, ds2, m)
      BY <2>13
    <3> SUFFICES /\ Inverses(vs2, ps2) /\ Bucketed(vs2, bs2, ds2, m, from, c)
                 /\ \A i \in 0 .. V : i < from => vs2[i] = vs[i]
      OBVIOUS
    <3> HIDE DEF vs, ps, bs, ds, vs2, ps2, bs2, ds2
    <3> QED BY <3>1, <3>4, TradeStep
  <2>15. \A v \in 0 .. V : b.degrees[v] = IF v = n THEN nd - 1 ELSE a.degrees[v]
    BY <2>13 DEF Trade
  <2> QED BY <1>5, <2>12, <2>14, <2>15 DEF InOrder, OneLowered, b
<1> QED BY <1>3, <1>4, <1>5

(* A degree before and after the loop, when hits of the neighbours were that   *)
(* vertex: it is lowered for each of them, but not below c.                    *)
Lowered(before, after, hits, c) ==
  /\ after <= before
  /\ after >= before - hits
  /\ after > c => after = before - hits

(* One more neighbour, which is that vertex or not. *)
LEMMA LoweredStep ==
  ASSUME NEW before \in Nat, NEW after \in Nat, NEW hits \in Nat, NEW c \in Nat,
         Lowered(before, after, hits, c), NEW x, NEW v
  PROVE  Lowered(before, IF v = x /\ c < after THEN after - 1 ELSE after,
                 hits + (IF x = v THEN 1 ELSE 0), c)
<1>1. CASE x = v /\ c < after
  BY <1>1 DEF Lowered
<1>2. CASE x = v /\ ~ (c < after)
  BY <1>2 DEF Lowered
<1>3. CASE x # v
  BY <1>3 DEF Lowered
<1> QED BY <1>1, <1>2, <1>3

(* The arrays after k of the neighbours in L. *)
AfterSome(b, a, m, from, c, L, k) ==
  /\ InOrder(b, m, from, c)
  /\ \A i \in 0 .. V : i < from => b.vert[i] = a.vert[i]
  /\ \A v \in 0 .. V : Lowered(a.degrees[v], b.degrees[v], EqualUpTo(L, v, k), c)

(* The loop over neighbours that are all behind from. *)
LEMMA LowerAllFacts ==
  ASSUME V \in Nat, NEW m \in Nat, NEW from \in Nat, NEW c \in Nat,
         NEW a, InOrder(a, m, from, c), NEW L \in Seq(0 .. V),
         \A k \in 1 .. Len(L) : a.pos[L[k]] >= from
  PROVE  AfterSome(LowerAll(c, a, L), a, m, from, c, L, Len(L))
<1> DEFINE n == Len(L)
           Step(s, k) == LowerDegree(c, s, L[k])
           Rec(g) == g = [k \in 0 .. n |-> IF k = 0 THEN a ELSE Step(g[k - 1], k)]
           T == [k \in 0 .. n |-> {b \in AllArrays(m) : AfterSome(b, a, m, from, c, L, k)}]
<1>1. n \in Nat
  OBVIOUS
<1>2. a \in T[0]
  <2>1. a \in AllArrays(m) /\ \A v \in 0 .. V : a.degrees[v] \in Nat
    BY ArrayTypes DEF InOrder
  <2>2. \A v : EqualUpTo(L, v, 0) = 0
    BY EqualNext
  <2>3. \A v \in 0 .. V : Lowered(a.degrees[v], a.degrees[v], EqualUpTo(L, v, 0), c)
    BY <2>1, <2>2 DEF Lowered
  <2> QED BY <1>1, <2>1, <2>3 DEF AfterSome
<1>3. ASSUME NEW k \in 1 .. n, NEW s \in T[k - 1]
      PROVE  Step(s, k) \in T[k]
  <2> DEFINE b == Step(s, k)
             x == L[k]
  <2>1. s \in AllArrays(m) /\ AfterSome(s, a, m, from, c, L, k - 1)
    BY <1>1
  <2>2. x \in 0 .. V /\ k \in Nat \ {0} /\ k \in 0 .. n
    BY <1>1
  <2>3. s.pos[x] >= from
    <3>1. a.pos[x] >= from
      BY <1>1
    <3>2. Inverses(a.vert, a.pos) /\ Inverses(s.vert, s.pos)
      BY <2>1 DEF AfterSome, InOrder
    <3>3. s.pos[x] \in 0 .. V /\ s.vert[s.pos[x]] = x
      BY <2>2, <3>2, Zenon DEF Inverses
    <3>4. s.pos[x] < from => a.vert[s.pos[x]] = x
      BY <2>1, <3>3, Zenon DEF AfterSome
    <3>5. a.vert[s.pos[x]] = x => a.pos[x] = s.pos[x]
      <4>1. \A i \in 0 .. V : a.pos[a.vert[i]] = i
        BY <3>2 DEF Inverses
      <4> HIDE DEF x
      <4> QED BY <3>3, <4>1
    <3> HIDE DEF x
    <3> QED BY <3>1, <3>3, <3>4, <3>5
  <2>4. OneLowered(b, s, x, m, from, c)
    <3>1. InOrder(s, m, from, c)
      BY <2>1 DEF AfterSome
    <3>2. b = LowerDegree(c, s, x)
      OBVIOUS
    <3> HIDE DEF b, x, T
    <3> QED BY <2>2, <2>3, <3>1, <3>2, LowerStep
  <2> HIDE DEF b, x
  <2>5. \A i \in 0 .. V : i < from => b.vert[i] = a.vert[i]
    BY <2>1, <2>4 DEF AfterSome, OneLowered
  <2>6. ASSUME NEW v \in 0 .. V
        PROVE  Lowered(a.degrees[v], b.degrees[v], EqualUpTo(L, v, k), c)
    <3>1. Lowered(a.degrees[v], s.degrees[v], EqualUpTo(L, v, k - 1), c)
      BY <2>1 DEF AfterSome
    <3>2. /\ EqualUpTo(L, v, k) = EqualUpTo(L, v, k - 1) + (IF L[k] = v THEN 1 ELSE 0)
          /\ EqualUpTo(L, v, k - 1) \in Nat
      <4>1. k - 1 \in Nat
        BY <2>2
      <4> QED BY <2>2, <4>1, EqualNext, Zenon
    <3>3. a.degrees[v] \in Nat /\ s.degrees[v] \in Nat
      BY <2>1, ArrayTypes DEF InOrder
    <3>4. b.degrees[v] = IF v = x /\ c < s.degrees[v] THEN s.degrees[v] - 1 ELSE s.degrees[v]
      BY <2>4 DEF OneLowered
    <3>5. L[k] = x
      BY DEF x
    <3>6. Lowered(a.degrees[v], IF v = x /\ c < s.degrees[v] THEN s.degrees[v] - 1 ELSE s.degrees[v],
                  EqualUpTo(L, v, k - 1) + (IF x = v THEN 1 ELSE 0), c)
      BY <3>1, <3>2, <3>3, LoweredStep, Zenon
    <3> QED BY <3>2, <3>4, <3>5, <3>6
  <2>7. b \in AllArrays(m) /\ AfterSome(b, a, m, from, c, L, k)
    BY <2>4, <2>5, <2>6 DEF AfterSome, InOrder, OneLowered
  <2> QED BY <2>2, <2>7 DEF b
<1> HIDE DEF T, Step
<1> DEFINE F == [k \in 1 .. n |-> [s \in T[k - 1] |-> Step(s, k)]]
<1>4. \A k \in 1 .. n : \A s \in T[k - 1] : F[k][s] = Step(s, k)
  OBVIOUS
<1>5. \A k \in 1 .. n : \A s \in T[k - 1] : F[k][s] \in T[k]
  BY <1>3, <1>4, Zenon
<1> HIDE DEF F, n
<1>6. PICK h : IsRun(h, n, T, F, a)
  BY <1>1, <1>2, <1>5, LoopRuns, Zenon
<1>7. Rec(h)
  <2>1. ASSUME NEW k \in 0 .. n
        PROVE  h[k] = IF k = 0 THEN a ELSE Step(h[k - 1], k)
    <3>1. CASE k = 0
      BY <3>1, <1>6 DEF IsRun
    <3>2. CASE k # 0
      <4>1. k \in 1 .. n /\ k - 1 \in 0 .. n
        BY <1>1, <3>2
      <4> QED BY <4>1, <1>4, <1>6, <3>2 DEF IsRun
    <3> QED BY <3>1, <3>2
  <2> QED BY <1>6, <2>1, Zenon DEF IsRun
<1> DEFINE g == CHOOSE f : Rec(f)
<1>8. Rec(g)
  <2> HIDE DEF Rec
  <2> QED BY <1>7
<1>9. LowerAll(c, a, L) = g[n]
  BY DEF LowerAll, Step, n
<1> HIDE DEF g
<1>10. \A k \in 0 .. n : g[k] \in T[k]
  <2>1. g[0] \in T[0]
    BY <1>1, <1>2, <1>8
  <2>2. ASSUME NEW k \in 1 .. n, g[k - 1] \in T[k - 1]
        PROVE  g[k] \in T[k]
    <3>1. g[k] = Step(g[k - 1], k)
      BY <1>1, <1>8
    <3> QED BY <1>3, <2>2, <3>1
  <2> QED BY <1>1, <2>1, <2>2, LoopInvariant, Zenon
<1>11. LowerAll(c, a, L) \in T[n]
  BY <1>1, <1>9, <1>10
<1> QED BY <1>1, <1>11 DEF T, n
-----------------------------------------------------------------------------
(* A table that never decreases from one index to the next is sorted. *)
LEMMA Monotone ==
  ASSUME NEW n \in Nat, NEW f, \A i \in 0 .. n : f[i] \in Nat,
         \A i \in 0 .. n : i < n => f[i] <= f[i + 1]
  PROVE  \A i, j \in 0 .. n : i <= j => f[i] <= f[j]
<1> SUFFICES ASSUME NEW i \in 0 .. n
             PROVE  \A j \in 0 .. n : i <= j => f[i] <= f[j]
  OBVIOUS
<1> DEFINE S == {k \in Nat : i + k <= n => f[i] <= f[i + k]}
<1>1. S \in SUBSET Nat
  OBVIOUS
<1>2. 0 \in S
  OBVIOUS
<1>3. \A k \in S : k + 1 \in S
  <2> SUFFICES ASSUME NEW k \in Nat, f[i] <= f[i + k], i + (k + 1) <= n
               PROVE  f[i] <= f[i + (k + 1)]
    OBVIOUS
  <2>1. i + k \in 0 .. n /\ i + k < n /\ (i + k) + 1 = i + (k + 1) /\ i + (k + 1) \in 0 .. n
    OBVIOUS
  <2>2. f[i + k] <= f[i + (k + 1)]
    BY <2>1
  <2>3. f[i] \in Nat /\ f[i + k] \in Nat /\ f[i + (k + 1)] \in Nat
    BY <2>1
  <2> QED BY <2>2, <2>3
<1>4. \A k \in Nat : k \in S
  <2> HIDE DEF S
  <2> QED BY <1>1, <1>2, <1>3, SetInduction
<1>5. ASSUME NEW j \in 0 .. n, i <= j
      PROVE  f[i] <= f[j]
  <2>1. j - i \in Nat /\ i + (j - i) = j
    BY <1>5
  <2>2. j - i \in S
    BY <1>4, <2>1, Zenon
  <2> QED BY <2>1, <2>2
<1> QED BY <1>5

(* max_degree. *)
LEMMA MaxDegreeFacts ==
  ASSUME V \in Nat, NEW adj \in [0 .. V -> Seq(Vertex)]
  PROVE  /\ MaxDegree(adj) \in Nat
         /\ \A v \in 0 .. V : Len(adj[v]) \in Nat /\ Len(adj[v]) <= MaxDegree(adj)
<1> DEFINE f == [v \in 0 .. V |-> Len(adj[v])]
           S == {Len(adj[v]) : v \in 0 .. V}
<1>1. \A v \in 0 .. V : f[v] = Len(adj[v]) /\ f[v] \in Nat
  <2> SUFFICES ASSUME NEW v \in 0 .. V
               PROVE  Len(adj[v]) \in Nat
    OBVIOUS
  <2>1. adj[v] \in Seq(Vertex)
    OBVIOUS
  <2> QED BY <2>1
<1>2. PICK i \in 0 .. V : \A j \in 0 .. V : f[j] <= f[i]
  <2> HIDE DEF f
  <2> QED BY <1>1, GreatestValue, Zenon
<1>3. S \in SUBSET Nat /\ f[i] \in S /\ \A y \in S : y <= f[i]
  BY <1>1, <1>2
<1>4. MaxDegree(adj) = f[i]
  <2>1. MaxDegree(adj) = Max(S)
    BY DEF MaxDegree
  <2> HIDE DEF S, f
  <2> QED BY <1>3, <2>1, MaxFacts, Zenon
<1> QED BY <1>1, <1>2, <1>4

(* The order vs of the vertices is one that sorting by degree may give. *)
Ordered(vs, ds) ==
  /\ vs[0] = 0 /\ ds[0] = 0
  /\ \A i \in 0 .. V : vs[i] \in 0 .. V /\ ds[i] \in Nat
  /\ \A v \in 0 .. V : \E i \in 0 .. V : vs[i] = v
  /\ \A i, j \in 0 .. V : vs[i] = vs[j] => i = j
  /\ \A i, j \in 0 .. V : i <= j => ds[vs[i]] <= ds[vs[j]]

(* Sorting by degree orders the vertices. *)
LEMMA SortOrders ==
  ASSUME V \in Nat, NEW adj, Multigraph(adj), NEW vs \in ByDegree(adj),
         NEW ds, ds = [v \in 0 .. V |-> Len(adj[v])]
  PROVE  Ordered(vs, ds) /\ vs \in [0 .. V -> 0 .. V]
<1>1. PICK s \in Bijection(Vertex, Vertex) :
        /\ vs = [i \in 0 .. V |-> IF i = 0 THEN 0 ELSE s[i]]
        /\ \A i \in 1 .. V - 1 : Len(adj[s[i]]) <= Len(adj[s[i + 1]])
  BY DEF ByDegree
<1>2. /\ s \in [Vertex -> Vertex]
      /\ \A t \in Vertex : \E i \in Vertex : s[i] = t
      /\ \A i, j \in Vertex : s[i] = s[j] => i = j
  BY DEF Bijection, Injection, Surjection, IsInjective
<1>4. \A i \in 0 .. V : i = 0 \/ i \in Vertex
  BY DEF Vertex
<1>5. Vertex \subseteq 0 .. V /\ 0 \notin Vertex
  BY DEF Vertex
<1>3. vs[0] = 0 /\ \A i \in Vertex : vs[i] = s[i] /\ s[i] \in Vertex
  <2>1. 0 \in 0 .. V
    OBVIOUS
  <2>2. \A i \in Vertex : s[i] \in Vertex
    BY <1>2
  <2>3. vs = [i \in 0 .. V |-> IF i = 0 THEN 0 ELSE s[i]]
    BY <1>1
  <2> QED BY <1>5, <2>1, <2>2, <2>3
<1>6. \A i \in 0 .. V : vs[i] \in 0 .. V
  BY <1>3, <1>4, <1>5, Zenon
<1>7. \A v \in 0 .. V : \E i \in 0 .. V : vs[i] = v
  BY <1>2, <1>3, <1>4, <1>5, Zenon
<1>8. ASSUME NEW i \in 0 .. V, NEW j \in 0 .. V, vs[i] = vs[j]
      PROVE  i = j
  <2>1. CASE i = 0 \/ j = 0
    BY <1>3, <1>4, <1>5, <1>8, <2>1
  <2>2. CASE i # 0 /\ j # 0
    <3>1. i \in Vertex /\ j \in Vertex /\ s[i] = s[j]
      BY <1>3, <1>4, <1>8, <2>2
    <3> QED BY <1>2, <3>1
  <2> QED BY <2>1, <2>2
<1>9. adj \in [0 .. V -> Seq(Vertex)] /\ adj[0] = <<>>
  BY DEF Multigraph
<1>10. \A v \in 0 .. V : ds[v] = Len(adj[v]) /\ ds[v] \in Nat
  BY <1>9, MaxDegreeFacts
<1>11. ds[0] = 0
  BY <1>9, <1>10
<1> DEFINE f == [i \in 0 .. V |-> ds[vs[i]]]
<1>12. \A i \in 0 .. V : f[i] = ds[vs[i]] /\ f[i] \in Nat
  BY <1>6, <1>10
<1>13. ASSUME NEW i \in 0 .. V, i < V
       PROVE  f[i] <= f[i + 1]
  <2>1. i + 1 \in 0 .. V /\ f[i + 1] \in Nat
    BY <1>12, <1>13
  <2>2. CASE i = 0
    BY <1>3, <1>11, <1>12, <2>1, <2>2
  <2>3. CASE i # 0
    <3>1. i \in 1 .. V - 1 /\ i \in Vertex /\ i + 1 \in Vertex
      BY <1>13, <2>3 DEF Vertex
    <3>2. Len(adj[s[i]]) <= Len(adj[s[i + 1]])
      BY <1>1, <3>1
    <3>3. vs[i] = s[i] /\ vs[i + 1] = s[i + 1] /\ s[i] \in 0 .. V /\ s[i + 1] \in 0 .. V
      BY <1>3, <1>5, <3>1, Zenon
    <3> QED BY <1>10, <1>12, <2>1, <3>2, <3>3, Zenon
  <2> QED BY <2>2, <2>3
<1>14. \A i, j \in 0 .. V : i <= j => f[i] <= f[j]
  <2> HIDE DEF f
  <2> QED BY <1>12, <1>13, Monotone, Zenon
<1>15. vs \in [0 .. V -> 0 .. V]
  BY <1>1, <1>6
<1> QED BY <1>3, <1>6, <1>7, <1>8, <1>10, <1>11, <1>12, <1>14, <1>15, Zenon DEF Ordered

(* bin as it is filled in for a graph for which that is right. *)
LEMMA FilledRight ==
  ASSUME V \in Nat, NEW adj, Multigraph(adj), FillIsRight(adj),
         NEW vs, NEW ds, ds = [v \in 0 .. V |-> Len(adj[v])], Ordered(vs, ds),
         NEW d \in 1 .. MaxDegree(adj)
  PROVE  /\ FilledBin(adj, vs)[d] \in 0 .. V + 1
         /\ \A i \in 0 .. V : i < FilledBin(adj, vs)[d] <=> ds[vs[i]] < d
<1> DEFINE m == MaxDegree(adj)
           I(c) == {i \in Vertex : Len(adj[vs[i]]) = c /\ c > 0}
           first(c) == FirstOfDegree(adj, vs, c)
           b == FilledBin(adj, vs)[d]
<1>1. adj \in [0 .. V -> Seq(Vertex)] /\ m \in Nat
  BY MaxDegreeFacts, Zenon DEF Multigraph
<1>2. \A v \in 0 .. V : ds[v] = Len(adj[v]) /\ ds[v] \in Nat
  BY <1>1, MaxDegreeFacts
<1>zero. 0 \in 0 .. V /\ ds[vs[0]] = 0
  BY DEF Ordered
<1>type. \A i \in 0 .. V : vs[i] \in 0 .. V
  BY DEF Ordered
<1>all. \A v \in 0 .. V : \E i \in 0 .. V : vs[i] = v
  BY Zenon DEF Ordered
<1>once. \A i, j \in 0 .. V : vs[i] = vs[j] => i = j
  BY DEF Ordered
<1>up. \A i, j \in 0 .. V : i <= j => ds[vs[i]] <= ds[vs[j]]
  BY Zenon DEF Ordered
<1>4. \A i \in 0 .. V : ds[vs[i]] \in Nat /\ ds[vs[i]] = Len(adj[vs[i]])
  BY <1>2, <1>type
<1>5. Vertex \subseteq 0 .. V /\ 0 \notin Vertex /\ \A i \in 0 .. V : i = 0 \/ i \in Vertex
  BY DEF Vertex
<1>6. ASSUME NEW c \in Nat
      PROVE  /\ first(c) = 0 \/ first(c) \in I(c)
             /\ I(c) # {} => first(c) \in I(c) /\ \A i \in I(c) : first(c) <= i
             /\ I(c) = {} => first(c) = 0
             /\ \A i : i \in I(c) <=> i \in 0 .. V /\ ds[vs[i]] = c /\ c > 0
  <2>1. \A i : i \in I(c) <=> i \in 0 .. V /\ ds[vs[i]] = c /\ c > 0
    <3>1. ASSUME NEW i \in 0 .. V, ds[vs[i]] = c, c > 0
          PROVE  i \in Vertex
      BY <1>zero, <1>5, <3>1
    <3> QED BY <1>4, <1>5, <3>1, Zenon
  <2>2. first(c) = IF I(c) = {} THEN 0 ELSE Min(I(c))
    BY DEF FirstOfDegree
  <2>3. I(c) \in SUBSET Nat
    BY DEF Vertex
  <2> HIDE DEF I, first
  <2>4. I(c) # {} => Min(I(c)) \in I(c) /\ \A i \in I(c) : Min(I(c)) <= i
    BY <2>3, MinFacts
  <2> QED BY <2>1, <2>2, <2>4, Zenon
<1>7. b = IF first(d) # 0 THEN first(d) ELSE 1 + Max({first(c) : c \in 0 .. d})
  <2>1. d # 0 /\ d \in 0 .. m
    BY <1>1
  <2> QED BY <2>1 DEF FilledBin
<1>8. d \in Nat /\ d > 0
  BY <1>1
<1> HIDE DEF m, I, first, b
<1>9. CASE I(d) # {}
  <2>1. first(d) \in I(d) /\ \A i \in I(d) : first(d) <= i
    BY <1>6, <1>8, <1>9
  <2>2. first(d) \in 0 .. V /\ ds[vs[first(d)]] = d
    BY <1>6, <1>8, <2>1
  <2>3. first(d) # 0
    BY <1>zero, <1>8, <2>2
  <2>4. b = first(d)
    BY <1>7, <2>3
  <2>5. ASSUME NEW i \in 0 .. V
        PROVE  i < b <=> ds[vs[i]] < d
    <3>1. ds[vs[i]] \in Nat
      BY <1>4
    <3>2. i <= first(d) => ds[vs[i]] <= d
      BY <1>up, <2>2, Zenon
    <3>3. first(d) <= i => d <= ds[vs[i]]
      BY <1>up, <2>2, Zenon
    <3>4. ds[vs[i]] = d => first(d) <= i
      BY <1>6, <1>8, <2>1, Zenon
    <3> QED BY <1>8, <2>2, <2>4, <3>1, <3>2, <3>3, <3>4
  <2>6. b \in 0 .. V + 1
    BY <2>2, <2>4
  <2> QED BY <2>5, <2>6 DEF b
<1>10. CASE I(d) = {}
  <2> DEFINE J == {i \in 0 .. V : ds[vs[i]] < d}
  <2>1. J \in SUBSET (0 .. V) /\ 0 \in J
    BY <1>zero, <1>8
  <2>2. PICK p \in J : \A i \in J : i <= p
    <3> HIDE DEF J
    <3> QED BY <2>1, GreatestBounded, Zenon
  <2> DEFINE e == ds[vs[p]]
  <2>3. p \in 0 .. V /\ e < d /\ e \in Nat
    BY <1>4, <2>2
  <2>4. ASSUME NEW i \in 0 .. V
        PROVE  i <= p <=> ds[vs[i]] < d
    <3>1. ds[vs[i]] < d => i <= p
      BY <2>2, Zenon
    <3>2. i <= p => ds[vs[i]] <= e
      BY <1>up, <2>3
    <3>3. ds[vs[i]] \in Nat
      BY <1>4, Zenon
    <3> HIDE DEF e
    <3> QED BY <1>8, <2>3, <3>1, <3>2, <3>3
  <2> HIDE DEF e
  <2>5. \A v \in Vertex : Len(adj[v]) # e + 1
    <3> SUFFICES ASSUME NEW v \in Vertex, Len(adj[v]) = e + 1
                 PROVE  FALSE
      OBVIOUS
    <3>1. v \in 0 .. V /\ ds[v] = e + 1
      BY <1>2, <1>5
    <3>2. PICK i \in 0 .. V : vs[i] = v
      BY <1>all, <3>1
    <3>3. CASE e + 1 = d
      <4>1. i \in I(d)
        BY <1>6, <1>8, <3>1, <3>2, <3>3, Zenon
      <4> QED BY <1>10, <4>1
    <3>4. CASE e + 1 # d
      <4>1. e + 1 < d
        BY <1>8, <2>3, <3>4
      <4>2. i <= p
        BY <2>4, <3>1, <3>2, <4>1, Zenon
      <4>3. ds[vs[i]] <= e
        BY <1>up, <2>3, <4>2 DEF e
      <4> QED BY <2>3, <3>1, <3>2, <4>3
    <3> QED BY <3>3, <3>4
  <2>6. \A u, v \in 0 .. V : ds[u] = e /\ ds[v] = e => u = v
    <3>1. e + 1 \in 1 .. MaxDegree(adj) /\ (e + 1) - 1 = e
      BY <1>1, <2>3 DEF m
    <3>2. \A u, v \in 0 .. V : Len(adj[u]) = e /\ Len(adj[v]) = e => u = v
      BY <2>5, <3>1, Zenon DEF FillIsRight
    <3> QED BY <1>2, <3>2
  <2>7. \A i \in 0 .. V : ds[vs[i]] = e => i = p
    <3>1. ds[vs[p]] = e /\ vs[p] \in 0 .. V
      BY <1>type, <2>3 DEF e
    <3> QED BY <1>type, <1>once, <2>3, <2>6, <3>1
  <2>8. first(e) = p
    <3>1. CASE e = 0
      <4>1. p = 0
        BY <1>zero, <2>7, <3>1
      <4>2. I(e) = {}
        <5>1. ASSUME NEW i \in I(e)
              PROVE  FALSE
          <6>1. e > 0
            BY <1>6, <2>3, Zenon
          <6> QED BY <3>1, <6>1
        <5> QED BY <5>1
      <4> QED BY <1>6, <2>3, <4>1, <4>2
    <3>2. CASE e # 0
      <4>1. p \in I(e)
        <5>1. e > 0 /\ ds[vs[p]] = e
          BY <2>3, <3>2 DEF e
        <5> QED BY <1>6, <2>3, <5>1, Zenon
      <4>2. first(e) \in I(e)
        BY <1>6, <2>3, <4>1
      <4> QED BY <1>6, <2>3, <2>7, <4>2, Zenon
    <3> QED BY <3>1, <3>2
  <2>9. ASSUME NEW c \in 0 .. d
        PROVE  first(c) \in Nat /\ first(c) <= p
    <3>1. c \in Nat
      OBVIOUS
    <3>2. CASE first(c) = 0
      <4>1. 0 <= p
        BY <2>3
      <4> QED BY <3>2, <4>1
    <3>3. CASE first(c) # 0
      <4>1. first(c) \in I(c)
        BY <1>6, <3>1, <3>3
      <4>2. first(c) \in 0 .. V /\ ds[vs[first(c)]] = c
        BY <1>6, <3>1, <4>1, Zenon
      <4>3. c # d
        BY <1>10, <4>1
      <4>4. c < d
        BY <1>8, <4>3
      <4>5. first(c) <= p
        BY <2>4, <4>2, <4>4, Zenon
      <4> QED BY <4>2, <4>5
    <3> QED BY <3>2, <3>3
  <2> DEFINE F == {first(c) : c \in 0 .. d}
  <2>10. F \in SUBSET Nat /\ p \in F /\ \A y \in F : y <= p
    <3>1. e \in 0 .. d
      BY <1>8, <2>3
    <3> QED BY <2>8, <2>9, <3>1
  <2>11. Max(F) = p
    <3> HIDE DEF F
    <3> QED BY <2>10, MaxFacts
  <2>12. first(d) = 0
    BY <1>6, <1>8, <1>10
  <2>13. b = 1 + p
    BY <1>7, <2>11, <2>12
  <2>14. ASSUME NEW i \in 0 .. V
         PROVE  i < b <=> ds[vs[i]] < d
    <3>1. i < b <=> i <= p
      BY <2>3, <2>13
    <3> QED BY <2>4, <3>1, Zenon
  <2>15. b \in 0 .. V + 1
    BY <2>3, <2>13
  <2> QED BY <2>14, <2>15 DEF b
<1> QED BY <1>9, <1>10
-----------------------------------------------------------------------------
(* One more filtered vertex x: a list keeps as many entries fewer as name x. *)
LEMMA OutsideMore ==
  ASSUME NEW list, NEW F, NEW x, x \notin F, NEW n \in Nat
  PROVE  OutsideUpTo(list, F \cup {x}, n) = OutsideUpTo(list, F, n) - EqualUpTo(list, x, n)
<1> DEFINE Diff(k) == OutsideUpTo(list, F \cup {x}, k) = OutsideUpTo(list, F, k) - EqualUpTo(list, x, k)
           S == {k \in Nat : Diff(k)}
<1>1. S \in SUBSET Nat
  OBVIOUS
<1>2. 0 \in S
  BY OutsideNext, EqualNext
<1>3. \A k \in S : k + 1 \in S
  <2> SUFFICES ASSUME NEW k \in Nat, Diff(k)
               PROVE  Diff(k + 1)
    <3> HIDE DEF Diff
    <3> QED OBVIOUS
  <2> DEFINE G == F \cup {x}
             j == k + 1
  <2>1. list[j] \in G <=> list[j] \in F \/ list[j] = x
    OBVIOUS
  <2>2. j \in Nat \ {0} /\ j - 1 = k
    OBVIOUS
  <2> HIDE DEF G, j, Diff, S
  <2>3. OutsideUpTo(list, G, j) = OutsideUpTo(list, G, k) + (IF list[j] \in G THEN 0 ELSE 1)
    <3>1. OutsideUpTo(list, G, j) = OutsideUpTo(list, G, j - 1) + (IF list[j] \in G THEN 0 ELSE 1)
      <4>1. \A q \in Nat \ {0} : OutsideUpTo(list, G, q)
                = OutsideUpTo(list, G, q - 1) + (IF list[q] \in G THEN 0 ELSE 1)
        BY OutsideNext, Zenon
      <4> QED BY <2>2, <4>1
    <3> QED BY <2>2, <3>1
  <2>4. OutsideUpTo(list, F, j) = OutsideUpTo(list, F, k) + (IF list[j] \in F THEN 0 ELSE 1)
    <3>1. OutsideUpTo(list, F, j) = OutsideUpTo(list, F, j - 1) + (IF list[j] \in F THEN 0 ELSE 1)
      <4>1. \A q \in Nat \ {0} : OutsideUpTo(list, F, q)
                = OutsideUpTo(list, F, q - 1) + (IF list[q] \in F THEN 0 ELSE 1)
        BY OutsideNext
      <4> QED BY <2>2, <4>1
    <3> QED BY <2>2, <3>1
  <2>5. EqualUpTo(list, x, j) = EqualUpTo(list, x, k) + (IF list[j] = x THEN 1 ELSE 0)
    <3>1. EqualUpTo(list, x, j) = EqualUpTo(list, x, j - 1) + (IF list[j] = x THEN 1 ELSE 0)
      BY <2>2, EqualNext, Zenon
    <3> QED BY <2>2, <3>1
  <2>6. OutsideUpTo(list, G, k) \in Nat /\ OutsideUpTo(list, F, k) \in Nat /\ EqualUpTo(list, x, k) \in Nat
    BY OutsideNext, EqualNext, Zenon
  <2>7. OutsideUpTo(list, G, k) = OutsideUpTo(list, F, k) - EqualUpTo(list, x, k)
    BY DEF Diff, G
  <2>8. OutsideUpTo(list, G, j) = OutsideUpTo(list, F, j) - EqualUpTo(list, x, j)
    BY <2>1, <2>3, <2>4, <2>5, <2>6, <2>7
  <2> QED BY <2>8 DEF Diff, G, j
<1>4. n \in S
  <2> HIDE DEF S
  <2> QED BY <1>1, <1>2, <1>3, SetInduction
<1> QED BY <1>4

(* What is left of the list of v. *)
LEMMA UnfilteredFacts ==
  ASSUME V \in Nat, Multigraph(adjacency_list), NEW v \in 0 .. V
  PROVE  /\ Unfiltered(v) \in Seq(Vertex) /\ Len(Unfiltered(v)) \in Nat
         /\ \A w : Times(Unfiltered(v), w) = IF w \in filtered THEN 0 ELSE Times(adjacency_list[v], w)
         /\ \A w : (\E k \in 1 .. Len(Unfiltered(v)) : Unfiltered(v)[k] = w)
                     <=> (w \notin filtered /\ \E k \in 1 .. Len(adjacency_list[v]) : adjacency_list[v][k] = w)
         /\ \A k \in 1 .. Len(Unfiltered(v)) :
              Unfiltered(v)[k] \in Vertex /\ Unfiltered(v)[k] \notin filtered /\ Unfiltered(v)[k] # v
<1> DEFINE L == Unfiltered(v)
           A == adjacency_list[v]
<1>1. A \in Seq(Vertex)
  BY DEF Multigraph
<1>2. L \in Seq(Vertex) /\ \A w : Times(L, w) = IF w \in filtered THEN 0 ELSE Times(A, w)
  BY <1>1, KeptFacts DEF Unfiltered
<1> HIDE DEF L, A
<1>3. Len(L) \in Nat
  BY <1>2
<1>4. ASSUME NEW w
      PROVE  (\E k \in 1 .. Len(L) : L[k] = w) <=> (w \notin filtered /\ \E k \in 1 .. Len(A) : A[k] = w)
  <2>1. Times(L, w) > 0 <=> \E k \in 1 .. Len(L) : L[k] = w
    BY <1>2, TimesNat
  <2>2. Times(A, w) > 0 <=> \E k \in 1 .. Len(A) : A[k] = w
    BY <1>1, TimesNat
  <2>3. Times(L, w) = IF w \in filtered THEN 0 ELSE Times(A, w)
    BY <1>2
  <2> QED BY <2>1, <2>2, <2>3
<1>5. ASSUME NEW k \in 1 .. Len(L)
      PROVE  L[k] \in Vertex /\ L[k] \notin filtered /\ L[k] # v
  <2>1. L[k] \in Vertex
    BY <1>2
  <2>2. L[k] \notin filtered /\ \E j \in 1 .. Len(A) : A[j] = L[k]
    BY <1>4, Zenon
  <2>3. Times(A, L[k]) > 0
    BY <1>1, <2>2, TimesNat
  <2>4. v \in Vertex => Times(A, v) = 0
    BY DEF Multigraph, A
  <2>5. L[k] # v
    BY <2>1, <2>3, <2>4
  <2> QED BY <2>1, <2>2, <2>5
<1> QED BY <1>2, <1>3, <1>4, <1>5 DEF L, A

(* u names v as often as v names u, also when one of them is 0. *)
LEMMA Symmetric ==
  ASSUME V \in Nat, NEW adj, Multigraph(adj), NEW u \in 0 .. V, NEW v \in 0 .. V
  PROVE  Times(adj[u], v) = Times(adj[v], u)
<1>1. adj \in [0 .. V -> Seq(Vertex)] /\ adj[0] = <<>> /\ adj[u] \in Seq(Vertex) /\ adj[v] \in Seq(Vertex)
  BY DEF Multigraph
<1>2. \A w : Times(<<>>, w) = 0
  <2> SUFFICES ASSUME NEW w
               PROVE  Times(<<>>, w) = 0
    OBVIOUS
  <2>1. {i \in 1 .. Len(<<>>) : <<>>[i] = w} = {}
    OBVIOUS
  <2> QED BY <2>1, FS_EmptySet DEF Times
<1>3. \A w \in 0 .. V : Times(adj[w], 0) = 0
  <2> SUFFICES ASSUME NEW w \in 0 .. V
               PROVE  Times(adj[w], 0) = 0
    OBVIOUS
  <2>1. adj[w] \in Seq(Vertex)
    BY <1>1
  <2>2. \A k \in 1 .. Len(adj[w]) : adj[w][k] # 0
    BY <2>1 DEF Vertex
  <2>3. Times(adj[w], 0) \in Nat /\ ~ (Times(adj[w], 0) > 0)
    BY <2>1, <2>2, TimesNat
  <2> QED BY <2>3
<1>4. CASE u = 0 \/ v = 0
  BY <1>1, <1>2, <1>3, <1>4
<1>5. CASE u # 0 /\ v # 0
  <2>1. u \in Vertex /\ v \in Vertex
    BY <1>5 DEF Vertex
  <2> QED BY <2>1 DEF Multigraph
<1> QED BY <1>4, <1>5

-----------------------------------------------------------------------------
TopDegree == MaxDegree(adjacency_list)

(* The degrees count what is left of the lists, but for those lowered no       *)
(* further than c.                                                             *)
Counted(c) ==
  \A v \in (0 .. V) \ filtered :
    /\ Len(Unfiltered(v)) <= degrees[v]
    /\ degrees[v] > c => Len(Unfiltered(v)) = degrees[v]

(* The k-core loop at index idx: all up to idx is filtered, and the rest is in *)
(* order from some degree c on that the loop has reached.                      *)
LoopInv ==
  /\ filtered = {vert[i] : i \in 0 .. idx - 1}
  /\ \E c \in 0 .. TopDegree :
       /\ Bucketed(vert, bin, degrees, TopDegree, idx, c)
       /\ MaxKCore + 1 <= TopDegree => c <= MaxKCore
       /\ Counted(c)

LeftLong ==
  MaxKCore + 1 <= TopDegree => \A v \in Vertex \ filtered : Len(Unfiltered(v)) > MaxKCore

(* The inductive invariant of the build. *)
BuildInv ==
  /\ Multigraph(adjacency_list)
  /\ phase \in {"kcore", "overrun", "rest", "done"}
  /\ idx \in 0 .. V + 1
  /\ arrays \in AllArrays(TopDegree)
  /\ Inverses(vert, pos)
  /\ filtered \subseteq 0 .. V
  /\ phase = "kcore" => LoopInv
  /\ phase \in {"rest", "done"} => LeftLong

(* The invariant holds at the start. *)
LEMMA BuildInvInit ==
  ASSUME V \in Nat, MaxKCore \in Nat, NEW G, \A g \in G : Multigraph(g) /\ FillIsRight(g), InitOver(G)
  PROVE  BuildInv
<1> DEFINE adj == adjacency_list
           m == TopDegree
<1>1. /\ adj \in G /\ phase = "kcore" /\ idx = 0 /\ vert \in ByDegree(adj)
      /\ pos = [v \in 0 .. V |-> CHOOSE i \in 0 .. V : vert[i] = v]
      /\ bin = FilledBin(adj, vert)
      /\ degrees = [v \in 0 .. V |-> Len(adj[v])]
      /\ filtered = {}
  BY DEF InitOver, InitWith
<1>2. Multigraph(adj) /\ FillIsRight(adj) /\ adj \in [0 .. V -> Seq(Vertex)]
  BY <1>1 DEF Multigraph
<1>3. /\ m \in Nat /\ m = MaxDegree(adj)
      /\ \A v \in 0 .. V : Len(adj[v]) \in Nat /\ Len(adj[v]) <= m
  BY <1>2, MaxDegreeFacts DEF TopDegree
<1>4. Ordered(vert, degrees) /\ vert \in [0 .. V -> 0 .. V]
  BY <1>1, <1>2, SortOrders
<1>5. Inverses(vert, pos) /\ pos \in [0 .. V -> 0 .. V]
  <2>1. \A i \in 0 .. V : vert[i] \in 0 .. V
    BY <1>4 DEF Ordered
  <2>2. \A v \in 0 .. V : \E i \in 0 .. V : vert[i] = v
    BY <1>4 DEF Ordered
  <2>3. \A i, j \in 0 .. V : vert[i] = vert[j] => i = j
    BY <1>4 DEF Ordered
  <2>4. \A v \in 0 .. V : pos[v] \in 0 .. V /\ vert[pos[v]] = v
    BY <1>1, <2>2, Zenon
  <2>5. \A i \in 0 .. V : pos[vert[i]] = i
    BY <2>1, <2>3, <2>4
  <2>6. pos \in [0 .. V -> 0 .. V]
    BY <1>1, <2>4
  <2> QED BY <2>1, <2>4, <2>5, <2>6 DEF Inverses
<1>6. \A v \in 0 .. V : degrees[v] = Len(adj[v]) /\ degrees[v] \in 0 .. m
  BY <1>1, <1>3
<1>7. degrees \in [0 .. V -> 0 .. m]
  BY <1>1, <1>6
<1>8. ASSUME NEW d \in 1 .. m
      PROVE  /\ bin[d] \in 0 .. V + 1
             /\ \A i \in 0 .. V : i < bin[d] <=> degrees[vert[i]] < d
  BY <1>1, <1>2, <1>3, <1>4, FilledRight, Zenon
<1>9. bin \in [0 .. m -> 0 .. V + 1]
  <2>1. bin = [d \in 0 .. m |-> bin[d]]
    BY <1>1, <1>3 DEF FilledBin
  <2>2. bin[0] = 0
    <3>1. bin[0] = FirstOfDegree(adj, vert, 0)
      BY <1>1, <1>3 DEF FilledBin
    <3>2. {i \in Vertex : Len(adj[vert[i]]) = 0 /\ 0 > 0} = {}
      OBVIOUS
    <3> QED BY <3>1, <3>2 DEF FirstOfDegree
  <2>3. ASSUME NEW d \in 0 .. m
        PROVE  bin[d] \in 0 .. V + 1
    <3>1. CASE d = 0
      BY <2>2, <3>1
    <3>2. CASE d # 0
      <4>1. d \in 1 .. m
        BY <1>3, <3>2
      <4> QED BY <1>8, <4>1
    <3> QED BY <3>1, <3>2
  <2> QED BY <2>1, <2>3
<1>10. arrays \in AllArrays(m)
  BY <1>4, <1>5, <1>7, <1>9, Zenon DEF arrays, AllArrays
<1>11. Bucketed(vert, bin, degrees, m, 0, 0)
  <2>1. ASSUME NEW i \in 0 .. V
        PROVE  degrees[vert[i]] >= 0
    <3>1. vert[i] \in 0 .. V
      BY <1>5 DEF Inverses
    <3> QED BY <1>3, <1>6, <3>1
  <2> QED BY <1>8, <2>1 DEF Bucketed
<1>12. Counted(0)
  <2> SUFFICES ASSUME NEW v \in 0 .. V
               PROVE  Len(Unfiltered(v)) = degrees[v] /\ degrees[v] \in Nat
    BY DEF Counted
  <2>1. adj[v] \in Seq(Vertex) /\ degrees[v] = Len(adj[v]) /\ Len(adj[v]) \in Nat
    BY <1>2, <1>6
  <2>2. Len(Unfiltered(v)) = OutsideUpTo(adj[v], {}, Len(adj[v]))
    BY <1>1, <2>1, KeptFacts DEF Unfiltered
  <2>3. {i \in 1 .. Len(adj[v]) : adj[v][i] \notin {}} = 1 .. Len(adj[v])
    OBVIOUS
  <2>4. Cardinality(1 .. Len(adj[v])) = Len(adj[v])
    BY <2>1, FS_Interval
  <2> QED BY <2>1, <2>2, <2>3, <2>4, Zenon DEF OutsideUpTo
<1>13. LoopInv
  <2>1. filtered = {vert[i] : i \in 0 .. idx - 1}
    BY <1>1
  <2>2. 0 \in 0 .. TopDegree /\ (MaxKCore + 1 <= TopDegree => 0 <= MaxKCore)
    BY <1>3
  <2> QED BY <1>1, <1>11, <1>12, <2>1, <2>2, Zenon DEF LoopInv
<1> QED BY <1>1, <1>2, <1>5, <1>10, <1>13 DEF BuildInv

(* What the next iteration of the k-core loop does to the arrays. *)
LEMMA PeelArrays ==
  ASSUME V \in Nat, MaxKCore \in Nat, BuildInv, phase = "kcore", idx < LoopBound, idx <= V,
         NEW vertex, vertex = vert[idx]
  PROVE  /\ idx \in 0 .. V /\ vertex \in 0 .. V /\ vertex \notin filtered
         /\ TopDegree \in Nat /\ degrees[vertex] \in 0 .. TopDegree
         /\ MaxKCore + 1 <= TopDegree => degrees[vertex] <= MaxKCore
         /\ \E c \in 0 .. degrees[vertex] : Counted(c)
         /\ AfterSome(LowerAll(degrees[vertex], arrays, Unfiltered(vertex)), arrays, TopDegree, idx + 1,
                      degrees[vertex], Unfiltered(vertex), Len(Unfiltered(vertex)))
<1> DEFINE m == TopDegree
           vd == degrees[vertex]
           L == Unfiltered(vertex)
<1>1. Multigraph(adjacency_list) /\ arrays \in AllArrays(m) /\ Inverses(vert, pos) /\ LoopInv
  BY DEF BuildInv
<1>2. idx \in 0 .. V /\ idx \in idx .. V
  BY DEF BuildInv
<1>3. m \in Nat
  BY <1>1, MaxDegreeFacts DEF TopDegree, Multigraph
<1>4. vertex \in 0 .. V /\ pos[vertex] = idx
  BY <1>1, <1>2 DEF Inverses
<1>5. arrays.vert = vert /\ arrays.pos = pos /\ arrays.bin = bin /\ arrays.degrees = degrees
  BY DEF arrays
<1>6. \A v \in 0 .. V : degrees[v] \in 0 .. m /\ degrees[v] \in Nat
  BY <1>1, <1>3, <1>5, ArrayTypes
<1>7. PICK c \in 0 .. m : /\ Bucketed(vert, bin, degrees, m, idx, c)
                          /\ MaxKCore + 1 <= m => c <= MaxKCore
                          /\ Counted(c)
  BY <1>1 DEF LoopInv
<1>8. vd \in Nat /\ vd \in 0 .. m /\ c \in Nat /\ c <= vd
  <2>1. vd >= c
    BY <1>2, <1>7 DEF Bucketed
  <2> QED BY <1>3, <1>4, <1>6, <2>1
<1>9. MaxKCore + 1 <= m => vd <= MaxKCore
  <2> SUFFICES ASSUME MaxKCore + 1 <= m
               PROVE  vd <= MaxKCore
    OBVIOUS
  <2>1. bin \in [0 .. m -> 0 .. V + 1]
    BY <1>1, <1>5 DEF AllArrays
  <2>2. MaxKCore + 1 \in 0 .. m /\ MaxKCore + 1 \in c + 1 .. m
    BY <1>3, <1>7
  <2>3. LoopBound = bin[MaxKCore + 1]
    BY <2>1, <2>2 DEF LoopBound
  <2>4. degrees[vert[idx]] < MaxKCore + 1
    BY <1>2, <1>7, <2>2, <2>3 DEF Bucketed
  <2> QED BY <1>8, <2>4
<1>10. Bucketed(vert, bin, degrees, m, idx + 1, vd)
  <2>1. ASSUME NEW i \in idx + 1 .. V
        PROVE  degrees[vert[i]] >= vd
    <3>1. i \in idx .. V /\ i \in 0 .. V /\ idx < i
      BY <1>2
    <3>2. degrees[vert[i]] \in Nat
      BY <1>1, <1>6, <3>1 DEF Inverses
    <3>3. CASE vd = c
      BY <1>7, <3>1, <3>3 DEF Bucketed
    <3>4. CASE vd # c
      <4>1. vd \in c + 1 .. m
        BY <1>8, <3>4
      <4>2. bin[vd] \in idx .. V + 1 /\ (i < bin[vd] <=> degrees[vert[i]] < vd)
                                     /\ (idx < bin[vd] <=> degrees[vert[idx]] < vd)
        BY <1>2, <1>7, <3>1, <4>1 DEF Bucketed
      <4>3. ~ (degrees[vert[idx]] < vd)
        BY <1>8
      <4> QED BY <1>2, <1>8, <3>1, <3>2, <4>2, <4>3
    <3> QED BY <3>3, <3>4
  <2>2. ASSUME NEW d \in vd + 1 .. m
        PROVE  /\ bin[d] \in idx + 1 .. V + 1
               /\ \A i \in idx + 1 .. V : i < bin[d] <=> degrees[vert[i]] < d
    <3>1. d \in c + 1 .. m /\ vd < d
      BY <1>3, <1>8
    <3>2. /\ bin[d] \in idx .. V + 1
          /\ \A i \in idx .. V : i < bin[d] <=> degrees[vert[i]] < d
      BY <1>7, <3>1 DEF Bucketed
    <3>3. idx < bin[d]
      BY <1>2, <3>1, <3>2
    <3>4. \A i \in idx + 1 .. V : i \in idx .. V
      BY <1>2
    <3> QED BY <1>2, <3>2, <3>3, <3>4
  <2> QED BY <2>1, <2>2 DEF Bucketed
<1>11. filtered = {vert[i] : i \in 0 .. idx - 1}
  BY <1>1 DEF LoopInv
<1>12. \A v \in 0 .. V : v \in filtered <=> pos[v] < idx
  <2> SUFFICES ASSUME NEW v \in 0 .. V
               PROVE  v \in filtered <=> pos[v] < idx
    OBVIOUS
  <2>1. pos[v] \in 0 .. V /\ vert[pos[v]] = v
    BY <1>1 DEF Inverses
  <2>2. ASSUME NEW i \in 0 .. idx - 1, vert[i] = v
        PROVE  pos[v] < idx
    <3>1. i \in 0 .. V
      BY <1>2
    <3>2. pos[v] = i
      BY <1>1, <2>2, <3>1 DEF Inverses
    <3> QED BY <1>2, <3>2
  <2>3. pos[v] < idx => pos[v] \in 0 .. idx - 1
    BY <1>2, <2>1
  <2> QED BY <1>11, <2>1, <2>2, <2>3
<1>13. vertex \notin filtered
  BY <1>2, <1>4, <1>12
<1>14. L \in Seq(0 .. V) /\ \A k \in 1 .. Len(L) : pos[L[k]] >= idx + 1
  <2>1. /\ L \in Seq(Vertex) /\ Len(L) \in Nat
        /\ \A k \in 1 .. Len(L) : L[k] \in Vertex /\ L[k] \notin filtered /\ L[k] # vertex
    BY <1>1, <1>4, UnfilteredFacts
  <2>2. Vertex \subseteq 0 .. V
    BY DEF Vertex
  <2> HIDE DEF L
  <2>3. L \in Seq(0 .. V)
    BY <2>1, <2>2, ListOver, Zenon
  <2>4. ASSUME NEW k \in 1 .. Len(L)
        PROVE  pos[L[k]] >= idx + 1
    <3>1. L[k] \in 0 .. V /\ L[k] \notin filtered /\ L[k] # vertex
      BY <2>1, <2>2, Zenon
    <3>2. pos[L[k]] \in 0 .. V /\ vert[pos[L[k]]] = L[k]
      BY <1>1, <3>1 DEF Inverses
    <3>3. ~ (pos[L[k]] < idx) /\ pos[L[k]] # idx
      BY <1>12, <3>1, <3>2
    <3> QED BY <1>2, <3>2, <3>3
  <2> QED BY <2>3, <2>4
<1>15. InOrder(arrays, m, idx + 1, vd)
  BY <1>1, <1>5, <1>10 DEF InOrder
<1>16. AfterSome(LowerAll(vd, arrays, L), arrays, m, idx + 1, vd, L, Len(L))
  <2>1. idx + 1 \in Nat
    BY <1>2
  <2>2. \A k \in 1 .. Len(L) : arrays.pos[L[k]] >= idx + 1
    BY <1>5, <1>14
  <2> HIDE DEF L, vd, m
  <2> QED BY <1>3, <1>8, <1>14, <1>15, <2>1, <2>2, LowerAllFacts, Zenon
<1>17. \E b \in 0 .. vd : Counted(b)
  <2>1. c \in 0 .. vd
    BY <1>8
  <2> HIDE DEF vd
  <2> QED BY <1>7, <2>1
<1> QED BY <1>2, <1>3, <1>4, <1>8, <1>9, <1>13, <1>16, <1>17

(* What is left of the list of v once vertex is filtered too: less by as many  *)
(* entries as the loop over the neighbours of vertex meets v.                  *)
LEMMA RemainingAfter ==
  ASSUME V \in Nat, Multigraph(adjacency_list), NEW vertex \in 0 .. V, vertex \notin filtered,
         NEW v \in 0 .. V, v \notin filtered
  PROVE  /\ Len(Kept(adjacency_list[v], filtered \cup {vertex}))
              = Len(Unfiltered(v)) - EqualUpTo(Unfiltered(vertex), v, Len(Unfiltered(vertex)))
         /\ EqualUpTo(Unfiltered(vertex), v, Len(Unfiltered(vertex))) \in Nat
<1> DEFINE A == adjacency_list[v]
           B == adjacency_list[vertex]
           L == Unfiltered(vertex)
           G == filtered \cup {vertex}
<1>1. A \in Seq(Vertex) /\ Len(A) \in Nat /\ B \in Seq(Vertex)
  BY DEF Multigraph
<1>2. Len(Kept(A, G)) = OutsideUpTo(A, G, Len(A))
  <2> HIDE DEF A, G
  <2> QED BY <1>1, KeptFacts
<1>3. Len(Unfiltered(v)) = OutsideUpTo(A, filtered, Len(A))
  BY <1>1, KeptFacts DEF Unfiltered
<1>4. OutsideUpTo(A, G, Len(A)) = OutsideUpTo(A, filtered, Len(A)) - EqualUpTo(A, vertex, Len(A))
  <2> HIDE DEF A
  <2> QED BY <1>1, OutsideMore
<1>5. EqualUpTo(A, vertex, Len(A)) = Times(A, vertex)
  <2> HIDE DEF A
  <2> QED BY <1>1, TimesNat
<1>6. Times(A, vertex) = Times(B, v)
  BY Symmetric
<1>7. L \in Seq(Vertex) /\ Times(L, v) = Times(B, v)
  BY UnfilteredFacts
<1>8. EqualUpTo(L, v, Len(L)) = Times(L, v) /\ Times(L, v) \in Nat
  <2> HIDE DEF L
  <2> QED BY <1>7, TimesNat
<1> QED BY <1>2, <1>3, <1>4, <1>5, <1>6, <1>7, <1>8

(* An iteration of the k-core loop keeps the invariant. *)
LEMMA BuildInvPeel ==
  ASSUME V \in Nat, MaxKCore \in Nat, BuildInv, PeelNext
  PROVE  BuildInv'
<1> DEFINE m == TopDegree
           vertex == vert[idx]
           vd == degrees[vertex]
           L == Unfiltered(vertex)
           st == LowerAll(vd, arrays, L)
<1>1. /\ phase = "kcore" /\ idx < LoopBound /\ idx <= V
      /\ vert' = st.vert /\ pos' = st.pos /\ bin' = st.bin /\ degrees' = st.degrees
      /\ filtered' = filtered \cup {vertex}
      /\ idx' = idx + 1
      /\ adjacency_list' = adjacency_list /\ phase' = phase
  BY Zenon DEF PeelNext, graphVars
<1>2. /\ idx \in 0 .. V /\ vertex \in 0 .. V /\ vertex \notin filtered
      /\ m \in Nat /\ vd \in 0 .. m
      /\ MaxKCore + 1 <= m => vd <= MaxKCore
      /\ \E c \in 0 .. vd : Counted(c)
      /\ AfterSome(st, arrays, m, idx + 1, vd, L, Len(L))
  BY <1>1, PeelArrays, Zenon
<1>3. Multigraph(adjacency_list) /\ arrays \in AllArrays(m) /\ filtered \subseteq 0 .. V /\ LoopInv
  BY <1>1 DEF BuildInv
<1> HIDE DEF st, L
<1>4. /\ InOrder(st, m, idx + 1, vd)
      /\ \A i \in 0 .. V : i < idx + 1 => st.vert[i] = arrays.vert[i]
      /\ \A v \in 0 .. V : Lowered(arrays.degrees[v], st.degrees[v], EqualUpTo(L, v, Len(L)), vd)
  BY <1>2, Zenon DEF AfterSome
<1>5. TopDegree' = m
  BY <1>1 DEF TopDegree
<1>6. arrays' \in AllArrays(m) /\ Inverses(vert', pos') /\ Bucketed(vert', bin', degrees', m, idx', vd)
  <2>1. st \in AllArrays(m) /\ Inverses(st.vert, st.pos) /\ Bucketed(st.vert, st.bin, st.degrees, m, idx + 1, vd)
    BY <1>4, Zenon DEF InOrder
  <2>2. arrays' = [vert |-> st.vert, pos |-> st.pos, bin |-> st.bin, degrees |-> st.degrees]
    BY <1>1 DEF arrays
  <2>3. arrays' \in AllArrays(m)
    BY <2>1, <2>2, Zenon DEF AllArrays
  <2> QED BY <1>1, <2>1, <2>3, Zenon
<1>7. filtered' = {vert'[i] : i \in 0 .. idx' - 1}
  <2>1. filtered = {vert[i] : i \in 0 .. idx - 1}
    BY <1>3 DEF LoopInv
  <2>2. \A i \in 0 .. idx : vert'[i] = vert[i]
    <3>1. \A i \in 0 .. idx : i \in 0 .. V /\ i < idx + 1
      BY <1>2
    <3> QED BY <1>1, <1>4, <3>1, Zenon DEF arrays
  <2>3. \A i : i \in 0 .. idx <=> i \in 0 .. idx - 1 \/ i = idx
    BY <1>2
  <2>4. idx' - 1 = idx
    BY <1>1, <1>2
  <2> QED BY <1>1, <2>1, <2>2, <2>3, <2>4
<1>k. PICK k \in 0 .. m : k = vd
  BY <1>2
<1>8. Counted(k)'
  <2>1. PICK c \in 0 .. vd : Counted(c)
    BY <1>2
  <2>3. ASSUME NEW v \in 0 .. V, v \notin filtered'
        PROVE  /\ Len(Unfiltered(v)') <= degrees'[v]
               /\ degrees'[v] > k => Len(Unfiltered(v)') = degrees'[v]
    <3>1. Unfiltered(v)' = Kept(adjacency_list[v], filtered \cup {vertex})
      BY <1>1 DEF Unfiltered
    <3>2. v \notin filtered /\ v # vertex
      BY <1>1, <2>3
    <3>3. /\ Len(Unfiltered(v)') = Len(Unfiltered(v)) - EqualUpTo(L, v, Len(L))
          /\ EqualUpTo(L, v, Len(L)) \in Nat
      BY <1>2, <1>3, <3>1, <3>2, RemainingAfter, Zenon DEF L
    <3>4. Len(Unfiltered(v)) <= degrees[v] /\ (degrees[v] > c => Len(Unfiltered(v)) = degrees[v])
      BY <2>1, <3>2 DEF Counted
    <3>5. Lowered(degrees[v], degrees'[v], EqualUpTo(L, v, Len(L)), k)
      BY <1>1, <1>4, <1>k, Zenon DEF arrays
    <3>6. degrees[v] \in Nat /\ degrees'[v] \in Nat
      <4>1. degrees[v] \in Nat
        BY <1>2, <1>3, ArrayTypes DEF arrays
      <4>2. arrays'.degrees[v] \in Nat
        BY <1>2, <1>6, ArrayTypes, Zenon
      <4> QED BY <4>1, <4>2 DEF arrays
    <3>7. Len(Unfiltered(v)) \in Nat
      BY <1>3, UnfilteredFacts
    <3>8. c \in Nat /\ k \in Nat /\ c <= k
      BY <1>2, <1>k
    <3> QED BY <3>3, <3>4, <3>5, <3>6, <3>7, <3>8 DEF Lowered
  <2> QED BY <2>3 DEF Counted
<1>9. LoopInv'
  <2>1. k \in 0 .. TopDegree' /\ (MaxKCore + 1 <= TopDegree' => k <= MaxKCore)
    BY <1>2, <1>5, <1>k
  <2>2. Bucketed(vert', bin', degrees', TopDegree', idx', k)
    BY <1>5, <1>6, <1>k
  <2>3. Bucketed(vert, bin, degrees, TopDegree, idx, k)'
    BY <2>2 DEF Bucketed
  <2> QED BY <1>7, <1>8, <2>1, <2>3 DEF LoopInv
<1>10. idx' \in 0 .. V + 1 /\ filtered' \subseteq 0 .. V
  <2>1. idx' \in 0 .. V + 1
    BY <1>1, <1>2
  <2>2. vertex \in 0 .. V /\ filtered \subseteq 0 .. V /\ filtered' = filtered \cup {vertex}
    BY <1>1, <1>2, <1>3
  <2> HIDE DEF vertex
  <2> QED BY <2>1, <2>2
<1>11. Multigraph(adjacency_list)'
  BY <1>1, <1>3 DEF Multigraph
<1>12. Inverses(vert, pos)'
  BY <1>6, Zenon DEF Inverses
<1>13. (arrays \in AllArrays(TopDegree))'
  BY <1>5, <1>6, Zenon DEF AllArrays
<1> QED BY <1>1, <1>9, <1>10, <1>11, <1>12, <1>13 DEF BuildInv

(* At the end of the k-core loop no short list is left. *)
LEMMA EndLeavesLong ==
  ASSUME V \in Nat, MaxKCore \in Nat, BuildInv, phase = "kcore", idx >= LoopBound
  PROVE  LeftLong
<1> SUFFICES ASSUME MaxKCore + 1 <= TopDegree, NEW v \in Vertex, v \notin filtered
             PROVE  Len(Unfiltered(v)) > MaxKCore
  BY DEF LeftLong
<1> DEFINE m == TopDegree
           b == bin[MaxKCore + 1]
<1>1. Multigraph(adjacency_list) /\ arrays \in AllArrays(m) /\ Inverses(vert, pos) /\ LoopInv /\ idx \in 0 .. V + 1
  BY DEF BuildInv
<1>2. m \in Nat
  BY <1>1, MaxDegreeFacts DEF TopDegree, Multigraph
<1>3. PICK c \in 0 .. m : /\ Bucketed(vert, bin, degrees, m, idx, c)
                          /\ c <= MaxKCore
                          /\ Counted(c)
  BY <1>1 DEF LoopInv
<1>4. MaxKCore + 1 \in 0 .. m /\ MaxKCore + 1 \in c + 1 .. m
  BY <1>2, <1>3
<1>5. LoopBound = b
  <2>1. bin \in [0 .. m -> 0 .. V + 1]
    BY <1>1 DEF AllArrays, arrays
  <2> QED BY <1>4, <2>1 DEF LoopBound
<1>6. v \in 0 .. V
  BY DEF Vertex
<1>7. pos[v] \in 0 .. V /\ vert[pos[v]] = v
  BY <1>1, <1>6 DEF Inverses
<1>8. pos[v] \in idx .. V
  <2>1. ASSUME pos[v] < idx
        PROVE  FALSE
    <3>1. pos[v] \in 0 .. idx - 1
      BY <1>1, <1>7, <2>1
    <3> QED BY <1>1, <1>7, <3>1 DEF LoopInv
  <2> QED BY <1>1, <1>7, <2>1
<1>9. b \in idx .. V + 1 /\ (pos[v] < b <=> degrees[v] < MaxKCore + 1)
  BY <1>3, <1>4, <1>7, <1>8 DEF Bucketed
<1>10. ~ (pos[v] < b)
  BY <1>1, <1>5, <1>7, <1>8, <1>9
<1>11. degrees[v] \in Nat
  BY <1>1, <1>2, <1>6, ArrayTypes DEF arrays
<1>12. degrees[v] > c => Len(Unfiltered(v)) = degrees[v]
  BY <1>3, <1>6 DEF Counted
<1> QED BY <1>3, <1>9, <1>10, <1>11, <1>12

(* Every step keeps the invariant. *)
LEMMA BuildInvNext ==
  ASSUME V \in Nat, MaxKCore \in Nat, BuildInv, [Next]_vars
  PROVE  BuildInv'
<1>1. CASE PeelNext
  BY <1>1, BuildInvPeel
<1>2. ASSUME UNCHANGED <<adjacency_list, vert, pos, bin, degrees, filtered>>,
             idx' \in 0 .. V + 1,
             \/ phase' = "overrun"
             \/ phase' = "rest" /\ LeftLong
             \/ phase' = "done" /\ LeftLong
             \/ phase' = phase /\ idx' = idx
      PROVE  BuildInv'
  <2>1. Multigraph(adjacency_list)' /\ (arrays \in AllArrays(TopDegree))' /\ Inverses(vert, pos)'
    <3>1. Multigraph(adjacency_list)'
      BY <1>2 DEF BuildInv, Multigraph
    <3>2. (arrays \in AllArrays(TopDegree))'
      <4>1. arrays' = arrays
        BY <1>2 DEF arrays
      <4>2. TopDegree' = TopDegree
        BY <1>2 DEF TopDegree
      <4>3. AllArrays(TopDegree)' = AllArrays(TopDegree)
        BY <4>2 DEF AllArrays
      <4> QED BY <4>1, <4>3 DEF BuildInv
    <3>3. Inverses(vert, pos)'
      BY <1>2 DEF BuildInv, Inverses
    <3> QED BY <3>1, <3>2, <3>3
  <2>2. LeftLong => LeftLong'
    BY <1>2 DEF LeftLong, Unfiltered, TopDegree
  <2>3. idx' = idx /\ LoopInv => LoopInv'
    BY <1>2, Zenon DEF LoopInv, Bucketed, Counted, Unfiltered, TopDegree
  <2>4. phase' = "kcore" => LoopInv'
    BY <1>2, <2>3 DEF BuildInv
  <2>5. phase' \in {"rest", "done"} => LeftLong'
    BY <1>2, <2>2 DEF BuildInv
  <2>6. phase' \in {"kcore", "overrun", "rest", "done"} /\ filtered' \subseteq 0 .. V
    BY <1>2 DEF BuildInv
  <2> QED BY <1>2, <2>1, <2>4, <2>5, <2>6 DEF BuildInv
<1>3. CASE Overrun
  BY <1>2, <1>3 DEF Overrun, graphVars, orderVars, BuildInv
<1>4. CASE EndKCore
  <2>1. LeftLong
    BY <1>4, EndLeavesLong DEF EndKCore
  <2> QED BY <1>2, <1>4, <2>1 DEF EndKCore, graphVars, orderVars, BuildInv
<1>5. CASE EncodeRest
  <2>1. phase' = "rest" /\ LeftLong
    BY <1>5 DEF EncodeRest, BuildInv
  <2>2. idx' \in 0 .. V + 1
    <3>1. idx \in 0 .. V + 1 /\ idx < V + 1 /\ idx' = idx + 1
      BY <1>5 DEF EncodeRest, BuildInv
    <3> QED BY <3>1
  <2> QED BY <1>2, <1>5, <2>1, <2>2 DEF EncodeRest, graphVars, orderVars
<1>6. CASE Finish
  <2>1. phase' = "done" /\ LeftLong
    BY <1>6 DEF Finish, BuildInv
  <2> QED BY <1>2, <1>6, <2>1 DEF Finish, graphVars, orderVars, BuildInv
<1>7. CASE UNCHANGED vars
  BY <1>2, <1>7 DEF vars, BuildInv
<1> QED BY <1>1, <1>3, <1>4, <1>5, <1>6, <1>7 DEF Next

(* Graphs whose adjacency lists agree and for which bin is filled in rightly. *)
Sound(G) == \A g \in G : Multigraph(g) /\ FillIsRight(g)

(* The build over such graphs. *)
SpecOver(G) == InitOver(G) /\ [][Next]_vars

(* The inductive invariant holds throughout the build. *)
THEOREM BuildInvariant ==
  ASSUME V \in Nat, MaxKCore \in Nat, NEW CONSTANT G, Sound(G)
  PROVE  SpecOver(G) => []BuildInv
<1>1. InitOver(G) => BuildInv
  BY BuildInvInit DEF Sound
<1>2. BuildInv /\ [Next]_vars => BuildInv'
  BY BuildInvNext
<1> QED BY <1>1, <1>2, PTL DEF SpecOver

(* vert and pos stay inverse, the loops stay within the arrays. *)
THEOREM BuildTypes ==
  ASSUME V \in Nat, MaxKCore \in Nat, NEW CONSTANT G, Sound(G)
  PROVE  SpecOver(G) => []TypeOK
<1>1. BuildInv => TypeOK
  <2> SUFFICES ASSUME BuildInv
               PROVE  TypeOK
    OBVIOUS
  <2>1. Multigraph(adjacency_list) /\ arrays \in AllArrays(TopDegree)
    BY DEF BuildInv
  <2>2. TopDegree \in Nat
    BY <2>1, MaxDegreeFacts DEF TopDegree, Multigraph
  <2>3. vert \in [0 .. V -> 0 .. V] /\ pos \in [0 .. V -> 0 .. V] /\ degrees \in [0 .. V -> 0 .. TopDegree]
    BY <2>1, Zenon DEF AllArrays, arrays
  <2>4. degrees \in [0 .. V -> Nat]
    <3>1. 0 .. TopDegree \subseteq Nat
      BY <2>2
    <3> QED BY <2>3, <3>1, Zenon
  <2> QED BY <2>3, <2>4, Zenon DEF BuildInv, TypeOK
<1> QED BY <1>1, BuildInvariant, PTL

(* idx separates the removed vertices from the others. *)
THEOREM BuildFilteredPrefix ==
  ASSUME V \in Nat, MaxKCore \in Nat, NEW CONSTANT G, Sound(G)
  PROVE  SpecOver(G) => []FilteredPrefix
<1>1. BuildInv => FilteredPrefix
  BY DEF BuildInv, FilteredPrefix, LoopInv, Inverses
<1> QED BY <1>1, BuildInvariant, PTL

(* bin keeps track of the first vertex of each degree that is looked up. *)
THEOREM BuildBinTracksFirst ==
  ASSUME V \in Nat, MaxKCore \in Nat, NEW CONSTANT G, Sound(G)
  PROVE  SpecOver(G) => []BinTracksFirst
<1>1. BuildInv => BinTracksFirst
  <2>0. SUFFICES ASSUME BuildInv, phase = "kcore", idx <= V, NEW d \in DOMAIN bin,
                        {i \in idx .. V : degrees[vert[i]] = d} # {}, degrees[vert[idx]] < d
                 PROVE  bin[d] = Min({i \in idx .. V : degrees[vert[i]] = d})
    BY DEF BinTracksFirst
  <2> DEFINE m == TopDegree
             I == {i \in idx .. V : degrees[vert[i]] = d}
  <2>1. Multigraph(adjacency_list) /\ arrays \in AllArrays(m) /\ Inverses(vert, pos) /\ LoopInv /\ idx \in 0 .. V + 1
    BY <2>0 DEF BuildInv
  <2>2. m \in Nat
    BY <2>1, MaxDegreeFacts DEF TopDegree, Multigraph
  <2> HIDE DEF m, I
  <2>3. \A v \in 0 .. V : degrees[v] \in 0 .. m /\ degrees[v] \in Nat
    BY <2>1, <2>2, ArrayTypes DEF arrays
  <2>4. \A i \in idx .. V : i \in 0 .. V /\ degrees[vert[i]] \in 0 .. m /\ degrees[vert[i]] \in Nat
    <3>1. \A i \in idx .. V : i \in 0 .. V
      BY <2>1
    <3>2. \A i \in 0 .. V : vert[i] \in 0 .. V
      BY <2>1 DEF Inverses
    <3> QED BY <2>3, <3>1, <3>2
  <2>5. d \in 0 .. m /\ d \in Nat
    <3>1. bin \in [0 .. m -> 0 .. V + 1]
      BY <2>1 DEF AllArrays, arrays
    <3> QED BY <2>2, <3>1
  <2>6. PICK c \in 0 .. m : Bucketed(vert, bin, degrees, m, idx, c)
    BY <2>1 DEF LoopInv, m
  <2>7. c \in Nat /\ idx \in idx .. V /\ degrees[vert[idx]] >= c
    BY <2>0, <2>1, <2>2, <2>6 DEF Bucketed
  <2>8. d \in c + 1 .. m
    BY <2>0, <2>4, <2>5, <2>7
  <2>9. bin[d] \in idx .. V + 1 /\ \A i \in idx .. V : i < bin[d] <=> degrees[vert[i]] < d
    BY <2>6, <2>8 DEF Bucketed
  <2>10. PICK j \in idx .. V : degrees[vert[j]] = d
    BY <2>0
  <2>11. bin[d] <= j /\ bin[d] \in idx .. V
    BY <2>1, <2>5, <2>9, <2>10
  <2>12. degrees[vert[bin[d]]] \in Nat /\ degrees[vert[bin[d]]] >= d
    BY <2>4, <2>5, <2>9, <2>11
  <2>13. degrees[vert[bin[d]]] = d
    <3> SUFFICES ASSUME degrees[vert[bin[d]]] >= d + 1
                 PROVE  FALSE
      BY <2>5, <2>12
    <3>1. d + 1 \in c + 1 .. m
      <4>1. degrees[vert[bin[d]]] \in 0 .. m
        BY <2>4, <2>11
      <4>2. d + 1 <= m
        BY <2>2, <2>5, <4>1
      <4> QED BY <2>2, <2>5, <2>7, <2>8, <4>2
    <3>2. /\ bin[d + 1] \in idx .. V + 1
          /\ \A i \in idx .. V : i < bin[d + 1] <=> degrees[vert[i]] < d + 1
      BY <2>6, <3>1 DEF Bucketed
    <3>3. ~ (bin[d] < bin[d + 1])
      BY <2>5, <2>11, <2>12, <3>2
    <3>4. j < bin[d + 1]
      BY <2>5, <2>10, <3>2
    <3> QED BY <2>1, <2>10, <2>11, <3>2, <3>3, <3>4
  <2>14. bin[d] \in I /\ \A i \in I : bin[d] <= i
    BY <2>1, <2>5, <2>9, <2>11, <2>13 DEF I
  <2>15. I \in SUBSET Nat
    BY <2>1 DEF I
  <2>16. Min(I) \in I /\ \A y \in I : Min(I) <= y
    BY <2>14, <2>15, MinFacts
  <2>17. Min(I) <= bin[d] /\ bin[d] <= Min(I) /\ Min(I) \in Nat /\ bin[d] \in Nat
    BY <2>14, <2>15, <2>16, Zenon
  <2>18. bin[d] = Min(I)
    BY <2>17
  <2> QED BY <2>18 DEF I
<1> QED BY <1>1, BuildInvariant, PTL

(* The k-core loop leaves no vertex whose remaining list could be stored. *)
THEOREM BuildPeelComplete ==
  ASSUME V \in Nat, MaxKCore \in Nat, NEW CONSTANT G, Sound(G)
  PROVE  SpecOver(G) => []PeelComplete
<1>1. BuildInv => PeelComplete
  <2> SUFFICES ASSUME BuildInv, phase \in {"rest", "done"}, MaxKCore + 1 \in DOMAIN bin
               PROVE  \A v \in Vertex \ filtered : Len(Unfiltered(v)) > MaxKCore
    BY DEF PeelComplete
  <2>1. arrays \in AllArrays(TopDegree) /\ LeftLong /\ Multigraph(adjacency_list)
    BY DEF BuildInv
  <2>2. TopDegree \in Nat
    BY <2>1, MaxDegreeFacts DEF TopDegree, Multigraph
  <2>3. bin \in [0 .. TopDegree -> 0 .. V + 1]
    BY <2>1 DEF AllArrays, arrays
  <2>4. MaxKCore + 1 <= TopDegree
    BY <2>2, <2>3
  <2> QED BY <2>1, <2>4 DEF LeftLong
<1> QED BY <1>1, BuildInvariant, PTL
-----------------------------------------------------------------------------
(* Every code the build leaves is that of a list. *)
Held(codes, u, L) ==
  L \in Seq(Vertex) /\ Orderly(L) /\ codes[u] = encodes_EncodeVertex(encodes_Blank, L)

(* The list of u, encoded once and short enough to be stored, names v. *)
Stores(u, v) == \E L : Held(code, u, L) /\ Len(L) <= MaxKCore /\ Names(L, v)

(* What is left of a list when some of its entries are filtered can be encoded. *)
LeavesOrderly(adj) == \A v \in 0 .. V : \A F : Orderly(Kept(adj[v], F))

(* Every edge of a filtered vertex was stored at one of its filtered ends. *)
EdgesStored ==
  \A u, v \in Vertex :
    u \in filtered /\ Names(adjacency_list[u], v) => Stores(u, v) \/ (v \in filtered /\ Stores(v, u))

(* What the encodings hold, with the phase of the build. *)
CodeInv ==
  /\ LeavesOrderly(adjacency_list)
  /\ code = [v \in 0 .. V |-> code[v]]
  /\ \A v \in filtered : \E L : /\ Held(code, v, L) /\ Len(L) <= MaxKCore
                               /\ \A w : Names(L, w) => Names(adjacency_list[v], w)
  /\ EdgesStored
  /\ phase = "kcore" => \A v \in (0 .. V) \ filtered : code[v] = encodes_Blank
  /\ phase = "rest" => /\ \A v \in filtered : pos[v] < idx
                       /\ \A v \in (0 .. V) \ filtered :
                            code[v] = IF pos[v] < idx THEN encodes_EncodeVertex(encodes_Blank, Unfiltered(v)) ELSE encodes_Blank
  /\ phase = "done" => \A v \in (0 .. V) \ filtered : code[v] = encodes_EncodeVertex(encodes_Blank, Unfiltered(v))

(* Unfiltered leaves a list that can be encoded. *)
LEMMA UnfilteredOrderly ==
  ASSUME CodeInv, NEW v \in 0 .. V
  PROVE  Orderly(Unfiltered(v))
BY DEF CodeInv, LeavesOrderly, Unfiltered

(* Unfiltered keeps what the list names outside filtered. *)
LEMMA UnfilteredNames ==
  ASSUME V \in Nat, Multigraph(adjacency_list), NEW v \in 0 .. V
  PROVE  /\ Unfiltered(v) \in Seq(Vertex)
         /\ \A w : Names(Unfiltered(v), w) <=> (w \notin filtered /\ Names(adjacency_list[v], w))
BY UnfilteredFacts DEF Names

(* Lists name each other, and never their own vertex. *)
LEMMA NamesBoth ==
  ASSUME V \in Nat, Multigraph(adjacency_list), NEW u \in Vertex, NEW v \in Vertex
  PROVE  /\ Names(adjacency_list[u], v) => Names(adjacency_list[v], u)
         /\ Names(adjacency_list[u], v) => u # v
<1>1. adjacency_list[u] \in Seq(Vertex) /\ adjacency_list[v] \in Seq(Vertex)
  BY DEF Multigraph, Vertex
<1>2. Times(adjacency_list[u], v) > 0 <=> Names(adjacency_list[u], v)
  BY <1>1, TimesNat DEF Names
<1>3. Times(adjacency_list[v], u) > 0 <=> Names(adjacency_list[v], u)
  BY <1>1, TimesNat DEF Names
<1>4. Times(adjacency_list[u], v) = Times(adjacency_list[v], u)
  BY DEF Multigraph
<1>5. Times(adjacency_list[u], u) = 0
  BY DEF Multigraph
<1> QED BY <1>2, <1>3, <1>4, <1>5

(* A vertex the k-core loop takes has a list short enough to be stored. *)
LEMMA PeeledIsShort ==
  ASSUME V \in Nat, MaxKCore \in Nat, BuildInv, PeelNext
  PROVE  Len(Unfiltered(vert[idx])) <= MaxKCore
<1> DEFINE m == TopDegree
           vertex == vert[idx]
           vd == degrees[vertex]
<1>1. /\ vertex \in 0 .. V /\ vertex \notin filtered /\ m \in Nat /\ vd \in 0 .. m
      /\ MaxKCore + 1 <= m => vd <= MaxKCore
      /\ \E c \in 0 .. vd : Counted(c)
  BY PeelArrays, Zenon DEF PeelNext
<1>2. Multigraph(adjacency_list)
  BY DEF BuildInv
<1>3. Len(Unfiltered(vertex)) \in Nat
  BY <1>1, <1>2, UnfilteredFacts
<1>4. Len(Unfiltered(vertex)) <= vd
  BY <1>1 DEF Counted
<1> QED BY <1>1, <1>3, <1>4

(* Before the end of the k-core loop the filtered vertices are those up to the *)
(* index.                                                                      *)
LEMMA FilteredIsPrefix ==
  ASSUME V \in Nat, BuildInv, phase = "kcore"
  PROVE  \A v \in 0 .. V : v \in filtered <=> pos[v] < idx
<1> SUFFICES ASSUME NEW v \in 0 .. V
             PROVE  v \in filtered <=> pos[v] < idx
  OBVIOUS
<1>1. filtered = {vert[i] : i \in 0 .. idx - 1} /\ idx \in 0 .. V + 1 /\ Inverses(vert, pos)
  BY DEF BuildInv, LoopInv
<1>2. pos[v] \in 0 .. V /\ vert[pos[v]] = v
  BY <1>1 DEF Inverses
<1>3. ASSUME NEW i \in 0 .. idx - 1, vert[i] = v
      PROVE  pos[v] < idx
  <2>1. i \in 0 .. V
    BY <1>1
  <2>2. pos[v] = i
    BY <1>1, <1>3, <2>1 DEF Inverses
  <2> QED BY <1>1, <2>2
<1>4. pos[v] < idx => pos[v] \in 0 .. idx - 1
  BY <1>1, <1>2
<1> QED BY <1>1, <1>2, <1>3, <1>4

(* An iteration of the k-core loop stores every edge of its vertex. *)
LEMMA CodeInvPeel ==
  ASSUME V \in Nat, MaxKCore \in Nat, BuildInv, CodeInv, PeelNext
  PROVE  CodeInv'
<1>0. PICK x \in 0 .. V : x = vert[idx]
  BY PeelArrays, Zenon DEF PeelNext
<1> DEFINE L == Unfiltered(x)
<1>1. /\ phase = "kcore" /\ phase' = "kcore"
      /\ filtered' = filtered \cup {x}
      /\ code' = [code EXCEPT ![x] = encodes_EncodeVertex(@, L)]
      /\ adjacency_list' = adjacency_list
  BY <1>0 DEF PeelNext, graphVars
<1>2. x \in 0 .. V /\ x \notin filtered
  BY <1>0, PeelArrays, Zenon DEF PeelNext
<1>3. Multigraph(adjacency_list) /\ filtered \subseteq 0 .. V
  BY DEF BuildInv
<1>4. L \in Seq(Vertex) /\ \A w : Names(L, w) <=> (w \notin filtered /\ Names(adjacency_list[x], w))
  BY <1>2, <1>3, UnfilteredNames
<1>5. Len(L) <= MaxKCore /\ Orderly(L)
  BY <1>0, PeeledIsShort, UnfilteredOrderly
<1> HIDE DEF L
<1>6. code = [v \in 0 .. V |-> code[v]] /\ code[x] = encodes_Blank
  BY <1>1, <1>2 DEF CodeInv
<1>7. /\ code' = [v \in 0 .. V |-> code'[v]]
      /\ code'[x] = encodes_EncodeVertex(encodes_Blank, L)
      /\ \A v \in 0 .. V : v # x => code'[v] = code[v]
  BY <1>1, <1>2, <1>6
<1>8. \A v \in filtered' : \E M : /\ Held(code', v, M) /\ Len(M) <= MaxKCore
                                 /\ \A w : Names(M, w) => Names(adjacency_list'[v], w)
  <2>1. Held(code', x, L)
    BY <1>4, <1>5, <1>7 DEF Held
  <2>2. \A v \in filtered : \A M : Held(code, v, M) => Held(code', v, M)
    BY <1>2, <1>3, <1>7 DEF Held
  <2> QED BY <1>1, <1>4, <1>5, <2>1, <2>2, Zenon DEF CodeInv
<1>9. \A v \in 0 .. V : v \notin filtered' => code'[v] = encodes_Blank
  BY <1>1, <1>7 DEF CodeInv
<1>10. ASSUME NEW u \in filtered, NEW v
       PROVE  Stores(u, v) => Stores(u, v)'
  <2>1. code'[u] = code[u]
    BY <1>2, <1>3, <1>7
  <2> QED BY <2>1, Zenon DEF Stores, Held
<1>11. ASSUME NEW v, Names(L, v)
       PROVE  Stores(x, v)'
  <2>1. Held(code', x, L) /\ Len(L) <= MaxKCore /\ Names(L, v)
    BY <1>4, <1>5, <1>7, <1>11 DEF Held
  <2> QED BY <2>1 DEF Stores
<1>12. ASSUME NEW u \in Vertex, NEW v \in Vertex, u \in filtered', Names(adjacency_list[u], v)
       PROVE  Stores(u, v)' \/ (v \in filtered' /\ Stores(v, u)')
  <2>1. CASE u \in filtered
    BY <1>1, <1>10, <1>12, <2>1 DEF CodeInv, EdgesStored
  <2>2. CASE u = x /\ v \notin filtered
    BY <1>4, <1>11, <1>12, <2>2
  <2>3. CASE u = x /\ v \in filtered
    <3>1. Names(adjacency_list[v], u)
      BY <1>3, <1>12, NamesBoth
    <3>2. Stores(v, u)
      BY <1>2, <2>3, <3>1 DEF CodeInv, EdgesStored
    <3> QED BY <1>1, <1>10, <2>3, <3>2
  <2> QED BY <1>1, <1>12, <2>1, <2>2, <2>3
<1>13. EdgesStored'
  BY <1>1, <1>12 DEF EdgesStored
<1>14. LeavesOrderly(adjacency_list')
  BY <1>1 DEF CodeInv
<1> QED BY <1>1, <1>7, <1>8, <1>9, <1>13, <1>14, Zenon DEF CodeInv

(* Nothing is encoded at the start. *)
LEMMA CodeInvInit ==
  ASSUME V \in Nat, NEW G, \A g \in G : LeavesOrderly(g), InitOver(G)
  PROVE  CodeInv
<1>1. /\ phase = "kcore" /\ filtered = {} /\ code = [v \in 0 .. V |-> encodes_Blank]
      /\ adjacency_list \in G
  BY DEF InitOver, InitWith
<1> QED BY <1>1 DEF CodeInv, EdgesStored

(* Every step of the build keeps what the encodings hold. *)
LEMMA CodeInvNext ==
  ASSUME V \in Nat, MaxKCore \in Nat, BuildInv, CodeInv, [Next]_vars
  PROVE  CodeInv'
<1>1. CASE PeelNext
  BY <1>1, CodeInvPeel
<1>2. ASSUME UNCHANGED <<adjacency_list, pos, filtered>>
      PROVE  \A v : Unfiltered(v)' = Unfiltered(v)
  BY <1>2 DEF Unfiltered
<1>3. ASSUME UNCHANGED <<adjacency_list, filtered>>, code' = [v \in 0 .. V |-> code'[v]],
             \A v \in filtered : code'[v] = code[v]
      PROVE  /\ EdgesStored'
             /\ \A v \in filtered' : \E L :
                  /\ Held(code', v, L) /\ Len(L) <= MaxKCore
                  /\ \A w : Names(L, w) => Names(adjacency_list'[v], w)
             /\ LeavesOrderly(adjacency_list')
  <2>1. \A v \in filtered : \A L : Held(code, v, L) => Held(code', v, L)
    BY <1>3 DEF Held
  <2>2. ASSUME NEW u \in filtered, NEW v
        PROVE  Stores(u, v) => Stores(u, v)'
    BY <2>1 DEF Stores
  <2>3. EdgesStored'
    BY <1>3, <2>2 DEF CodeInv, EdgesStored
  <2> QED BY <1>3, <2>1, <2>3 DEF CodeInv
<1>4. ASSUME UNCHANGED <<adjacency_list, pos, filtered, code, idx>>, phase' = phase \/ phase' = "overrun"
      PROVE  CodeInv'
  <2>1. EdgesStored' /\ LeavesOrderly(adjacency_list') /\ \A v \in filtered' : \E L :
                             /\ Held(code', v, L) /\ Len(L) <= MaxKCore
                             /\ \A w : Names(L, w) => Names(adjacency_list'[v], w)
    BY <1>3, <1>4, Zenon DEF CodeInv
  <2> QED BY <1>2, <1>4, <2>1, Zenon DEF CodeInv
<1>5. CASE Overrun
  BY <1>4, <1>5 DEF Overrun, graphVars, orderVars
<1>6. CASE EndKCore
  <2>1. /\ phase = "kcore" /\ phase' = "rest" /\ UNCHANGED <<adjacency_list, pos, filtered, code, idx>>
    BY <1>6 DEF EndKCore, graphVars, orderVars
  <2>2. \A v \in 0 .. V : v \in filtered <=> pos[v] < idx
    BY <2>1, FilteredIsPrefix
  <2>3. EdgesStored' /\ LeavesOrderly(adjacency_list') /\ \A v \in filtered' : \E L :
                             /\ Held(code', v, L) /\ Len(L) <= MaxKCore
                             /\ \A w : Names(L, w) => Names(adjacency_list'[v], w)
    BY <1>3, <2>1 DEF CodeInv
  <2>4. filtered \subseteq 0 .. V /\ \A v \in (0 .. V) \ filtered : code[v] = encodes_Blank
    BY <2>1 DEF CodeInv, BuildInv
  <2> QED BY <2>1, <2>2, <2>3, <2>4, Zenon DEF CodeInv
<1>7. CASE EncodeRest
  <2>1. /\ phase = "rest" /\ phase' = "rest" /\ UNCHANGED <<adjacency_list, pos, filtered>>
        /\ idx < V + 1 /\ idx' = idx + 1 /\ code' = [code EXCEPT ![vert[idx]] = encodes_EncodeVertex(@, Unfiltered(vert[idx]))]
    BY <1>7 DEF EncodeRest, graphVars, orderVars
  <2>2. idx \in 0 .. V /\ Inverses(vert, pos)
    BY <2>1 DEF BuildInv
  <2>3. PICK x \in 0 .. V : x = vert[idx] /\ pos[x] = idx
    BY <2>2 DEF Inverses
  <2>4. /\ code = [v \in 0 .. V |-> code[v]]
        /\ \A v \in filtered : pos[v] < idx
        /\ \A v \in (0 .. V) \ filtered :
             code[v] = IF pos[v] < idx THEN encodes_EncodeVertex(encodes_Blank, Unfiltered(v)) ELSE encodes_Blank
    BY <2>1 DEF CodeInv
  <2>5. x \notin filtered /\ code[x] = encodes_Blank
    BY <2>2, <2>3, <2>4
  <2>6. /\ code' = [v \in 0 .. V |-> code'[v]]
        /\ code'[x] = encodes_EncodeVertex(encodes_Blank, Unfiltered(x))
        /\ \A v \in 0 .. V : v # x => code'[v] = code[v]
    BY <2>1, <2>3, <2>4, <2>5, Zenon
  <2>7. filtered \subseteq 0 .. V /\ \A v \in 0 .. V : pos[v] \in 0 .. V /\ vert[pos[v]] = v
    BY <2>2 DEF BuildInv, Inverses
  <2>8. \A v \in filtered : code'[v] = code[v] /\ pos'[v] < idx'
    <3>1. \A v \in filtered : v \in 0 .. V /\ v # x /\ pos[v] < idx /\ pos[v] \in 0 .. V
      BY <2>4, <2>5, <2>7
    <3> QED BY <2>1, <2>2, <2>6, <3>1
  <2>9. EdgesStored' /\ LeavesOrderly(adjacency_list') /\ \A v \in filtered' : \E L :
                             /\ Held(code', v, L) /\ Len(L) <= MaxKCore
                             /\ \A w : Names(L, w) => Names(adjacency_list'[v], w)
    BY <1>3, <2>1, <2>6, <2>8
  <2>10. ASSUME NEW v \in 0 .. V, v \notin filtered
         PROVE  code'[v] = IF pos[v] < idx + 1 THEN encodes_EncodeVertex(encodes_Blank, Unfiltered(v)) ELSE encodes_Blank
    <3>1. CASE v = x
      BY <2>2, <2>3, <2>6, <3>1
    <3>2. CASE v # x
      <4>1. pos[v] \in 0 .. V /\ pos[v] # idx
        BY <2>2, <2>3, <2>7, <3>2
      <4>2. pos[v] < idx <=> pos[v] < idx + 1
        BY <2>2, <4>1
      <4>3. code'[v] = code[v]
        BY <2>6, <3>2
      <4> QED BY <2>4, <2>10, <4>2, <4>3
    <3> QED BY <3>1, <3>2
  <2>11. \A v \in (0 .. V) \ filtered' :
           code'[v] = IF pos'[v] < idx' THEN encodes_EncodeVertex(encodes_Blank, Unfiltered(v)') ELSE encodes_Blank
    BY <1>2, <2>1, <2>10
  <2>12. \A v \in filtered' : pos'[v] < idx'
    BY <2>1, <2>8
  <2> QED BY <2>1, <2>6, <2>9, <2>11, <2>12, Zenon DEF CodeInv
<1>8. CASE Finish
  <2>1. /\ phase = "rest" /\ phase' = "done" /\ UNCHANGED <<adjacency_list, pos, filtered, code>> /\ idx = V + 1
    BY <1>8 DEF Finish, graphVars, orderVars
  <2>2. \A v \in 0 .. V : pos[v] < idx
    <3>1. \A v \in 0 .. V : pos[v] \in 0 .. V
      BY DEF BuildInv, Inverses
    <3> QED BY <2>1, <3>1
  <2>3. EdgesStored' /\ LeavesOrderly(adjacency_list') /\ \A v \in filtered' : \E L :
                             /\ Held(code', v, L) /\ Len(L) <= MaxKCore
                             /\ \A w : Names(L, w) => Names(adjacency_list'[v], w)
    BY <1>3, <2>1, Zenon DEF CodeInv
  <2>4. \A v \in (0 .. V) \ filtered : code[v] = encodes_EncodeVertex(encodes_Blank, Unfiltered(v))
    BY <2>1, <2>2 DEF CodeInv
  <2> QED BY <1>2, <2>1, <2>3, <2>4, Zenon DEF CodeInv
<1>9. CASE UNCHANGED vars
  BY <1>4, <1>9 DEF vars
<1> QED BY <1>1, <1>5, <1>6, <1>7, <1>8, <1>9 DEF Next

(* The codes tell of the pair: either list names the other end, or one that is *)
(* short enough to be stored does.                                             *)
Covered(codes, u, v, L, M) ==
  /\ Held(codes, u, L) /\ Held(codes, v, M)
  /\ \/ Names(L, v) /\ Names(M, u)
     \/ Names(L, v) /\ Len(L) <= MaxKCore
     \/ Names(M, u) /\ Len(M) <= MaxKCore

(* What the build relies on: the pair test denies no pair that is covered, and *)
(* affirms none that neither list names.                                       *)
EncoderKeepsEdges ==
  \A codes, L, M : \A u, v \in Vertex :
    u # v /\ Covered(codes, u, v, L, M) => NonNeighbor \notin encodes_NEpairTest(codes, u, v)

EncoderAddsNone ==
  \A codes, L, M : \A u, v \in Vertex :
    u # v /\ Held(codes, u, L) /\ Held(codes, v, M) /\ Neighbor \in encodes_NEpairTest(codes, u, v)
      => Names(L, v) \/ Names(M, u)

(* A finished build answers Neighbor for edges only. *)
OnlyEdgesAffirmed ==
  phase = "done" =>
    \A u, v \in Vertex : u # v /\ Neighbor \in encodes_NEpairTest(code, u, v) => Edge(u, v)

(* The two invariants together. *)
THEOREM CodeInvariant ==
  ASSUME V \in Nat, MaxKCore \in Nat, NEW CONSTANT G, Sound(G), \A g \in G : LeavesOrderly(g)
  PROVE  SpecOver(G) => [](BuildInv /\ CodeInv)
<1>1. InitOver(G) => CodeInv
  BY CodeInvInit
<1>2. BuildInv /\ CodeInv /\ [Next]_vars => CodeInv'
  BY CodeInvNext
<1> QED BY <1>1, <1>2, BuildInvariant, PTL DEF SpecOver

(* Edge is Names over the adjacency lists. *)
LEMMA EdgeNames ==
  ASSUME V \in Nat, Multigraph(adjacency_list), NEW u \in Vertex, NEW v \in Vertex
  PROVE  Edge(u, v) <=> Names(adjacency_list[u], v)
<1>1. adjacency_list[u] \in Seq(Vertex)
  BY DEF Multigraph, Vertex
<1>2. DOMAIN adjacency_list[u] = 1 .. Len(adjacency_list[u])
  BY <1>1
<1> QED BY <1>2 DEF Edge, Names, Range

(* At the end every code is that of a list, which names neighbours only. *)
LEMMA AllHeld ==
  ASSUME V \in Nat, BuildInv, CodeInv, phase = "done", NEW v \in Vertex
  PROVE  \E L : /\ Held(code, v, L)
                /\ \A w : Names(L, w) => Names(adjacency_list[v], w)
                /\ IF v \in filtered THEN Len(L) <= MaxKCore ELSE L = Unfiltered(v)
<1>1. v \in 0 .. V /\ Multigraph(adjacency_list)
  BY DEF Vertex, BuildInv
<1>2. CASE v \in filtered
  BY <1>2, Zenon DEF CodeInv, Held
<1>3. CASE v \notin filtered
  <2>1. code[v] = encodes_EncodeVertex(encodes_Blank, Unfiltered(v))
    BY <1>1, <1>3 DEF CodeInv
  <2>2. Unfiltered(v) \in Seq(Vertex) /\ \A w : Names(Unfiltered(v), w) => Names(adjacency_list[v], w)
    BY <1>1, UnfilteredNames
  <2>3. Orderly(Unfiltered(v))
    BY <1>1, UnfilteredOrderly
  <2> QED BY <1>3, <2>1, <2>2, <2>3, Zenon DEF Held
<1> QED BY <1>2, <1>3

(* At the end the codes tell of every edge. *)
LEMMA EdgesCovered ==
  ASSUME V \in Nat, BuildInv, CodeInv, phase = "done", NEW u \in Vertex, NEW v \in Vertex, Edge(u, v)
  PROVE  u # v /\ \E L, M : Covered(code, u, v, L, M)
<1>1. Multigraph(adjacency_list)
  BY DEF BuildInv
<1>2. Names(adjacency_list[u], v) /\ Names(adjacency_list[v], u) /\ u # v
  BY <1>1, EdgeNames, NamesBoth
<1>3. PICK L : Held(code, u, L) /\ (u \notin filtered => L = Unfiltered(u))
  BY AllHeld
<1>4. PICK M : Held(code, v, M) /\ (v \notin filtered => M = Unfiltered(v))
  BY AllHeld
<1>5. ASSUME Stores(u, v)
      PROVE  \E K, N : Covered(code, u, v, K, N)
  <2>1. PICK N : Held(code, u, N) /\ Len(N) <= MaxKCore /\ Names(N, v)
    BY <1>5 DEF Stores
  <2>2. Covered(code, u, v, N, M)
    BY <1>4, <2>1 DEF Covered
  <2> QED BY <2>2
<1>6. ASSUME Stores(v, u)
      PROVE  \E K, N : Covered(code, u, v, K, N)
  <2>1. PICK N : Held(code, v, N) /\ Len(N) <= MaxKCore /\ Names(N, u)
    BY <1>6 DEF Stores
  <2>2. Covered(code, u, v, L, N)
    BY <1>3, <2>1 DEF Covered
  <2> QED BY <2>2
<1>7. CASE u \in filtered \/ v \in filtered
  BY <1>2, <1>5, <1>6, <1>7 DEF CodeInv, EdgesStored
<1>8. CASE u \notin filtered /\ v \notin filtered
  <2>1. u \in 0 .. V /\ v \in 0 .. V
    BY DEF Vertex
  <2>2. Names(Unfiltered(u), v) /\ Names(Unfiltered(v), u)
    BY <1>1, <1>2, <1>8, <2>1, UnfilteredNames
  <2>3. Covered(code, u, v, L, M)
    BY <1>3, <1>4, <1>8, <2>2 DEF Covered
  <2> QED BY <1>2, <2>3
<1> QED BY <1>2, <1>7, <1>8

(* A finished build never answers NonNeighbor for an edge, whatever encoder    *)
(* keeps its edges.                                                            *)
THEOREM BuildDeniesNoEdge ==
  ASSUME V \in Nat, MaxKCore \in Nat, NEW CONSTANT G, Sound(G), \A g \in G : LeavesOrderly(g),
         EncoderKeepsEdges
  PROVE  SpecOver(G) => []NoFalseNegative
<1>1. BuildInv /\ CodeInv => NoFalseNegative
  <2> SUFFICES ASSUME BuildInv, CodeInv, phase = "done", NEW u \in Vertex, NEW v \in Vertex, Edge(u, v)
               PROVE  NonNeighbor \notin encodes_NEpairTest(code, u, v)
    BY DEF NoFalseNegative
  <2>1. u # v /\ \E L, M : Covered(code, u, v, L, M)
    BY EdgesCovered
  <2> QED BY <2>1 DEF EncoderKeepsEdges
<1> QED BY <1>1, CodeInvariant, PTL

(* The codes of the build affirm edges only. *)
LEMMA AffirmedIsEdge ==
  ASSUME V \in Nat, EncoderAddsNone, BuildInv, CodeInv, phase = "done",
         NEW u \in Vertex, NEW v \in Vertex, u # v, Neighbor \in encodes_NEpairTest(code, u, v)
  PROVE  Edge(u, v)
<1>1. Multigraph(adjacency_list)
  BY DEF BuildInv
<1>2. PICK L : Held(code, u, L) /\ \A w : Names(L, w) => Names(adjacency_list[u], w)
  BY AllHeld
<1>3. PICK M : Held(code, v, M) /\ \A w : Names(M, w) => Names(adjacency_list[v], w)
  BY AllHeld
<1>4. Names(L, v) \/ Names(M, u)
  BY <1>2, <1>3 DEF EncoderAddsNone
<1>5. Names(adjacency_list[u], v)
  BY <1>1, <1>2, <1>3, <1>4, NamesBoth
<1> QED BY <1>1, <1>5, EdgeNames

(* A finished build answers Neighbor for edges only. *)
THEOREM BuildAffirmsOnlyEdges ==
  ASSUME V \in Nat, MaxKCore \in Nat, NEW CONSTANT G, Sound(G), \A g \in G : LeavesOrderly(g),
         EncoderAddsNone
  PROVE  SpecOver(G) => []OnlyEdgesAffirmed
<1>1. BuildInv /\ CodeInv => OnlyEdgesAffirmed
  BY AffirmedIsEdge DEF OnlyEdgesAffirmed
<1> QED BY <1>1, CodeInvariant, PTL

(* Of two lists that are too long to be stored either names the other's vertex *)
(* or neither does.                                                            *)
LongListsAgree ==
  phase = "done" =>
    \A u, v \in Vertex : \E L, M :
      /\ Held(code, u, L) /\ Held(code, v, M)
      /\ Len(L) > MaxKCore /\ Len(M) > MaxKCore => (Names(L, v) <=> Names(M, u))

(* A finished build leaves such lists. *)
THEOREM BuildLongListsAgree ==
  ASSUME V \in Nat, MaxKCore \in Nat, NEW CONSTANT G, Sound(G), \A g \in G : LeavesOrderly(g)
  PROVE  SpecOver(G) => []LongListsAgree
<1>1. BuildInv /\ CodeInv => LongListsAgree
  <2> SUFFICES ASSUME BuildInv, CodeInv, phase = "done", NEW u \in Vertex, NEW v \in Vertex
               PROVE  \E L, M :
                        /\ Held(code, u, L) /\ Held(code, v, M)
                        /\ Len(L) > MaxKCore /\ Len(M) > MaxKCore => (Names(L, v) <=> Names(M, u))
    BY Zenon DEF LongListsAgree
  <2>1. PICK L : Held(code, u, L) /\ IF u \in filtered THEN Len(L) <= MaxKCore ELSE L = Unfiltered(u)
    BY AllHeld
  <2>2. PICK M : Held(code, v, M) /\ IF v \in filtered THEN Len(M) <= MaxKCore ELSE M = Unfiltered(v)
    BY AllHeld
  <2>3. Len(L) \in Nat /\ Len(M) \in Nat
    BY <2>1, <2>2 DEF Held
  <2>4. ASSUME Len(L) > MaxKCore, Len(M) > MaxKCore
        PROVE  Names(L, v) <=> Names(M, u)
    <3>1. u \notin filtered /\ v \notin filtered /\ L = Unfiltered(u) /\ M = Unfiltered(v)
      BY <2>1, <2>2, <2>3, <2>4
    <3>2. Multigraph(adjacency_list) /\ u \in 0 .. V /\ v \in 0 .. V
      BY DEF BuildInv, Vertex
    <3>3. /\ Names(Unfiltered(u), v) <=> Names(adjacency_list[u], v)
          /\ Names(Unfiltered(v), u) <=> Names(adjacency_list[v], u)
      BY <3>1, <3>2, UnfilteredNames
    <3>4. Names(adjacency_list[u], v) <=> Names(adjacency_list[v], u)
      BY <3>2, NamesBoth
    <3> QED BY <3>1, <3>3, <3>4
  <2> QED BY <2>1, <2>2, <2>4
<1> QED BY <1>1, CodeInvariant, PTL
-----------------------------------------------------------------------------
(* LoadData's lists make a graph: u is listed with v as v is with u. *)
LEMMA LoadedMultigraph ==
  ASSUME V \in Nat, NEW E \in SUBSET PairsOf(Vertex)
  PROVE  Multigraph(Loaded(E))
<1> DEFINE N(v) == {w \in Vertex : w # v /\ {v, w} \in E}
<1>1. IsFiniteSet(Vertex) /\ Vertex \in SUBSET Int
  BY FS_Interval DEF Vertex
<1>2. ASSUME NEW v
      PROVE  /\ Ascending(N(v)) \in Seq(Vertex)
             /\ \A e : Times(Ascending(N(v)), e) = IF e \in N(v) THEN 1 ELSE 0
             /\ N(v) = {} => Ascending(N(v)) = <<>>
  <2>1. N(v) \in SUBSET Vertex
    OBVIOUS
  <2> HIDE DEF N
  <2>2. N(v) \in SUBSET Int /\ IsFiniteSet(N(v))
    BY <1>1, <2>1, FS_Subset, Zenon
  <2>3. /\ Ascending(N(v)) \in Seq(N(v)) /\ Len(Ascending(N(v))) = Cardinality(N(v))
        /\ \A e : Times(Ascending(N(v)), e) = IF e \in N(v) THEN 1 ELSE 0
    BY <2>2, AscendingFacts
  <2>4. \A k \in 1 .. Len(Ascending(N(v))) : Ascending(N(v))[k] \in Vertex
    BY <2>1, <2>3
  <2>5. Ascending(N(v)) \in Seq(Vertex)
    BY <2>3, <2>4, ListOver
  <2>6. N(v) = {} => Len(Ascending(N(v))) = 0
    BY <2>3, FS_EmptySet
  <2> QED BY <2>3, <2>5, <2>6
<1>3. Loaded(E) = [v \in 0 .. V |-> Ascending(N(v))]
  BY DEF Loaded
<1>4. N(0) = {}
  <2> SUFFICES ASSUME NEW w \in Vertex, {0, w} \in E
               PROVE  FALSE
    OBVIOUS
  <2>1. {0, w} \in SUBSET Vertex
    BY DEF PairsOf
  <2> QED BY <2>1 DEF Vertex
<1>5. \A u, v \in Vertex : u \in N(v) <=> v \in N(u)
  <2> SUFFICES ASSUME NEW u \in Vertex, NEW v \in Vertex
               PROVE  u \in N(v) <=> v \in N(u)
    OBVIOUS
  <2>1. {u, v} = {v, u}
    OBVIOUS
  <2> QED BY <2>1
<1>6. \A v \in Vertex : v \notin N(v)
  OBVIOUS
<1> HIDE DEF N
<1>7. Loaded(E) \in [0 .. V -> Seq(Vertex)] /\ \A v \in 0 .. V : Loaded(E)[v] = Ascending(N(v))
  BY <1>2, <1>3
<1>8. Loaded(E)[0] = <<>> /\ \A v \in Vertex : v \in 0 .. V
  BY <1>2, <1>4, <1>7 DEF Vertex
<1> QED BY <1>2, <1>5, <1>6, <1>7, <1>8, Zenon DEF Multigraph

(* They are sorted, and so is what a loop leaves of them. *)
LEMMA LoadedSorted ==
  ASSUME V \in Nat, NEW E, NEW v \in 0 .. V, NEW F
  PROVE  SortedList(Kept(Loaded(E)[v], F))
<1> DEFINE N == {w \in Vertex : w # v /\ {v, w} \in E}
           list == Ascending(N)
<1>1. IsFiniteSet(Vertex) /\ Vertex \in SUBSET Int /\ N \in SUBSET Vertex
  BY FS_Interval DEF Vertex
<1>2. Loaded(E)[v] = list
  BY DEF Loaded
<1> HIDE DEF N
<1>3. N \in SUBSET Int /\ IsFiniteSet(N)
  BY <1>1, FS_Subset, Zenon
<1>4. /\ list \in Seq(N) /\ Len(list) = Cardinality(N)
      /\ \A i, j \in 1 .. Cardinality(N) : i < j => list[i] < list[j]
  BY <1>3, AscendingFacts
<1> HIDE DEF list
<1>5. SortedList(list)
  <2> SUFFICES ASSUME NEW i \in 1 .. Len(list), NEW j \in 1 .. Len(list), i <= j
               PROVE  list[i] <= list[j]
    BY DEF SortedList
  <2>1. list[i] \in N /\ list[j] \in N
    BY <1>4
  <2>2. list[i] \in Int /\ list[j] \in Int
    BY <1>3, <2>1, Zenon
  <2>3. i < j => list[i] < list[j]
    BY <1>4
  <2> QED BY <2>2, <2>3
<1> QED BY <1>2, <1>3, <1>4, <1>5, KeptSorted, Zenon

(* The graphs that LoadData can leave, where filling in bin is right. *)
LEMMA GapFreeSound ==
  ASSUME V \in Nat, NEW EdgeSets \in SUBSET (SUBSET PairsOf(Vertex))
  PROVE  Sound(GapFree(EdgeSets))
BY LoadedMultigraph DEF Sound, GapFree, GraphsFrom
-----------------------------------------------------------------------------
(* The life of an index: the build and then deletions. *)
LifeOver(G) == IndexInit(G, encodes_Blank) /\ [][BuildStep \/ Deletions]_indexVars

(* The codes tell of every pair of E. *)
CoversAll(codes, E) ==
  /\ codes = [v \in 0 .. V |-> codes[v]]
  /\ \A u, v \in Vertex : u # v /\ {u, v} \in E => \E L, M : Covered(codes, u, v, L, M)

(* Lists of vertices that name both ends of every pair of E. *)
ListsName(lists, E) ==
  /\ \A v \in Vertex : lists[v] \in Seq(Vertex)
  /\ \A u, v \in Vertex : u # v /\ {u, v} \in E => Names(lists[u], v)

(* What deletions rely on: the codes that DeletePair leaves tell of all the    *)
(* other pairs.                                                                *)
EncoderKeepsOthers ==
  \A codes, lists, E : \A u, v \in Vertex :
    u # v /\ CoversAll(codes, E) /\ ListsName(lists, E)
      => \A r \in encodes_DeletePair(codes, lists, u, v) :
           r.defined => CoversAll(r.code, E \ {{u, v}})

(* The inductive invariant of the life of an index.  Until the first deletion  *)
(* the codes are those of the build; after it they tell of the edges left.     *)
LifeInv ==
  /\ BuildInv
  /\ ops \in Nat
  /\ edges \subseteq EdgeSet
  /\ ops = 0 => CodeInv /\ edges = EdgeSet /\ defined
  /\ phase # "done" => ops = 0
  /\ ops # 0 /\ defined => CoversAll(code, edges)

(* The pairs of EdgeSet are those with an edge between them. *)
LEMMA EdgeSetNames ==
  ASSUME V \in Nat, Multigraph(adjacency_list), NEW u \in Vertex, NEW v \in Vertex, u # v
  PROVE  {u, v} \in EdgeSet <=> Edge(u, v)
<1>1. Edge(u, v) => {u, v} \in EdgeSet
  BY DEF EdgeSet, PairsOf
<1>2. ASSUME {u, v} \in EdgeSet
      PROVE  Edge(u, v)
  <2>1. PICK a \in {u, v}, b \in {u, v} : Edge(a, b)
    BY <1>2 DEF EdgeSet
  <2>2. Names(adjacency_list[a], b) /\ a \in Vertex /\ b \in Vertex
    BY <2>1, EdgeNames
  <2>3. a # b /\ Names(adjacency_list[b], a)
    BY <2>2, NamesBoth
  <2>4. Edge(b, a)
    BY <2>2, <2>3, EdgeNames
  <2> QED BY <2>1, <2>3, <2>4
<1> QED BY <1>1, <1>2

(* What the database returns names every neighbour. *)
LEMMA DbNames ==
  ASSUME V \in Nat, Multigraph(adjacency_list)
  PROVE  ListsName(db, EdgeSet)
<1>1. ASSUME NEW v \in Vertex
      PROVE  db[v] \in Seq(Vertex) /\ \A w : Names(adjacency_list[v], w) => Names(db[v], w)
  <2> DEFINE S == Range(adjacency_list[v])
  <2>1. adjacency_list[v] \in Seq(Vertex)
    BY DEF Multigraph, Vertex
  <2>2. S \in SUBSET Vertex /\ \A w : Names(adjacency_list[v], w) => w \in S
    <3>1. DOMAIN adjacency_list[v] = 1 .. Len(adjacency_list[v])
      BY <2>1
    <3> QED BY <2>1, <3>1 DEF Range, Names
  <2>3. db[v] = Ascending(S)
    BY DEF db
  <2> HIDE DEF S
  <2>4. IsFiniteSet(Vertex) /\ Vertex \in SUBSET Int
    BY FS_Interval DEF Vertex
  <2>5. IsFiniteSet(S) /\ S \in SUBSET Int
    BY <2>2, <2>4, FS_Subset, Zenon
  <2>6. /\ Ascending(S) \in Seq(S)
        /\ \A e : Times(Ascending(S), e) = IF e \in S THEN 1 ELSE 0
    BY <2>5, AscendingFacts
  <2>7. \A k \in 1 .. Len(Ascending(S)) : Ascending(S)[k] \in Vertex
    BY <2>2, <2>6
  <2>8. Ascending(S) \in Seq(Vertex)
    BY <2>6, <2>7, ListOver
  <2>9. \A w \in S : Names(Ascending(S), w)
    BY <2>6, TimesNat DEF Names
  <2> QED BY <2>2, <2>3, <2>8, <2>9
<1>2. ASSUME NEW u \in Vertex, NEW v \in Vertex, u # v, {u, v} \in EdgeSet
      PROVE  Names(db[u], v)
  <2>1. Edge(u, v)
    BY <1>2, EdgeSetNames
  <2>2. Names(adjacency_list[u], v)
    BY <2>1, EdgeNames
  <2> QED BY <1>1, <2>2, Zenon
<1> QED BY <1>1, <1>2 DEF ListsName

(* When the build is done its codes tell of every edge. *)
LEMMA BuildCovers ==
  ASSUME V \in Nat, BuildInv, CodeInv, phase = "done"
  PROVE  CoversAll(code, EdgeSet)
<1>1. ASSUME NEW u \in Vertex, NEW v \in Vertex, u # v, {u, v} \in EdgeSet
      PROVE  \E L, M : Covered(code, u, v, L, M)
  <2>1. Multigraph(adjacency_list)
    BY DEF BuildInv
  <2>2. Edge(u, v)
    BY <1>1, <2>1, EdgeSetNames
  <2> QED BY <2>2, EdgesCovered
<1>2. code = [v \in 0 .. V |-> code[v]]
  BY DEF CodeInv
<1> QED BY <1>1, <1>2 DEF CoversAll

(* So do the codes after any number of deletions. *)
LEMMA LifeCovers ==
  ASSUME V \in Nat, LifeInv, phase = "done", defined
  PROVE  CoversAll(code, edges)
<1>1. CASE ops = 0
  BY <1>1, BuildCovers DEF LifeInv
<1>2. CASE ops # 0
  BY <1>2 DEF LifeInv
<1> QED BY <1>1, <1>2

(* The invariant holds at the start ... *)
LEMMA LifeInvInit ==
  ASSUME V \in Nat, MaxKCore \in Nat, NEW G, Sound(G), \A g \in G : LeavesOrderly(g), IndexInit(G, encodes_Blank)
  PROVE  LifeInv
<1>1. InitOver(G) /\ edges = EdgeSet /\ defined = TRUE /\ ops = 0
  BY DEF IndexInit, InitOver
<1>2. BuildInv /\ CodeInv
  BY <1>1, BuildInvInit, CodeInvInit DEF Sound
<1>3. phase # "done"
  BY <1>1 DEF InitOver, InitWith
<1> QED BY <1>1, <1>2, <1>3 DEF LifeInv

(* ... a step of the build keeps it ... *)
LEMMA LifeInvBuild ==
  ASSUME V \in Nat, MaxKCore \in Nat, LifeInv, BuildStep
  PROVE  LifeInv'
<1>1. phase # "done" /\ Next /\ UNCHANGED <<edges, defined, ops>>
  BY Zenon DEF BuildStep, Next, PeelNext, Overrun, EndKCore, EncodeRest, Finish
<1>2. BuildInv /\ CodeInv /\ edges = EdgeSet /\ defined /\ ops = 0
  BY <1>1 DEF LifeInv
<1>3. BuildInv' /\ CodeInv'
  BY <1>1, <1>2, BuildInvNext, CodeInvNext
<1>4. adjacency_list' = adjacency_list
  BY <1>1, Zenon DEF Next, PeelNext, Overrun, EndKCore, EncodeRest, Finish, graphVars
<1>5. EdgeSet' = EdgeSet
  BY <1>4 DEF EdgeSet, Edge
<1> QED BY <1>1, <1>2, <1>3, <1>5 DEF LifeInv

(* ... and so does a deletion. *)
LEMMA LifeInvDelete ==
  ASSUME V \in Nat, MaxKCore \in Nat, EncoderKeepsOthers, LifeInv, Deletions
  PROVE  LifeInv' /\ phase = "done" /\ ops' # 0
<1>1. PICK u \in Vertex, v \in Vertex : u # v /\ RemoveEdge(u, v)
  BY DEF Deletions
<1>2. /\ phase = "done" /\ defined /\ ops' = ops + 1 /\ edges' = edges \ {{u, v}}
      /\ UNCHANGED buildVars
  BY <1>1 DEF RemoveEdge, Update
<1>3. PICK r \in encodes_DeletePair(code, db, u, v) : code' = r.code /\ defined' = r.defined
  BY <1>1 DEF RemoveEdge, Update
<1>4. BuildInv /\ ops \in Nat /\ edges \subseteq EdgeSet /\ CoversAll(code, edges)
  BY <1>2, LifeCovers DEF LifeInv
<1>5. /\ UNCHANGED <<adjacency_list, phase, idx, vert, pos, bin, degrees, filtered>>
  BY <1>2 DEF buildVars
<1>6. ListsName(db, edges)
  <2>1. Multigraph(adjacency_list)
    BY <1>4 DEF BuildInv
  <2> QED BY <1>4, <2>1, DbNames DEF ListsName
<1>7. r.defined => CoversAll(r.code, edges \ {{u, v}})
  BY <1>1, <1>3, <1>4, <1>6 DEF EncoderKeepsOthers
<1>8. defined' => CoversAll(code', edges')
  BY <1>2, <1>3, <1>7
<1>9. BuildInv'
  <2>1. arrays' = arrays /\ TopDegree' = TopDegree
    BY <1>5 DEF arrays, TopDegree
  <2>2. AllArrays(TopDegree)' = AllArrays(TopDegree)
    BY <2>1 DEF AllArrays
  <2>3. Multigraph(adjacency_list)' /\ Inverses(vert, pos)'
    BY <1>4, <1>5, Zenon DEF BuildInv, Multigraph, Inverses
  <2>4. LeftLong'
    BY <1>2, <1>4, <1>5 DEF BuildInv, LeftLong, Unfiltered, TopDegree
  <2> QED BY <1>2, <1>4, <1>5, <2>1, <2>2, <2>3, <2>4 DEF BuildInv
<1>10. EdgeSet' = EdgeSet
  BY <1>5 DEF EdgeSet, Edge
<1>11. ops' \in Nat /\ ops' # 0
  BY <1>2, <1>4
<1>12. edges' \subseteq EdgeSet'
  BY <1>2, <1>4, <1>10
<1>13. (ops # 0 /\ defined => CoversAll(code, edges))'
  BY <1>8
<1> QED BY <1>2, <1>5, <1>9, <1>11, <1>12, <1>13 DEF LifeInv

(* A step that changes nothing keeps it. *)
LEMMA LifeInvStutter ==
  ASSUME V \in Nat, MaxKCore \in Nat, LifeInv, UNCHANGED indexVars
  PROVE  LifeInv'
<1>1. UNCHANGED <<adjacency_list, phase, idx, vert, pos, bin, degrees, filtered, stray, code, edges, defined, ops>>
  BY DEF indexVars, buildVars
<1>2. UNCHANGED vars
  BY <1>1 DEF vars
<1>3. BuildInv'
  BY <1>2, BuildInvNext DEF LifeInv
<1>4. ops = 0 => CodeInv'
  BY <1>2, CodeInvNext DEF LifeInv
<1>5. EdgeSet' = EdgeSet
  BY <1>1 DEF EdgeSet, Edge
<1>6. CoversAll(code, edges) => CoversAll(code, edges)'
  BY <1>1
<1>7. ops' = 0 => CodeInv' /\ edges' = EdgeSet' /\ defined'
  BY <1>1, <1>4, <1>5 DEF LifeInv
<1>8. ops' \in Nat /\ edges' \subseteq EdgeSet' /\ (phase' # "done" => ops' = 0)
  BY <1>1, <1>5 DEF LifeInv
<1>9. (ops # 0 /\ defined => CoversAll(code, edges))'
  BY <1>1, <1>6 DEF LifeInv
<1> QED BY <1>3, <1>7, <1>8, <1>9 DEF LifeInv

(* The answers of an index whose build is done are right for its graph. *)
LEMMA LifeAnswers ==
  ASSUME V \in Nat, MaxKCore \in Nat, EncoderKeepsEdges, EncoderAddsNone, LifeInv, phase = "done"
  PROVE  /\ Told(NonNeighbor) \in SUBSET (PairsOf(Vertex) \ edges)
         /\ ops = 0 => Told(Neighbor) \in SUBSET edges
<1>1. ASSUME NEW p \in PairsOf(Vertex), NEW t
      PROVE  p \in Answered(t) => \E u, v \in Vertex : /\ u # v /\ p = {u, v}
                                                       /\ t \in encodes_NEpairTest(code, u, v)
  <2> SUFFICES ASSUME p \in Answered(t)
               PROVE  \E u, v \in Vertex : /\ u # v /\ p = {u, v}
                                           /\ t \in encodes_NEpairTest(code, u, v)
    OBVIOUS
  <2>1. PICK a \in Vertex, b \in Vertex : a # b /\ p = {a, b}
    BY DEF PairsOf
  <2>2. PICK u \in p, v \in p : u # v /\ t \in encodes_NEpairTest(code, u, v)
    BY DEF Answered
  <2>3. p = {u, v} /\ u \in Vertex /\ v \in Vertex
    BY <2>1, <2>2
  <2> QED BY <2>2, <2>3
<1>2. ASSUME defined, NEW p \in PairsOf(Vertex), p \in Answered(NonNeighbor), p \in edges
      PROVE  FALSE
  <2>1. PICK u \in Vertex, v \in Vertex : u # v /\ p = {u, v} /\ NonNeighbor \in encodes_NEpairTest(code, u, v)
    BY <1>1, <1>2
  <2>2. CoversAll(code, edges)
    BY <1>2, LifeCovers
  <2>3. \E L, M : Covered(code, u, v, L, M)
    BY <1>2, <2>1, <2>2, Zenon DEF CoversAll
  <2> QED BY <2>1, <2>3 DEF EncoderKeepsEdges
<1>3. ASSUME ops = 0, NEW p \in PairsOf(Vertex), p \in Answered(Neighbor)
      PROVE  p \in edges
  <2>1. BuildInv /\ CodeInv /\ edges = EdgeSet
    BY <1>3 DEF LifeInv
  <2>2. PICK u \in Vertex, v \in Vertex : u # v /\ p = {u, v} /\ Neighbor \in encodes_NEpairTest(code, u, v)
    BY <1>1, <1>3
  <2>3. Edge(u, v)
    BY <2>1, <2>2, AffirmedIsEdge
  <2>4. Multigraph(adjacency_list)
    BY <2>1 DEF BuildInv
  <2> QED BY <2>1, <2>2, <2>3, <2>4, EdgeSetNames
<1>4. \A t : Told(t) \in SUBSET PairsOf(Vertex) /\ \A p \in Told(t) : defined /\ p \in Answered(t)
  BY DEF Told, Answered
<1> QED BY <1>2, <1>3, <1>4

(* While the build runs nothing is answered. *)
LEMMA NothingTold ==
  ASSUME phase # "done", NEW t
  PROVE  Told(t) = {}
BY DEF Told, Answered

(* The answers are right for the graph as it is. *)
AnswersRight ==
  /\ Told(NonNeighbor) \in SUBSET (PairsOf(Vertex) \ edges)
  /\ ops = 0 => Told(Neighbor) \in SUBSET edges
  /\ phase # "done" => \A t : Told(t) = {}

(* An index built over sound graphs implements the abstract index through its  *)
(* build and every deletion, whatever encoder keeps its edges and, when one is *)
(* deleted, the others.                                                        *)
THEOREM LifeKeepsPromise ==
  ASSUME V \in Nat, MaxKCore \in Nat, NEW CONSTANT G, Sound(G), \A g \in G : LeavesOrderly(g),
         EncoderKeepsEdges, EncoderAddsNone, EncoderKeepsOthers
  PROVE  LifeOver(G) => KeepsPromise
<1> DEFINE Step == BuildStep \/ Deletions
<1>1. IndexInit(G, encodes_Blank) => LifeInv /\ Promise!Init
  <2> SUFFICES ASSUME IndexInit(G, encodes_Blank)
               PROVE  LifeInv /\ Promise!Init
    OBVIOUS
  <2>1. LifeInv
    BY LifeInvInit
  <2>2. edges = EdgeSet /\ phase # "done"
    BY DEF IndexInit, InitWith
  <2>3. \A t : Told(t) = {}
    BY <2>2, NothingTold
  <2> QED BY <2>1, <2>2, <2>3 DEF Promise!Init, EdgeSet
<1>2. LifeInv /\ [Step]_indexVars => LifeInv'
  <2> SUFFICES ASSUME LifeInv, [Step]_indexVars
               PROVE  LifeInv'
    OBVIOUS
  <2>1. CASE BuildStep
    BY <2>1, LifeInvBuild
  <2>2. CASE Deletions
    BY <2>2, LifeInvDelete
  <2>3. CASE UNCHANGED indexVars
    BY <2>3, LifeInvStutter
  <2> QED BY <2>1, <2>2, <2>3
<1>3. LifeInv => AnswersRight
  BY LifeAnswers, NothingTold DEF AnswersRight
<1>4. LifeInv /\ AnswersRight /\ AnswersRight' /\ [Step]_indexVars => [Promise!Next]_Promise!vars
  <2> SUFFICES ASSUME LifeInv, AnswersRight, AnswersRight', [Step]_indexVars
               PROVE  [Promise!Next]_Promise!vars
    OBVIOUS
  <2> DEFINE affirmed == IF ops = 0 THEN Told(Neighbor) ELSE {}
  <2>1. CASE BuildStep
    <3>1. phase # "done" /\ UNCHANGED <<edges, defined, ops>> /\ ops = 0
      BY <2>1, Zenon DEF LifeInv, BuildStep, Next, PeelNext, Overrun, EndKCore, EncodeRest, Finish
    <3>2. CASE phase' = "done"
      <4>1. Told(NonNeighbor)' \in SUBSET (PairsOf(Vertex) \ edges) /\ Told(Neighbor)' \in SUBSET edges
        BY <3>1 DEF AnswersRight
      <4>2. Promise!Build
        BY <3>1, <3>2, <4>1 DEF Promise!Build, Promise!RightFor
      <4> QED BY <4>2 DEF Promise!Next
    <3>3. CASE phase' # "done"
      <4>1. Told(NonNeighbor) = {} /\ Told(NonNeighbor)' = {} /\ affirmed = {} /\ affirmed' = {}
        BY <3>1, <3>3 DEF AnswersRight
      <4>2. (phase = "done")' = (phase = "done")
        BY <3>1, <3>3
      <4> QED BY <3>1, <4>1, <4>2 DEF Promise!vars
    <3> QED BY <3>2, <3>3
  <2>2. CASE Deletions
    <3>1. PICK u \in Vertex, v \in Vertex : u # v /\ RemoveEdge(u, v)
      BY <2>2 DEF Deletions
    <3>2. edges' = edges \ {{u, v}} /\ phase = "done" /\ phase' = "done" /\ ops' # 0
      <4>1. edges' = edges \ {{u, v}} /\ phase' = phase
        BY <3>1 DEF RemoveEdge, Update, buildVars
      <4>2. phase = "done" /\ ops' # 0
        BY <2>2, LifeInvDelete
      <4> QED BY <4>1, <4>2
    <3>3. {u, v} \in PairsOf(Vertex)
      BY <3>1 DEF PairsOf
    <3>4. Told(NonNeighbor)' \in SUBSET (PairsOf(Vertex) \ edges')
      BY DEF AnswersRight
    <3>5. Promise!Delete({u, v})
      BY <3>2, <3>4 DEF Promise!Delete, Promise!RightFor
    <3> QED BY <3>3, <3>5 DEF Promise!Next
  <2>3. CASE UNCHANGED indexVars
    <3>1. UNCHANGED <<phase, code, edges, defined, ops>>
      BY <2>3 DEF indexVars, buildVars
    <3>2. UNCHANGED <<Told(NonNeighbor), Told(Neighbor)>>
      BY <3>1 DEF Told, Answered
    <3> QED BY <3>1, <3>2 DEF Promise!vars
  <2> QED BY <2>1, <2>2, <2>3
<1> QED BY <1>1, <1>2, <1>3, <1>4, PTL DEF LifeOver, KeepsPromise, Promise!Spec
=============================================================================
