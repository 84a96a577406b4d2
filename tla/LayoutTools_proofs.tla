------------------------- MODULE LayoutTools_proofs -------------------------
(***************************************************************************)
(* Proofs about the layout tools, for any patch.  get_avoid_rect_position: *)
(* the position it proposes is clear of every box, and no smaller ring has *)
(* a free point.  suggest_alignment: carried out, the two nubs meet.       *)
(* validate_layout: the report agrees with the picture.  align_objects:    *)
(* carried out, the boxes are aligned and asking again moves nothing.      *)
(***************************************************************************)
EXTENDS LayoutTools, Sequence_proofs, FiniteSetTheorems

(* A finite set has a member with the greatest number.  By contradiction:  *)
(* of the sets without one, take one with the fewest members.              *)
LEMMA GreatestOf ==
  ASSUME NEW B, IsFiniteSet(B), NEW f \in [B -> Int], NEW X \in SUBSET B, X # {}
  PROVE  \E b \in X : \A c \in X : f[c] <= f[b]
<1> DEFINE Has(Y) == \E b \in Y : \A c \in Y : f[c] <= f[b]
           Bad == {Y \in SUBSET B : Y # {} /\ ~Has(Y)}
           Counts == {Cardinality(Y) : Y \in Bad}
<1>1. \A Y \in SUBSET B : IsFiniteSet(Y) /\ Cardinality(Y) \in Nat
  BY FS_Subset, FS_CardinalityType
<1>2. SUFFICES ASSUME X \in Bad PROVE FALSE
  OBVIOUS
<1>3. Counts \in SUBSET Nat /\ Counts # {}
  BY <1>1, <1>2
<1>4. PICK Y \in Bad : \A Z \in Bad : Cardinality(Y) <= Cardinality(Z)
  <2>1. Min(Counts) \in Counts /\ \A n \in Counts : Min(Counts) <= n
    BY <1>3, Least
  <2> QED BY <2>1
<1>5. PICK b \in Y : TRUE
  OBVIOUS
<1>6. Cardinality(Y \ {b}) < Cardinality(Y)
  BY <1>1, <1>5, FS_RemoveElement
<1>7. Y \ {b} \in SUBSET B /\ Y \ {b} \notin Bad
  <2>1. Y \in SUBSET B /\ Y \ {b} \in SUBSET B
    OBVIOUS
  <2>2. Cardinality(Y) \in Nat /\ Cardinality(Y \ {b}) \in Nat
    BY <1>1, <2>1
  <2>3. ~(Cardinality(Y) <= Cardinality(Y \ {b}))
    BY <1>6, <2>2
  <2> HIDE DEF Bad
  <2> QED BY <1>4, <2>1, <2>3
<1>8. CASE Y \ {b} = {}
  <2>1. \A c \in Y : f[c] <= f[b]
    BY <1>5, <1>8
  <2> QED BY <1>5, <2>1
<1>9. CASE Has(Y \ {b})
  <2>1. PICK m \in Y \ {b} : \A c \in Y \ {b} : f[c] <= f[m]
    BY <1>9
  <2>2. f[m] \in Int /\ f[b] \in Int /\ \A c \in Y : f[c] \in Int
    OBVIOUS
  <2>3. CASE f[b] <= f[m]
    <3>1. \A c \in Y : f[c] <= f[m]
      BY <2>1, <2>3
    <3> QED BY <3>1
  <2>4. CASE f[m] <= f[b]
    <3>1. \A c \in Y : f[c] <= f[b]
      BY <2>1, <2>2, <2>4
    <3> QED BY <1>5, <3>1
  <2> QED BY <2>2, <2>3, <2>4
<1> QED BY <1>7, <1>8, <1>9

LEMMA GreaterOf ==
  ASSUME NEW i \in Int, NEW j \in Int
  PROVE  Max({i, j}) = IF i >= j THEN i ELSE j
<1> DEFINE m == IF i >= j THEN i ELSE j
<1>1. m \in {i, j} /\ \A k \in {i, j} : m >= k
  OBVIOUS
<1>2. \A n \in {i, j} : (\A k \in {i, j} : n >= k) => n = m
  OBVIOUS
<1> QED BY <1>1, <1>2 DEF Max

-----------------------------------------------------------------------------
(* The layout.                                                             *)

Layout(f) == f \in [Boxes -> Rects]
RectsOf(f) == {f[b] : b \in Boxes}
PointAt(p) == p.x \in Int /\ p.y \in Int

LEMMA RightMost ==
  ASSUME NEW f, Layout(f)
  PROVE  /\ Max({0} \cup {Right(r) : r \in RectsOf(f)}) \in Nat
         /\ \A r \in RectsOf(f) : Right(r) <= Max({0} \cup {Right(q) : q \in RectsOf(f)})
<1> DEFINE edge == [b \in Boxes |-> Right(f[b])]
           S == {0} \cup {Right(r) : r \in RectsOf(f)}
<1>1. edge \in [Boxes -> Int] /\ \A b \in Boxes : edge[b] = Right(f[b])
  BY DEF Layout, Rects, Right
<1>2. S = {0} \cup {edge[b] : b \in Boxes}
  BY DEF RectsOf
<1>3. \E m \in S : m \in Nat /\ \A n \in S : m >= n
  <2>1. CASE Boxes = {}
    BY <1>2, <2>1
  <2>2. CASE Boxes # {}
    <3>1. PICK b \in Boxes : \A c \in Boxes : edge[c] <= edge[b]
      BY <1>1, <2>2, PatchesAssumption, GreatestOf
    <3>2. CASE edge[b] >= 0
      <4>1. edge[b] \in S /\ edge[b] \in Nat /\ \A n \in S : edge[b] >= n
        BY <1>1, <1>2, <3>1, <3>2
      <4> QED BY <4>1
    <3>3. CASE edge[b] < 0
      <4>1. 0 \in S /\ \A n \in S : 0 >= n
        BY <1>1, <1>2, <3>1, <3>3
      <4> QED BY <4>1
    <3> QED BY <1>1, <3>2, <3>3
  <2> QED BY <2>1, <2>2
<1>4. S \subseteq Int
  BY <1>1, <1>2
<1>5. Max(S) \in S /\ Max(S) \in Nat /\ \A n \in S : Max(S) >= n
  <2>1. PICK m \in S : m \in Nat /\ \A n \in S : m >= n
    BY <1>3
  <2> HIDE DEF S
  <2>2. Max(S) \in S /\ \A n \in S : Max(S) >= n
    BY <2>1 DEF Max
  <2>3. m \in Int /\ Max(S) \in Int /\ m >= Max(S) /\ Max(S) >= m
    BY <1>4, <2>1, <2>2
  <2> QED BY <2>1, <2>2, <2>3
<1>6. \A r \in RectsOf(f) : Right(r) \in S
  OBVIOUS
<1> QED BY <1>4, <1>5, <1>6

LEMMA RightIsFree ==
  ASSUME NEW f, Layout(f), NEW w \in Nat, NEW h \in Nat
  PROVE  PointAt(ToTheRight(RectsOf(f))) /\ IsFree(ToTheRight(RectsOf(f)), w, h, RectsOf(f))
<1> DEFINE p == ToTheRight(RectsOf(f))
<1>1. PICK m \in Nat : p.x = m + Margin /\ p.y = Origin /\ \A r \in RectsOf(f) : Right(r) <= m
  BY RightMost DEF ToTheRight
<1>2. p.x \in Nat /\ p.y \in Nat
  BY <1>1, PlaceAssumption
<1>3. ASSUME NEW r \in RectsOf(f) PROVE ~Conflict(Rect(p.x, p.y, w, h), r, Gap)
  <2>1. Right(r) \in Int /\ Right(r) <= m
    BY <1>1 DEF Layout, RectsOf, Rects, Right
  <2>2. Right(r) <= p.x - Gap
    BY <1>1, <2>1, PlaceAssumption
  <2>3. Rect(p.x, p.y, w, h).x = p.x
    BY DEF Rect
  <2>4. p.x - Gap = p.x + (-Gap)
    BY <1>2, PlaceAssumption
  <2> QED BY <2>2, <2>3, <2>4 DEF Conflict, Overlap
<1> HIDE DEF p
<1> QED BY <1>2, <1>3 DEF IsFree, PointAt, p

-----------------------------------------------------------------------------
(* The search.                                                             *)

LEMMA Scaled ==
  ASSUME NEW i \in Int, NEW k \in Nat, i \in -k..k
  PROVE  /\ Grid * i \in Int /\ Abs(-(Grid * i)) = Grid * Abs(i)
         /\ Abs(i) \in Nat /\ Grid * Abs(i) \in Nat /\ Grid * Abs(i) <= Grid * k
<1>1. Abs(i) \in Nat /\ Abs(i) <= k
  BY DEF Abs
<1>2. CASE i < 0
  <2>1. Grid * i < 0 /\ Grid * (-i) = -(Grid * i)
    BY <1>2, PlaceAssumption
  <2> QED BY <1>1, <1>2, <2>1, PlaceAssumption DEF Abs
<1>3. CASE i >= 0
  <2>1. Grid * i \in Nat
    BY <1>3, PlaceAssumption
  <2>2. Abs(i) = i /\ Abs(-(Grid * i)) = Grid * i
    BY <1>3, <2>1 DEF Abs
  <2> QED BY <1>1, <2>1, <2>2, PlaceAssumption
<1> QED BY <1>2, <1>3

LEMMA RingApart ==
  ASSUME NEW a, PointAt(a), NEW k \in Nat, NEW q \in Ring(a, Grid * k)
  PROVE  /\ PointAt(q) /\ q = [x |-> q.x, y |-> q.y]
         /\ Max({Abs(a.x - q.x), Abs(a.y - q.y)}) = Grid * k
<1>1. (Grid * k) \div Grid = k
  BY PlaceAssumption
<1>2. PICK n \in (-k..k) \X (-k..k) :
         /\ Abs(n[1]) = k \/ Abs(n[2]) = k
         /\ q = [x |-> a.x + Grid * n[1], y |-> a.y + Grid * n[2]]
  BY <1>1 DEF Ring
<1> DEFINE i == n[1]
           j == n[2]
<1>3. i \in -k..k /\ j \in -k..k /\ i \in Int /\ j \in Int
  OBVIOUS
<1>4. Abs(i) = k \/ Abs(j) = k
  BY <1>2
<1>5. q = [x |-> a.x + Grid * i, y |-> a.y + Grid * j]
  BY <1>2
<1> HIDE DEF i, j
<1>6. /\ Grid * i \in Int /\ Abs(-(Grid * i)) = Grid * Abs(i)
      /\ Grid * Abs(i) \in Nat /\ Grid * Abs(i) <= Grid * k
  BY <1>3, Scaled
<1>7. /\ Grid * j \in Int /\ Abs(-(Grid * j)) = Grid * Abs(j)
      /\ Grid * Abs(j) \in Nat /\ Grid * Abs(j) <= Grid * k
  BY <1>3, Scaled
<1>8. q.x \in Int /\ q.y \in Int /\ q = [x |-> q.x, y |-> q.y]
  BY <1>5, <1>6, <1>7 DEF PointAt
<1>9. a.x - q.x = -(Grid * i) /\ a.y - q.y = -(Grid * j)
  <2> DEFINE u == Grid * i
             v == Grid * j
  <2>1. q.x = a.x + u /\ q.y = a.y + v /\ u \in Int /\ v \in Int
    BY <1>5, <1>6, <1>7
  <2> HIDE DEF u, v
  <2>2. a.x - q.x = -u /\ a.y - q.y = -v
    BY <2>1 DEF PointAt
  <2> QED BY <2>2 DEF u, v
<1>10. Max({Abs(a.x - q.x), Abs(a.y - q.y)})
         = IF Grid * Abs(i) >= Grid * Abs(j) THEN Grid * Abs(i) ELSE Grid * Abs(j)
  BY <1>6, <1>7, <1>9, GreaterOf
<1>11. Grid * k \in Nat
  BY PlaceAssumption
<1> DEFINE u == Grid * Abs(i)
           v == Grid * Abs(j)
           r == Grid * k
<1>12. u = r \/ v = r
  BY <1>4
<1>13. u \in Nat /\ v \in Nat /\ r \in Nat /\ u <= r /\ v <= r
  BY <1>6, <1>7, <1>11
<1>14. Max({Abs(a.x - q.x), Abs(a.y - q.y)}) = r
  <2>1. Max({Abs(a.x - q.x), Abs(a.y - q.y)}) = IF u >= v THEN u ELSE v
    BY <1>10
  <2> HIDE DEF u, v, r
  <2> QED BY <1>12, <1>13, <2>1
<1> QED BY <1>8, <1>14 DEF PointAt

LEMMA NearestIsFree ==
  ASSUME NEW a, PointAt(a), NEW k \in Nat, NEW w, NEW h, NEW rs,
         \E p \in Ring(a, Grid * k) : IsFree(p, w, h, rs)
  PROVE  /\ NearestFree(a, Grid * k, w, h, rs) \in Ring(a, Grid * k)
         /\ IsFree(NearestFree(a, Grid * k, w, h, rs), w, h, rs)
<1> DEFINE free == {p \in Ring(a, Grid * k) : IsFree(p, w, h, rs)}
           best == {p \in free : \A q \in free : Distance2(a, p) <= Distance2(a, q)}
<1>1. \A p \in free : /\ p.x \in Nat /\ p.y \in Nat /\ p = [x |-> p.x, y |-> p.y]
                       /\ Distance2(a, p) \in Nat
  <2>1. TAKE p \in free
  <2>2. PointAt(p) /\ p = [x |-> p.x, y |-> p.y]
    BY RingApart
  <2>3. p.x \in Nat /\ p.y \in Nat
    BY <2>2 DEF IsFree, PointAt
  <2>4. \A n \in Int : n * n \in Nat
    OBVIOUS
  <2>5. a.x - p.x \in Int /\ a.y - p.y \in Int
    BY <2>3 DEF PointAt
  <2> QED BY <2>2, <2>3, <2>4, <2>5 DEF Distance2
<1>2. best # {}
  <2> DEFINE D == {Distance2(a, p) : p \in free}
  <2>1. D \in SUBSET Nat /\ D # {}
    BY <1>1
  <2>2. Min(D) \in D /\ \A n \in D : Min(D) <= n
    BY <2>1, Least
  <2>3. PICK p \in free : Distance2(a, p) = Min(D)
    BY <2>2
  <2>4. \A q \in free : Distance2(a, p) <= Distance2(a, q)
    BY <2>2, <2>3
  <2> QED BY <2>4
<1>3. PICK l \in best : \A q \in best : l.x <= q.x
  <2> DEFINE X == {p.x : p \in best}
  <2>1. X \in SUBSET Nat /\ X # {}
    BY <1>1, <1>2
  <2>2. Min(X) \in X /\ \A n \in X : Min(X) <= n
    BY <2>1, Least
  <2> QED BY <2>2
<1>4. PICK t \in best : t.x = l.x /\ \A q \in best : q.x = l.x => t.y <= q.y
  <2> DEFINE Y == {p.y : p \in {q \in best : q.x = l.x}}
  <2>1. Y \in SUBSET Nat /\ Y # {}
    BY <1>1
  <2>2. Min(Y) \in Y /\ \A n \in Y : Min(Y) <= n
    BY <2>1, Least
  <2> QED BY <2>2
<1>5. ASSUME NEW q \in best \ {t} PROVE Before(t, q)
  <2>1. t.x <= q.x /\ (q.x = t.x => t.y <= q.y)
    BY <1>3, <1>4
  <2>2. q.x # t.x \/ q.y # t.y
    BY <1>1
  <2>3. t.x \in Nat /\ q.x \in Nat /\ t.y \in Nat /\ q.y \in Nat
    BY <1>1
  <2> QED BY <2>1, <2>2, <2>3 DEF Before
<1> HIDE DEF best
<1>6. NearestFree(a, Grid * k, w, h, rs) \in best
  <2>1. \E p \in best : \A q \in best \ {p} : Before(p, q)
    BY <1>5
  <2> QED BY <2>1 DEF NearestFree, best
<1> QED BY <1>6 DEF best

LEMMA AnchorPoint ==
  ASSUME NEW f, Layout(f), NEW near, \A p \in near : PointAt(p)
  PROVE  /\ PointAt(Anchor(RectsOf(f), near))
         /\ Anchor(RectsOf(f), near) = [x |-> Anchor(RectsOf(f), near).x,
                                       y |-> Anchor(RectsOf(f), near).y]
<1>1. CASE near # {}
  <2> DEFINE p == CHOOSE q \in near : TRUE
  <2>1. PointAt(p)
    BY <1>1
  <2> HIDE DEF p
  <2>2. Max({0, p.x}) \in Int /\ Max({0, p.y}) \in Int
    BY <2>1, GreaterOf DEF PointAt
  <2>3. Anchor(RectsOf(f), near) = [x |-> Max({0, p.x}), y |-> Max({0, p.y})]
    BY <1>1 DEF Anchor, p
  <2> QED BY <2>2, <2>3 DEF PointAt
<1>2. CASE near = {} /\ RectsOf(f) = {}
  BY <1>2, PlaceAssumption DEF Anchor, PointAt
<1>3. CASE near = {} /\ RectsOf(f) # {}
  <2>1. Anchor(RectsOf(f), near) = ToTheRight(RectsOf(f))
    BY <1>3 DEF Anchor
  <2>2. PointAt(ToTheRight(RectsOf(f)))
    BY RightIsFree
  <2> QED BY <2>1, <2>2 DEF ToTheRight
<1> QED BY <1>1, <1>2, <1>3

(* A free point keeps the clearance from each box, on one axis at least.   *)
LEMMA FreeIsClear ==
  ASSUME NEW f, Layout(f), NEW w \in Nat, NEW h \in Nat, NEW p, PointAt(p),
         IsFree(p, w, h, RectsOf(f)), NEW b \in Boxes
  PROVE  \/ p.x + w + Gap <= f[b].x \/ Right(f[b]) + Gap <= p.x
         \/ p.y + h + Gap <= f[b].y \/ Bottom(f[b]) + Gap <= p.y
<1>1. ~Conflict(Rect(p.x, p.y, w, h), f[b], Gap)
  BY DEF IsFree, RectsOf
<1>2. f[b] \in Rects
  BY DEF Layout
<1> QED
  BY <1>1, <1>2, PlaceAssumption DEF Conflict, Overlap, Rect, Right, Bottom, Rects, PointAt

(* What PlacedIsClear says of one answer.                                  *)
Apart(p, q) == Max({Abs(p.x - q.x), Abs(p.y - q.y)})
Clear(f, w, h, near, p) ==
  /\ p.x >= 0 /\ p.y >= 0
  /\ \A b \in Boxes : \/ p.x + w + Gap <= f[b].x \/ Right(f[b]) + Gap <= p.x
                      \/ p.y + h + Gap <= f[b].y \/ Bottom(f[b]) + Gap <= p.y
  /\ \A r \in {0} \cup {k \in Radii : k < Apart(Anchor(RectsOf(f), near), p)} :
       \A q \in Ring(Anchor(RectsOf(f), near), r) :
         ~IsFree(q, w, h, RectsOf(f)) \/ q = p

(* The three ways the search ends: at the anchor, to the right of all the  *)
(* boxes, and on the first ring with a free point.                         *)
LEMMA AvoidIsClear ==
  ASSUME NEW f, Layout(f), NEW w \in Nat, NEW h \in Nat,
         NEW near, \A p \in near : PointAt(p)
  PROVE  Clear(f, w, h, near, AvoidRect(RectsOf(f), w, h, near))
<1> DEFINE rs == RectsOf(f)
           a == Anchor(rs, near)
           p == AvoidRect(rs, w, h, near)
           open == {r \in Radii : \E q \in Ring(a, r) : IsFree(q, w, h, rs)}
<1>1. PointAt(a) /\ a = [x |-> a.x, y |-> a.y]
  BY AnchorPoint
<1>2. Radii \in SUBSET Nat
  BY PlaceAssumption DEF Radii
<1>3. Ring(a, 0) = {a}
  <2>1. 0 \div Grid = 0 /\ Grid * 0 = 0
    BY PlaceAssumption
  <2>2. -0..0 = {0} /\ Abs(0) = 0
    BY DEF Abs
  <2>3. a.x + 0 = a.x /\ a.y + 0 = a.y
    BY <1>1 DEF PointAt
  <2>4. \A n \in {0} \X {0} : n[1] = 0 /\ n[2] = 0
    OBVIOUS
  <2>5. {m \in {0} \X {0} : Abs(m[1]) = 0 \/ Abs(m[2]) = 0} = {<<0, 0>>}
    BY <2>2
  <2> HIDE DEF a
  <2>6. Ring(a, 0) = {[x |-> a.x + Grid * n[1], y |-> a.y + Grid * n[2]] : n \in {<<0, 0>>}}
    BY <2>1, <2>2, <2>5 DEF Ring
  <2>7. Ring(a, 0) = {[x |-> a.x + Grid * 0, y |-> a.y + Grid * 0]}
    BY <2>6
  <2> QED BY <1>1, <2>1, <2>3, <2>7
<1>4. CASE IsFree(a, w, h, rs)
  <2>1. p = a
    BY <1>4 DEF AvoidRect
  <2>2. Apart(a, a) = 0
    <3>1. a.x - a.x = 0 /\ a.y - a.y = 0
      BY <1>1 DEF PointAt
    <3> QED BY <3>1, GreaterOf DEF Apart, Abs
  <2>3. \A r \in {0} \cup {k \in Radii : k < Apart(a, p)} : r = 0
    BY <1>2, <2>1, <2>2
  <2> HIDE DEF a, p
  <2>4. IsFree(p, w, h, rs) /\ PointAt(p)
    BY <1>1, <1>4, <2>1
  <2>5. p.x >= 0 /\ p.y >= 0
    BY <2>4 DEF IsFree
  <2> QED BY <1>3, <2>1, <2>3, <2>4, <2>5, FreeIsClear DEF Clear, a, p
<1>5. CASE ~IsFree(a, w, h, rs) /\ open = {}
  <2>1. p = ToTheRight(rs)
    BY <1>5 DEF AvoidRect
  <2>2. IsFree(p, w, h, rs) /\ PointAt(p)
    BY <2>1, RightIsFree
  <2>3. \A r \in {0} \cup Radii : \A q \in Ring(a, r) : ~IsFree(q, w, h, rs)
    BY <1>3, <1>5
  <2> HIDE DEF p, a
  <2>4. p.x >= 0 /\ p.y >= 0
    BY <2>2 DEF IsFree
  <2> QED BY <2>2, <2>3, <2>4, FreeIsClear DEF Clear, a, p
<1>6. CASE ~IsFree(a, w, h, rs) /\ open # {}
  <2>1. Min(open) \in open /\ \A r \in open : Min(open) <= r
    BY <1>2, <1>6, Least
  <2>2. PICK k \in Nat : Min(open) = Grid * k
    <3>1. MaxRadius \div Grid \in Nat
      BY PlaceAssumption
    <3>2. \A r \in Radii : \E k \in Nat : r = Grid * k
      BY <3>1 DEF Radii
    <3>3. Min(open) \in Radii
      BY <2>1
    <3> QED BY <3>2, <3>3
  <2> HIDE DEF a
  <2>3. p = NearestFree(a, Grid * k, w, h, rs)
    BY <1>6, <2>2 DEF AvoidRect, a
  <2>4. p \in Ring(a, Grid * k) /\ IsFree(p, w, h, rs)
    BY <1>1, <2>1, <2>2, <2>3, NearestIsFree
  <2>5. PointAt(p) /\ Apart(a, p) = Grid * k
    BY <1>1, <2>4, RingApart DEF Apart
  <2> HIDE DEF p
  <2>6. \A r \in {n \in Radii : n < Apart(a, p)} : r \notin open
    <3>1. Min(open) \in Nat
      BY <1>2, <2>1
    <3> HIDE DEF open
    <3>2. TAKE r \in {n \in Radii : n < Apart(a, p)}
    <3>3. r \in Nat /\ r < Min(open)
      BY <1>2, <2>2, <2>5
    <3>4. ~(Min(open) <= r)
      BY <3>1, <3>3
    <3> QED BY <2>1, <3>4
  <2>7. \A r \in {0} \cup {n \in Radii : n < Apart(a, p)} : \A q \in Ring(a, r) :
          ~IsFree(q, w, h, rs)
    BY <1>3, <1>6, <2>6
  <2>8. p.x >= 0 /\ p.y >= 0
    BY <2>4 DEF IsFree
  <2> QED BY <2>4, <2>5, <2>7, <2>8, FreeIsClear DEF Clear, a, p
<1> QED BY <1>4, <1>5, <1>6

-----------------------------------------------------------------------------
(* The steps.                                                              *)

(* The layout is one of those to begin with until a tool has answered, and *)
(* these answers have no moves that would change it after.                 *)
Untouched ==
  /\ answer.tool = "none" => rects \in Patches
  /\ answer.tool \in {"none", "place", "validate"} => answer.moves = {}

(* What every step does to the tool that has answered.                     *)
LEMMA Answering ==
  ASSUME [Next]_vars
  PROVE  \/ \E g \in Groups, mode \in AlignModes :
              AlignObjects(g, mode) /\ answer'.tool = "align"
         \/ \E a, t \in Endpoints, adjust \in {"width", "left"} :
              SuggestAlignment(a, t, adjust) /\ answer'.tool = "suggest"
         \/ \E w, h \in Sizes, near \in NearPoints :
              /\ AvoidRectPosition(w, h, near)
              /\ answer'.tool = "place" /\ answer'.moves = {}
         \/ \E scope \in Scopes, eps \in Epsilons, checks \in CheckSets :
              /\ ValidateLayout(scope, eps, checks)
              /\ answer'.tool = "validate" /\ answer'.moves = {}
         \/ \E m \in answer.moves : ApplyMove(m) /\ answer'.tool = answer.tool
         \/ UNCHANGED vars
<1>1. ASSUME NEW g \in Groups, NEW mode \in AlignModes, AlignObjects(g, mode)
      PROVE  answer'.tool = "align"
  BY <1>1 DEF AlignObjects, Answer
<1>2. ASSUME NEW a, NEW t, NEW adjust, SuggestAlignment(a, t, adjust)
      PROVE  answer'.tool = "suggest"
  BY <1>2 DEF SuggestAlignment, Answer
<1>3. ASSUME NEW w, NEW h, NEW near, AvoidRectPosition(w, h, near)
      PROVE  answer'.tool = "place" /\ answer'.moves = {}
  BY <1>3 DEF AvoidRectPosition, Answer
<1>4. ASSUME NEW scope, NEW eps, NEW checks, ValidateLayout(scope, eps, checks)
      PROVE  answer'.tool = "validate" /\ answer'.moves = {}
  BY <1>4 DEF ValidateLayout, Answer
<1>5. ASSUME NEW m, ApplyMove(m)
      PROVE  answer'.tool = answer.tool
  BY <1>5 DEF ApplyMove
<1> QED BY <1>1, <1>2, <1>3, <1>4, <1>5 DEF Next

LEMMA NextUntouched ==
  ASSUME Untouched, [Next]_vars
  PROVE  Untouched'
<1>1. ASSUME NEW m \in answer.moves, ApplyMove(m), answer'.tool = answer.tool
      PROVE  Untouched'
  BY <1>1 DEF Untouched
<1>2. ASSUME UNCHANGED vars
      PROVE  Untouched'
  BY <1>2 DEF Untouched, vars
<1> QED BY <1>1, <1>2, Answering DEF Untouched

(* An answer of get_avoid_rect_position is given once, and nothing then    *)
(* changes the layout under it.                                            *)
PlacedInv == Untouched /\ PlacedIsClear

LEMMA NextPlaced ==
  ASSUME PlacedInv, [Next]_vars
  PROVE  PlacedInv'
<1>1. Untouched'
  BY NextUntouched DEF PlacedInv
<1>2. ASSUME answer'.tool # "place"
      PROVE  PlacedIsClear'
  BY <1>2 DEF PlacedIsClear
<1>3. ASSUME NEW w \in Sizes, NEW h \in Sizes, NEW near \in NearPoints,
             AvoidRectPosition(w, h, near)
      PROVE  PlacedIsClear'
  <2>1. /\ answer' = [tool |-> "place", about |-> <<w, h, near>>, ok |-> TRUE, moves |-> {},
                      told |-> {AvoidRect(RectsOf(rects), w, h, near)}]
        /\ rects' = rects /\ Layout(rects)
    BY <1>3, PatchesAssumption
       DEF AvoidRectPosition, Reads, Answer, RectsOf, Layout, PlacedInv, Untouched
  <2>2. w \in Nat /\ h \in Nat /\ \A p \in near : PointAt(p)
    BY SizesAssumption, NearAssumption DEF PointAt
  <2>3. Clear(rects, w, h, near, AvoidRect(RectsOf(rects), w, h, near))
    BY <2>1, <2>2, AvoidIsClear
  <2>4. \A p \in answer'.told : Clear(rects', w, h, near, p)
    BY <2>1, <2>3
  <2>5. answer'.about[1] = w /\ answer'.about[2] = h /\ answer'.about[3] = near
    BY <2>1
  <2> QED BY <2>4, <2>5 DEF PlacedIsClear, Clear, Apart, RectsOf
<1>4. ASSUME NEW m \in answer.moves, ApplyMove(m), answer'.tool = answer.tool
      PROVE  PlacedIsClear'
  BY <1>2, <1>4 DEF PlacedInv, Untouched
<1>5. ASSUME UNCHANGED vars
      PROVE  PlacedIsClear'
  BY <1>5 DEF PlacedInv, PlacedIsClear, vars
<1> QED BY <1>1, <1>2, <1>3, <1>4, <1>5, Answering DEF PlacedInv

(* get_avoid_rect_position: for any patch, size and point asked for, the   *)
(* position proposed is visible and keeps PLACE_GAP from every box, and no *)
(* grid point nearer to the one asked for, ring by ring, was free          *)
(* (find_avoid_rect_position).                                             *)
THEOREM PlacementClear == Spec => []PlacedIsClear
<1>1. Init => PlacedInv
  BY DEF Init, Answer, PlacedInv, PlacedIsClear, Untouched
<1>2. PlacedInv => PlacedIsClear
  BY DEF PlacedInv
<1> QED BY <1>1, <1>2, NextPlaced, PTL DEF Spec

-----------------------------------------------------------------------------
(* suggest_alignment.                                                      *)

NubOf(r, place, last) ==
  r.x + Inset + (IF last = 0 THEN 0 ELSE ((r.w - 2 * Inset) * place) \div last)

(* A nub, by its place among those drawn.                                  *)
LEMMA NubTypes ==
  ASSUME NEW f, Layout(f), NEW e \in Endpoints
  PROVE  /\ e.box \in Boxes /\ e.side \in {"inlet", "outlet"} /\ e.index \in 0..2
         /\ Count(e) \in Nat /\ Hidden(e.side, e.box \notin Undrawn) \in 0..1
         /\ DOMAIN Nubs(f, e) = Hidden(e.side, e.box \notin Undrawn)..Count(e) - 1
         /\ e.index \in DOMAIN Nubs(f, e) =>
              /\ NubPlace(e) \in Nat /\ LastNub(e) \in Nat /\ NubPlace(e) <= LastNub(e)
              /\ Nubs(f, e)[e.index]
                   = f[e.box].x + Inset
                       + (IF LastNub(e) = 0 THEN 0 ELSE ((f[e.box].w - 2 * Inset) * NubPlace(e)) \div LastNub(e))
              /\ Nubs(f, e)[e.index] \in Int
<1> DEFINE hidden == Hidden(e.side, e.box \notin Undrawn)
<1>1. e.box \in Boxes /\ e.side \in {"inlet", "outlet"} /\ e.index \in 0..2
  BY DEF Endpoints
<1>2. Count(e) \in Nat /\ hidden \in 0..1
  BY <1>1, CountsAssumption DEF Count, Hidden
<1>3. Nubs(f, e) = [i \in hidden..Count(e) - 1 |-> NubX(f[e.box], Count(e) - hidden, i - hidden)]
  BY DEF Nubs, NubPositions
<1>4. ASSUME e.index \in hidden..Count(e) - 1
      PROVE  /\ NubPlace(e) \in Nat /\ LastNub(e) \in Nat /\ NubPlace(e) <= LastNub(e)
             /\ Nubs(f, e)[e.index]
                   = f[e.box].x + Inset
                       + (IF LastNub(e) = 0 THEN 0 ELSE ((f[e.box].w - 2 * Inset) * NubPlace(e)) \div LastNub(e))
             /\ Nubs(f, e)[e.index] \in Int
  <2>1. NubPlace(e) = e.index - hidden /\ LastNub(e) = Count(e) - hidden - 1
    BY Zenon DEF NubPlace, LastNub
  <2> HIDE DEF hidden
  <2>2. NubPlace(e) \in Nat /\ LastNub(e) \in Nat /\ NubPlace(e) <= LastNub(e)
    BY <1>1, <1>2, <1>4, <2>1
  <2>3. Count(e) - hidden - 1 = LastNub(e) /\ (Count(e) - hidden = 1 <=> LastNub(e) = 0)
    BY <1>2, <2>1
  <2>4. Nubs(f, e)[e.index] = NubX(f[e.box], Count(e) - hidden, e.index - hidden)
    BY <1>3, <1>4
  <2>5. Nubs(f, e)[e.index]
          = f[e.box].x + Inset
              + (IF LastNub(e) = 0 THEN 0 ELSE ((f[e.box].w - 2 * Inset) * NubPlace(e)) \div LastNub(e))
    BY <2>1, <2>3, <2>4 DEF NubX
  <2>6. f[e.box].x \in Int /\ f[e.box].w \in Int /\ Inset \in Int
    BY <1>1, InsetAssumption DEF Layout, Rects
  <2>7. (f[e.box].w - 2 * Inset) * NubPlace(e) \in Int
    BY <2>2, <2>6
  <2>8. LastNub(e) # 0 => ((f[e.box].w - 2 * Inset) * NubPlace(e)) \div LastNub(e) \in Int
    BY <2>2, <2>7
  <2> QED BY <2>2, <2>5, <2>6, <2>8
<1> QED BY <1>1, <1>2, <1>3, <1>4

(* The rectangle that recommend_alignment_rect() solves for.               *)
Solved(f, anchor, target, adjust) ==
  NubAligned(f[target.box], Count(target), target.side, target.index, target.box \notin Undrawn,
             Nubs(f, anchor)[anchor.index], adjust)

LEMMA NubAt ==
  ASSUME NEW f, Layout(f), NEW e \in Endpoints, e.index \in DOMAIN Nubs(f, e)
  PROVE  /\ NubPlace(e) \in Nat /\ LastNub(e) \in Nat /\ NubPlace(e) <= LastNub(e)
         /\ Nubs(f, e)[e.index] = NubOf(f[e.box], NubPlace(e), LastNub(e))
         /\ Nubs(f, e)[e.index] \in Int
  BY NubTypes, Zenon DEF NubOf

LEMMA Changed ==
  ASSUME NEW q \in Rects, NEW n
  PROVE  /\ [q EXCEPT !.x = n] = Rect(n, q.y, q.w, q.h)
         /\ [q EXCEPT !.y = n] = Rect(q.x, n, q.w, q.h)
         /\ [q EXCEPT !.w = n] = Rect(q.x, q.y, n, q.h)
  BY DEF Rects, Rect

Moved(f, b, r) == [f EXCEPT ![b] = r]

LEMMA SolvedMeets ==
  ASSUME NEW f \in Patches, NEW a \in Endpoints, NEW t \in Endpoints, NEW adjust,
         a.index \in DOMAIN Nubs(f, a), NEW r \in Solved(f, a, t, adjust)
  PROVE  /\ r \in Rects /\ Layout(Moved(f, t.box, r))
         /\ Nubs(Moved(f, t.box, r), t)[t.index] = Nubs(f, a)[a.index]
<1> DEFINE g == Moved(f, t.box, r)
           x == Nubs(f, a)[a.index]
           hidden == Hidden(t.side, t.box \notin Undrawn)
           q == f[t.box]
<1>1. Layout(f)
  BY PatchesAssumption DEF Layout
<1>2. x \in Int /\ t.box \in Boxes /\ Count(t) \in Nat /\ hidden \in 0..1 /\ t.index \in 0..2
  BY <1>1, NubTypes
<1>3. q \in Rects
  BY <1>1, <1>2 DEF Layout
<1>4. NubPlace(t) = t.index - hidden /\ LastNub(t) = Count(t) - hidden - 1
  BY Zenon DEF NubPlace, LastNub
<1> DEFINE width == 2 * Inset + ((x - q.x - Inset) * LastNub(t)) \div NubPlace(t)
           left == x - Inset - (IF LastNub(t) = 0 THEN 0 ELSE ((q.w - 2 * Inset) * NubPlace(t)) \div LastNub(t))
<1>5. /\ t.index \in hidden..Count(t) - 1
      /\ \/ r = Rect(left, q.y, q.w, q.h)
         \/ NubPlace(t) > 0 /\ width > 0 /\ r = Rect(q.x, q.y, width, q.h)
  <2>1. Solved(f, a, t, adjust)
          = IF t.index \notin hidden..Count(t) - 1 THEN {}
            ELSE IF adjust = "left" THEN {[q EXCEPT !.x = left]}
            ELSE IF NubPlace(t) > 0 /\ width > 0 THEN {[q EXCEPT !.w = width]} ELSE {}
    BY <1>4, Zenon DEF Solved, NubAligned
  <2>2. Solved(f, a, t, adjust)
          = IF t.index \notin hidden..Count(t) - 1 THEN {}
            ELSE IF adjust = "left" THEN {Rect(left, q.y, q.w, q.h)}
            ELSE IF NubPlace(t) > 0 /\ width > 0 THEN {Rect(q.x, q.y, width, q.h)} ELSE {}
    BY <1>3, <2>1, Changed, Zenon
  <2> HIDE DEF left, width, hidden, q
  <2> QED BY <2>2
<1>6. /\ NubPlace(t) \in Nat /\ LastNub(t) \in Nat /\ NubPlace(t) <= LastNub(t)
      /\ t.index \in DOMAIN Nubs(f, t) /\ t.index \in DOMAIN Nubs(g, t)
  BY <1>1, <1>2, <1>4, <1>5, NubTypes DEF Nubs, NubPositions
<1>7. q.x \in Int /\ q.y \in Int /\ q.w \in Nat /\ q.h \in Nat /\ Inset \in Nat
  BY <1>3, InsetAssumption DEF Rects
<1>8. r \in Rects => Layout(g)
  BY <1>1, <1>2 DEF Layout, Moved
<1>9. g[t.box] = r
  BY <1>1, <1>2 DEF Layout, Moved
<1> HIDE DEF g
<1>10. ASSUME r \in Rects,
              NubOf(r, NubPlace(t), LastNub(t)) = x
       PROVE  r \in Rects /\ Layout(g) /\ Nubs(g, t)[t.index] = x
  <2>1. Layout(g)
    BY <1>10, <1>8
  <2>2. Nubs(g, t)[t.index] = NubOf(g[t.box], NubPlace(t), LastNub(t))
    BY <1>6, <2>1, NubAt
  <2> QED BY <1>9, <1>10, <2>1, <2>2
<1> HIDE DEF x, hidden, q
<1>11. CASE r = Rect(left, q.y, q.w, q.h)
  <2> DEFINE d == IF LastNub(t) = 0 THEN 0 ELSE ((q.w - 2 * Inset) * NubPlace(t)) \div LastNub(t)
  <2>1. (q.w - 2 * Inset) * NubPlace(t) \in Int
    BY <1>6, <1>7
  <2>2. d \in Int /\ left = x - Inset - d
    BY <1>6, <2>1
  <2> HIDE DEF d, left
  <2>3. r = [x |-> left, y |-> q.y, w |-> q.w, h |-> q.h]
    BY <1>11 DEF Rect
  <2>4. r \in Rects /\ r.x + Inset + d = x
    BY <1>2, <1>7, <2>2, <2>3 DEF Rects
  <2>5. r.w = q.w
    BY <2>3
  <2>6. NubOf(r, NubPlace(t), LastNub(t)) = x
    BY <2>4, <2>5 DEF d, NubOf
  <2> QED BY <1>10, <2>4, <2>6 DEF x, g
<1>12. CASE NubPlace(t) > 0 /\ width > 0 /\ r = Rect(q.x, q.y, width, q.h)
  <2> DEFINE D == x - q.x - Inset
             k == (D * LastNub(t)) \div NubPlace(t)
  <2>1. D \in Int /\ D * LastNub(t) \in Int
    BY <1>2, <1>6, <1>7
  <2>2. (D * LastNub(t)) % NubPlace(t) = 0
    BY <1>6, <1>12, WidthsAssumption DEF x, q
  <2>3. width = 2 * Inset + k
    OBVIOUS
  <2> HIDE DEF D, width
  <2>4. k \in Int /\ k * NubPlace(t) = D * LastNub(t)
    BY <1>6, <1>12, <2>1, <2>2
  <2> HIDE DEF k
  <2>5. LastNub(t) # 0 /\ LastNub(t) \in Nat
    BY <1>6, <1>12
  <2>6. (LastNub(t) * D) \div LastNub(t) = D
    BY <2>1, <2>5
  <2>7. width - 2 * Inset = k
    BY <1>7, <2>3, <2>4
  <2>8. (k * NubPlace(t)) \div LastNub(t) = D
    BY <2>1, <2>4, <2>5, <2>6
  <2>9. r = [x |-> q.x, y |-> q.y, w |-> width, h |-> q.h]
    BY <1>12 DEF Rect
  <2>10. r \in Rects
    BY <1>7, <1>12, <2>3, <2>4, <2>9 DEF Rects
  <2>11. q.x + Inset + D = x
    BY <1>2, <1>7 DEF D
  <2>12. r.x = q.x /\ r.w = width
    BY <2>9
  <2>13. NubOf(r, NubPlace(t), LastNub(t)) = x
    BY <2>5, <2>7, <2>8, <2>11, <2>12 DEF NubOf
  <2> QED BY <1>10, <2>10, <2>13 DEF x, g
<1> HIDE DEF left, width
<1> QED BY <1>5, <1>11, <1>12 DEF x, g

LEMMA SolvedOnce ==
  ASSUME NEW f, NEW a, NEW t, NEW adjust, NEW r \in Solved(f, a, t, adjust)
  PROVE  Solved(f, a, t, adjust) = {r}
<1> DEFINE q == f[t.box]
           hidden == Hidden(t.side, t.box \notin Undrawn)
           i == t.index - hidden
           steps == Count(t) - hidden - 1
           x == Nubs(f, a)[a.index]
           left == [q EXCEPT !.x = x - Inset -
                      (IF steps = 0 THEN 0 ELSE ((q.w - 2 * Inset) * i) \div steps)]
           width == [q EXCEPT !.w = 2 * Inset + ((x - q.x - Inset) * steps) \div i]
<1>1. Solved(f, a, t, adjust)
        = IF t.index \notin hidden..Count(t) - 1 THEN {}
          ELSE IF adjust = "left" THEN {left}
          ELSE IF i > 0 /\ 2 * Inset + ((x - q.x - Inset) * steps) \div i > 0 THEN {width} ELSE {}
  BY Zenon DEF Solved, NubAligned
<1> HIDE DEF left, width, hidden, q, i, steps, x
<1> QED BY <1>1

(* What stands of a suggestion: the layout it was made for, and its one    *)
(* move, not applied yet or applied.                                       *)
Suggested ==
  answer.tool = "suggest" =>
    \/ ~answer.ok /\ answer.moves = {}
    \/ \E f \in Patches, a, t \in Endpoints, adjust \in {"width", "left"} :
         \E r \in Solved(f, a, t, adjust) :
           /\ answer.about = <<a, t>> /\ a.index \in DOMAIN Nubs(f, a)
           /\ \/ answer.moves = {[box |-> t.box, rect |-> r]} /\ rects = f
              \/ answer.moves = {} /\ rects = [f EXCEPT ![t.box] = r]
SuggestedInv == Untouched /\ Suggested

LEMMA NextSuggested ==
  ASSUME SuggestedInv, [Next]_vars
  PROVE  SuggestedInv'
<1>1. ASSUME answer'.tool # "suggest"
      PROVE  Suggested'
  BY <1>1 DEF Suggested
<1>2. ASSUME NEW a \in Endpoints, NEW t \in Endpoints, NEW adjust \in {"width", "left"},
             SuggestAlignment(a, t, adjust)
      PROVE  Suggested'
  <2>1. rects \in Patches /\ rects' = rects
    BY <1>2 DEF SuggestAlignment, Reads, SuggestedInv, Untouched
  <2> DEFINE solved == IF a.index \in DOMAIN Nubs(rects, a) THEN Solved(rects, a, t, adjust) ELSE {}
  <2>2. /\ answer'.ok = (solved # {}) /\ answer'.about = <<a, t>>
        /\ answer'.moves = {[box |-> t.box, rect |-> r] : r \in solved}
    BY <1>2 DEF SuggestAlignment, Answer, Solved
  <2>3. CASE solved = {}
    BY <2>2, <2>3 DEF Suggested
  <2>4. CASE solved # {}
    <3>1. PICK r \in solved : TRUE
      BY <2>4
    <3>2. a.index \in DOMAIN Nubs(rects, a) /\ r \in Solved(rects, a, t, adjust)
      BY <3>1
    <3>3. solved = {r}
      BY <3>2, SolvedOnce
    <3> HIDE DEF solved
    <3>4. answer'.moves = {[box |-> t.box, rect |-> r]}
      BY <2>2, <3>3
    <3> QED BY <2>1, <2>2, <3>2, <3>4 DEF Suggested
  <2> QED BY <2>3, <2>4
<1>3. ASSUME NEW m \in answer.moves, ApplyMove(m), answer'.tool = answer.tool
      PROVE  Suggested'
  <2>1. answer' = [answer EXCEPT !.moves = @ \ {m}] /\ rects' = [rects EXCEPT ![m.box] = m.rect]
    BY <1>3 DEF ApplyMove
  <2>2. SUFFICES ASSUME answer.tool = "suggest" PROVE Suggested'
    BY <1>1, <1>3
  <2>3. PICK f \in Patches, a \in Endpoints, t \in Endpoints, adjust \in {"width", "left"} :
         \E r \in Solved(f, a, t, adjust) :
           /\ answer.about = <<a, t>> /\ a.index \in DOMAIN Nubs(f, a)
           /\ answer.moves = {[box |-> t.box, rect |-> r]} /\ rects = f
    BY <2>2 DEF SuggestedInv, Suggested
  <2>4. PICK r \in Solved(f, a, t, adjust) :
           /\ answer.about = <<a, t>> /\ a.index \in DOMAIN Nubs(f, a)
           /\ answer.moves = {[box |-> t.box, rect |-> r]} /\ rects = f
    BY <2>3
  <2>5. m.box = t.box /\ m.rect = r
    BY <2>4
  <2>6. answer'.about = <<a, t>> /\ answer'.moves = {} /\ rects' = [f EXCEPT ![t.box] = r]
    BY <2>1, <2>4, <2>5
  <2> QED BY <2>4, <2>6 DEF Suggested
<1>4. ASSUME UNCHANGED vars
      PROVE  Suggested'
  BY <1>4 DEF SuggestedInv, Suggested, vars
<1> QED BY <1>1, <1>2, <1>3, <1>4, Answering, NextUntouched DEF SuggestedInv

LEMMA SuggestedMeet == SuggestedInv => NubsMeet
<1> SUFFICES ASSUME SuggestedInv, CarriedOut("suggest"),
                    answer.about[1].box # answer.about[2].box
             PROVE  Nubs(rects, answer.about[2])[answer.about[2].index]
                      = Nubs(rects, answer.about[1])[answer.about[1].index]
  BY DEF NubsMeet
<1>1. answer.tool = "suggest" /\ answer.ok /\ answer.moves = {} /\ \A v : {v} # {}
  BY DEF CarriedOut
<1>5. PICK f \in Patches, a \in Endpoints, t \in Endpoints, adjust \in {"width", "left"} :
       \E r \in Solved(f, a, t, adjust) :
         /\ answer.about = <<a, t>> /\ a.index \in DOMAIN Nubs(f, a)
         /\ \/ answer.moves = {[box |-> t.box, rect |-> r]} /\ rects = f
            \/ answer.moves = {} /\ rects = [f EXCEPT ![t.box] = r]
  BY <1>1 DEF SuggestedInv, Suggested
<1>6. PICK r \in Solved(f, a, t, adjust) :
         /\ answer.about = <<a, t>> /\ a.index \in DOMAIN Nubs(f, a)
         /\ \/ answer.moves = {[box |-> t.box, rect |-> r]} /\ rects = f
            \/ answer.moves = {} /\ rects = [f EXCEPT ![t.box] = r]
  BY <1>5
<1>2. /\ answer.about = <<a, t>> /\ a.index \in DOMAIN Nubs(f, a)
      /\ rects = [f EXCEPT ![t.box] = r]
  BY <1>1, <1>6
<1>3. Nubs(rects, t)[t.index] = Nubs(f, a)[a.index]
  <2>1. rects = Moved(f, t.box, r)
    BY <1>2 DEF Moved
  <2>2. Nubs(Moved(f, t.box, r), t)[t.index] = Nubs(f, a)[a.index]
    BY <1>2, <1>5, <1>6, SolvedMeets
  <2> QED BY <2>1, <2>2
<1>4. a.box # t.box /\ a.box \in Boxes /\ f \in [Boxes -> Rects]
  BY <1>2, PatchesAssumption DEF Endpoints
<1>7. rects[a.box] = f[a.box]
  BY <1>2, <1>4
<1>8. Nubs(rects, a) = Nubs(f, a)
  BY <1>7 DEF Nubs
<1> QED BY <1>2, <1>3, <1>8

(* suggest_alignment: for any patch whose coordinates are fine enough for  *)
(* the widths solved for, the suggestion carried out brings the nub of the *)
(* target to that of the anchor (recommend_alignment_rect).                *)
THEOREM SuggestionsMeet == Spec => []NubsMeet
<1>1. Init => SuggestedInv
  BY DEF Init, Answer, SuggestedInv, Suggested, Untouched
<1>2. SuggestedInv /\ [Next]_vars => SuggestedInv'
  BY NextSuggested
<1> QED BY <1>1, <1>2, SuggestedMeet, PTL DEF Spec

-----------------------------------------------------------------------------
(* Boxes that overlap, and cells they share.                               *)
LEMMA SharedRun ==
  ASSUME NEW i \in Int, NEW n \in Nat, n > 0, NEW j \in Int, NEW m \in Nat, m > 0,
         NEW eps \in Nat
  PROVE  ShareMoreThan(eps, i, n, j, m)
           <=> i + n > j + eps /\ j + m > i + eps /\ n > eps /\ m > eps
<1>1. ASSUME NEW k \in i..i + n - 1, k..k + eps \subseteq (i..i + n - 1) \cap (j..j + m - 1)
      PROVE  i + n > j + eps /\ j + m > i + eps /\ n > eps /\ m > eps
  <2>1. k \in Int /\ k \in k..k + eps /\ k + eps \in k..k + eps
    OBVIOUS
  <2>2. /\ k >= i /\ k >= j
        /\ k + eps <= i + n - 1 /\ k + eps <= j + m - 1
    BY <1>1, <2>1
  <2> QED BY <2>1, <2>2
<1>2. ASSUME i + n > j + eps, j + m > i + eps, n > eps, m > eps
      PROVE  \E k \in i..i + n - 1 : k..k + eps \subseteq (i..i + n - 1) \cap (j..j + m - 1)
  <2>1. CASE i >= j
    <3>1. \A c \in i..i + eps : c \in i..i + n - 1 /\ c \in j..j + m - 1
      BY <1>2, <2>1
    <3>2. i \in i..i + n - 1
      OBVIOUS
    <3> QED BY <3>1, <3>2
  <2>2. CASE j > i
    <3>1. \A c \in j..j + eps : c \in i..i + n - 1 /\ c \in j..j + m - 1
      BY <1>2, <2>2
    <3>2. j \in i..i + n - 1
      BY <1>2, <2>2
    <3> QED BY <3>1, <3>2
  <2>3. i >= j \/ j > i
    OBVIOUS
  <2> QED BY <2>1, <2>2, <2>3, Zenon
<1> QED BY <1>1, <1>2 DEF ShareMoreThan

Drawn(r) == r \in Rects /\ r.w > 0 /\ r.h > 0

(* Boxes that share more than eps are apart by less on no edge; and edges  *)
(* that reach past each other by more than eps bound a run of that length  *)
(* if both boxes are as long.                                              *)
LEMMA OverlapRuns ==
  ASSUME NEW a, Drawn(a), NEW b, Drawn(b), NEW eps \in Nat
  PROVE  /\ Overlapping(a, b, eps) => Overlap(a, b, eps)
         /\ Overlap(a, b, eps) =>
              Overlapping(a, b, IF Thicker(a, eps) /\ Thicker(b, eps) THEN eps ELSE 0)
         /\ Overlap(a, b, eps) <=> Overlap(b, a, eps)
<1>1. /\ a.x \in Int /\ a.y \in Int /\ a.w \in Nat /\ a.h \in Nat /\ a.w > 0 /\ a.h > 0
      /\ b.x \in Int /\ b.y \in Int /\ b.w \in Nat /\ b.h \in Nat /\ b.w > 0 /\ b.h > 0
  BY DEF Drawn, Rects
<1>2. Overlap(a, b, eps) <=> /\ a.x + a.w > b.x + eps /\ b.x + b.w > a.x + eps
                             /\ a.y + a.h > b.y + eps /\ b.y + b.h > a.y + eps
  BY <1>1 DEF Overlap, Right, Bottom
<1>3. ASSUME NEW e \in Nat
      PROVE  Overlapping(a, b, e)
               <=> /\ a.x + a.w > b.x + e /\ b.x + b.w > a.x + e /\ a.w > e /\ b.w > e
                   /\ a.y + a.h > b.y + e /\ b.y + b.h > a.y + e /\ a.h > e /\ b.h > e
  <2>1. ShareMoreThan(e, a.x, a.w, b.x, b.w)
          <=> a.x + a.w > b.x + e /\ b.x + b.w > a.x + e /\ a.w > e /\ b.w > e
    BY <1>1, SharedRun
  <2>2. ShareMoreThan(e, a.y, a.h, b.y, b.h)
          <=> a.y + a.h > b.y + e /\ b.y + b.h > a.y + e /\ a.h > e /\ b.h > e
    BY <1>1, SharedRun
  <2> QED BY <2>1, <2>2 DEF Overlapping
<1>4. Overlapping(a, b, eps) => Overlap(a, b, eps)
  BY <1>2, <1>3
<1>5. ASSUME Overlap(a, b, eps), Thicker(a, eps), Thicker(b, eps)
      PROVE  Overlapping(a, b, eps)
  BY <1>2, <1>3, <1>5 DEF Thicker
<1>6. ASSUME Overlap(a, b, eps)
      PROVE  Overlapping(a, b, 0)
  <2>1. Overlapping(a, b, 0)
          <=> /\ a.x + a.w > b.x + 0 /\ b.x + b.w > a.x + 0 /\ a.w > 0 /\ b.w > 0
              /\ a.y + a.h > b.y + 0 /\ b.y + b.h > a.y + 0 /\ a.h > 0 /\ b.h > 0
    BY <1>3
  <2> QED BY <1>1, <1>2, <1>6, <2>1
<1>7. Overlap(a, b, eps) <=> Overlap(b, a, eps)
  BY <1>1 DEF Overlap, Right, Bottom
<1> QED BY <1>4, <1>5, <1>6, <1>7

LEMMA OverlapsAre ==
  ASSUME NEW scope, NEW eps \in Nat, NEW a \in Objects(scope), NEW b \in Objects(scope), a # b,
         Drawn(rects[a]), Drawn(rects[b])
  PROVE  {a, b} \in Overlaps(scope, eps) <=> Overlap(rects[a], rects[b], eps)
<1>1. Cardinality({a, b}) = 2
  <2>1. IsFiniteSet({a}) /\ Cardinality({a}) = 1
    BY FS_Singleton
  <2>2. Cardinality({a} \cup {b}) = Cardinality({a}) + 1
    BY <2>1, FS_AddElement
  <2>3. {a} \cup {b} = {a, b}
    OBVIOUS
  <2> QED BY <2>1, <2>2, <2>3
<1>2. {a, b} \in Pairs(Objects(scope))
  BY <1>1 DEF Pairs
<1>3. (\A c, d \in {a, b} : c # d => Overlap(rects[c], rects[d], eps))
         <=> Overlap(rects[a], rects[b], eps) /\ Overlap(rects[b], rects[a], eps)
  OBVIOUS
<1>4. {a, b} \in Overlaps(scope, eps) <=> Overlap(rects[a], rects[b], eps)
  BY <1>2, <1>3, OverlapRuns DEF Overlaps
<1> QED BY <1>4

-----------------------------------------------------------------------------
(* Segments that cross a rectangle.  At step k of N along the segment, the *)
(* slab of the edge j is not left when k * P[j] <= Q[j] * N.               *)
Segment(s) == PointAt(s.a) /\ PointAt(s.b)
P(s) == << -Dx(s), Dx(s), -Dy(s), Dy(s) >>
Q(s, r) == << s.a.x - r.x, Right(r) - s.a.x, s.a.y - r.y, Bottom(r) - s.a.y >>
At(s, r, k) == IF P(s)[k] < 0 THEN (-Q(s, r)[k]) * (Steps(s) \div (-P(s)[k]))
                              ELSE Q(s, r)[k] * (Steps(s) \div P(s)[k])
Enter(s, r) == Max({0} \cup {At(s, r, k) : k \in {j \in 1..4 : P(s)[j] < 0}})
Leave(s, r) == Min({Steps(s)} \cup {At(s, r, k) : k \in {j \in 1..4 : P(s)[j] > 0}})
Beside(s, r) == \A k \in 1..4 : P(s)[k] = 0 => Q(s, r)[k] >= 0

LEMMA CrossesAt ==
  ASSUME NEW s, NEW r, NEW eps
  PROVE  Crosses(s, r, eps) <=> /\ Beside(s, r) /\ Enter(s, r) <= Leave(s, r)
                                /\ LongerThan(s, Leave(s, r) - Enter(s, r), eps)
  BY Zenon DEF Crosses, Beside, Enter, Leave, At, P, Q

(* The steps of a segment divide evenly on each axis that it leaves.       *)
LEMMA StepCount ==
  ASSUME NEW s, Segment(s)
  PROVE  /\ Dx(s) \in Int /\ Dy(s) \in Int /\ Steps(s) \in Nat /\ Steps(s) > 0
         /\ \E m \in Nat : m > 0 /\ (Dx(s) # 0 => Steps(s) = Abs(Dx(s)) * m)
         /\ \E m \in Nat : m > 0 /\ (Dy(s) # 0 => Steps(s) = Abs(Dy(s)) * m)
<1> DEFINE u == IF Dx(s) = 0 THEN 1 ELSE Abs(Dx(s))
           v == IF Dy(s) = 0 THEN 1 ELSE Abs(Dy(s))
<1>1. Dx(s) \in Int /\ Dy(s) \in Int
  BY DEF Segment, PointAt, Dx, Dy
<1>2. u \in Nat /\ u > 0 /\ v \in Nat /\ v > 0
  BY <1>1 DEF Abs
<1>3. Steps(s) = u * v
  BY DEF Steps
<1>4. (Dx(s) # 0 => u = Abs(Dx(s))) /\ (Dy(s) # 0 => v = Abs(Dy(s)))
  OBVIOUS
<1> HIDE DEF u, v
<1>5. u * v \in Nat /\ u * v > 0 /\ u * v = v * u
  BY <1>2
<1> QED BY <1>1, <1>2, <1>3, <1>4, <1>5

(* One edge is crossed at one step, on a multiple of 1/N.                  *)
LEMMA OneEdge ==
  ASSUME NEW p \in Int, NEW q \in Int, NEW N \in Nat, N > 0, NEW k \in Int,
         NEW m \in Nat, m > 0, p # 0 => N = Abs(p) * m
  PROVE  /\ p < 0 => (-q) * (N \div (-p)) \in Int
         /\ p > 0 => q * (N \div p) \in Int
         /\ k * p <= q * N <=> \/ p < 0 /\ k >= (-q) * (N \div (-p))
                               \/ p > 0 /\ k <= q * (N \div p)
                               \/ p = 0 /\ q >= 0
<1>1. CASE p = 0
  <2>1. q * N >= 0 <=> q >= 0
    OBVIOUS
  <2> QED BY <1>1, <2>1
<1>2. ASSUME NEW n \in Nat, n > 0, N = n * m, NEW i \in Int
      PROVE  /\ N \div n = m /\ q * m \in Int
             /\ n * i <= q * N <=> i <= q * m
  <2>1. N \div n = m
    BY <1>2
  <2>2. q * N = n * (q * m)
    BY <1>2
  <2>3. q * m \in Int
    OBVIOUS
  <2> DEFINE j == q * m
  <2>4. j \in Int
    BY <2>3
  <2>5. q * N = n * j
    BY <2>2
  <2> HIDE DEF j
  <2>6. n * i <= n * j <=> i <= j
    BY <1>2, <2>4
  <2> QED BY <2>1, <2>3, <2>5, <2>6 DEF j
<1>3. CASE p > 0
  <2>1. N = p * m /\ p \in Nat
    BY <1>3 DEF Abs
  <2>2. N \div p = m /\ q * m \in Int /\ (p * k <= q * N <=> k <= q * m)
    BY <1>2, <1>3, <2>1
  <2>3. k * p = p * k
    OBVIOUS
  <2> QED BY <1>3, <2>2, <2>3
<1>4. CASE p < 0
  <2>1. N = (-p) * m /\ -p \in Nat /\ -p > 0 /\ -k \in Int
    BY <1>4 DEF Abs
  <2>2. N \div (-p) = m /\ q * m \in Int /\ ((-p) * (-k) <= q * N <=> -k <= q * m)
    BY <1>2, <2>1
  <2>3. k * p = (-p) * (-k)
    OBVIOUS
  <2>4. (-q) * m = -(q * m)
    OBVIOUS
  <2>5. -k <= q * m <=> k >= -(q * m)
    BY <2>2
  <2>6. k * p <= q * N <=> k >= (-q) * m
    BY <2>2, <2>3, <2>4, <2>5
  <2> QED BY <1>4, <2>2, <2>4, <2>6
<1> QED BY <1>1, <1>3, <1>4

LEMMA EdgesOf ==
  ASSUME NEW s, Segment(s), NEW r \in Rects, NEW j \in 1..4
  PROVE  /\ P(s)[j] \in Int /\ Q(s, r)[j] \in Int
         /\ \E m \in Nat : m > 0 /\ (P(s)[j] # 0 => Steps(s) = Abs(P(s)[j]) * m)
<1>1. /\ P(s)[1] = -Dx(s) /\ P(s)[2] = Dx(s) /\ P(s)[3] = -Dy(s) /\ P(s)[4] = Dy(s)
      /\ Q(s, r)[1] = s.a.x - r.x /\ Q(s, r)[2] = Right(r) - s.a.x
      /\ Q(s, r)[3] = s.a.y - r.y /\ Q(s, r)[4] = Bottom(r) - s.a.y
  BY DEF P, Q
<1>2. \A n \in Int : Abs(-n) = Abs(n)
  BY DEF Abs
<1>3. /\ s.a.x \in Int /\ s.a.y \in Int
      /\ r.x \in Int /\ r.y \in Int /\ Right(r) \in Int /\ Bottom(r) \in Int
  BY DEF Segment, PointAt, Rects, Right, Bottom
<1>4. j = 1 \/ j = 2 \/ j = 3 \/ j = 4
  OBVIOUS
<1>5. Dx(s) \in Int /\ Dy(s) \in Int
  BY StepCount
<1>6. \E m \in Nat : m > 0 /\ (P(s)[j] # 0 => Steps(s) = Abs(P(s)[j]) * m)
  <2>1. PICK m \in Nat : m > 0 /\ (Dx(s) # 0 => Steps(s) = Abs(Dx(s)) * m)
    BY StepCount
  <2>2. PICK n \in Nat : n > 0 /\ (Dy(s) # 0 => Steps(s) = Abs(Dy(s)) * n)
    BY StepCount
  <2>3. CASE j \in {1, 2}
    <3>1. Abs(P(s)[j]) = Abs(Dx(s)) /\ (P(s)[j] # 0 => Dx(s) # 0)
      BY <1>1, <1>2, <1>5, <2>3
    <3> QED BY <2>1, <3>1
  <2>4. CASE j \in {3, 4}
    <3>1. Abs(P(s)[j]) = Abs(Dy(s)) /\ (P(s)[j] # 0 => Dy(s) # 0)
      BY <1>1, <1>2, <1>5, <2>4
    <3> QED BY <2>2, <3>1
  <2> QED BY <1>4, <2>3, <2>4
<1> QED BY <1>1, <1>3, <1>4, <1>5, <1>6

(* A step within the rectangle is within each of the four slabs.           *)
LEMMA InsideAt ==
  ASSUME NEW s, Segment(s), NEW r \in Rects, NEW k \in 0..Steps(s)
  PROVE  k \in StepsInside(s, r) <=> \A j \in 1..4 : k * P(s)[j] <= Q(s, r)[j] * Steps(s)
<1> DEFINE N == Steps(s)
           dx == Dx(s)
           dy == Dy(s)
<1>1. N \in Nat /\ dx \in Int /\ dy \in Int /\ k \in Int
  BY StepCount
<1>2. /\ s.a.x \in Int /\ s.a.y \in Int
      /\ r.x \in Int /\ r.y \in Int /\ Right(r) \in Int /\ Bottom(r) \in Int
  BY DEF Segment, PointAt, Rects, Right, Bottom
<1>3. (\A j \in 1..4 : k * P(s)[j] <= Q(s, r)[j] * N)
        <=> /\ k * (-dx) <= (s.a.x - r.x) * N /\ k * dx <= (Right(r) - s.a.x) * N
            /\ k * (-dy) <= (s.a.y - r.y) * N /\ k * dy <= (Bottom(r) - s.a.y) * N
  <2>1. /\ P(s)[1] = -dx /\ P(s)[2] = dx /\ P(s)[3] = -dy /\ P(s)[4] = dy
        /\ Q(s, r)[1] = s.a.x - r.x /\ Q(s, r)[2] = Right(r) - s.a.x
        /\ Q(s, r)[3] = s.a.y - r.y /\ Q(s, r)[4] = Bottom(r) - s.a.y
    BY DEF P, Q
  <2>2. \A j \in 1..4 : j = 1 \/ j = 2 \/ j = 3 \/ j = 4
    OBVIOUS
  <2> HIDE DEF N, dx, dy
  <2> QED BY <2>1, <2>2
<1>4. k \in StepsInside(s, r)
        <=> /\ s.a.x * N + k * dx \in r.x * N..Right(r) * N
            /\ s.a.y * N + k * dy \in r.y * N..Bottom(r) * N
  BY DEF StepsInside
<1> HIDE DEF N, dx, dy
<1>5. ASSUME NEW a \in Int, NEW d \in Int, NEW lo \in Int, NEW hi \in Int
      PROVE  a * N + k * d \in lo * N..hi * N
               <=> k * (-d) <= (a - lo) * N /\ k * d <= (hi - a) * N
  <2>1. k * (-d) = -(k * d) /\ (a - lo) * N = a * N - lo * N /\ (hi - a) * N = hi * N - a * N
    BY <1>1
  <2>2. a * N \in Int /\ k * d \in Int /\ lo * N \in Int /\ hi * N \in Int
    BY <1>1
  <2> QED BY <2>1, <2>2
<1>6. k \in StepsInside(s, r)
        <=> /\ k * (-dx) <= (s.a.x - r.x) * N /\ k * dx <= (Right(r) - s.a.x) * N
            /\ k * (-dy) <= (s.a.y - r.y) * N /\ k * dy <= (Bottom(r) - s.a.y) * N
  BY <1>1, <1>2, <1>4, <1>5
<1> QED BY <1>3, <1>6 DEF N

LEMMA FourFinite == IsFiniteSet(0..4)
<1>1. \A i, j \in Int : IsFiniteSet(i..j)
  BY FS_Interval
<1>2. 0 \in Int /\ 4 \in Int
  OBVIOUS
<1> QED BY <1>1, <1>2, Zenon

(* The greatest, and the least, of a number and some of four others.       *)
LEMMA GreatestAmong ==
  ASSUME NEW K \in SUBSET (1..4), NEW f \in [K -> Int], NEW n \in Int,
         NEW S, S = {n} \cup {f[j] : j \in K}
  PROVE  /\ Max(S) \in Int /\ Max(S) >= n
         /\ \A k \in Int : k >= Max(S) <=> k >= n /\ \A j \in K : k >= f[j]
<1> DEFINE F == [j \in 0..4 |-> IF j \in K THEN f[j] ELSE n]
           X == {0} \cup K
<1>1. F \in [0..4 -> Int] /\ X \in SUBSET (0..4) /\ X # {}
  OBVIOUS
<1>2. F[0] = n /\ 0 \in X /\ \A j \in K : F[j] = f[j] /\ j \in X
  OBVIOUS
<1>3. \A j \in X : F[j] \in Int /\ (F[j] = n \/ j \in K)
  OBVIOUS
<1> HIDE DEF F, X
<1>4. PICK m \in X : \A c \in X : F[c] <= F[m]
  BY <1>1, FourFinite, GreatestOf
<1>5. F[m] \in S /\ \A e \in S : F[m] >= e
  BY <1>2, <1>3, <1>4
<1>6. Max(S) \in S /\ \A e \in S : Max(S) >= e
  BY <1>5 DEF Max
<1>7. S \subseteq Int /\ n \in S /\ \A j \in K : f[j] \in S
  OBVIOUS
<1>8. ASSUME NEW k \in Int
      PROVE  k >= Max(S) <=> k >= n /\ \A j \in K : k >= f[j]
  <2> DEFINE g == Max(S)
  <2>1. g \in S /\ \A e \in S : g >= e
    BY <1>6
  <2> HIDE DEF g
  <2>2. g = n \/ \E j \in K : g = f[j]
    BY <2>1
  <2>3. g \in Int /\ g >= n /\ \A j \in K : f[j] \in Int /\ g >= f[j]
    BY <1>7, <2>1
  <2>4. k >= g <=> k >= n /\ \A j \in K : k >= f[j]
    BY <2>2, <2>3
  <2> QED BY <2>4 DEF g
<1> QED BY <1>6, <1>7, <1>8

LeastIs(l, n, K, f) ==
  /\ l \in Int /\ l <= n
  /\ \A k \in Int : k <= l <=> k <= n /\ \A j \in K : k <= f[j]

LEMMA LeastAmong ==
  ASSUME NEW K \in SUBSET (1..4), NEW f \in [K -> Int], NEW n \in Int,
         NEW S, S = {n} \cup {f[j] : j \in K}
  PROVE  LeastIs(Min(S), n, K, f)
<1> DEFINE F == [j \in 0..4 |-> IF j \in K THEN -f[j] ELSE -n]
           X == {0} \cup K
<1>1. F \in [0..4 -> Int] /\ X \in SUBSET (0..4) /\ X # {}
  OBVIOUS
<1>2. F[0] = -n /\ 0 \in X /\ \A j \in K : F[j] = -f[j] /\ j \in X
  OBVIOUS
<1>3. \A j \in X : F[j] \in Int /\ -F[j] \in S
  OBVIOUS
<1>9. \A e \in S : \E j \in X : e = -F[j]
  OBVIOUS
<1> HIDE DEF F, X
<1>4. PICK m \in X : \A c \in X : F[c] <= F[m]
  BY <1>1, FourFinite, GreatestOf
<1>5. -F[m] \in S /\ \A e \in S : -F[m] <= e
  <2>1. -F[m] \in S
    BY <1>3
  <2> SUFFICES ASSUME NEW e \in S PROVE -F[m] <= e
    BY <2>1
  <2>2. PICK j \in X : e = -F[j]
    BY <1>9
  <2>3. F[j] \in Int /\ F[m] \in Int /\ F[j] <= F[m]
    BY <1>3, <1>4
  <2> QED BY <2>2, <2>3
<1>6. Min(S) \in S /\ \A e \in S : Min(S) <= e
  BY <1>5 DEF Min
<1>7. S \subseteq Int /\ n \in S /\ \A j \in K : f[j] \in S
  OBVIOUS
<1>8. ASSUME NEW k \in Int
      PROVE  k <= Min(S) <=> k <= n /\ \A j \in K : k <= f[j]
  <2> DEFINE g == Min(S)
  <2>1. g \in S /\ \A e \in S : g <= e
    BY <1>6
  <2> HIDE DEF g
  <2>2. g = n \/ \E j \in K : g = f[j]
    BY <2>1
  <2>3. g \in Int /\ g <= n /\ \A j \in K : f[j] \in Int /\ g <= f[j]
    BY <1>7, <2>1
  <2>4. k <= g <=> k <= n /\ \A j \in K : k <= f[j]
    BY <2>2, <2>3
  <2> QED BY <2>4 DEF g
<1> QED BY <1>6, <1>7, <1>8 DEF LeastIs

LEMMA EnterLeave ==
  ASSUME NEW s, Segment(s), NEW r \in Rects
  PROVE  /\ Enter(s, r) \in Nat /\ Leave(s, r) \in Int /\ Leave(s, r) <= Steps(s)
         /\ \A k \in 0..Steps(s) :
              /\ k >= Enter(s, r) <=> \A j \in 1..4 : P(s)[j] < 0 => k >= At(s, r, j)
              /\ k <= Leave(s, r) <=> \A j \in 1..4 : P(s)[j] > 0 => k <= At(s, r, j)
<1> DEFINE I == {j \in 1..4 : P(s)[j] < 0}
           O == {j \in 1..4 : P(s)[j] > 0}
           f == [j \in I |-> At(s, r, j)]
           g == [j \in O |-> At(s, r, j)]
<1>1. \A j \in 1..4 : P(s)[j] < 0 \/ P(s)[j] > 0 => At(s, r, j) \in Int
  <2>1. TAKE j \in 1..4
  <2>2. P(s)[j] \in Int /\ Q(s, r)[j] \in Int
    BY EdgesOf
  <2>3. PICK m \in Nat : m > 0 /\ (P(s)[j] # 0 => Steps(s) = Abs(P(s)[j]) * m)
    BY EdgesOf
  <2>4. Steps(s) \in Nat /\ Steps(s) > 0
    BY StepCount
  <2>5. /\ P(s)[j] < 0 => (-Q(s, r)[j]) * (Steps(s) \div (-P(s)[j])) \in Int
        /\ P(s)[j] > 0 => Q(s, r)[j] * (Steps(s) \div P(s)[j]) \in Int
    BY <2>2, <2>3, <2>4, OneEdge
  <2> QED BY <2>2, <2>5 DEF At
<1>2. Steps(s) \in Nat /\ Steps(s) \in Int
  BY StepCount
<1>3. I \in SUBSET (1..4) /\ f \in [I -> Int] /\ \A j \in I : f[j] = At(s, r, j)
  BY <1>1
<1>4. O \in SUBSET (1..4) /\ g \in [O -> Int] /\ \A j \in O : g[j] = At(s, r, j)
  BY <1>1
<1>5. PICK E : E = {0} \cup {f[j] : j \in I}
  OBVIOUS
<1>6. PICK L : L = {Steps(s)} \cup {g[j] : j \in O}
  OBVIOUS
<1>7. {At(s, r, j) : j \in I} = {f[j] : j \in I} /\ {At(s, r, j) : j \in O} = {g[j] : j \in O}
  BY <1>3, <1>4
<1>8. Enter(s, r) = Max(E) /\ Leave(s, r) = Min(L)
  BY <1>5, <1>6, <1>7 DEF Enter, Leave
<1>9. \A k \in 0..Steps(s) : k \in Int /\ k >= 0 /\ k <= Steps(s)
  BY <1>2
<1>10. \A j : (j \in I <=> j \in 1..4 /\ P(s)[j] < 0) /\ (j \in O <=> j \in 1..4 /\ P(s)[j] > 0)
  OBVIOUS
<1> HIDE DEF I, O, f, g
<1>11. /\ Max(E) \in Int /\ Max(E) >= 0
       /\ \A k \in Int : k >= Max(E) <=> k >= 0 /\ \A j \in I : k >= f[j]
  BY <1>3, <1>5, GreatestAmong
<1>12. /\ Min(L) \in Int /\ Min(L) <= Steps(s)
       /\ \A k \in Int : k <= Min(L) <=> k <= Steps(s) /\ \A j \in O : k <= g[j]
  <2>1. PICK n : n = Steps(s)
    OBVIOUS
  <2>2. n \in Int /\ L = {n} \cup {g[j] : j \in O}
    BY <1>2, <1>6, <2>1
  <2>3. /\ Min(L) \in Int /\ Min(L) <= n
        /\ \A k \in Int : k <= Min(L) <=> k <= n /\ \A j \in O : k <= g[j]
    <3>1. O \in SUBSET (1..4) /\ g \in [O -> Int]
      BY <1>4
    <3>2. LeastIs(Min(L), n, O, g)
      BY <3>1, <2>2, LeastAmong
    <3>3. Min(L) \in Int /\ Min(L) <= n
      BY <3>2 DEF LeastIs
    <3>4. \A k \in Int : k <= Min(L) <=> k <= n /\ \A j \in O : k <= g[j]
      BY <3>2, Zenon DEF LeastIs
    <3> QED BY <3>3, <3>4
  <2> QED BY <2>1, <2>3
<1>13. \A k \in 0..Steps(s) :
         k >= Enter(s, r) <=> \A j \in 1..4 : P(s)[j] < 0 => k >= At(s, r, j)
  BY <1>3, <1>8, <1>9, <1>10, <1>11
<1>14. \A k \in 0..Steps(s) :
         k <= Leave(s, r) <=> \A j \in 1..4 : P(s)[j] > 0 => k <= At(s, r, j)
  BY <1>4, <1>8, <1>9, <1>10, <1>12
<1> QED BY <1>8, <1>11, <1>12, <1>13, <1>14

(* The steps within the rectangle are those from Enter to Leave.           *)
LEMMA CrossesSteps ==
  ASSUME NEW s, Segment(s), NEW r \in Rects, NEW eps
  PROVE  Crosses(s, r, eps)
           <=> /\ StepsInside(s, r) # {}
               /\ LongerThan(s, Max(StepsInside(s, r)) - Min(StepsInside(s, r)), eps)
<1> DEFINE S == StepsInside(s, r)
           enter == Enter(s, r)
           leave == Leave(s, r)
<1>1. Steps(s) \in Nat /\ Steps(s) > 0
  BY StepCount
<1>2. \A k \in S : k \in 0..Steps(s)
  BY DEF StepsInside
<1>3. enter \in Nat /\ leave \in Int /\ leave <= Steps(s)
  BY EnterLeave
<1>4. ASSUME NEW k \in 0..Steps(s)
      PROVE  k \in S <=> Beside(s, r) /\ enter <= k /\ k <= leave
  <2> DEFINE Kept(j) == k * P(s)[j] <= Q(s, r)[j] * Steps(s)
             In(j) == P(s)[j] < 0 => k >= At(s, r, j)
             Out(j) == P(s)[j] > 0 => k <= At(s, r, j)
             Flat(j) == P(s)[j] = 0 => Q(s, r)[j] >= 0
  <2>1. ASSUME NEW j \in 1..4
        PROVE  Kept(j) <=> In(j) /\ Out(j) /\ Flat(j)
    <3>1. P(s)[j] \in Int /\ Q(s, r)[j] \in Int /\ k \in Int
      BY EdgesOf
    <3>2. PICK m \in Nat : m > 0 /\ (P(s)[j] # 0 => Steps(s) = Abs(P(s)[j]) * m)
      BY EdgesOf
    <3>3. Kept(j)
            <=> \/ P(s)[j] < 0 /\ k >= (-Q(s, r)[j]) * (Steps(s) \div (-P(s)[j]))
                \/ P(s)[j] > 0 /\ k <= Q(s, r)[j] * (Steps(s) \div P(s)[j])
                \/ P(s)[j] = 0 /\ Q(s, r)[j] >= 0
      BY <1>1, <3>1, <3>2, OneEdge
    <3>4. /\ P(s)[j] < 0 => At(s, r, j) = (-Q(s, r)[j]) * (Steps(s) \div (-P(s)[j]))
          /\ P(s)[j] > 0 => At(s, r, j) = Q(s, r)[j] * (Steps(s) \div P(s)[j])
      BY <3>1 DEF At
    <3>5. Kept(j) <=> \/ P(s)[j] < 0 /\ k >= At(s, r, j)
                      \/ P(s)[j] > 0 /\ k <= At(s, r, j)
                      \/ P(s)[j] = 0 /\ Q(s, r)[j] >= 0
      BY <3>3, <3>4
    <3> HIDE DEF Kept
    <3> QED BY <3>1, <3>5
  <2>3. k \in S <=> \A j \in 1..4 : Kept(j)
    BY InsideAt
  <2>4. (k >= enter <=> \A j \in 1..4 : In(j)) /\ (k <= leave <=> \A j \in 1..4 : Out(j))
    BY EnterLeave
  <2>5. Beside(s, r) <=> \A j \in 1..4 : Flat(j)
    BY DEF Beside
  <2>6. (k >= enter <=> enter <= k) /\ k \in Int
    BY <1>3
  <2> HIDE DEF Kept, In, Out, Flat
  <2> QED BY <2>1, <2>3, <2>4, <2>5, <2>6
<1>5. Crosses(s, r, eps) <=> /\ Beside(s, r) /\ enter <= leave
                             /\ LongerThan(s, leave - enter, eps)
  BY CrossesAt
<1> HIDE DEF S, enter, leave
<1>6. CASE Beside(s, r) /\ enter <= leave
  <2>1. \A k \in S : k \in Int /\ enter <= k /\ k <= leave
    BY <1>2, <1>4, <1>6
  <2>2. enter \in 0..Steps(s) /\ leave \in 0..Steps(s)
    BY <1>1, <1>3, <1>6
  <2>3. enter \in S /\ leave \in S
    BY <1>3, <1>4, <1>6, <2>2
  <2>4. Max(S) = leave
    <3>1. leave \in S /\ \A n \in S : leave >= n
      BY <1>3, <2>1, <2>3
    <3>2. \A m \in S : (\A n \in S : m >= n) => m = leave
      BY <1>3, <2>1, <2>3
    <3> QED BY <3>1, <3>2 DEF Max
  <2>5. Min(S) = enter
    <3>1. enter \in S /\ \A n \in S : enter <= n
      BY <1>3, <2>1, <2>3
    <3>2. \A m \in S : (\A n \in S : m <= n) => m = enter
      BY <1>3, <2>1, <2>3
    <3> QED BY <3>1, <3>2 DEF Min
  <2>6. S # {}
    BY <2>3
  <2>7. Crosses(s, r, eps) <=> S # {} /\ LongerThan(s, Max(S) - Min(S), eps)
    BY <1>5, <1>6, <2>4, <2>5, <2>6
  <2> QED BY <2>7 DEF S
<1>7. CASE ~(Beside(s, r) /\ enter <= leave)
  <2>1. S = {}
    <3>1. SUFFICES ASSUME NEW k \in S PROVE FALSE
      OBVIOUS
    <3>2. k \in 0..Steps(s) /\ k \in Int
      BY <1>2
    <3>3. Beside(s, r) /\ enter <= k /\ k <= leave
      BY <1>4, <3>2
    <3> QED BY <1>3, <1>7, <3>2, <3>3
  <2> QED BY <1>5, <1>7, <2>1 DEF S
<1> QED BY <1>6, <1>7

-----------------------------------------------------------------------------
(* validate_layout.                                                        *)
(* The ends of the segments of a cord are points.                          *)
LEMMA NubEnds ==
  ASSUME NEW r \in Rects, NEW count \in Nat, NEW side \in {"inlet", "outlet"},
         NEW first \in BOOLEAN, NEW i \in Hidden(side, first)..count - 1
  PROVE  NubPositions(r, count, side, first)[i] \in Int
<1> DEFINE hidden == Hidden(side, first)
           visual == count - hidden
<1>1. NubPositions(r, count, side, first)[i] = NubX(r, visual, i - hidden)
  BY DEF NubPositions
<1>2. hidden \in Nat
  BY DEF Hidden
<1>3. i \in hidden..count - 1
  OBVIOUS
<1> HIDE DEF hidden
<1>4. visual \in Nat /\ i - hidden \in Int /\ visual > 0
  BY <1>2, <1>3
<1> HIDE DEF visual
<1>5. r.x \in Int /\ r.w \in Int /\ Inset \in Int
  BY InsetAssumption DEF Rects
<1>6. (r.w - 2 * Inset) * (i - hidden) \in Int
  BY <1>4, <1>5
<1>7. visual # 1 => ((r.w - 2 * Inset) * (i - hidden)) \div (visual - 1) \in Int
  BY <1>4, <1>6
<1> QED BY <1>1, <1>5, <1>7 DEF NubX

LEMMA PathSegments ==
  ASSUME NEW f, Layout(f), NEW set \in CordSets, NEW c \in set, NEW s \in Path(f, c)
  PROVE  Segment(s)
<1> DEFINE point == [x : Int, y : Int]
           first == c.dst \notin Undrawn
           start == [x |-> NubPositions(f[c.src], Outs[c.src], "outlet", TRUE)[c.outlet],
                     y |-> Bottom(f[c.src])]
           end == [x |-> NubPositions(f[c.dst], Ins[c.dst], "inlet", first)[c.inlet],
                   y |-> f[c.dst].y]
           points == <<start>> \o c.mids \o <<end>>
<1>1. /\ c.src \in Boxes /\ c.dst \in Boxes /\ c.mids \in Seq(point)
      /\ c.outlet \in 0..Outs[c.src] - 1
      /\ c.inlet \in (IF c.dst \in Undrawn THEN 1 ELSE 0)..Ins[c.dst] - 1
  BY CordsAssumption
<1>2. start \in point
  <2>1. f[c.src] \in Rects /\ Outs[c.src] \in Nat
    BY <1>1, CountsAssumption DEF Layout
  <2>2. Hidden("outlet", TRUE) = 0
    BY DEF Hidden
  <2>3. NubPositions(f[c.src], Outs[c.src], "outlet", TRUE)[c.outlet] \in Int
    BY <1>1, <2>1, <2>2, NubEnds
  <2>4. Bottom(f[c.src]) \in Int
    BY <2>1 DEF Bottom, Rects
  <2> QED BY <2>3, <2>4
<1>3. end \in point
  <2>1. f[c.dst] \in Rects /\ Ins[c.dst] \in Nat /\ first \in BOOLEAN
    BY <1>1, CountsAssumption DEF Layout
  <2>2. Hidden("inlet", first) = IF c.dst \in Undrawn THEN 1 ELSE 0
    BY DEF Hidden
  <2> HIDE DEF first
  <2>3. NubPositions(f[c.dst], Ins[c.dst], "inlet", first)[c.inlet] \in Int
    BY <1>1, <2>1, <2>2, NubEnds
  <2>4. f[c.dst].y \in Int
    BY <2>1 DEF Rects
  <2> QED BY <2>3, <2>4
<1>4. Path(f, c) = {[a |-> points[k], b |-> points[k + 1]] : k \in 1..Len(points) - 1}
  BY Zenon DEF Path, Segments
<1> HIDE DEF start, end, point
<1>5. points \in Seq(point)
  BY <1>1, <1>2, <1>3
<1> HIDE DEF points
<1>6. PICK k \in 1..Len(points) - 1 : s = [a |-> points[k], b |-> points[k + 1]]
  BY <1>4
<1>7. k \in 1..Len(points) /\ k + 1 \in 1..Len(points)
  BY <1>5, <1>6
<1>8. points[k] \in point /\ points[k + 1] \in point
  BY <1>5, <1>7
<1> QED BY <1>6, <1>8 DEF point, Segment, PointAt

LEMMA CordsAre ==
  ASSUME NEW scope, NEW eps, rects \in Patches, cords \in CordSets,
         NEW c \in cords, NEW b \in Boxes
  PROVE  <<c, b>> \in CordsOverObjects(scope, eps)
           <=> /\ {c.src, c.dst, b} \subseteq Objects(scope) /\ b \notin {c.src, c.dst}
               /\ \E s \in Path(rects, c) :
                    LET inside == StepsInside(s, rects[b])
                    IN inside # {} /\ LongerThan(s, Max(inside) - Min(inside), eps)
<1>1. Layout(rects) /\ rects[b] \in Rects
  BY PatchesAssumption DEF Layout
<1>2. ASSUME NEW s \in Path(rects, c)
      PROVE  Crosses(s, rects[b], eps)
               <=> /\ StepsInside(s, rects[b]) # {}
                   /\ LongerThan(s, Max(StepsInside(s, rects[b])) - Min(StepsInside(s, rects[b])), eps)
  <2>1. Segment(s)
    BY <1>1, PathSegments
  <2> QED BY <1>1, <2>1, CrossesSteps
<1>3. <<c, b>> \in CordsOverObjects(scope, eps)
        <=> /\ c \in CordsWithin(scope) /\ b \in Objects(scope) /\ b \notin {c.src, c.dst}
            /\ \E s \in Path(rects, c) : Crosses(s, rects[b], eps)
  BY DEF CordsOverObjects
<1>4. c \in CordsWithin(scope) /\ b \in Objects(scope) <=> {c.src, c.dst, b} \subseteq Objects(scope)
  BY DEF CordsWithin
<1> QED BY <1>2, <1>3, <1>4

(* A report is given once, and nothing then changes the patch under it.    *)
ReportInv == Untouched /\ cords \in CordSets /\ ReportMatchesPicture

LEMMA NextReport ==
  ASSUME ReportInv, [Next]_vars
  PROVE  ReportInv'
<1>1. Untouched'
  BY NextUntouched DEF ReportInv
<1>2. cords' \in CordSets
  <2>1. cords' = cords
    BY Answering DEF AlignObjects, SuggestAlignment, AvoidRectPosition, ValidateLayout, Reads,
                     ApplyMove, vars
  <2> QED BY <2>1 DEF ReportInv
<1>3. ASSUME answer'.tool # "validate"
      PROVE  ReportMatchesPicture'
  BY <1>3 DEF ReportMatchesPicture
<1>4. ASSUME NEW scope \in Scopes, NEW eps \in Epsilons, NEW checks \in CheckSets,
             ValidateLayout(scope, eps, checks)
      PROVE  ReportMatchesPicture'
  <2>1. rects \in Patches /\ rects' = rects /\ cords' = cords /\ cords \in CordSets
    BY <1>4 DEF ValidateLayout, Reads, ReportInv, Untouched
  <2>2. /\ answer'.about = <<scope, eps, checks>>
        /\ answer'.told["overlap"] = IF Runs(checks, "overlap") THEN Overlaps(scope, eps) ELSE {}
        /\ answer'.told["cord_object"]
             = IF Runs(checks, "cord_object") THEN CordsOverObjects(scope, eps) ELSE {}
    <3> DEFINE told == [name \in Checks |->
                          IF Runs(checks, name)
                          THEN CASE name = "overlap" -> Overlaps(scope, eps)
                                 [] name = "upward" -> UpwardCords(scope, eps)
                                 [] name = "cord_object" -> CordsOverObjects(scope, eps)
                                 [] name = "cord_cord" -> CordsOverCords(scope, eps)
                          ELSE {}]
    <3>1. answer' = Answer("validate", <<scope, eps, checks>>, TRUE, {}, told)
      BY <1>4, Zenon DEF ValidateLayout
    <3>2. /\ told["overlap"] = IF Runs(checks, "overlap") THEN Overlaps(scope, eps) ELSE {}
          /\ told["cord_object"]
               = IF Runs(checks, "cord_object") THEN CordsOverObjects(scope, eps) ELSE {}
      BY DEF Checks
    <3> HIDE DEF told
    <3> QED BY <3>1, <3>2 DEF Answer
  <2>3. ASSUME NEW a \in Objects(scope), NEW b \in Objects(scope), a # b
        PROVE  /\ Runs(checks, "overlap") /\ Overlapping(rects[a], rects[b], eps)
                    => {a, b} \in answer'.told["overlap"]
               /\ {a, b} \in answer'.told["overlap"]
                    => /\ Runs(checks, "overlap")
                       /\ Overlapping(rects[a], rects[b],
                            IF Thicker(rects[a], eps) /\ Thicker(rects[b], eps) THEN eps ELSE 0)
    <3>1. a \in Boxes /\ b \in Boxes
      BY ScopesAssumption DEF Objects
    <3>2. Drawn(rects[a]) /\ Drawn(rects[b]) /\ eps \in Nat
      BY <2>1, <3>1, PatchesAssumption, DrawnAssumption, EpsilonsAssumption DEF Drawn
    <3>3. {a, b} \in Overlaps(scope, eps) <=> Overlap(rects[a], rects[b], eps)
      BY <2>3, <3>2, OverlapsAre
    <3> QED BY <2>2, <3>2, <3>3, OverlapRuns
  <2>4. ASSUME NEW c \in cords, NEW b \in Boxes
        PROVE  <<c, b>> \in answer'.told["cord_object"] <=>
                 /\ Runs(checks, "cord_object")
                 /\ {c.src, c.dst, b} \subseteq Objects(scope) /\ b \notin {c.src, c.dst}
                 /\ \E s \in Path(rects, c) :
                      LET inside == StepsInside(s, rects[b])
                      IN inside # {} /\ LongerThan(s, Max(inside) - Min(inside), eps)
    <3> DEFINE over == \E s \in Path(rects, c) :
                         LET inside == StepsInside(s, rects[b])
                         IN inside # {} /\ LongerThan(s, Max(inside) - Min(inside), eps)
    <3>1. <<c, b>> \in CordsOverObjects(scope, eps)
            <=> /\ {c.src, c.dst, b} \subseteq Objects(scope) /\ b \notin {c.src, c.dst}
                /\ over
      BY <2>1, CordsAre, Zenon
    <3> HIDE DEF over
    <3>2. <<c, b>> \in answer'.told["cord_object"] <=>
            /\ Runs(checks, "cord_object")
            /\ {c.src, c.dst, b} \subseteq Objects(scope) /\ b \notin {c.src, c.dst}
            /\ over
      BY <2>2, <3>1
    <3> QED BY <3>2, Zenon DEF over
  <2>5. answer'.about[1] = scope /\ answer'.about[2] = eps /\ answer'.about[3] = checks
    BY <2>2
  <2> QED BY <2>1, <2>3, <2>4, <2>5 DEF ReportMatchesPicture
<1>5. ASSUME NEW m \in answer.moves, ApplyMove(m), answer'.tool = answer.tool
      PROVE  ReportMatchesPicture'
  BY <1>3, <1>5 DEF ReportInv, Untouched
<1>6. ASSUME UNCHANGED vars
      PROVE  ReportMatchesPicture'
  BY <1>6 DEF ReportInv, ReportMatchesPicture, vars, Path
<1> QED BY <1>1, <1>2, <1>3, <1>4, <1>5, <1>6, Answering DEF ReportInv

(* validate_layout: of any patch, it reports the pairs of boxes that share *)
(* more than the tolerance on both axes (aabb_overlap), and besides these  *)
(* only pairs that share cells and of which one is no thicker than that;   *)
(* and exactly the cords that run over a box for more than the tolerance   *)
(* (segment_intersects_rect, a Liang-Barsky clipping).                     *)
THEOREM ReportTrue == Spec => []ReportMatchesPicture
<1>1. Init => ReportInv
  BY DEF Init, Answer, ReportInv, ReportMatchesPicture, Untouched
<1>2. ReportInv => ReportMatchesPicture
  BY DEF ReportInv
<1> QED BY <1>1, <1>2, NextReport, PTL DEF Spec

-----------------------------------------------------------------------------
(* align_objects.  The sum of the sizes of some boxes is a fold, whose     *)
(* recursion is shown to count cells: one per unit of size of each box.    *)

(* SizeOf, unfolded.                                                       *)
SizeStep(rs, mode, S, iter) ==
  [s \in SUBSET S |->
     IF s = {} THEN 0
     ELSE Size(rs[CHOOSE x \in s : TRUE], mode) + iter[s \ {CHOOSE x \in s : TRUE}]]
SizeIter(rs, mode, S) == CHOOSE iter : iter = SizeStep(rs, mode, S, iter)
LEMMA SizeOfIter ==
  ASSUME NEW rs, NEW mode, NEW S
  PROVE  SizeOf(rs, mode, S) = SizeIter(rs, mode, S)[S]
  BY DEF SizeOf, MapThenSumSet, MapThenFoldSet, SizeIter, SizeStep

(* The sum of the sizes, as a number of cells.                             *)
Sized(rs, mode, S, bound) ==
  /\ IsFiniteSet(S) /\ bound \in Nat
  /\ \A i \in S : Size(rs[i], mode) \in Nat /\ Size(rs[i], mode) <= bound
Cells(rs, mode, S, bound) == {p \in S \X (1..bound) : p[2] <= Size(rs[p[1]], mode)}
Area(rs, mode, S, bound) == Cardinality(Cells(rs, mode, S, bound))

LEMMA Columns ==
  ASSUME NEW rs, NEW mode, NEW S, NEW bound, Sized(rs, mode, S, bound), NEW T \in SUBSET S
  PROVE  /\ IsFiniteSet(Cells(rs, mode, T, bound)) /\ Area(rs, mode, T, bound) \in Nat
         /\ Area(rs, mode, T, bound) <= Area(rs, mode, S, bound)
         /\ Area(rs, mode, {}, bound) = 0
         /\ \A x \in S \ T :
              Area(rs, mode, T \cup {x}, bound) = Area(rs, mode, T, bound) + Size(rs[x], mode)
<1>1. \A i, j \in Int : IsFiniteSet(i..j) /\ Cardinality(i..j) = IF i > j THEN 0 ELSE j - i + 1
  BY FS_Interval
<1>2. IsFiniteSet(S) /\ bound \in Nat /\ 1 \in Int
  BY DEF Sized
<1>3. IsFiniteSet(1..bound)
  <2>1. bound \in Int
    BY <1>2
  <2> QED BY <1>1, <1>2, <2>1, Zenon
<1>4. IsFiniteSet(S \X (1..bound))
  <2>1. \A T1 : IsFiniteSet(T1) => IsFiniteSet(S \X T1)
    BY <1>2, FS_Product
  <2> QED BY <1>3, <2>1, Zenon
<1>5. \A U \in SUBSET S : IsFiniteSet(Cells(rs, mode, U, bound)) /\ Area(rs, mode, U, bound) \in Nat
  <2>1. TAKE U \in SUBSET S
  <2>2. Cells(rs, mode, U, bound) \in SUBSET (S \X (1..bound))
    BY DEF Cells
  <2>3. IsFiniteSet(Cells(rs, mode, U, bound))
    BY <1>4, <2>2, FS_Subset
  <2> QED BY <2>3, FS_CardinalityType DEF Area
<1>6. Area(rs, mode, T, bound) <= Area(rs, mode, S, bound)
  <2>1. Cells(rs, mode, T, bound) \in SUBSET Cells(rs, mode, S, bound)
    BY DEF Cells
  <2>2. S \in SUBSET S
    OBVIOUS
  <2>3. IsFiniteSet(Cells(rs, mode, S, bound))
    BY <1>5, <2>2
  <2> QED BY <2>1, <2>3, FS_Subset DEF Area
<1>7. Area(rs, mode, {}, bound) = 0
  <2>1. Cells(rs, mode, {}, bound) = {}
    BY DEF Cells
  <2> QED BY <2>1, FS_EmptySet DEF Area
<1>8. ASSUME NEW x \in S \ T
      PROVE  Area(rs, mode, T \cup {x}, bound) = Area(rs, mode, T, bound) + Size(rs[x], mode)
  <2> DEFINE size == Size(rs[x], mode)
             old == Cells(rs, mode, T, bound)
             new == Cells(rs, mode, {x}, bound)
  <2>1. size \in Nat /\ size <= bound
    BY DEF Sized
  <2>2. new = {x} \X (1..size)
    <3>1. new = {p \in {x} \X (1..bound) : p[2] <= size}
      BY DEF Cells
    <3> HIDE DEF size, new
    <3> QED BY <1>2, <2>1, <3>1
  <2>3. Cells(rs, mode, T \cup {x}, bound) = old \cup new /\ old \cap new = {}
    BY DEF Cells
  <2> HIDE DEF size
  <2>4. IsFiniteSet(1..size) /\ Cardinality(1..size) = size
    <3>1. size \in Int
      BY <2>1
    <3>2. IsFiniteSet(1..size) /\ Cardinality(1..size) = IF 1 > size THEN 0 ELSE size - 1 + 1
      BY <1>1, <1>2, <3>1, Zenon
    <3> QED BY <2>1, <3>2
  <2>5. IsFiniteSet(new) /\ Cardinality(new) = size
    <3>1. IsFiniteSet({x}) /\ Cardinality({x}) = 1
      BY FS_Singleton
    <3>2. \A U, V : IsFiniteSet(U) /\ IsFiniteSet(V) =>
            IsFiniteSet(U \X V) /\ Cardinality(U \X V) = Cardinality(U) * Cardinality(V)
      BY FS_Product
    <3>3. IsFiniteSet(new) /\ Cardinality(new) = Cardinality({x}) * Cardinality(1..size)
      BY <2>2, <2>4, <3>1, <3>2, Zenon
    <3>4. Cardinality(new) = 1 * size
      BY <2>4, <3>1, <3>3, Zenon
    <3> QED BY <2>1, <3>3, <3>4
  <2>6. IsFiniteSet(old) /\ Cardinality(old) = Area(rs, mode, T, bound)
    BY <1>5 DEF Area
  <2> HIDE DEF old, new
  <2>7. Cardinality(old \cup new) = Cardinality(old) + Cardinality(new) - Cardinality(old \cap new)
    BY <2>5, <2>6, FS_Union
  <2>8. Cardinality(old \cap new) = 0
    BY <2>3, FS_EmptySet
  <2>9. Area(rs, mode, T, bound) \in Nat
    BY <1>5
  <2>10. Area(rs, mode, T \cup {x}, bound) = Area(rs, mode, T, bound) + size
    <3>1. Area(rs, mode, T \cup {x}, bound) = Cardinality(old \cup new)
      BY <2>3, Zenon DEF Area
    <3> QED BY <2>1, <2>5, <2>6, <2>7, <2>8, <2>9, <3>1
  <2> QED BY <2>10 DEF size
<1> QED BY <1>5, <1>6, <1>7, <1>8

LEMMA SizeIsArea ==
  ASSUME NEW rs, NEW mode, NEW S, NEW bound, Sized(rs, mode, S, bound)
  PROVE  SizeOf(rs, mode, S) = Area(rs, mode, S, bound)
<1> DEFINE area(s) == Area(rs, mode, s, bound)
           pick(s) == CHOOSE x \in s : TRUE
           I == SizeIter(rs, mode, S)
           Good == [s \in SUBSET S |-> area(s)]
<1>1. \A s \in SUBSET S : s # {} => pick(s) \in s
  OBVIOUS
<1>2. \A s \in SUBSET S : s # {} => area(s) = Size(rs[pick(s)], mode) + area(s \ {pick(s)})
  <2>1. SUFFICES ASSUME NEW s \in SUBSET S, s # {}
                 PROVE  area(s) = Size(rs[pick(s)], mode) + area(s \ {pick(s)})
    OBVIOUS
  <2> DEFINE x == pick(s)
             t == s \ {x}
  <2>2. x \in s
    BY <1>1, <2>1
  <2> HIDE DEF x
  <2>3. t \in SUBSET S /\ x \in S \ t /\ t \cup {x} = s
    BY <2>2
  <2> HIDE DEF t
  <2>4. area(t \cup {x}) = area(t) + Size(rs[x], mode) /\ area(t) \in Nat
    BY <2>3, Columns
  <2>5. Size(rs[x], mode) \in Nat
    BY <2>3 DEF Sized
  <2> HIDE DEF area
  <2>6. area(s) = Size(rs[x], mode) + area(t)
    <3>1. area(s) = area(t \cup {x})
      BY <2>3, Zenon
    <3> QED BY <2>4, <2>5, <3>1
  <2> QED BY <2>6 DEF x, t
<1>3. area({}) = 0
  BY Columns
<1> HIDE DEF area
<1>4. Good = SizeStep(rs, mode, S, Good)
  <2>1. \A s \in SUBSET S : s \ {pick(s)} \in SUBSET S
    OBVIOUS
  <2>2. \A s \in SUBSET S :
          area(s) = IF s = {} THEN 0 ELSE Size(rs[pick(s)], mode) + Good[s \ {pick(s)}]
    BY <1>2, <1>3, <2>1
  <2> QED BY <2>2 DEF SizeStep
<1>5. I = SizeStep(rs, mode, S, I)
  BY <1>4, Zenon DEF SizeIter
<1> HIDE DEF I
<1>6. \A s \in SUBSET S : I[s] = IF s = {} THEN 0 ELSE Size(rs[pick(s)], mode) + I[s \ {pick(s)}]
  BY <1>5 DEF SizeStep
<1> DEFINE Bad == {s \in SUBSET S : I[s] # area(s)}
           Counts == {Cardinality(s) : s \in Bad}
<1>7. ASSUME Bad # {} PROVE FALSE
  <2>1. \A s \in SUBSET S : IsFiniteSet(s) /\ Cardinality(s) \in Nat
    BY FS_Subset, FS_CardinalityType DEF Sized
  <2>2. Counts \in SUBSET Nat /\ Counts # {}
    BY <1>7, <2>1
  <2>3. PICK s \in Bad : \A t \in Bad : Cardinality(s) <= Cardinality(t)
    <3>1. Min(Counts) \in Counts /\ \A n \in Counts : Min(Counts) <= n
      BY <2>2, Least
    <3> QED BY <3>1
  <2>4. s \in SUBSET S /\ I[s] # area(s)
    OBVIOUS
  <2>5. s # {}
    BY <1>3, <1>6, <2>4
  <2> DEFINE x == pick(s)
             t == s \ {x}
  <2>6. x \in s
    BY <1>1, <2>4, <2>5
  <2> HIDE DEF x
  <2>7. t \in SUBSET S /\ Cardinality(t) < Cardinality(s)
    <3>1. IsFiniteSet(s) /\ Cardinality(s) \in Nat
      BY <2>1, <2>4
    <3>2. Cardinality(s \ {x}) = Cardinality(s) - 1
      BY <2>6, <3>1, FS_RemoveElement
    <3> QED BY <2>4, <3>1, <3>2
  <2>8. ~(Cardinality(s) <= Cardinality(t))
    BY <2>1, <2>4, <2>7
  <2>9. t \notin Bad
    BY <2>3, <2>8
  <2>10. I[t] = area(t)
    BY <2>7, <2>9
  <2> HIDE DEF Bad, t
  <2>11. I[s] = Size(rs[x], mode) + I[t] /\ area(s) = Size(rs[x], mode) + area(t)
    BY <1>2, <1>6, <2>4, <2>5 DEF x, t
  <2> QED BY <2>4, <2>10, <2>11
<1>8. I[S] = area(S)
  BY <1>7
<1> QED BY <1>8, SizeOfIter DEF I, area

-----------------------------------------------------------------------------
(* Rectangles on the axis of a mode.                                       *)
LEMMA OnAxis ==
  ASSUME NEW r \in Rects, NEW mode
  PROVE  /\ Lead(r, mode) \in Int /\ Size(r, mode) \in Nat /\ Far(r, mode) \in Int
         /\ Far(r, mode) = Lead(r, mode) + Size(r, mode)
         /\ MovedTo(r, mode, Lead(r, mode)) = r
         /\ \A n \in Int : /\ MovedTo(r, mode, n) \in Rects
                           /\ Lead(MovedTo(r, mode, n), mode) = n
                           /\ Size(MovedTo(r, mode, n), mode) = Size(r, mode)
                           /\ \A k \in Int : MovedTo(MovedTo(r, mode, n), mode, k) = MovedTo(r, mode, k)
<1>1. /\ r.x \in Int /\ r.y \in Int /\ r.w \in Nat /\ r.h \in Nat
      /\ r = [x |-> r.x, y |-> r.y, w |-> r.w, h |-> r.h]
  BY DEF Rects
<1>2. /\ Lead(r, mode) \in Int /\ Size(r, mode) \in Nat /\ Far(r, mode) \in Int
      /\ Far(r, mode) = Lead(r, mode) + Size(r, mode)
  BY <1>1 DEF Lead, Size, Far
<1>3. \A n : [r EXCEPT !.x = n] = Rect(n, r.y, r.w, r.h) /\ [r EXCEPT !.y = n] = Rect(r.x, n, r.w, r.h)
  BY Changed
<1>4. \A n : MovedTo(r, mode, n) = IF OnX(mode) THEN Rect(n, r.y, r.w, r.h) ELSE Rect(r.x, n, r.w, r.h)
  BY <1>3 DEF MovedTo
<1>5. MovedTo(r, mode, Lead(r, mode)) = r
  BY <1>1, <1>4 DEF Lead, Rect
<1>6. ASSUME NEW n \in Int
      PROVE  /\ MovedTo(r, mode, n) \in Rects
             /\ Lead(MovedTo(r, mode, n), mode) = n
             /\ Size(MovedTo(r, mode, n), mode) = Size(r, mode)
  BY <1>1, <1>4 DEF Rects, Rect, Lead, Size
<1>7. ASSUME NEW n \in Int, NEW k \in Int
      PROVE  MovedTo(MovedTo(r, mode, n), mode, k) = MovedTo(r, mode, k)
  <2> DEFINE q == MovedTo(r, mode, n)
  <2>1. q \in Rects
    BY <1>6
  <2>2. q = IF OnX(mode) THEN Rect(n, r.y, r.w, r.h) ELSE Rect(r.x, n, r.w, r.h)
    BY <1>4
  <2> HIDE DEF q
  <2>3. [q EXCEPT !.x = k] = Rect(k, q.y, q.w, q.h) /\ [q EXCEPT !.y = k] = Rect(q.x, k, q.w, q.h)
    BY <2>1, Changed
  <2>4. MovedTo(q, mode, k) = IF OnX(mode) THEN Rect(k, q.y, q.w, q.h) ELSE Rect(q.x, k, q.w, q.h)
    BY <2>3 DEF MovedTo
  <2>5. /\ OnX(mode) => q.y = r.y /\ q.w = r.w /\ q.h = r.h
        /\ ~OnX(mode) => q.x = r.x /\ q.w = r.w /\ q.h = r.h
    BY <2>2 DEF Rect
  <2>6. MovedTo(q, mode, k) = MovedTo(r, mode, k)
    BY <1>4, <2>4, <2>5
  <2> QED BY <2>6 DEF q
<1> QED BY <1>2, <1>5, <1>6, <1>7

(* The least and the greatest of finitely many numbers.                    *)
Extremes(S, f, D) ==
  /\ Min(S) \in Int /\ Max(S) \in Int
  /\ \E i \in D : Min(S) = f[i]
  /\ \E i \in D : Max(S) = f[i]
  /\ \A i \in D : Min(S) <= f[i] /\ f[i] <= Max(S)

LEMMA ExtremesOf ==
  ASSUME NEW D, IsFiniteSet(D), D # {}, NEW f \in [D -> Int], NEW S, S = {f[i] : i \in D}
  PROVE  Extremes(S, f, D)
<1> DEFINE g == [i \in D |-> -f[i]]
<1>1. D \in SUBSET D /\ g \in [D -> Int] /\ \A i \in D : g[i] = -f[i] /\ f[i] \in Int
  OBVIOUS
<1>2. PICK hi \in D : \A i \in D : f[i] <= f[hi]
  BY <1>1, GreatestOf
<1>3. PICK lo \in D : \A i \in D : g[i] <= g[lo]
  BY <1>1, GreatestOf
<1>4. \A i \in D : f[lo] <= f[i]
  BY <1>1, <1>3
<1>5. Max(S) = f[hi]
  <2>1. f[hi] \in S /\ \A n \in S : f[hi] >= n
    BY <1>2
  <2>2. \A m \in S : (\A n \in S : m >= n) => m = f[hi]
    BY <1>2
  <2> QED BY <2>1, <2>2 DEF Max
<1>6. Min(S) = f[lo]
  <2>1. f[lo] \in S /\ \A n \in S : f[lo] <= n
    BY <1>4
  <2>2. \A m \in S : (\A n \in S : m <= n) => m = f[lo]
    BY <1>4
  <2> QED BY <2>1, <2>2 DEF Min
<1> QED BY <1>1, <1>2, <1>4, <1>5, <1>6 DEF Extremes

(* What a sequence of rectangles is.                                       *)
LEMMA FiniteDomain ==
  ASSUME NEW rs \in Seq(Rects)
  PROVE  /\ Len(rs) \in Nat /\ DOMAIN rs = 1..Len(rs) /\ IsFiniteSet(DOMAIN rs)
         /\ Len(rs) > 0 => DOMAIN rs # {}
         /\ \A i \in DOMAIN rs : rs[i] \in Rects
<1>1. \A i, j \in Int : IsFiniteSet(i..j)
  BY FS_Interval
<1>2. Len(rs) \in Nat /\ DOMAIN rs = 1..Len(rs) /\ \A i \in DOMAIN rs : rs[i] \in Rects
  OBVIOUS
<1>3. Len(rs) \in Int /\ 1 \in Int
  BY <1>2
<1>4. IsFiniteSet(DOMAIN rs)
  BY <1>1, <1>2, <1>3, Zenon
<1>5. Len(rs) > 0 => 1 \in DOMAIN rs
  BY <1>2
<1> QED BY <1>2, <1>4, <1>5

(* The bounding box.                                                       *)
LEMMA Bounding ==
  ASSUME NEW rs \in Seq(Rects), Len(rs) > 0, NEW mode
  PROVE  /\ Near(rs, mode) \in Int /\ Limit(rs, mode) \in Int
         /\ \E i \in DOMAIN rs : Near(rs, mode) = Lead(rs[i], mode)
         /\ \E i \in DOMAIN rs : Limit(rs, mode) = Far(rs[i], mode)
         /\ \A i \in DOMAIN rs : /\ Near(rs, mode) <= Lead(rs[i], mode)
                                 /\ Far(rs[i], mode) <= Limit(rs, mode)
<1> DEFINE D == DOMAIN rs
           lead == [i \in D |-> Lead(rs[i], mode)]
           far == [i \in D |-> Far(rs[i], mode)]
<1>1. IsFiniteSet(D) /\ D # {}
  BY FiniteDomain
<1>2. lead \in [D -> Int] /\ far \in [D -> Int]
  BY FiniteDomain, OnAxis
<1>3. \A i \in D : lead[i] = Lead(rs[i], mode) /\ far[i] = Far(rs[i], mode)
  OBVIOUS
<1>4. PICK L : L = {Lead(rs[i], mode) : i \in D}
  OBVIOUS
<1>5. PICK F : F = {Far(rs[i], mode) : i \in D}
  OBVIOUS
<1>6. Near(rs, mode) = Min(L) /\ Limit(rs, mode) = Max(F)
  BY <1>4, <1>5 DEF Near, Limit
<1>7. L = {lead[i] : i \in D} /\ F = {far[i] : i \in D}
  BY <1>3, <1>4, <1>5
<1> HIDE DEF lead, far
<1>8. Extremes(L, lead, D)
  BY <1>1, <1>2, <1>7, ExtremesOf
<1>9. Extremes(F, far, D)
  BY <1>1, <1>2, <1>7, ExtremesOf
<1> QED BY <1>3, <1>6, <1>8, <1>9 DEF Extremes

(* The sum of the sizes of some boxes.                                     *)
LEMMA SizeBound ==
  ASSUME NEW rs \in Seq(Rects), NEW mode
  PROVE  \E bound \in Nat : \A S \in SUBSET (DOMAIN rs) : Sized(rs, mode, S, bound)
<1> DEFINE D == DOMAIN rs
           f == [i \in D |-> Size(rs[i], mode)]
<1>1. IsFiniteSet(D) /\ \A S \in SUBSET D : IsFiniteSet(S)
  BY FiniteDomain, FS_Subset
<1>2. \A i \in D : Size(rs[i], mode) \in Nat /\ f[i] = Size(rs[i], mode)
  BY FiniteDomain, OnAxis
<1>3. CASE D = {}
  BY <1>1, <1>3 DEF Sized
<1>4. CASE D # {}
  <2>1. f \in [D -> Int] /\ D \in SUBSET D
    BY <1>2
  <2>2. PICK i \in D : \A j \in D : f[j] <= f[i]
    BY <1>1, <1>4, <2>1, GreatestOf
  <2>3. f[i] \in Nat
    BY <1>2
  <2> QED BY <1>1, <1>2, <2>2, <2>3 DEF Sized
<1> QED BY <1>3, <1>4

LEMMA SizeSum ==
  ASSUME NEW rs \in Seq(Rects), NEW mode, NEW S \in SUBSET (DOMAIN rs)
  PROVE  /\ SizeOf(rs, mode, S) \in Nat /\ SizeOf(rs, mode, {}) = 0
         /\ \A T \in SUBSET S : SizeOf(rs, mode, T) <= SizeOf(rs, mode, S)
         /\ \A x \in (DOMAIN rs) \ S :
              SizeOf(rs, mode, S \cup {x}) = SizeOf(rs, mode, S) + Size(rs[x], mode)
<1> DEFINE D == DOMAIN rs
<1>1. PICK bound \in Nat : \A U \in SUBSET D : Sized(rs, mode, U, bound)
  BY SizeBound
<1>2. \A U \in SUBSET D : SizeOf(rs, mode, U) = Area(rs, mode, U, bound)
  BY <1>1, SizeIsArea
<1>3. Sized(rs, mode, D, bound) /\ Sized(rs, mode, S, bound)
  BY <1>1
<1>4. /\ Area(rs, mode, S, bound) \in Nat /\ Area(rs, mode, {}, bound) = 0
      /\ \A x \in D \ S : Area(rs, mode, S \cup {x}, bound) = Area(rs, mode, S, bound) + Size(rs[x], mode)
  BY <1>3, Columns
<1>5. \A T \in SUBSET S : Area(rs, mode, T, bound) <= Area(rs, mode, S, bound)
  BY <1>3, Columns
<1>6. /\ {} \in SUBSET D /\ \A T \in SUBSET S : T \in SUBSET D
      /\ \A x \in D \ S : S \cup {x} \in SUBSET D
  OBVIOUS
<1> QED BY <1>2, <1>4, <1>5, <1>6

(* Moving boxes leaves the sum.                                            *)
LEMMA SameSizes ==
  ASSUME NEW r1 \in Seq(Rects), NEW r2 \in Seq(Rects), NEW mode, DOMAIN r1 = DOMAIN r2,
         \A i \in DOMAIN r1 : Size(r1[i], mode) = Size(r2[i], mode),
         NEW S \in SUBSET (DOMAIN r1)
  PROVE  SizeOf(r1, mode, S) = SizeOf(r2, mode, S)
<1>1. PICK bound \in Nat : \A U \in SUBSET (DOMAIN r1) : Sized(r1, mode, U, bound)
  BY SizeBound
<1>2. Sized(r1, mode, S, bound)
  BY <1>1
<1>3. Sized(r2, mode, S, bound)
  BY <1>2 DEF Sized
<1>4. Cells(r1, mode, S, bound) = Cells(r2, mode, S, bound)
  BY DEF Cells
<1> QED BY <1>2, <1>3, <1>4, SizeIsArea DEF Area

(* A one-to-one function of an interval to itself reaches all of it.       *)
LEMMA Onto ==
  ASSUME NEW n \in Nat, NEW o \in [1..n -> 1..n], \A j, k \in 1..n : o[j] = o[k] => j = k
  PROVE  \A i \in 1..n : \E k \in 1..n : o[k] = i
<1> DEFINE D == 1..n
<1>1. IsFiniteSet(D)
  <2>1. \A i, j \in Int : IsFiniteSet(i..j)
    BY FS_Interval
  <2>2. n \in Int /\ 1 \in Int
    OBVIOUS
  <2> QED BY <2>1, <2>2, Zenon
<1>2. o \in [D -> D] /\ \A j, k \in D : o[j] = o[k] => j = k
  OBVIOUS
<1> HIDE DEF D
<1>3. o \in Injection(D, D)
  BY <1>2 DEF Injection, IsInjective
<1>4. o \in Surjection(D, D)
  BY <1>1, <1>3, FS_Injection
<1>5. \A i \in D : \E k \in D : o[k] = i
  BY <1>4 DEF Surjection
<1> QED BY <1>5 DEF D

-----------------------------------------------------------------------------
(* Edges and centers.                                                      *)
Line(rs, mode, i) ==
  CASE mode \in {"left", "top"} -> Near(rs, mode)
    [] mode \in {"right", "bottom"} -> Limit(rs, mode) - Size(rs[i], mode)
    [] OTHER -> Near(rs, mode) + (Limit(rs, mode) - Near(rs, mode) - Size(rs[i], mode)) \div 2

OnFirst(mode) == mode \in {"left", "top"}
OnLast(mode) == mode \in {"right", "bottom"}
OnCenter(mode) == mode \in {"hcenter", "vcenter"}

LEMMA EdgeModesAre ==
  ASSUME NEW mode \in EdgeModes
  PROVE  /\ OnFirst(mode) \/ OnLast(mode) \/ OnCenter(mode)
         /\ ~(OnFirst(mode) /\ OnLast(mode)) /\ ~(OnFirst(mode) /\ OnCenter(mode))
         /\ ~(OnLast(mode) /\ OnCenter(mode))
  BY DEF EdgeModes, OnFirst, OnLast, OnCenter

Centered(rs, mode) ==
  \A i \in DOMAIN rs : (Limit(rs, mode) - Near(rs, mode) - Size(rs[i], mode)) % 2 = 0

LEMMA Singly ==
  ASSUME NEW S, NEW v, S = {v}
  PROVE  Cardinality(S) = 1
  BY FS_Singleton

(* Where the line of a mode is.                                            *)
LEMMA Lines ==
  ASSUME NEW rs \in Seq(Rects), Len(rs) > 0, NEW mode \in EdgeModes, NEW i \in DOMAIN rs
  PROVE  /\ Line(rs, mode, i) \in Int
         /\ OnFirst(mode) => Line(rs, mode, i) = Near(rs, mode)
         /\ OnLast(mode) => Line(rs, mode, i) + Size(rs[i], mode) = Limit(rs, mode)
         /\ OnCenter(mode) /\ Centered(rs, mode) =>
              2 * Line(rs, mode, i) + Size(rs[i], mode) = Near(rs, mode) + Limit(rs, mode)
<1> DEFINE near == Near(rs, mode)
           limit == Limit(rs, mode)
           size == Size(rs[i], mode)
<1>1. near \in Int /\ limit \in Int /\ size \in Int
  BY Bounding, FiniteDomain, OnAxis
<1>2. \/ OnFirst(mode) /\ Line(rs, mode, i) = near
      \/ OnLast(mode) /\ Line(rs, mode, i) = limit - size
      \/ OnCenter(mode) /\ Line(rs, mode, i) = near + (limit - near - size) \div 2
  BY DEF Line, EdgeModes, OnFirst, OnLast, OnCenter
<1>3. Centered(rs, mode) => (limit - near - size) % 2 = 0
  BY DEF Centered
<1> HIDE DEF near, limit, size
<1>4. (limit - near - size) \div 2 \in Int
  BY <1>1
<1>5. (limit - near - size) % 2 = 0 => 2 * ((limit - near - size) \div 2) = limit - near - size
  BY <1>1
<1>6. ~(OnFirst(mode) /\ OnLast(mode))
      /\ ~(OnFirst(mode) /\ OnCenter(mode))
      /\ ~(OnLast(mode) /\ OnCenter(mode))
  BY EdgeModesAre
<1>7. Line(rs, mode, i) \in Int
  BY <1>1, <1>2, <1>4
<1>8. OnFirst(mode) => Line(rs, mode, i) = near
  BY <1>2, <1>6
<1>9. OnLast(mode) => Line(rs, mode, i) + size = limit
  BY <1>1, <1>2, <1>6
<1>10. OnCenter(mode) /\ Centered(rs, mode) => 2 * Line(rs, mode, i) + size = near + limit
  BY <1>1, <1>2, <1>3, <1>4, <1>5, <1>6
<1> QED BY <1>7, <1>8, <1>9, <1>10 DEF near, limit, size

(* solve_edge_center puts every box on its line,                           *)
LEMMA EdgeCenterAt ==
  ASSUME NEW rs \in Seq(Rects), Len(rs) > 0, NEW mode \in EdgeModes
  PROVE  /\ EdgeCenter(rs, mode) \in Seq(Rects) /\ DOMAIN EdgeCenter(rs, mode) = DOMAIN rs
         /\ Len(EdgeCenter(rs, mode)) = Len(rs)
         /\ \A i \in DOMAIN rs :
              /\ EdgeCenter(rs, mode)[i] = MovedTo(rs[i], mode, Line(rs, mode, i))
              /\ Lead(EdgeCenter(rs, mode)[i], mode) = Line(rs, mode, i)
              /\ Size(EdgeCenter(rs, mode)[i], mode) = Size(rs[i], mode)
              /\ Far(EdgeCenter(rs, mode)[i], mode) = Line(rs, mode, i) + Size(rs[i], mode)
<1> DEFINE sol == EdgeCenter(rs, mode)
<1>1. sol = [i \in DOMAIN rs |-> MovedTo(rs[i], mode, Line(rs, mode, i))]
  BY Zenon DEF EdgeCenter, Line
<1> HIDE DEF sol
<1>2. /\ Len(rs) \in Nat /\ DOMAIN rs = 1..Len(rs) /\ \A i \in DOMAIN rs : rs[i] \in Rects
  BY FiniteDomain
<1>3. \A i \in DOMAIN rs : Line(rs, mode, i) \in Int
  BY Lines
<1>4. ASSUME NEW i \in DOMAIN rs
      PROVE  /\ sol[i] = MovedTo(rs[i], mode, Line(rs, mode, i))
             /\ sol[i] \in Rects
             /\ Lead(sol[i], mode) = Line(rs, mode, i)
             /\ Size(sol[i], mode) = Size(rs[i], mode)
             /\ Far(sol[i], mode) = Line(rs, mode, i) + Size(rs[i], mode)
  <2>1. sol[i] = MovedTo(rs[i], mode, Line(rs, mode, i))
    BY <1>1
  <2>2. /\ sol[i] \in Rects /\ Lead(sol[i], mode) = Line(rs, mode, i)
        /\ Size(sol[i], mode) = Size(rs[i], mode)
    BY <1>2, <1>3, <2>1, OnAxis
  <2> QED BY <2>1, <2>2 DEF Far
<1>5. DOMAIN sol = 1..Len(rs) /\ sol \in [1..Len(rs) -> Rects]
  BY <1>1, <1>2, <1>4
<1>6. sol \in Seq(Rects) /\ Len(sol) = Len(rs)
  BY <1>2, <1>5
<1> QED BY <1>2, <1>4, <1>5, <1>6 DEF sol

(* Two intervals with one center, and the first starts no later and ends   *)
(* no later than the second: they are equal in both.                       *)
LEMMA SameCenter ==
  ASSUME NEW la \in Int, NEW lb \in Int, NEW li \in Int, NEW sa \in Int, NEW sb \in Int,
         NEW si \in Int, NEW c \in Int, la <= lb, la + sa <= lb + sb,
         2 * la + sa = c, 2 * lb + sb = c, 2 * li + si = c
  PROVE  la = lb /\ (lb + sb) - la - si = 2 * (li - la) /\ (2 * (li - la)) \div 2 = li - la
<1>1. la = lb /\ (lb + sb) - la - si = 2 * (li - la)
  OBVIOUS
<1>2. \A n \in Int : (2 * n) \div 2 = n
  OBVIOUS
<1>3. li - la \in Int
  OBVIOUS
<1> QED BY <1>1, <1>2, <1>3

(* and the lines of the boxes as they are then are the same: they are      *)
(* aligned, and solving again moves nothing.                               *)
LEMMA EdgesSettle ==
  ASSUME NEW rs \in Seq(Rects), Len(rs) > 0, NEW mode \in EdgeModes,
         OnCenter(mode) => Centered(rs, mode)
  PROVE  /\ Aligned(EdgeCenter(rs, mode), mode)
         /\ EdgeCenter(EdgeCenter(rs, mode), mode) = EdgeCenter(rs, mode)
<1> DEFINE sol == EdgeCenter(rs, mode)
           D == DOMAIN rs
           line == [i \in DOMAIN rs |-> Line(rs, mode, i)]
           size == [i \in DOMAIN rs |-> Size(rs[i], mode)]
<1>1. /\ sol \in Seq(Rects) /\ DOMAIN sol = D /\ Len(sol) = Len(rs)
      /\ \A i \in D : /\ sol[i] = MovedTo(rs[i], mode, line[i])
                      /\ Lead(sol[i], mode) = line[i]
                      /\ Size(sol[i], mode) = size[i]
                      /\ Far(sol[i], mode) = line[i] + size[i]
  BY EdgeCenterAt
<1>2. /\ Len(rs) \in Nat /\ D = 1..Len(rs) /\ D # {} /\ \A i \in D : rs[i] \in Rects /\ size[i] \in Nat
  BY FiniteDomain, OnAxis
<1>3. \A i \in D : /\ line[i] \in Int
                   /\ OnFirst(mode) => line[i] = Near(rs, mode)
                   /\ OnLast(mode) => line[i] + size[i] = Limit(rs, mode)
                   /\ OnCenter(mode) => 2 * line[i] + size[i] = Near(rs, mode) + Limit(rs, mode)
  BY Lines
<1>4. \A i \in D : /\ Line(sol, mode, i) \in Int
                   /\ OnFirst(mode) => Line(sol, mode, i) = Near(sol, mode)
                   /\ OnLast(mode) => Line(sol, mode, i) + size[i] = Limit(sol, mode)
  <2>1. ASSUME NEW i \in D
        PROVE  /\ Line(sol, mode, i) \in Int
               /\ OnFirst(mode) => Line(sol, mode, i) = Near(sol, mode)
               /\ OnLast(mode) =>
                    Line(sol, mode, i) + Size(sol[i], mode) = Limit(sol, mode)
    BY <1>1, Lines
  <2> QED BY <1>1, <2>1
<1>5. /\ Near(sol, mode) \in Int /\ Limit(sol, mode) \in Int
      /\ \E i \in D : Near(sol, mode) = line[i]
      /\ \E i \in D : Limit(sol, mode) = line[i] + size[i]
      /\ \A i \in D : Near(sol, mode) <= line[i] /\ line[i] + size[i] <= Limit(sol, mode)
  <2>1. /\ Near(sol, mode) \in Int /\ Limit(sol, mode) \in Int
        /\ \E i \in D : Near(sol, mode) = Lead(sol[i], mode)
        /\ \E i \in D : Limit(sol, mode) = Far(sol[i], mode)
        /\ \A i \in D : /\ Near(sol, mode) <= Lead(sol[i], mode)
                        /\ Far(sol[i], mode) <= Limit(sol, mode)
    BY <1>1, Bounding
  <2> HIDE DEF sol
  <2> QED BY <1>1, <2>1
<1>6. Near(rs, mode) \in Int /\ Limit(rs, mode) \in Int
  BY Bounding
<1>7. OnCenter(mode) =>
        \A i \in D : Line(sol, mode, i)
                      = Near(sol, mode) + (Limit(sol, mode) - Near(sol, mode) - size[i]) \div 2
  BY <1>1 DEF Line, OnCenter
<1>8. OnFirst(mode) \/ OnLast(mode) \/ OnCenter(mode)
  BY EdgeModesAre
<1> HIDE DEF sol, line, size, D
<1>9. ASSUME NEW i \in D
      PROVE  Line(sol, mode, i) = line[i]
  <2>1. CASE OnFirst(mode)
    BY <1>3, <1>4, <1>5, <2>1
  <2>2. CASE OnLast(mode)
    <3>1. Limit(sol, mode) = Limit(rs, mode)
      BY <1>3, <1>5, <2>2
    <3>2. /\ line[i] \in Int /\ size[i] \in Int /\ Line(sol, mode, i) \in Int
          /\ line[i] + size[i] = Limit(sol, mode)
          /\ Line(sol, mode, i) + size[i] = Limit(sol, mode)
      BY <1>2, <1>3, <1>4, <2>2, <3>1
    <3> QED BY <3>2
  <2>3. CASE OnCenter(mode)
    <3>1. PICK a \in D : Near(sol, mode) = line[a]
      BY <1>5
    <3>2. PICK b \in D : Limit(sol, mode) = line[b] + size[b]
      BY <1>5
    <3> DEFINE c == Near(rs, mode) + Limit(rs, mode)
    <3>3. c \in Int /\ \A j \in D : 2 * line[j] + size[j] = c
      BY <1>3, <1>6, <2>3
    <3> HIDE DEF c
    <3>4. \A j \in D : line[j] \in Int /\ size[j] \in Int
      BY <1>2, <1>3
    <3>5. line[a] <= line[b] /\ line[a] + size[a] <= line[b] + size[b]
      BY <1>5, <3>1, <3>2
    <3>6. Line(sol, mode, i) = line[a] + ((line[b] + size[b]) - line[a] - size[i]) \div 2
      BY <1>7, <2>3, <3>1, <3>2
    <3> DEFINE la == line[a]
               lb == line[b]
               li == line[i]
               sa == size[a]
               sb == size[b]
               si == size[i]
    <3>7. /\ la \in Int /\ lb \in Int /\ li \in Int /\ sa \in Int /\ sb \in Int /\ si \in Int
      BY <3>4
    <3>8. la <= lb /\ la + sa <= lb + sb /\ 2 * la + sa = c /\ 2 * lb + sb = c /\ 2 * li + si = c
      BY <3>3, <3>5
    <3>9. Line(sol, mode, i) = la + ((lb + sb) - la - si) \div 2
      BY <3>6
    <3> HIDE DEF la, lb, li, sa, sb, si
    <3>10. (lb + sb) - la - si = 2 * (li - la) /\ (2 * (li - la)) \div 2 = li - la
      BY <3>3, <3>7, <3>8, SameCenter
    <3>11. Line(sol, mode, i) = li
      BY <3>7, <3>9, <3>10
    <3> QED BY <3>11 DEF li
  <2> QED BY <1>8, <2>1, <2>2, <2>3
<1>10. EdgeCenter(sol, mode) = sol
  <2>1. EdgeCenter(sol, mode) \in Seq(Rects) /\ DOMAIN EdgeCenter(sol, mode) = D
        /\ \A i \in D : EdgeCenter(sol, mode)[i] = MovedTo(sol[i], mode, Line(sol, mode, i))
    BY <1>1, EdgeCenterAt
  <2>2. \A i \in D : EdgeCenter(sol, mode)[i] = sol[i]
    <3>1. TAKE i \in D
    <3>2. EdgeCenter(sol, mode)[i] = MovedTo(MovedTo(rs[i], mode, line[i]), mode, line[i])
      BY <1>1, <1>9, <2>1
    <3>3. MovedTo(MovedTo(rs[i], mode, line[i]), mode, line[i]) = MovedTo(rs[i], mode, line[i])
      <4>1. rs[i] \in Rects /\ line[i] \in Int
        BY <1>2, <1>3
      <4> QED BY <4>1, OnAxis
    <3> QED BY <1>1, <3>2, <3>3
  <2> QED BY <1>1, <2>1, <2>2
<1>11. Aligned(sol, mode)
  <2>1. CASE OnFirst(mode)
    <3>1. {Lead(sol[i], mode) : i \in DOMAIN sol} = {Near(rs, mode)}
      BY <1>1, <1>2, <1>3, <2>1
    <3>2. Cardinality({Lead(sol[i], mode) : i \in DOMAIN sol}) = 1
      BY <3>1, Singly
    <3> QED BY <2>1, <3>2 DEF Aligned, OnFirst
  <2>2. CASE OnLast(mode)
    <3>1. {Far(sol[i], mode) : i \in DOMAIN sol} = {Limit(rs, mode)}
      BY <1>1, <1>2, <1>3, <2>2
    <3>2. Cardinality({Far(sol[i], mode) : i \in DOMAIN sol}) = 1
      BY <3>1, Singly
    <3> QED BY <2>2, <3>2 DEF Aligned, OnLast
  <2>3. CASE OnCenter(mode)
    <3>1. \A i \in D : Lead(sol[i], mode) + Far(sol[i], mode) = Near(rs, mode) + Limit(rs, mode)
      <4>1. TAKE i \in D
      <4>2. /\ Lead(sol[i], mode) = line[i] /\ Far(sol[i], mode) = line[i] + size[i]
            /\ line[i] \in Int /\ size[i] \in Nat
            /\ 2 * line[i] + size[i] = Near(rs, mode) + Limit(rs, mode)
        BY <1>1, <1>2, <1>3, <2>3
      <4> QED BY <4>2
    <3>2. {Lead(sol[i], mode) + Far(sol[i], mode) : i \in DOMAIN sol}
            = {Near(rs, mode) + Limit(rs, mode)}
      BY <1>1, <1>2, <3>1
    <3>3. Cardinality({Lead(sol[i], mode) + Far(sol[i], mode) : i \in DOMAIN sol}) = 1
      BY <3>2, Singly
    <3> QED BY <2>3, <3>3 DEF Aligned, OnCenter
  <2> QED BY <1>8, <2>1, <2>2, <2>3
<1> QED BY <1>10, <1>11 DEF sol

-----------------------------------------------------------------------------
(* Orders of 1..n.                                                         *)
OneToOne(o, n) == o \in [1..n -> 1..n] /\ \A j, k \in 1..n : o[j] = o[k] => j = k

(* A one-to-one function that only grows is the identity: below the first  *)
(* place k that does not map to itself nothing maps to k, and above it     *)
(* everything maps to more.                                                *)
LEMMA GrowingIsIdentity ==
  ASSUME NEW n \in Nat, NEW q, OneToOne(q, n),
         \A j, k \in 1..n : j < k => q[j] < q[k]
  PROVE  \A k \in 1..n : q[k] = k
<1> DEFINE Off == {k \in 1..n : q[k] # k}
<1>1. SUFFICES ASSUME Off # {} PROVE FALSE
  OBVIOUS
<1>2. Off \in SUBSET Nat
  OBVIOUS
<1>3. PICK k \in Off : \A j \in Off : k <= j
  BY <1>1, <1>2, Least
<1>4. k \in 1..n /\ q[k] \in 1..n /\ q[k] # k
  BY DEF OneToOne
<1>5. \A j \in 1..n : j < k => q[j] = j
  BY <1>2, <1>3, <1>4
<1>6. q[k] > k
  <2>1. CASE k = 1
    BY <1>4, <2>1
  <2>2. CASE k > 1
    <3>1. k - 1 \in 1..n /\ k - 1 < k
      BY <1>4, <2>2
    <3>2. q[k - 1] = k - 1 /\ q[k - 1] < q[k]
      BY <1>4, <1>5, <3>1
    <3> QED BY <1>4, <3>2
  <2> QED BY <1>4, <2>1, <2>2
<1>7. PICK m \in 1..n : q[m] = k
  <2>1. \A i \in 1..n : \E m \in 1..n : q[m] = i
    BY Onto DEF OneToOne
  <2> QED BY <1>4, <2>1
<1>8. CASE m < k
  BY <1>5, <1>7, <1>8
<1>9. CASE m = k
  BY <1>4, <1>7, <1>9
<1>10. CASE m > k
  <2>1. q[k] < q[m]
    BY <1>4, <1>10
  <2> QED BY <1>4, <1>6, <1>7, <2>1
<1> QED BY <1>4, <1>8, <1>9, <1>10

(* Any numbers can be brought in order: each is given as its place the     *)
(* number of those that come no later, equal ones in the order they had.   *)
LEMMA Sorting ==
  ASSUME NEW n \in Nat, NEW f \in [1..n -> Int]
  PROVE  \E o : OneToOne(o, n) /\ \A j, k \in 1..n : j < k => f[o[j]] <= f[o[k]]
<1> DEFINE D == 1..n
           NoLater(i, k) == f[i] < f[k] \/ (f[i] = f[k] /\ i <= k)
           Upto(k) == {i \in D : NoLater(i, k)}
           rank == [k \in D |-> Cardinality(Upto(k))]
<1>1. IsFiniteSet(D) /\ Cardinality(D) = n
  <2>1. \A i, j \in Int : IsFiniteSet(i..j) /\ Cardinality(i..j) = IF i > j THEN 0 ELSE j - i + 1
    BY FS_Interval
  <2>2. n \in Int /\ 1 \in Int
    OBVIOUS
  <2>3. IsFiniteSet(1..n) /\ Cardinality(1..n) = IF 1 > n THEN 0 ELSE n - 1 + 1
    BY <2>1, <2>2, Zenon
  <2> QED BY <2>3
<1>2. /\ \A k \in D : NoLater(k, k) /\ f[k] \in Int /\ k \in Int
      /\ \A i, k \in D : i # k => (NoLater(i, k) <=> ~NoLater(k, i))
      /\ \A i, j, k \in D : NoLater(i, j) /\ NoLater(j, k) => NoLater(i, k)
      /\ \A i, k \in D : NoLater(i, k) => f[i] <= f[k]
  OBVIOUS
<1>3. n \in Int /\ \A i : i \in D <=> i \in Int /\ 1 <= i /\ i <= n
  OBVIOUS
<1> HIDE DEF NoLater, D
<1>4. \A k \in D : /\ IsFiniteSet(Upto(k)) /\ rank[k] = Cardinality(Upto(k))
                   /\ rank[k] \in Nat /\ rank[k] <= n
  BY <1>1, FS_Subset, FS_CardinalityType
<1> HIDE DEF rank
<1>5. ASSUME NEW i \in D, NEW k \in D, i # k, NoLater(i, k)
      PROVE  rank[i] < rank[k]
  <2>1. Upto(i) \in SUBSET Upto(k) /\ k \in Upto(k) /\ k \notin Upto(i)
    BY <1>2, <1>5
  <2>2. Cardinality(Upto(i)) <= Cardinality(Upto(k)) /\ Cardinality(Upto(i)) # Cardinality(Upto(k))
    <3>1. IsFiniteSet(Upto(k)) /\ Upto(i) # Upto(k)
      BY <1>4, <2>1
    <3> HIDE DEF Upto
    <3> QED BY <2>1, <3>1, FS_Subset
  <2> QED BY <1>4, <2>2
<1>6. \A k \in D : rank[k] >= 1
  <2>1. TAKE k \in D
  <2>2. Cardinality(Upto(k)) # 0
    <3>1. k \in Upto(k)
      BY <1>2
    <3> QED BY <1>4, <3>1, FS_EmptySet
  <2> QED BY <1>4, <2>2
<1> HIDE DEF Upto
<1>7. rank \in [D -> D] /\ \A k \in D : rank[k] \in D
  <2>1. \A k \in D : rank[k] \in D
    BY <1>3, <1>4, <1>6
  <2> QED BY <2>1 DEF rank
<1>8. \A i, k \in D : rank[i] = rank[k] => i = k
  BY <1>2, <1>4, <1>5
<1>9. \A k \in D : \E i \in D : rank[i] = k
  BY <1>7, <1>8, Onto DEF D
<1> DEFINE o == [k \in D |-> CHOOSE i \in D : rank[i] = k]
<1>10. \A k \in D : o[k] \in D /\ rank[o[k]] = k
  BY <1>9
<1>11. o \in [D -> D]
  BY <1>10
<1> HIDE DEF o
<1>12. OneToOne(o, n)
  BY <1>10, <1>11 DEF OneToOne, D
<1>13. ASSUME NEW j \in D, NEW k \in D, j < k
       PROVE  f[o[j]] <= f[o[k]]
  <2>1. o[j] \in D /\ o[k] \in D /\ rank[o[j]] = j /\ rank[o[k]] = k /\ o[j] # o[k]
    BY <1>2, <1>10, <1>13
  <2>2. ~NoLater(o[k], o[j])
    <3>1. SUFFICES ASSUME NoLater(o[k], o[j]) PROVE FALSE
      OBVIOUS
    <3>2. rank[o[k]] < rank[o[j]]
      BY <1>5, <2>1, <3>1
    <3> QED BY <1>2, <1>13, <2>1, <3>2
  <2> QED BY <1>2, <2>1, <2>2
<1> QED BY <1>12, <1>13 DEF D

-----------------------------------------------------------------------------
(* Distribution.  The sum of the sizes of the first k boxes in an order.   *)
Sum(rs, mode, o, k) == SizeOf(rs, mode, {o[j] : j \in 1..k})

(* It grows by one box at a time, to the sum of all.                       *)
LEMMA Sums ==
  ASSUME NEW rs \in Seq(Rects), NEW mode, NEW o, OneToOne(o, Len(rs))
  PROVE  /\ \A k \in 0..Len(rs) : Sum(rs, mode, o, k) \in Nat
         /\ Sum(rs, mode, o, 0) = 0
         /\ \A k \in 1..Len(rs) :
              Sum(rs, mode, o, k) = Sum(rs, mode, o, k - 1) + Size(rs[o[k]], mode)
         /\ Sum(rs, mode, o, Len(rs)) = SizeOf(rs, mode, DOMAIN rs)
         /\ \A j, k \in 0..Len(rs) : j <= k => Sum(rs, mode, o, j) <= Sum(rs, mode, o, k)
<1> DEFINE n == Len(rs)
           First(k) == {o[j] : j \in 1..k}
<1>1. n \in Nat /\ DOMAIN rs = 1..n
  BY FiniteDomain
<1>2. o \in [1..n -> 1..n] /\ \A j, k \in 1..n : o[j] = o[k] => j = k
  BY DEF OneToOne
<1>3. \A k \in 0..n : First(k) \in SUBSET (DOMAIN rs)
  BY <1>1, <1>2
<1>4. First(0) = {}
  OBVIOUS
<1>5. \A k \in 1..n : /\ First(k) = First(k - 1) \cup {o[k]}
                      /\ o[k] \in (DOMAIN rs) \ First(k - 1)
                      /\ k - 1 \in 0..n
  <2>1. TAKE k \in 1..n
  <2>2. \A j : j \in 1..k <=> j \in 1..k - 1 \/ j = k
    BY <1>1
  <2>3. \A j \in 1..k - 1 : j \in 1..n /\ j # k
    BY <1>1
  <2> QED BY <1>1, <1>2, <2>2, <2>3
<1>6. First(n) = DOMAIN rs
  <2>1. \A i \in 1..n : \E k \in 1..n : o[k] = i
    BY <1>1, <1>2, Onto
  <2>2. \A i : i \in First(n) <=> i \in 1..n
    <3>1. \A i : i \in First(n) <=> \E k \in 1..n : i = o[k]
      OBVIOUS
    <3> HIDE DEF First, n
    <3> QED BY <1>2, <2>1, <3>1
  <2> HIDE DEF First, n
  <2> QED BY <1>1, <2>2
<1>7. \A j, k \in 0..n : j <= k => First(j) \in SUBSET First(k)
  BY <1>1
<1>8. \A k : Sum(rs, mode, o, k) = SizeOf(rs, mode, First(k))
  BY DEF Sum
<1> HIDE DEF First
<1>9. \A k \in 0..n : Sum(rs, mode, o, k) \in Nat
  BY <1>3, <1>8, SizeSum
<1>10. Sum(rs, mode, o, 0) = 0
  BY <1>4, <1>8, SizeSum
<1>11. \A k \in 1..n : Sum(rs, mode, o, k) = Sum(rs, mode, o, k - 1) + Size(rs[o[k]], mode)
  <2>1. TAKE k \in 1..n
  <2>2. First(k - 1) \in SUBSET (DOMAIN rs)
    BY <1>3, <1>5
  <2>3. SizeOf(rs, mode, First(k - 1) \cup {o[k]}) = SizeOf(rs, mode, First(k - 1)) + Size(rs[o[k]], mode)
    BY <1>5, <2>2, SizeSum
  <2> QED BY <1>5, <1>8, <2>3
<1>12. \A j, k \in 0..n : j <= k => Sum(rs, mode, o, j) <= Sum(rs, mode, o, k)
  BY <1>3, <1>7, <1>8, SizeSum
<1> QED BY <1>6, <1>8, <1>9, <1>10, <1>11, <1>12

LEMMA AllReached ==
  ASSUME NEW n \in Nat, NEW o, OneToOne(o, n)
  PROVE  \A i \in 1..n : \E k \in 1..n : o[k] = i
  BY Onto DEF OneToOne

(* Where the k-th box in an order goes.                                    *)
Slot(rs, mode, o, k) ==
  Lead(rs[o[1]], mode) + (k - 1) * EqualGap(rs, mode, o) + Sum(rs, mode, o, k - 1)

(* solve_distribute puts every box at its place in the order.              *)
LEMMA GapIsInt ==
  ASSUME NEW rs \in Seq(Rects), Len(rs) >= 2, NEW mode, NEW o, OneToOne(o, Len(rs))
  PROVE  /\ EqualGap(rs, mode, o) \in Int
         /\ \A k \in 1..Len(rs) : Slot(rs, mode, o, k) \in Int
<1> DEFINE n == Len(rs)
           first == Lead(rs[o[1]], mode)
           last == Far(rs[o[n]], mode)
           total == SizeOf(rs, mode, DOMAIN rs)
<1>1. n \in Nat /\ n >= 2 /\ 1 \in 1..n /\ n \in 1..n
  BY FiniteDomain
<1>2. \A k \in 1..n : o[k] \in 1..n /\ rs[o[k]] \in Rects
  BY FiniteDomain DEF OneToOne
<1>3. rs[o[1]] \in Rects /\ rs[o[n]] \in Rects
  BY <1>1, <1>2
<1>4. first \in Int /\ last \in Int
  BY <1>3, OnAxis
<1>5. total \in Nat /\ \A k \in 0..n : Sum(rs, mode, o, k) \in Nat
  <2>1. Sum(rs, mode, o, n) = total /\ \A k \in 0..n : Sum(rs, mode, o, k) \in Nat
    BY Sums
  <2> QED BY <1>1, <2>1
<1>6. EqualGap(rs, mode, o) = (last - first - total) \div (n - 1)
  BY DEF EqualGap
<1>7. \A k : Slot(rs, mode, o, k) = first + (k - 1) * EqualGap(rs, mode, o) + Sum(rs, mode, o, k - 1)
  BY DEF Slot
<1> HIDE DEF n, first, last, total
<1>8. n - 1 \in Int /\ n - 1 > 0 /\ last - first - total \in Int
  BY <1>1, <1>4, <1>5
<1>9. EqualGap(rs, mode, o) \in Int
  BY <1>6, <1>8
<1>10. \A k \in 1..n : Slot(rs, mode, o, k) \in Int
  <2>1. TAKE k \in 1..n
  <2>2. Sum(rs, mode, o, k - 1) \in Int /\ k - 1 \in Int
    BY <1>1, <1>5
  <2> QED BY <1>4, <1>7, <1>9, <2>2
<1> QED BY <1>9, <1>10 DEF n

LEMMA Spread ==
  ASSUME NEW rs \in Seq(Rects), Len(rs) >= 2, NEW mode, NEW o, OneToOne(o, Len(rs))
  PROVE  LET sol == Distribute(rs, mode, o)
         IN /\ sol \in Seq(Rects) /\ DOMAIN sol = DOMAIN rs /\ Len(sol) = Len(rs)
            /\ \A i \in DOMAIN rs : Size(sol[i], mode) = Size(rs[i], mode)
            /\ \A k \in 1..Len(rs) :
                 /\ sol[o[k]] = MovedTo(rs[o[k]], mode, Slot(rs, mode, o, k))
                 /\ Lead(sol[o[k]], mode) = Slot(rs, mode, o, k)
<1> DEFINE n == Len(rs)
           D == DOMAIN rs
           sol == Distribute(rs, mode, o)
           at(i) == CHOOSE k \in D : o[k] = i
<1>1. n \in Nat /\ D = 1..n /\ \A i \in D : rs[i] \in Rects
  BY FiniteDomain
<1>2. o \in [D -> D] /\ \A j, k \in D : o[j] = o[k] => j = k
  BY <1>1 DEF OneToOne
<1>3. \A i \in D : \E k \in D : o[k] = i
  <2>1. \A i \in 1..n : \E k \in 1..n : o[k] = i
    BY <1>1, AllReached
  <2> QED BY <1>1, <2>1
<1>4. sol = [i \in D |-> MovedTo(rs[i], mode, Slot(rs, mode, o, at(i)))]
  BY DEF Distribute, Slot, Sum
<1> HIDE DEF sol, D
<1>5. \A i \in D : at(i) \in D /\ o[at(i)] = i
  BY <1>3
<1>6. \A k \in D : o[k] \in D /\ at(o[k]) = k
  BY <1>2, <1>5
<1> HIDE DEF at
<1>7. \A k \in D : Slot(rs, mode, o, k) \in Int
  BY <1>1, GapIsInt
<1>8. ASSUME NEW i \in D
      PROVE  sol[i] \in Rects /\ Size(sol[i], mode) = Size(rs[i], mode)
  <2>1. sol[i] = MovedTo(rs[i], mode, Slot(rs, mode, o, at(i))) /\ Slot(rs, mode, o, at(i)) \in Int
    BY <1>4, <1>5, <1>7
  <2>2. rs[i] \in Rects
    BY <1>1
  <2>3. \A m \in Int : MovedTo(rs[i], mode, m) \in Rects /\ Size(MovedTo(rs[i], mode, m), mode) = Size(rs[i], mode)
    BY <2>2, OnAxis
  <2> QED BY <2>1, <2>3
<1>9. ASSUME NEW k \in D
      PROVE  /\ sol[o[k]] = MovedTo(rs[o[k]], mode, Slot(rs, mode, o, k))
             /\ Lead(sol[o[k]], mode) = Slot(rs, mode, o, k)
  <2>1. sol[o[k]] = MovedTo(rs[o[k]], mode, Slot(rs, mode, o, k))
    BY <1>4, <1>6
  <2>2. rs[o[k]] \in Rects /\ Slot(rs, mode, o, k) \in Int
    BY <1>1, <1>6, <1>7
  <2> QED BY <2>1, <2>2, OnAxis
<1>10. DOMAIN sol = D /\ sol \in [1..n -> Rects]
  BY <1>1, <1>4, <1>8
<1>11. sol \in Seq(Rects) /\ Len(sol) = n
  BY <1>1, <1>10
<1> QED BY <1>1, <1>8, <1>9, <1>10, <1>11 DEF sol, D

-----------------------------------------------------------------------------
(* A gap times how many there are, divided by how many there are.          *)
LEMMA WholeGap ==
  ASSUME NEW m \in Nat, m > 0, NEW g \in Int
  PROVE  (m * g) \div m = g
  OBVIOUS

(* A row of boxes: in the order o each comes a gap after the one before.   *)
Row(rs, mode, o, first, gap) ==
  \A k \in 1..Len(rs) : Lead(rs[o[k]], mode) = first + (k - 1) * gap + Sum(rs, mode, o, k - 1)

(* With sizes above zero and a gap that is not below, the leading edges    *)
(* grow along the row: no other order sorts them.                          *)
LEMMA RowOrder ==
  ASSUME NEW rs \in Seq(Rects), NEW mode, NEW o, OneToOne(o, Len(rs)),
         NEW first \in Int, NEW gap \in Nat, Row(rs, mode, o, first, gap),
         \A i \in DOMAIN rs : Size(rs[i], mode) > 0
  PROVE  Orders(rs, mode) = {o}
<1> DEFINE n == Len(rs)
           lead(i) == Lead(rs[i], mode)
           S(k) == Sum(rs, mode, o, k)
<1>1. n \in Nat /\ DOMAIN rs = 1..n /\ \A i \in 1..n : rs[i] \in Rects /\ Size(rs[i], mode) \in Nat /\ Size(rs[i], mode) > 0
  BY FiniteDomain, OnAxis
<1>2. o \in [1..n -> 1..n] /\ \A j, k \in 1..n : o[j] = o[k] => j = k
  BY DEF OneToOne
<1>3. \A k \in 1..n : lead(o[k]) = first + (k - 1) * gap + S(k - 1)
  BY DEF Row
<1>4. \A k \in 0..n : S(k) \in Nat
  BY Sums
<1>5. \A k \in 1..n : S(k) > S(k - 1)
  <2>1. \A k \in 1..n : S(k) = S(k - 1) + Size(rs[o[k]], mode)
    BY Sums
  <2>2. \A k \in 1..n : Size(rs[o[k]], mode) \in Nat /\ Size(rs[o[k]], mode) > 0 /\ S(k - 1) \in Nat
    BY <1>1, <1>2, <1>4
  <2> HIDE DEF S
  <2> QED BY <2>1, <2>2
<1>6. \A j, k \in 0..n : j <= k => S(j) <= S(k)
  BY Sums
<1> HIDE DEF n, lead, S
<1>7. ASSUME NEW j \in 1..n, NEW k \in 1..n, j < k
      PROVE  lead(o[j]) < lead(o[k])
  <2>1. S(j) > S(j - 1) /\ S(j) <= S(k - 1) /\ S(j) \in Nat /\ S(j - 1) \in Nat /\ S(k - 1) \in Nat
    <3>1. j \in 0..n /\ j - 1 \in 0..n /\ k - 1 \in 0..n /\ j <= k - 1
      BY <1>1, <1>7
    <3> QED BY <1>4, <1>5, <1>6, <3>1
  <2>2. (j - 1) * gap <= (k - 1) * gap /\ (j - 1) * gap \in Int /\ (k - 1) * gap \in Int
    <3>1. (k - 1) * gap = (j - 1) * gap + (k - j) * gap /\ (k - j) * gap \in Nat
      BY <1>1, <1>7
    <3>2. (j - 1) * gap \in Int /\ (k - 1) * gap \in Int
      BY <1>1
    <3> QED BY <3>1, <3>2
  <2> DEFINE a == (j - 1) * gap
             b == (k - 1) * gap
  <2>3. lead(o[j]) = first + a + S(j - 1) /\ lead(o[k]) = first + b + S(k - 1)
    BY <1>3
  <2>4. a \in Int /\ b \in Int /\ a <= b
    BY <2>2
  <2> HIDE DEF a, b
  <2> QED BY <2>1, <2>3, <2>4
<1>8. \A p \in Orders(rs, mode) :
        /\ p \in [1..n -> 1..n] /\ \A j, k \in 1..n : p[j] = p[k] => j = k
        /\ \A j, k \in 1..n : j < k => lead(p[j]) <= lead(p[k])
  BY <1>1 DEF Orders, lead
<1>9. o \in Orders(rs, mode)
  <2>1. \A j, k \in 1..n : j < k => lead(o[j]) <= lead(o[k])
    <3>1. \A k \in 1..n : lead(k) \in Int
      BY <1>1, OnAxis DEF lead
    <3> QED BY <1>2, <1>7, <3>1
  <2> QED BY <1>1, <1>2, <2>1 DEF Orders, lead
<1>10. ASSUME NEW p \in Orders(rs, mode)
       PROVE  p = o
  <2>1. \A i \in 1..n : \E k \in 1..n : o[k] = i
    BY <1>1, <1>2, Onto
  <2> DEFINE q == [k \in 1..n |-> CHOOSE j \in 1..n : o[j] = p[k]]
  <2>2. \A k \in 1..n : q[k] \in 1..n /\ o[q[k]] = p[k]
    BY <1>8, <2>1
  <2>3. q \in [1..n -> 1..n]
    BY <2>2
  <2> HIDE DEF q
  <2>4. \A j, k \in 1..n : q[j] = q[k] => j = k
    BY <1>8, <2>2
  <2>5. ASSUME NEW j \in 1..n, NEW k \in 1..n, j < k
        PROVE  q[j] < q[k]
    <3>1. q[j] # q[k] /\ q[j] \in Int /\ q[k] \in Int
      BY <1>1, <2>2, <2>4, <2>5
    <3>2. lead(o[q[j]]) <= lead(o[q[k]])
      BY <1>8, <2>2, <2>5
    <3>3. lead(o[q[j]]) \in Int /\ lead(o[q[k]]) \in Int
      BY <1>1, <1>2, <2>2, OnAxis DEF lead
    <3>4. ~(q[k] < q[j])
      <4>1. SUFFICES ASSUME q[k] < q[j] PROVE FALSE
        OBVIOUS
      <4>2. lead(o[q[k]]) < lead(o[q[j]])
        BY <1>7, <2>2, <4>1
      <4> QED BY <3>2, <3>3, <4>2
    <3> QED BY <3>1, <3>4
  <2>6. \A k \in 1..n : q[k] = k
    BY <1>1, <2>3, <2>4, <2>5, GrowingIsIdentity DEF OneToOne
  <2>7. \A k \in 1..n : p[k] = o[k]
    BY <2>2, <2>6
  <2>8. p \in [1..n -> 1..n]
    BY <1>8
  <2>9. DOMAIN p = 1..n /\ DOMAIN o = 1..n /\ p = [k \in 1..n |-> p[k]] /\ o = [k \in 1..n |-> o[k]]
    BY <1>2, <2>8
  <2>10. [k \in 1..n |-> p[k]] = [k \in 1..n |-> o[k]]
    BY <2>7
  <2> QED BY <2>9, <2>10, Zenon
<1> QED BY <1>9, <1>10

(* The gap of a row, whatever its sign, is found again.                    *)
LEMMA RowGap ==
  ASSUME NEW rs \in Seq(Rects), Len(rs) >= 2, NEW mode, NEW o, OneToOne(o, Len(rs)),
         NEW first \in Int, NEW gap \in Int, Row(rs, mode, o, first, gap)
  PROVE  /\ Lead(rs[o[1]], mode) = first /\ EqualGap(rs, mode, o) = gap
         /\ \A k \in 1..Len(rs) - 1 : Lead(rs[o[k + 1]], mode) - Far(rs[o[k]], mode) = gap
<1> DEFINE n == Len(rs)
           lead(k) == Lead(rs[o[k]], mode)
           far(k) == Far(rs[o[k]], mode)
           size(k) == Size(rs[o[k]], mode)
           S(k) == Sum(rs, mode, o, k)
           total == SizeOf(rs, mode, DOMAIN rs)
<1>1. n \in Nat /\ n >= 2
  BY FiniteDomain
<1>2. \A k \in 1..n : lead(k) \in Int /\ far(k) = lead(k) + size(k) /\ size(k) \in Nat
  <2>1. TAKE k \in 1..n
  <2>2. rs[o[k]] \in Rects
    BY FiniteDomain DEF OneToOne
  <2> QED BY <2>2, OnAxis
<1>3. \A k \in 1..n : lead(k) = first + (k - 1) * gap + S(k - 1)
  BY DEF Row
<1>4. /\ \A k \in 0..n : S(k) \in Nat
      /\ S(0) = 0 /\ S(n) = total
      /\ \A k \in 1..n : S(k) = S(k - 1) + size(k)
  BY Sums
<1>5. EqualGap(rs, mode, o) = (far(n) - lead(1) - total) \div (n - 1)
  BY DEF EqualGap
<1> HIDE DEF n, lead, far, size, S, total
<1>6. lead(1) = first
  <2>1. 1 \in 1..n /\ 1 - 1 = 0
    BY <1>1
  <2>2. lead(1) = first + 0 * gap + S(0)
    BY <1>3, <2>1
  <2> QED BY <1>4, <2>2
<1>7. EqualGap(rs, mode, o) = gap
  <2> DEFINE m == n - 1
             mg == m * gap
  <2>1. n \in 1..n /\ n - 1 \in 0..n /\ m \in Nat /\ m > 0 /\ mg \in Int
    BY <1>1
  <2>2. lead(n) = first + mg + S(n - 1) /\ far(n) = lead(n) + size(n) /\ size(n) \in Nat
    BY <1>2, <1>3, <2>1
  <2>3. S(n - 1) \in Nat /\ total = S(n - 1) + size(n)
    BY <1>4, <2>1
  <2>4. mg \div m = gap
    BY <2>1, WholeGap
  <2>5. EqualGap(rs, mode, o) = (far(n) - lead(1) - total) \div m
    BY <1>5
  <2> HIDE DEF m, mg
  <2>6. far(n) - lead(1) - total = mg
    BY <1>6, <2>1, <2>2, <2>3
  <2> QED BY <2>4, <2>5, <2>6
<1>8. ASSUME NEW k \in 1..n - 1
      PROVE  lead(k + 1) - far(k) = gap
  <2> DEFINE kg == (k - 1) * gap
  <2>1. k \in 1..n /\ k + 1 \in 1..n /\ k - 1 \in 0..n /\ k \in 0..n /\ (k + 1) - 1 = k /\ k \in Int
    BY <1>1
  <2>2. k * gap = kg + gap /\ kg \in Int
    BY <2>1
  <2>3. lead(k) = first + kg + S(k - 1) /\ far(k) = lead(k) + size(k) /\ size(k) \in Nat
    BY <1>2, <1>3, <2>1
  <2>4. lead(k + 1) = first + k * gap + S(k)
    BY <1>3, <2>1
  <2>5. S(k) = S(k - 1) + size(k) /\ S(k - 1) \in Nat
    BY <1>4, <2>1
  <2> HIDE DEF kg
  <2> QED BY <2>2, <2>3, <2>4, <2>5
<1> QED BY <1>6, <1>7, <1>8 DEF n, lead, far

(* A row with room is distributed, and stays.                              *)
LEMMA RowSettles ==
  ASSUME NEW rs \in Seq(Rects), Len(rs) >= 2, NEW mode \in DistributeModes, NEW o, OneToOne(o, Len(rs)),
         NEW first \in Int, NEW gap \in Nat, Row(rs, mode, o, first, gap),
         \A i \in DOMAIN rs : Size(rs[i], mode) > 0
  PROVE  Aligned(rs, mode) /\ rs \in Solutions(rs, mode)
<1> DEFINE n == Len(rs)
<1>1. n \in Nat /\ n >= 2 /\ DOMAIN rs = 1..n /\ \A i \in 1..n : rs[i] \in Rects
  BY FiniteDomain
<1>2. Orders(rs, mode) = {o}
  BY RowOrder
<1>3. /\ EqualGap(rs, mode, o) = gap /\ Lead(rs[o[1]], mode) = first
      /\ \A k \in 1..n - 1 : Lead(rs[o[k + 1]], mode) - Far(rs[o[k]], mode) = gap
  BY RowGap
<1>4. mode \notin EdgeModes /\ ~OnFirst(mode) /\ ~OnLast(mode) /\ ~OnCenter(mode)
  BY DEF DistributeModes, EdgeModes, OnFirst, OnLast, OnCenter
<1>5. Aligned(rs, mode)
  <2>1. (CHOOSE p \in Orders(rs, mode) : TRUE) = o
    BY <1>2
  <2>2. Gaps(rs, mode) = {Lead(rs[o[k + 1]], mode) - Far(rs[o[k]], mode) : k \in 1..n - 1}
    BY <2>1 DEF Gaps
  <2>3. 1 \in 1..n - 1
    BY <1>1
  <2>4. Gaps(rs, mode) = {gap}
    BY <1>3, <2>2, <2>3
  <2>5. Cardinality(Gaps(rs, mode)) = 1
    BY <2>4, Singly
  <2> QED BY <1>4, <2>5 DEF Aligned, OnFirst, OnLast, OnCenter
<1>6. Distribute(rs, mode, o) = rs
  <2> DEFINE sol == Distribute(rs, mode, o)
  <2>1. /\ sol \in Seq(Rects) /\ DOMAIN sol = DOMAIN rs /\ Len(sol) = n
        /\ \A k \in 1..n : sol[o[k]] = MovedTo(rs[o[k]], mode, Slot(rs, mode, o, k))
    BY Spread
  <2> HIDE DEF sol
  <2>2. \A k \in 1..n : Slot(rs, mode, o, k) = Lead(rs[o[k]], mode)
    BY <1>3 DEF Slot, Row
  <2>3. \A i \in 1..n : \E k \in 1..n : o[k] = i
    BY <1>1, AllReached
  <2>4. \A i \in 1..n : sol[i] = MovedTo(rs[i], mode, Lead(rs[i], mode))
    <3>1. TAKE i \in 1..n
    <3>2. PICK k \in 1..n : o[k] = i
      BY <2>3
    <3>3. sol[o[k]] = MovedTo(rs[o[k]], mode, Lead(rs[o[k]], mode))
      BY <2>1, <2>2
    <3> QED BY <3>2, <3>3
  <2>5. \A i \in 1..n : sol[i] = rs[i]
    BY <1>1, <2>4, OnAxis
  <2>6. sol = rs
    BY <1>1, <2>1, <2>5
  <2> QED BY <2>6 DEF sol
<1> QED BY <1>2, <1>4, <1>5, <1>6 DEF Solutions

(* Boxes that were laid out with a gap below zero leave no room however    *)
(* they are ordered now.                                                   *)
LEMMA NoRoom ==
  ASSUME NEW rs \in Seq(Rects), Len(rs) >= 2, NEW mode \in DistributeModes, NEW o, OneToOne(o, Len(rs)),
         NEW first \in Int, NEW gap \in Int, gap < 0, Row(rs, mode, o, first, gap),
         \A i \in DOMAIN rs : Size(rs[i], mode) > 0,
         -((Len(rs) - 1) * gap) < SizeOf(rs, mode, DOMAIN rs)
  PROVE  ~Room(rs, mode)
<1> DEFINE n == Len(rs)
           lead(i) == Lead(rs[i], mode)
           size(i) == Size(rs[i], mode)
           far(i) == Far(rs[i], mode)
           S(k) == Sum(rs, mode, o, k)
           total == SizeOf(rs, mode, DOMAIN rs)
<1>1. n \in Nat /\ n >= 2 /\ DOMAIN rs = 1..n /\ \A i \in 1..n : rs[i] \in Rects /\ lead(i) \in Int /\ size(i) \in Nat
  BY FiniteDomain, OnAxis
<1>2. o \in [1..n -> 1..n] /\ \A i \in 1..n : \E k \in 1..n : o[k] = i
  <2>1. o \in [1..n -> 1..n]
    BY DEF OneToOne
  <2>2. \A i \in 1..n : \E k \in 1..n : o[k] = i
    BY <1>1, AllReached
  <2> QED BY <2>1, <2>2
<1>3. \A k \in 1..n : lead(o[k]) = first + (k - 1) * gap + S(k - 1)
  BY DEF Row
<1>4. /\ \A k \in 0..n : S(k) \in Nat
      /\ S(n) = total
      /\ \A k \in 1..n : S(k) = S(k - 1) + size(o[k])
      /\ \A j, k \in 0..n : j <= k => S(j) <= S(k)
  BY Sums
<1>5. -((n - 1) * gap) < total
  OBVIOUS
<1>6. /\ \A p : EqualGap(rs, mode, p) = (far(p[n]) - lead(p[1]) - total) \div (n - 1)
      /\ \A i : far(i) = lead(i) + size(i)
  BY DEF EqualGap, Far
<1> DEFINE f == [i \in 1..n |-> lead(i)]
<1>7. PICK p : OneToOne(p, n) /\ \A j, k \in 1..n : j < k => f[p[j]] <= f[p[k]]
  <2>1. f \in [1..n -> Int]
    BY <1>1
  <2> HIDE DEF f, n
  <2> QED BY <1>1, <2>1, Sorting
<1>8. p \in [1..n -> 1..n] /\ \A j, k \in 1..n : p[j] = p[k] => j = k
  BY <1>7 DEF OneToOne
<1>9. p \in Orders(rs, mode)
  BY <1>1, <1>7, <1>8 DEF Orders
<1> HIDE DEF n, lead, size, far, S, total, f
<1>10. PICK a \in 1..n : o[a] = p[1]
  <2>1. p[1] \in 1..n
    BY <1>1, <1>8
  <2> QED BY <1>2, <2>1
<1>11. PICK b \in 1..n : o[b] = p[n]
  <2>1. p[n] \in 1..n
    BY <1>1, <1>8
  <2> QED BY <1>2, <2>1
<1>12. a # b
  <2>1. 1 \in 1..n /\ n \in 1..n /\ 1 # n
    BY <1>1
  <2> QED BY <1>8, <1>10, <1>11, <2>1
<1> DEFINE ag == (a - 1) * gap
           bg == (b - 1) * gap
           ng == (n - 1) * gap
           lo == lead(p[1])
           hi == lead(p[n])
           sz == size(p[n])
           Sa == S(a - 1)
           Sb == S(b - 1)
           Sbb == S(b)
           z == (hi + sz) - lo - total
<1>13. /\ a \in 0..n /\ b \in 0..n /\ a - 1 \in 0..n /\ b - 1 \in 0..n /\ n \in 0..n
       /\ a \in Int /\ b \in Int /\ n \in Int
  BY <1>1
<1>14. lo = first + ag + Sa /\ hi = first + bg + Sb /\ Sbb = Sb + sz
  BY <1>3, <1>4, <1>10, <1>11
<1>15. Sa \in Nat /\ Sb \in Nat /\ Sbb \in Nat /\ total \in Nat /\ sz \in Nat
  <2>1. total \in Nat /\ Sa \in Nat /\ Sb \in Nat /\ Sbb \in Nat
    BY <1>4, <1>13
  <2>2. p[n] \in 1..n
    BY <1>1, <1>8
  <2> QED BY <1>1, <2>1, <2>2
<1>16. ag \in Int /\ bg \in Int /\ ng \in Int
  BY <1>13
<1>17. Sbb <= total
  BY <1>4, <1>13
<1>18. b < a => Sbb <= Sa
  BY <1>4, <1>13
<1>19. -ng < total
  BY <1>5
<1> HIDE DEF lo, hi, sz, Sa, Sb, Sbb
<1>20. z < 0
  <2>1. CASE b > a
    <3>1. bg - ag < 0
      <4>1. bg = ag + (b - a) * gap
        BY <1>13
      <4>2. (b - a) * gap < 0 /\ (b - a) * gap \in Int
        BY <1>13, <2>1
      <4> HIDE DEF ag, bg
      <4> QED BY <1>16, <4>1, <4>2
    <3> HIDE DEF ag, bg
    <3> QED BY <1>14, <1>15, <1>16, <1>17, <3>1
  <2>2. CASE b < a
    <3>1. bg - ag <= -ng
      <4>1. ag - bg = (a - b) * gap
        BY <1>13
      <4>2. (a - b) * gap = ng + ((a - b) - (n - 1)) * gap
        BY <1>13
      <4>3. ((a - b) - (n - 1)) * gap \in Int /\ ((a - b) - (n - 1)) * gap >= 0
        <5>1. (a - b) - (n - 1) \in Int /\ (a - b) - (n - 1) <= 0
          BY <1>13
        <5> QED BY <5>1
      <4> HIDE DEF ag, bg, ng
      <4> QED BY <1>16, <4>1, <4>2, <4>3
    <3> HIDE DEF ag, bg, ng
    <3> QED BY <1>14, <1>15, <1>16, <1>18, <1>19, <2>2, <3>1
  <2> QED BY <1>12, <1>13, <2>1, <2>2
<1>21. z \in Int
  <2> HIDE DEF ag, bg, ng
  <2> QED BY <1>14, <1>15, <1>16
<1>22. EqualGap(rs, mode, p) = z \div (n - 1)
  <2>1. EqualGap(rs, mode, p) = (far(p[n]) - lead(p[1]) - total) \div (n - 1)
    BY <1>6
  <2>2. far(p[n]) = hi + sz /\ lo = lead(p[1])
    BY <1>6 DEF lo, hi, sz
  <2>3. far(p[n]) - lead(p[1]) - total = z
    BY <2>2
  <2> HIDE DEF z
  <2> QED BY <2>1, <2>3, Zenon
<1> HIDE DEF z
<1>23. EqualGap(rs, mode, p) < 0
  <2>1. n - 1 \in Int /\ n - 1 > 0
    BY <1>1
  <2> QED BY <1>20, <1>21, <1>22, <2>1
<1>24. ~(EqualGap(rs, mode, p) >= 0)
  <2>1. EqualGap(rs, mode, p) \in Int
    BY <1>1, <1>21, <1>22
  <2> QED BY <1>23, <2>1
<1> QED BY <1>9, <1>24 DEF Room

(* A division without remainder.                                           *)
LEMMA Exactly ==
  ASSUME NEW a \in Int, NEW m \in Nat, m > 0, a % m = 0
  PROVE  m * (a \div m) = a
  OBVIOUS

Whole(rs, mode) ==
  \A o \in Orders(rs, mode) :
    (Far(rs[o[Len(rs)]], mode) - Lead(rs[o[1]], mode) - SizeOf(rs, mode, DOMAIN rs))
      % (Len(rs) - 1) = 0
Settled(rs, mode) == Room(rs, mode) => Aligned(rs, mode) /\ rs \in Solutions(rs, mode)

LEMMA OrdersOneToOne ==
  ASSUME NEW rs \in Seq(Rects), NEW mode, NEW o \in Orders(rs, mode)
  PROVE  OneToOne(o, Len(rs))
<1>1. DOMAIN rs = 1..Len(rs)
  BY FiniteDomain
<1> QED BY <1>1 DEF Orders, OneToOne

(* What solve_distribute answers is a row.  When its gap is below zero,    *)
(* some order shows that there is no room.                                 *)
LEMMA DistributeSettles ==
  ASSUME NEW rs \in Seq(Rects), Len(rs) >= 2, NEW mode \in DistributeModes, NEW o \in Orders(rs, mode),
         \A i \in DOMAIN rs : Size(rs[i], mode) > 0, Whole(rs, mode)
  PROVE  Settled(Distribute(rs, mode, o), mode)
<1> DEFINE n == Len(rs)
           sol == Distribute(rs, mode, o)
           gap == EqualGap(rs, mode, o)
           first == Lead(rs[o[1]], mode)
           last == Lead(rs[o[n]], mode)
           size == Size(rs[o[n]], mode)
           total == SizeOf(rs, mode, DOMAIN rs)
           far == Far(rs[o[n]], mode)
<1>1. n \in Nat /\ n >= 2 /\ DOMAIN rs = 1..n /\ \A i \in 1..n : rs[i] \in Rects
  BY FiniteDomain
<1>2. OneToOne(o, n)
  BY OrdersOneToOne
<1>3. \A k \in 1..n : o[k] \in 1..n
  BY <1>2 DEF OneToOne
<1>4. first \in Int /\ last \in Int /\ size \in Nat /\ size > 0 /\ far = last + size
  <2>1. 1 \in 1..n /\ n \in 1..n
    BY <1>1
  <2>2. rs[o[1]] \in Rects /\ rs[o[n]] \in Rects /\ o[n] \in DOMAIN rs
    BY <1>1, <1>3, <2>1
  <2>3. size > 0
    BY <2>2
  <2> QED BY <2>2, <2>3, OnAxis
<1>5. gap \in Int
  BY <1>2, GapIsInt
<1>6. /\ sol \in Seq(Rects) /\ DOMAIN sol = DOMAIN rs /\ Len(sol) = n
      /\ \A i \in DOMAIN rs : Size(sol[i], mode) = Size(rs[i], mode)
      /\ \A k \in 1..n : Lead(sol[o[k]], mode) = Slot(rs, mode, o, k)
  BY <1>2, Spread
<1>7. \A i \in DOMAIN sol : Size(sol[i], mode) > 0
  BY <1>6
<1>8. Row(sol, mode, o, first, gap)
  <2>1. \A k \in 1..n : {o[j] : j \in 1..k - 1} \in SUBSET (DOMAIN rs)
    BY <1>1, <1>3
  <2>2. \A k \in 1..n : Sum(sol, mode, o, k - 1) = Sum(rs, mode, o, k - 1)
    <3>1. TAKE k \in 1..n
    <3>2. PICK T \in SUBSET (DOMAIN rs) : T = {o[j] : j \in 1..k - 1}
      BY <2>1
    <3>3. SizeOf(rs, mode, T) = SizeOf(sol, mode, T)
      <4> HIDE DEF sol
      <4> QED BY <1>6, SameSizes
    <3> HIDE DEF sol
    <3> QED BY <3>2, <3>3 DEF Sum
  <2> HIDE DEF sol
  <2> QED BY <1>6, <2>2 DEF Row, Slot
<1>9. OneToOne(o, Len(sol)) /\ Len(sol) >= 2
  BY <1>1, <1>2, <1>6
<1>10. CASE gap >= 0
  <2>1. gap \in Nat
    BY <1>5, <1>10
  <2>2. Aligned(sol, mode) /\ sol \in Solutions(sol, mode)
    <3> HIDE DEF sol, first, gap
    <3> QED BY <1>4, <1>6, <1>7, <1>8, <1>9, <2>1, RowSettles
  <2> QED BY <2>2 DEF Settled
<1>11. CASE gap < 0
  <2>1. total \in Nat /\ total = SizeOf(sol, mode, DOMAIN sol)
    <3>1. DOMAIN rs \in SUBSET (DOMAIN rs)
      OBVIOUS
    <3>2. total \in Nat
      BY <3>1, SizeSum
    <3>3. SizeOf(rs, mode, DOMAIN rs) = SizeOf(sol, mode, DOMAIN rs)
      <4> HIDE DEF sol
      <4> QED BY <1>6, <3>1, SameSizes
    <3> HIDE DEF sol
    <3> QED BY <1>6, <3>2, <3>3
  <2>2. first <= last
    <3>1. 1 \in 1..n /\ n \in 1..n /\ 1 < n
      BY <1>1
    <3> QED BY <1>1, <3>1 DEF Orders
  <2>3. (far - first - total) % (n - 1) = 0 /\ gap = (far - first - total) \div (n - 1)
    BY DEF Whole, EqualGap
  <2>4. (n - 1) * gap = far - first - total
    <3>1. n - 1 \in Nat /\ n - 1 > 0
      BY <1>1
    <3> DEFINE span == far - first - total
    <3>2. span \in Int /\ span % (n - 1) = 0 /\ gap = span \div (n - 1)
      BY <1>4, <2>1, <2>3
    <3> HIDE DEF span, gap
    <3>3. (n - 1) * (span \div (n - 1)) = span
      BY <3>1, <3>2, Exactly
    <3> QED BY <3>2, <3>3 DEF span
  <2>5. -((n - 1) * gap) < total
    <3> DEFINE ng == (n - 1) * gap
    <3>1. ng = far - first - total
      BY <2>4
    <3> HIDE DEF ng, far, first, last, size, total
    <3>2. -ng < total
      BY <1>4, <2>1, <2>2, <3>1
    <3> QED BY <3>2 DEF ng
  <2>6. -((Len(sol) - 1) * gap) < SizeOf(sol, mode, DOMAIN sol)
    <3> HIDE DEF sol, gap, total
    <3> QED BY <1>6, <2>1, <2>5
  <2>7. ~Room(sol, mode)
    <3> HIDE DEF sol, gap, first
    <3> QED BY <1>4, <1>5, <1>6, <1>7, <1>8, <1>9, <1>11, <2>6, NoRoom
  <2> QED BY <2>7 DEF Settled
<1>12. gap >= 0 \/ gap < 0
  BY <1>5
<1> QED BY <1>10, <1>11, <1>12

(* Every solution, of any mode.                                            *)
LEMMA SolutionsFit ==
  ASSUME NEW rs \in Seq(Rects), NEW mode \in AlignModes, Alignable(rs, mode),
         NEW sol \in Solutions(rs, mode)
  PROVE  sol \in Seq(Rects) /\ DOMAIN sol = DOMAIN rs /\ Len(rs) >= 2
<1>1. Len(rs) \in Nat /\ Len(rs) >= 2
  BY FiniteDomain DEF Alignable
<1>2. CASE mode \in EdgeModes
  <2>1. sol = EdgeCenter(rs, mode)
    BY <1>2 DEF Solutions
  <2> QED BY <1>1, <1>2, <2>1, EdgeCenterAt
<1>3. CASE mode \notin EdgeModes
  <2>1. PICK o \in Orders(rs, mode) : sol = Distribute(rs, mode, o)
    BY <1>3 DEF Solutions
  <2>2. OneToOne(o, Len(rs))
    BY OrdersOneToOne
  <2> QED BY <1>1, <2>1, <2>2, Spread
<1> QED BY <1>2, <1>3

LEMMA SolutionsSettle ==
  ASSUME NEW rs \in Seq(Rects), NEW mode \in AlignModes, Alignable(rs, mode),
         NEW sol \in Solutions(rs, mode),
         \A i \in DOMAIN rs : Size(rs[i], mode) > 0,
         mode \in DistributeModes => Whole(rs, mode),
         OnCenter(mode) => Centered(rs, mode)
  PROVE  Settled(sol, mode)
<1>1. Len(rs) \in Nat /\ Len(rs) >= 2
  BY FiniteDomain DEF Alignable
<1>2. CASE mode \in EdgeModes
  <2>1. sol = EdgeCenter(rs, mode)
    BY <1>2 DEF Solutions
  <2>2. Aligned(sol, mode) /\ EdgeCenter(sol, mode) = sol
    BY <1>1, <1>2, <2>1, EdgesSettle
  <2> QED BY <1>2, <2>2 DEF Solutions, Settled
<1>3. CASE mode \notin EdgeModes
  <2>1. PICK o \in Orders(rs, mode) : sol = Distribute(rs, mode, o)
    BY <1>3 DEF Solutions
  <2>2. mode \in DistributeModes
    BY <1>3 DEF AlignModes
  <2> QED BY <1>1, <2>1, <2>2, DistributeSettles
<1> QED BY <1>2, <1>3

(* Asking for what there is already moves nothing.                         *)
LEMMA NoMovesLeft ==
  ASSUME NEW rs, NEW mode, rs \in Solutions(rs, mode)
  PROVE  \E solution \in Solutions(rs, mode) : Moves(rs, solution) = {}
<1>1. Moves(rs, rs) = {}
  BY DEF Moves
<1> QED BY <1>1

-----------------------------------------------------------------------------
(* The steps of align_objects and of the client.                           *)
Move(g, sol, i) == [box |-> g[i], rect |-> sol[i]]
Pending(f, g, sol) == {Move(g, sol, i) : i \in {j \in DOMAIN g : sol[j] # f[g[j]]}}
Distinct(g) == \A i, j \in DOMAIN g : g[i] = g[j] => i = j

(* The rectangles of a group.                                              *)
LEMMA SelectedFits ==
  ASSUME NEW f \in [Boxes -> Rects], NEW g \in Groups
  PROVE  /\ Selected(f, g) \in Seq(Rects) /\ DOMAIN Selected(f, g) = DOMAIN g
         /\ \A i \in DOMAIN g : g[i] \in Boxes /\ Selected(f, g)[i] = f[g[i]]
<1>1. g \in Seq(Boxes)
  BY GroupsAssumption
<1>2. Len(g) \in Nat /\ DOMAIN g = 1..Len(g) /\ \A i \in DOMAIN g : g[i] \in Boxes
  BY <1>1
<1>3. Selected(f, g) \in [1..Len(g) -> Rects]
  BY <1>2 DEF Selected
<1>4. Selected(f, g) \in Seq(Rects)
  BY <1>2, <1>3
<1> QED BY <1>2, <1>4 DEF Selected

(* What align_objects answers.                                             *)
LEMMA AlignStep ==
  ASSUME Untouched, NEW g \in Groups, NEW mode \in AlignModes, AlignObjects(g, mode)
  PROVE  /\ rects \in Patches /\ rects \in [Boxes -> Rects] /\ rects' = rects /\ cords' = cords
         /\ \/ answer' = Answer("align", <<g, mode>>, FALSE, {}, {})
            \/ /\ Alignable(Selected(rects, g), mode)
               /\ \E sol \in Solutions(Selected(rects, g), mode) :
                    answer' = Answer("align", <<g, mode>>, TRUE, Pending(rects, g, sol), {})
<1> DEFINE rs == Selected(rects, g)
<1>1. rects \in Patches /\ rects \in [Boxes -> Rects] /\ rects' = rects /\ cords' = cords
  BY PatchesAssumption DEF AlignObjects, Reads, Untouched
<1>2. CASE ~Alignable(rs, mode)
  BY <1>1, <1>2 DEF AlignObjects
<1>3. CASE Alignable(rs, mode)
  <2>1. PICK sol \in Solutions(rs, mode) :
          answer' = Answer("align", <<g, mode>>, TRUE,
                      {[box |-> g[m.index], rect |-> m.rect] : m \in Moves(rs, sol)}, {})
    BY <1>3 DEF AlignObjects
  <2>2. DOMAIN rs = DOMAIN g /\ \A i \in DOMAIN g : rs[i] = rects[g[i]]
    BY <1>1, SelectedFits
  <2> HIDE DEF rs
  <2>3. {[box |-> g[m.index], rect |-> m.rect] : m \in Moves(rs, sol)} = Pending(rects, g, sol)
    <3> DEFINE Off == {j \in DOMAIN g : sol[j] # rects[g[j]]}
    <3>1. {j \in DOMAIN rs : sol[j] # rs[j]} = Off
      BY <2>2
    <3>2. Moves(rs, sol) = {[index |-> i, rect |-> sol[i]] : i \in Off}
      BY <3>1 DEF Moves
    <3>3. Pending(rects, g, sol) = {[box |-> g[i], rect |-> sol[i]] : i \in Off}
      BY DEF Pending, Move
    <3> HIDE DEF Off
    <3>4. \A d : (\E m \in Moves(rs, sol) : d = [box |-> g[m.index], rect |-> m.rect])
                  <=> \E i \in Off : d = [box |-> g[i], rect |-> sol[i]]
      <4>1. \A i \in Off : LET m == [index |-> i, rect |-> sol[i]]
                           IN m \in Moves(rs, sol) /\ m.index = i /\ m.rect = sol[i]
        BY <3>2
      <4>2. \A m \in Moves(rs, sol) : m.index \in Off /\ m.rect = sol[m.index]
        BY <3>2
      <4>3. ASSUME NEW d, NEW m \in Moves(rs, sol), d = [box |-> g[m.index], rect |-> m.rect]
            PROVE  \E i \in Off : d = [box |-> g[i], rect |-> sol[i]]
        <5>1. m.index \in Off /\ d = [box |-> g[m.index], rect |-> sol[m.index]]
          BY <4>2, <4>3
        <5> QED BY <5>1
      <4>4. ASSUME NEW d, NEW i \in Off, d = [box |-> g[i], rect |-> sol[i]]
            PROVE  \E m \in Moves(rs, sol) : d = [box |-> g[m.index], rect |-> m.rect]
        BY <4>1, <4>4
      <4> QED BY <4>3, <4>4
    <3>5. \A d : d \in {[box |-> g[m.index], rect |-> m.rect] : m \in Moves(rs, sol)}
                  <=> d \in Pending(rects, g, sol)
      BY <3>3, <3>4
    <3> QED BY <3>5
  <2> QED BY <1>1, <1>3, <2>1, <2>3 DEF rs
<1> QED BY <1>2, <1>3

(* Of the types: every move that is answered is a rectangle for a box.     *)
TypeInv == Untouched /\ TypeOK

LEMMA NextTypes ==
  ASSUME TypeInv, [Next]_vars
  PROVE  TypeInv'
<1>1. Untouched'
  BY NextUntouched DEF TypeInv
<1>2. ASSUME NEW g \in Groups, NEW mode \in AlignModes, AlignObjects(g, mode)
      PROVE  TypeOK'
  <2>1. /\ rects \in [Boxes -> Rects] /\ rects' = rects /\ cords' = cords
        /\ \/ answer' = Answer("align", <<g, mode>>, FALSE, {}, {})
           \/ /\ Alignable(Selected(rects, g), mode)
              /\ \E sol \in Solutions(Selected(rects, g), mode) :
                   answer' = Answer("align", <<g, mode>>, TRUE, Pending(rects, g, sol), {})
    BY <1>2, AlignStep DEF TypeInv
  <2>2. ASSUME Alignable(Selected(rects, g), mode), NEW sol \in Solutions(Selected(rects, g), mode),
               NEW m \in Pending(rects, g, sol)
        PROVE  m.box \in Boxes /\ m.rect \in Rects
    <3>1. PICK i \in DOMAIN g : m = Move(g, sol, i)
      BY DEF Pending
    <3>2. Selected(rects, g) \in Seq(Rects) /\ DOMAIN Selected(rects, g) = DOMAIN g /\ g[i] \in Boxes
      BY <2>1, SelectedFits
    <3>3. sol \in Seq(Rects) /\ DOMAIN sol = DOMAIN g
      BY <2>2, <3>2, SolutionsFit
    <3>4. sol[i] \in Rects
      BY <3>3, FiniteDomain
    <3> QED BY <3>1, <3>2, <3>4 DEF Move
  <2>3. CASE answer' = Answer("align", <<g, mode>>, FALSE, {}, {})
    BY <2>1, <2>3 DEF TypeInv, TypeOK, Answer, Tools
  <2>4. CASE /\ Alignable(Selected(rects, g), mode)
             /\ \E sol \in Solutions(Selected(rects, g), mode) :
                  answer' = Answer("align", <<g, mode>>, TRUE, Pending(rects, g, sol), {})
    <3>1. PICK sol \in Solutions(Selected(rects, g), mode) :
            answer' = Answer("align", <<g, mode>>, TRUE, Pending(rects, g, sol), {})
      BY <2>4
    <3>2. /\ answer'.tool = "align" /\ answer'.ok = TRUE /\ answer'.moves = Pending(rects, g, sol)
      BY <3>1 DEF Answer
    <3>3. \A m \in answer'.moves : m.box \in Boxes /\ m.rect \in Rects
      BY <2>2, <2>4, <3>2
    <3> QED BY <2>1, <3>2, <3>3 DEF TypeInv, TypeOK, Tools
  <2> QED BY <2>1, <2>3, <2>4
<1>3. ASSUME NEW a \in Endpoints, NEW t \in Endpoints, NEW adjust, SuggestAlignment(a, t, adjust)
      PROVE  TypeOK'
  <2>1. rects \in Patches /\ rects' = rects /\ cords' = cords
    BY <1>3 DEF SuggestAlignment, Reads, TypeInv, Untouched
  <2> DEFINE solved == IF a.index \in DOMAIN Nubs(rects, a) THEN Solved(rects, a, t, adjust) ELSE {}
  <2>2. answer' = Answer("suggest", <<a, t>>, solved # {}, {[box |-> t.box, rect |-> r] : r \in solved}, {})
    BY <1>3 DEF SuggestAlignment, Solved
  <2>3. \A r \in solved : r \in Rects
    BY <2>1, SolvedMeets
  <2>4. t.box \in Boxes
    BY DEF Endpoints
  <2> HIDE DEF solved
  <2>5. answer'.tool = "suggest" /\ answer'.ok \in BOOLEAN /\ answer'.moves = {[box |-> t.box, rect |-> r] : r \in solved}
    BY <2>2 DEF Answer
  <2>6. \A m \in answer'.moves : m.box \in Boxes /\ m.rect \in Rects
    BY <2>3, <2>4, <2>5
  <2> QED BY <2>1, <2>5, <2>6 DEF TypeInv, TypeOK, Tools
<1>4. ASSUME NEW w, NEW h, NEW near, AvoidRectPosition(w, h, near)
      PROVE  TypeOK'
  BY <1>4 DEF AvoidRectPosition, Reads, Answer, TypeInv, TypeOK, Tools
<1>5. ASSUME NEW scope, NEW eps, NEW checks, ValidateLayout(scope, eps, checks)
      PROVE  TypeOK'
  BY <1>5 DEF ValidateLayout, Reads, Answer, TypeInv, TypeOK, Tools
<1>6. ASSUME NEW m \in answer.moves, ApplyMove(m)
      PROVE  TypeOK'
  BY <1>6 DEF ApplyMove, TypeInv, TypeOK
<1>7. ASSUME UNCHANGED vars
      PROVE  TypeOK'
  BY <1>7 DEF TypeInv, TypeOK, vars
<1> QED BY <1>1, <1>2, <1>3, <1>4, <1>5, <1>6, <1>7 DEF TypeInv, Next

(* The boxes keep rectangles, and every move that align_objects or         *)
(* suggest_alignment answers gives a box one, of whole coordinates and of  *)
(* no negative size (recommend_alignment, recommend_alignment_rect).       *)
THEOREM LayoutTypes == Spec => []TypeOK
<1>1. Init => TypeInv
  BY PatchesAssumption DEF Init, Answer, TypeInv, TypeOK, Untouched, Tools
<1>2. TypeInv => TypeOK
  BY DEF TypeInv
<1> QED BY <1>1, <1>2, NextTypes, PTL DEF Spec

(* What stands of an alignment: the layout it was made for, the solution,  *)
(* and each box is where that puts it or has its move left.                *)
Aligning ==
  answer.tool = "align" =>
    \/ ~answer.ok /\ answer.moves = {}
    \/ \E f \in Patches, g \in Groups, mode \in AlignModes :
         \E sol \in Solutions(Selected(f, g), mode) :
           /\ Alignable(Selected(f, g), mode) /\ answer.about = <<g, mode>>
           /\ \A m \in answer.moves : \E i \in DOMAIN g : m = Move(g, sol, i)
           /\ Distinct(g) => \A i \in DOMAIN g : rects[g[i]] = sol[i] \/ Move(g, sol, i) \in answer.moves
AligningInv == TypeInv /\ Aligning

LEMMA NextAligning ==
  ASSUME AligningInv, [Next]_vars
  PROVE  AligningInv'
<1>1. TypeInv'
  BY NextTypes DEF AligningInv
<1>2. ASSUME answer'.tool # "align"
      PROVE  Aligning'
  BY <1>2 DEF Aligning
<1>3. ASSUME NEW g \in Groups, NEW mode \in AlignModes, AlignObjects(g, mode)
      PROVE  Aligning'
  <2>1. /\ rects \in Patches /\ rects' = rects
        /\ \/ answer' = Answer("align", <<g, mode>>, FALSE, {}, {})
           \/ /\ Alignable(Selected(rects, g), mode)
              /\ \E sol \in Solutions(Selected(rects, g), mode) :
                   answer' = Answer("align", <<g, mode>>, TRUE, Pending(rects, g, sol), {})
    BY <1>3, AlignStep DEF AligningInv, TypeInv
  <2>2. CASE answer' = Answer("align", <<g, mode>>, FALSE, {}, {})
    BY <2>2 DEF Aligning, Answer
  <2>3. CASE /\ Alignable(Selected(rects, g), mode)
             /\ \E sol \in Solutions(Selected(rects, g), mode) :
                  answer' = Answer("align", <<g, mode>>, TRUE, Pending(rects, g, sol), {})
    <3>1. PICK sol \in Solutions(Selected(rects, g), mode) :
            answer' = Answer("align", <<g, mode>>, TRUE, Pending(rects, g, sol), {})
      BY <2>3
    <3>2. answer'.about = <<g, mode>> /\ answer'.moves = Pending(rects, g, sol)
      BY <3>1 DEF Answer
    <3>3. /\ \A m \in Pending(rects, g, sol) : \E i \in DOMAIN g : m = Move(g, sol, i)
          /\ \A i \in DOMAIN g : rects[g[i]] = sol[i] \/ Move(g, sol, i) \in Pending(rects, g, sol)
      BY DEF Pending
    <3>4. /\ \A m \in answer'.moves : \E i \in DOMAIN g : m = Move(g, sol, i)
          /\ \A i \in DOMAIN g : rects'[g[i]] = sol[i] \/ Move(g, sol, i) \in answer'.moves
      BY <2>1, <3>2, <3>3
    <3>5. rects \in Patches /\ Alignable(Selected(rects, g), mode)
      BY <2>1, <2>3
    <3> QED BY <3>1, <3>2, <3>4, <3>5 DEF Aligning
  <2> QED BY <2>1, <2>2, <2>3
<1>4. ASSUME NEW m \in answer.moves, ApplyMove(m), answer.tool = "align"
      PROVE  Aligning'
  <2>1. /\ rects' = [rects EXCEPT ![m.box] = m.rect] /\ answer' = [answer EXCEPT !.moves = @ \ {m}]
        /\ rects \in [Boxes -> Rects]
    BY <1>4 DEF ApplyMove, AligningInv, TypeInv, TypeOK
  <2>2. PICK f \in Patches, g \in Groups, mode \in AlignModes : \E sol \in Solutions(Selected(f, g), mode) :
          /\ Alignable(Selected(f, g), mode) /\ answer.about = <<g, mode>>
          /\ \A d \in answer.moves : \E i \in DOMAIN g : d = Move(g, sol, i)
          /\ Distinct(g) => \A i \in DOMAIN g : rects[g[i]] = sol[i] \/ Move(g, sol, i) \in answer.moves
    BY <1>4 DEF AligningInv, Aligning
  <2>3. PICK sol \in Solutions(Selected(f, g), mode) :
          /\ Alignable(Selected(f, g), mode) /\ answer.about = <<g, mode>>
          /\ \A d \in answer.moves : \E i \in DOMAIN g : d = Move(g, sol, i)
          /\ Distinct(g) => \A i \in DOMAIN g : rects[g[i]] = sol[i] \/ Move(g, sol, i) \in answer.moves
    BY <2>2
  <2>4. /\ answer'.tool = "align" => answer'.about = <<g, mode>>
        /\ \A d : d \in answer.moves /\ d # m => d \in answer'.moves
        /\ \A d \in answer'.moves : d \in answer.moves
    <3>1. answer'.about = answer.about \/ answer'.tool # "align"
      BY <2>1
    <3>2. answer'.moves = answer.moves \ {m} \/ answer'.moves = answer.moves
      BY <2>1
    <3> QED BY <2>1, <2>3, <3>1, <3>2
  <2>5. PICK k \in DOMAIN g : m = Move(g, sol, k)
    BY <1>4, <2>3
  <2>6. \A i \in DOMAIN g : g[i] \in Boxes
    BY <2>1, SelectedFits
  <2>7. ASSUME Distinct(g), NEW i \in DOMAIN g
        PROVE  rects'[g[i]] = sol[i] \/ Move(g, sol, i) \in answer'.moves
    <3>1. CASE i = k
      BY <2>1, <2>5, <2>6, <3>1 DEF Move
    <3>2. CASE i # k
      <4>1. g[i] # g[k]
        BY <2>7, <3>2 DEF Distinct
      <4>2. rects'[g[i]] = rects[g[i]]
        BY <2>1, <2>5, <2>6, <4>1 DEF Move
      <4>3. Move(g, sol, i) # m
        BY <2>5, <4>1 DEF Move
      <4> QED BY <2>3, <2>4, <2>7, <4>2, <4>3
    <3> QED BY <3>1, <3>2
  <2> QED BY <2>3, <2>4, <2>7 DEF Aligning
<1>5. ASSUME UNCHANGED vars
      PROVE  Aligning'
  BY <1>5 DEF AligningInv, Aligning, vars
<1> QED BY <1>1, <1>2, <1>3, <1>4, <1>5, Answering DEF AligningInv

(* When no move is left, the layout of the group is the solution.          *)
LEMMA AlignedThen == AligningInv => AppliedAlignmentHolds
<1> DEFINE group == answer.about[1]
           way == answer.about[2]
           now == Selected(rects, group)
<1>1. SUFFICES ASSUME AligningInv, CarriedOut("align"), Distinct(group), Room(now, way)
               PROVE  /\ Aligned(now, way)
                      /\ \E solution \in Solutions(now, way) : Moves(now, solution) = {}
  BY DEF AppliedAlignmentHolds, Distinct
<1>2. PICK f \in Patches, g \in Groups, mode \in AlignModes : \E sol \in Solutions(Selected(f, g), mode) :
        /\ Alignable(Selected(f, g), mode) /\ answer.about = <<g, mode>>
        /\ \A m \in answer.moves : \E i \in DOMAIN g : m = Move(g, sol, i)
        /\ Distinct(g) => \A i \in DOMAIN g : rects[g[i]] = sol[i] \/ Move(g, sol, i) \in answer.moves
  BY <1>1 DEF AligningInv, Aligning, CarriedOut
<1>3. PICK sol \in Solutions(Selected(f, g), mode) :
        /\ Alignable(Selected(f, g), mode) /\ answer.about = <<g, mode>>
        /\ Distinct(g) => \A i \in DOMAIN g : rects[g[i]] = sol[i] \/ Move(g, sol, i) \in answer.moves
  BY <1>2
<1>4. group = g /\ way = mode /\ answer.moves = {} /\ Distinct(g)
  BY <1>1, <1>3 DEF CarriedOut
<1>5. \A i \in DOMAIN g : rects[g[i]] = sol[i]
  BY <1>3, <1>4
<1> DEFINE rs == Selected(f, g)
<1>6. f \in [Boxes -> Rects] /\ rects \in [Boxes -> Rects]
  BY PatchesAssumption, <1>1 DEF AligningInv, TypeInv, TypeOK
<1>7. /\ rs \in Seq(Rects) /\ DOMAIN rs = DOMAIN g
      /\ \A i \in DOMAIN g : g[i] \in Boxes /\ rs[i] = f[g[i]]
  BY <1>6, SelectedFits
<1>8. \A i \in DOMAIN rs : Size(rs[i], mode) > 0
  BY <1>7, DrawnAssumption DEF Size
<1>9. mode \in DistributeModes => Whole(rs, mode)
  BY <1>3, GapsAssumption DEF Whole
<1>10. OnCenter(mode) => Centered(rs, mode)
  BY <1>3, CentersAssumption DEF OnCenter, Centered
<1>11. Settled(sol, mode)
  <2> HIDE DEF rs
  <2>1. sol \in Solutions(rs, mode) /\ Alignable(rs, mode)
    BY <1>3 DEF rs
  <2> QED BY <1>7, <1>8, <1>9, <1>10, <2>1, SolutionsSettle
<1>12. Selected(rects, g) = sol
  <2>1. sol \in Seq(Rects) /\ DOMAIN sol = DOMAIN g
    BY <1>3, <1>7, SolutionsFit
  <2>2. sol = [i \in DOMAIN g |-> sol[i]]
    BY <2>1
  <2>3. [i \in DOMAIN g |-> rects[g[i]]] = [i \in DOMAIN g |-> sol[i]]
    BY <1>5
  <2> QED BY <2>2, <2>3, Zenon DEF Selected
<1>13. now = sol
  BY <1>4, <1>12
<1> HIDE DEF now, group, way
<1>14. Room(sol, mode)
  BY <1>1, <1>4, <1>13
<1>15. Aligned(sol, mode) /\ sol \in Solutions(sol, mode)
  BY <1>11, <1>14 DEF Settled
<1> QED BY <1>4, <1>13, <1>15, NoMovesLeft

(* align_objects: whatever the order in which the client carries out the   *)
(* moves, of any group of any patch, the boxes end up aligned as the mode  *)
(* promises, and asking again moves nothing (solve_edge_center,            *)
(* solve_distribute); boxes without room side by side are excepted.        *)
THEOREM AlignmentHolds == Spec => []AppliedAlignmentHolds
<1>1. Init => AligningInv
  BY PatchesAssumption DEF Init, Answer, AligningInv, Aligning, TypeInv, TypeOK, Untouched, Tools
<1> QED BY <1>1, NextAligning, AlignedThen, PTL DEF Spec
=============================================================================
