------------------------------ MODULE Geometry ------------------------------
(***************************************************************************)
(* The geometry the layout tools decide with, as operators on integers: a  *)
(* coordinate is a number of sub-pixel units, chosen so that the divisions *)
(* below (by two, and by the number of gaps) leave no remainder.  Where    *)
(* the code divides without need, to get a parameter of a segment, both    *)
(* sides are multiplied by the denominator instead.                        *)
(***************************************************************************)
EXTENDS Integers, Sequences, FiniteSets, FiniteSetsExt

CONSTANTS Gap,        \* PLACE_GAP: clearance of a placed object
          Grid,       \* PLACE_GRID: step of the search
          Margin,     \* PLACE_MARGIN: distance when placing to the right
          MaxRadius,  \* PLACE_MAX_RADIUS: where the search gives up
          Origin,     \* the coordinate 50.0
          Inset       \* distance of the outermost nubs from the edges

ASSUME PlaceAssumption ==
  /\ Grid \in Nat \ {0} /\ MaxRadius \in Nat /\ Origin \in Nat
  /\ Gap \in Nat /\ Margin \in Nat /\ Gap <= Margin
ASSUME InsetAssumption == Inset \in Nat

Rect(x, y, w, h) == [x |-> x, y |-> y, w |-> w, h |-> h]
Right(r) == r.x + r.w
Bottom(r) == r.y + r.h
Abs(n) == IF n < 0 THEN -n ELSE n

-----------------------------------------------------------------------------
(* Rectangles and segments.                                                *)

(* Mutant: separated on one axis is not enough to be apart.                *)
OverlapEither(a, b, eps) ==
  ~((Right(a) <= b.x + eps \/ Right(b) <= a.x + eps)
    /\ (Bottom(a) <= b.y + eps \/ Bottom(b) <= a.y + eps))

(* aabb_overlap: a penetration of eps counts as apart, so that a negative  *)
(* eps asks for a clearance.                                               *)
Overlap(a, b, eps) ==
  ~(\/ Right(a) <= b.x + eps \/ Right(b) <= a.x + eps
    \/ Bottom(a) <= b.y + eps \/ Bottom(b) <= a.y + eps)

Conflict(a, b, gap) == Overlap(a, b, -gap)

(* Parameters at which a segment meets the four edges of a rectangle are   *)
(* multiples of 1/Steps.                                                   *)
Dx(s) == s.b.x - s.a.x
Dy(s) == s.b.y - s.a.y
Steps(s) == (IF Dx(s) = 0 THEN 1 ELSE Abs(Dx(s))) * (IF Dy(s) = 0 THEN 1 ELSE Abs(Dy(s)))
LongerThan(s, steps, eps) ==
  (Dx(s) * Dx(s) + Dy(s) * Dy(s)) * steps * steps > eps * eps * Steps(s) * Steps(s)

(* segment_intersects_rect (Liang-Barsky): the part of the segment within  *)
(* the four slabs is longer than eps.                                      *)
Crosses(s, r, eps) ==
  LET p == << -Dx(s), Dx(s), -Dy(s), Dy(s) >>
      q == << s.a.x - r.x, Right(r) - s.a.x, s.a.y - r.y, Bottom(r) - s.a.y >>
      at(k) == IF p[k] < 0 THEN (-q[k]) * (Steps(s) \div (-p[k])) ELSE q[k] * (Steps(s) \div p[k])
      enter == Max({0} \cup {at(k) : k \in {j \in 1..4 : p[j] < 0}})
      leave == Min({Steps(s)} \cup {at(k) : k \in {j \in 1..4 : p[j] > 0}})
  IN /\ \A k \in 1..4 : p[k] = 0 => q[k] >= 0
     /\ enter <= leave
     /\ LongerThan(s, leave - enter, eps)

(* segments_overlap_collinear                                              *)
Vertical(s, eps) == Abs(Dx(s)) <= eps
Horizontal(s, eps) == Abs(Dy(s)) <= eps
SpansOverlap(a1, b1, a2, b2, eps) ==
  Min({Max({a1, b1}), Max({a2, b2})}) - Max({Min({a1, b1}), Min({a2, b2})}) > eps
Stacked(s, t, eps) ==
  IF Vertical(s, eps) /\ Vertical(t, eps)
  THEN Abs(s.a.x - t.a.x) <= eps /\ SpansOverlap(s.a.y, s.b.y, t.a.y, t.b.y, eps)
  ELSE /\ Horizontal(s, eps) /\ Horizontal(t, eps)
       /\ Abs(s.a.y - t.a.y) <= eps /\ SpansOverlap(s.a.x, s.b.x, t.a.x, t.b.x, eps)

Upward(s, eps) == s.a.y - s.b.y > eps

(* polyline_to_segments                                                    *)
Segments(start, mids, end) ==
  LET points == <<start>> \o mids \o <<end>>
  IN {[a |-> points[k], b |-> points[k + 1]] : k \in 1..Len(points) - 1}

-----------------------------------------------------------------------------
(* recommend_alignment: for a sequence of rectangles and a mode.           *)

EdgeModes == {"left", "right", "top", "bottom", "hcenter", "vcenter"}
DistributeModes == {"distribute_h", "distribute_v"}
AlignModes == EdgeModes \cup DistributeModes

OnX(mode) == mode \in {"left", "right", "hcenter", "distribute_h"}
Lead(r, mode) == IF OnX(mode) THEN r.x ELSE r.y
Size(r, mode) == IF OnX(mode) THEN r.w ELSE r.h
Far(r, mode) == Lead(r, mode) + Size(r, mode)
MovedTo(r, mode, n) == IF OnX(mode) THEN [r EXCEPT !.x = n] ELSE [r EXCEPT !.y = n]

(* solve_edge_center: the bounding box gives the line, and the chosen part *)
(* of each rectangle is moved onto it.                                     *)
Near(rs, mode) == Min({Lead(rs[i], mode) : i \in DOMAIN rs})
Limit(rs, mode) == Max({Far(rs[i], mode) : i \in DOMAIN rs})

(* Mutant: the far edge of the widest is taken for that of each.           *)
EdgeCenterNoWidth(rs, mode) ==
  [i \in DOMAIN rs |->
     MovedTo(rs[i], mode,
       CASE mode \in {"left", "top"} -> Near(rs, mode)
         [] mode \in {"right", "bottom"} -> Limit(rs, mode) - Size(rs[1], mode)
         [] OTHER -> Near(rs, mode) + (Limit(rs, mode) - Near(rs, mode) - Size(rs[i], mode)) \div 2)]

EdgeCenter(rs, mode) ==
  [i \in DOMAIN rs |->
     MovedTo(rs[i], mode,
       CASE mode \in {"left", "top"} -> Near(rs, mode)
         [] mode \in {"right", "bottom"} -> Limit(rs, mode) - Size(rs[i], mode)
         [] OTHER -> Near(rs, mode) + (Limit(rs, mode) - Near(rs, mode) - Size(rs[i], mode)) \div 2)]

(* solve_distribute: the order is that of std::sort by leading edge, which *)
(* leaves the order of equal ones open; the gap is the same everywhere.    *)
Orders(rs, mode) ==
  {o \in [DOMAIN rs -> DOMAIN rs] :
     /\ \A j, k \in DOMAIN rs : o[j] = o[k] => j = k
     /\ \A j, k \in DOMAIN rs : j < k => Lead(rs[o[j]], mode) <= Lead(rs[o[k]], mode)}

SizeOf(rs, mode, set) == MapThenSumSet(LAMBDA i : Size(rs[i], mode), set)
EqualGap(rs, mode, o) ==
  (Far(rs[o[Len(rs)]], mode) - Lead(rs[o[1]], mode) - SizeOf(rs, mode, DOMAIN rs))
    \div (Len(rs) - 1)

Distribute(rs, mode, o) ==
  [i \in DOMAIN rs |->
     LET at == CHOOSE k \in DOMAIN rs : o[k] = i
     IN MovedTo(rs[i], mode, Lead(rs[o[1]], mode) + (at - 1) * EqualGap(rs, mode, o)
                               + SizeOf(rs, mode, {o[k] : k \in 1..at - 1}))]

(* What can be answered: no solution, or the rectangles that move.         *)
Alignable(rs, mode) == Len(rs) >= (IF mode \in DistributeModes THEN 3 ELSE 2)
Solutions(rs, mode) ==
  IF mode \in EdgeModes THEN {EdgeCenter(rs, mode)}
                        ELSE {Distribute(rs, mode, o) : o \in Orders(rs, mode)}
Moves(rs, solution) ==
  {[index |-> i, rect |-> solution[i]] : i \in {j \in DOMAIN rs : solution[j] # rs[j]}}

-----------------------------------------------------------------------------
(* Nubs: where inlets and outlets are drawn.                               *)

(* io_positions: an inlet 0 that is not drawn has no nub.                  *)
Hidden(side, drawFirst) == IF side = "inlet" /\ ~drawFirst THEN 1 ELSE 0
NubX(r, visual, i) ==
  r.x + Inset + (IF visual = 1 THEN 0 ELSE ((r.w - 2 * Inset) * i) \div (visual - 1))
NubPositions(r, count, side, drawFirst) ==
  LET hidden == Hidden(side, drawFirst)
  IN [i \in hidden..count - 1 |-> NubX(r, count - hidden, i - hidden)]

(* recommend_alignment_rect: the rectangles, one or none, that bring the   *)
(* nub to the anchor.  Mutant: the undrawn inlet is counted.               *)
NubAlignedCounting(r, count, side, index, drawFirst, anchor, adjust) ==
  IF index \notin Hidden(side, drawFirst)..count - 1 \/ count = 1 \/ adjust # "left" THEN {}
  ELSE {[r EXCEPT !.x = anchor - Inset - ((r.w - 2 * Inset) * index) \div (count - 1)]}

(* Mutant: a solved width is not looked at.                                *)
NubAlignedAnyWidth(r, count, side, index, drawFirst, anchor, adjust) ==
  LET hidden == Hidden(side, drawFirst)
  IN IF index \notin hidden + 1..count - 1 \/ adjust = "left" THEN {}
     ELSE {[r EXCEPT !.w = 2 * Inset +
              ((anchor - r.x - Inset) * (count - hidden - 1)) \div (index - hidden)]}

NubAligned(r, count, side, index, drawFirst, anchor, adjust) ==
  LET hidden == Hidden(side, drawFirst)
      i == index - hidden
      steps == count - hidden - 1
      width == 2 * Inset + ((anchor - r.x - Inset) * steps) \div i
  IN IF index \notin hidden..count - 1 THEN {}
     ELSE IF adjust = "left"
     THEN {[r EXCEPT !.x = anchor - Inset -
              (IF steps = 0 THEN 0 ELSE ((r.w - 2 * Inset) * i) \div steps)]}
     ELSE IF i > 0 /\ width > 0 THEN {[r EXCEPT !.w = width]} ELSE {}

-----------------------------------------------------------------------------
(* find_avoid_rect_position.                                               *)

IsFree(p, w, h, rs) ==
  /\ p.x >= 0 /\ p.y >= 0
  /\ \A r \in rs : ~Conflict(Rect(p.x, p.y, w, h), r, Gap)

ToTheRight(rs) == [x |-> Max({0} \cup {Right(r) : r \in rs}) + Margin, y |-> Origin]

(* near is a set: of one point, or of none.                                *)
Anchor(rs, near) ==
  IF near # {} THEN LET p == CHOOSE q \in near : TRUE
                    IN [x |-> Max({0, p.x}), y |-> Max({0, p.y})]
  ELSE IF rs = {} THEN [x |-> Origin, y |-> Origin]
  ELSE ToTheRight(rs)

(* The points of the square ring, on the grid.                             *)
Ring(a, radius) ==
  LET k == radius \div Grid
  IN {[x |-> a.x + Grid * n[1], y |-> a.y + Grid * n[2]] :
        n \in {m \in (-k..k) \X (-k..k) : Abs(m[1]) = k \/ Abs(m[2]) = k}}
Distance2(p, q) == (p.x - q.x) * (p.x - q.x) + (p.y - q.y) * (p.y - q.y)

(* Of the nearest free points of a ring the leftmost and then the topmost: *)
(* the loops visit it first.                                               *)
Before(p, q) == p.x < q.x \/ (p.x = q.x /\ p.y < q.y)
NearestFree(a, radius, w, h, rs) ==
  LET free == {p \in Ring(a, radius) : IsFree(p, w, h, rs)}
      best == {p \in free : \A q \in free : Distance2(a, p) <= Distance2(a, q)}
  IN CHOOSE p \in best : \A q \in best \ {p} : Before(p, q)

Radii == {Grid * k : k \in 1..MaxRadius \div Grid}

(* Mutant: the fallback is the anchor.                                     *)
AvoidRectNoFallback(rs, w, h, near) ==
  LET a == Anchor(rs, near)
      open == {r \in Radii : \E p \in Ring(a, r) : IsFree(p, w, h, rs)}
  IN IF IsFree(a, w, h, rs) \/ open = {} THEN a ELSE NearestFree(a, Min(open), w, h, rs)

AvoidRect(rs, w, h, near) ==
  LET a == Anchor(rs, near)
      open == {r \in Radii : \E p \in Ring(a, r) : IsFree(p, w, h, rs)}
  IN IF IsFree(a, w, h, rs) THEN a
     ELSE IF open = {} THEN ToTheRight(rs)
     ELSE NearestFree(a, Min(open), w, h, rs)
=============================================================================
