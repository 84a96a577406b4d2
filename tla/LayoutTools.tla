---------------------------- MODULE LayoutTools ----------------------------
(***************************************************************************)
(* The tools that give advice on the layout of a patch: align_objects,     *)
(* suggest_alignment, validate_layout and get_avoid_rect_position.  Each   *)
(* reads the patcher in one callback on the main thread and changes        *)
(* nothing; the client then carries the advice out itself, one call of     *)
(* set_object_attribute after the other, in an order of its choice.        *)
(*                                                                         *)
(* External (Max): a patchcord is drawn from the nub of its outlet to that *)
(* of its inlet, by the rule that io_geometry.cpp reproduces.              *)
(***************************************************************************)
EXTENDS Geometry

CONSTANTS Boxes,       \* boxes with a varname, identified with it
          Patches,     \* the layouts to begin with: functions of Boxes
          Ins, Outs,   \* numbers of inlets and outlets
          Undrawn,     \* boxes whose first inlet is not drawn
          CordSets,    \* the sets of patchcords to begin with
          Groups,      \* the sequences of varnames a client may align
          Scopes,      \* the sets of varnames it may validate; {} is all
          Epsilons,    \* the tolerances
          CheckSets,   \* the sets of checks it may ask for
          Sizes,       \* the widths and heights it may want to place
          NearPoints   \* where: a set of sets of at most one point

Rects == [x : Int, y : Int, w : Nat, h : Nat]

ASSUME PatchesAssumption ==
  /\ IsFiniteSet(Boxes)
  /\ Patches \subseteq [Boxes -> Rects]
ASSUME CountsAssumption == \A b \in Boxes : Ins[b] \in Nat /\ Outs[b] \in Nat
ASSUME GroupsAssumption == Groups \subseteq Seq(Boxes)
ASSUME ScopesAssumption == Scopes \subseteq SUBSET Boxes
ASSUME EpsilonsAssumption == Epsilons \subseteq Nat
ASSUME SizesAssumption == Sizes \subseteq Nat
ASSUME NearAssumption == \A s \in NearPoints : \A p \in s : p.x \in Int /\ p.y \in Int

(* External (Max): a cord joins two nubs that are drawn.                   *)
ASSUME CordsAssumption ==
  \A set \in CordSets : \A c \in set :
    /\ {c.src, c.dst} \subseteq Boxes /\ c.mids \in Seq([x : Int, y : Int])
    /\ c.outlet \in 0..Outs[c.src] - 1
    /\ c.inlet \in (IF c.dst \in Undrawn THEN 1 ELSE 0)..Ins[c.dst] - 1
(* External (Max): no box is drawn without width or height.                *)
ASSUME DrawnAssumption == \A f \in Patches : \A b \in Boxes : f[b].w > 0 /\ f[b].h > 0

VARIABLES
  rects,    \* patching_rect of each box
  cords,    \* the patchcords
  answer    \* the last answer and the part of it not carried out yet

vars == <<rects, cords, answer>>

Tools == {"none", "align", "suggest", "validate", "place"}
Endpoints == [box : Boxes, side : {"inlet", "outlet"}, index : 0..2]
Answer(tool, about, ok, moves, told) ==
  [tool |-> tool, about |-> about, ok |-> ok, moves |-> moves, told |-> told]

TypeOK ==
  /\ rects \in [Boxes -> Rects]
  /\ cords \in CordSets
  /\ answer.tool \in Tools /\ answer.ok \in BOOLEAN
  /\ \A m \in answer.moves : m.box \in Boxes /\ m.rect \in Rects

Init ==
  /\ rects \in Patches
  /\ cords \in CordSets
  /\ answer = Answer("none", <<>>, TRUE, {}, {})

Reads == answer.tool = "none" /\ UNCHANGED <<rects, cords>>

-----------------------------------------------------------------------------
(* align_objects                                                           *)
Selected(f, group) == [i \in DOMAIN group |-> f[group[i]]]

(* The unit of the coordinates is fine enough for the centers and for the  *)
(* equal gaps of the layouts to begin with: their divisions leave no       *)
(* remainder.                                                              *)
ASSUME CentersAssumption ==
  \A f \in Patches, group \in Groups, mode \in {"hcenter", "vcenter"} :
    LET rs == Selected(f, group)
    IN Alignable(rs, mode) =>
         \A i \in DOMAIN rs : (Limit(rs, mode) - Near(rs, mode) - Size(rs[i], mode)) % 2 = 0
ASSUME GapsAssumption ==
  \A f \in Patches, group \in Groups, mode \in DistributeModes :
    LET rs == Selected(f, group)
    IN Alignable(rs, mode) =>
         \A o \in Orders(rs, mode) :
           (Far(rs[o[Len(rs)]], mode) - Lead(rs[o[1]], mode) - SizeOf(rs, mode, DOMAIN rs))
             % (Len(rs) - 1) = 0

AlignObjects(group, mode) ==
  /\ Reads
  /\ LET rs == Selected(rects, group)
     IN IF Alignable(rs, mode)
        THEN \E solution \in Solutions(rs, mode) :
               answer' = Answer("align", <<group, mode>>, TRUE,
                           {[box |-> group[m.index], rect |-> m.rect] : m \in Moves(rs, solution)},
                           {})
        ELSE answer' = Answer("align", <<group, mode>>, FALSE, {}, {})

(* suggest_alignment                                                       *)
Count(e) == IF e.side = "inlet" THEN Ins[e.box] ELSE Outs[e.box]
Nubs(f, e) == NubPositions(f[e.box], Count(e), e.side, e.box \notin Undrawn)

(* The same for the widths solved for: the division of NubAligned leaves   *)
(* no remainder.                                                           *)
NubPlace(e) == e.index - Hidden(e.side, e.box \notin Undrawn)
LastNub(e) == Count(e) - Hidden(e.side, e.box \notin Undrawn) - 1
ASSUME WidthsAssumption ==
  \A f \in Patches : \A a, t \in Endpoints :
    a.index \in DOMAIN Nubs(f, a) /\ t.index \in DOMAIN Nubs(f, t) /\ NubPlace(t) > 0 =>
      ((Nubs(f, a)[a.index] - f[t.box].x - Inset) * LastNub(t)) % NubPlace(t) = 0

SuggestAlignment(anchor, target, adjust) ==
  /\ Reads
  /\ LET found == anchor.index \in DOMAIN Nubs(rects, anchor)
         solved == IF found
                   THEN NubAligned(rects[target.box], Count(target), target.side, target.index,
                                   target.box \notin Undrawn, Nubs(rects, anchor)[anchor.index],
                                   adjust)
                   ELSE {}
     IN answer' = Answer("suggest", <<anchor, target>>, solved # {},
                         {[box |-> target.box, rect |-> r] : r \in solved}, {})

(* get_avoid_rect_position                                                 *)
AvoidRectPosition(w, h, near) ==
  /\ Reads
  /\ answer' = Answer("place", <<w, h, near>>, TRUE, {},
                      {AvoidRect({rects[b] : b \in Boxes}, w, h, near)})

-----------------------------------------------------------------------------
(* validate_layout, of the patching layout                                 *)

Path(f, c) ==
  Segments([x |-> NubPositions(f[c.src], Outs[c.src], "outlet", TRUE)[c.outlet],
            y |-> Bottom(f[c.src])],
           c.mids,
           [x |-> NubPositions(f[c.dst], Ins[c.dst], "inlet", c.dst \notin Undrawn)[c.inlet],
            y |-> f[c.dst].y])

(* extract_layout_objects, extract_layout_cords: both ends of a cord must  *)
(* be in the scope, if there is one.                                       *)
Objects(scope) == IF scope = {} THEN Boxes ELSE scope
CordsWithin(scope) == {c \in cords : {c.src, c.dst} \subseteq Objects(scope)}

Pairs(s) == {p \in SUBSET s : Cardinality(p) = 2}
Overlaps(scope, eps) ==
  {p \in Pairs(Objects(scope)) : \A a, b \in p : a # b => Overlap(rects[a], rects[b], eps)}
UpwardCords(scope, eps) ==
  UNION {{c} \X {s \in Path(rects, c) : Upward(s, eps)} : c \in CordsWithin(scope)}

(* Mutant: the boxes that the cord joins are not left out.                 *)
CordsOverAll(scope, eps) ==
  {p \in CordsWithin(scope) \X Objects(scope) :
     \E s \in Path(rects, p[1]) : Crosses(s, rects[p[2]], eps)}

CordsOverObjects(scope, eps) ==
  {p \in CordsWithin(scope) \X Objects(scope) :
     /\ p[2] \notin {p[1].src, p[1].dst}
     /\ \E s \in Path(rects, p[1]) : Crosses(s, rects[p[2]], eps)}
CordsOverCords(scope, eps) ==
  {p \in Pairs(CordsWithin(scope)) :
     \A c, d \in p : c # d => \E s \in Path(rects, c), t \in Path(rects, d) : Stacked(s, t, eps)}

(* run_layout_checks: no name of a check means all of them.                *)
Checks == {"overlap", "upward", "cord_object", "cord_cord"}
Runs(checks, name) == checks = {} \/ name \in checks

ValidateLayout(scope, eps, checks) ==
  /\ Reads
  /\ LET found(name) == CASE name = "overlap" -> Overlaps(scope, eps)
                          [] name = "upward" -> UpwardCords(scope, eps)
                          [] name = "cord_object" -> CordsOverObjects(scope, eps)
                          [] name = "cord_cord" -> CordsOverCords(scope, eps)
     IN answer' = Answer("validate", <<scope, eps, checks>>, TRUE, {},
                         [name \in Checks |-> IF Runs(checks, name) THEN found(name) ELSE {}])

-----------------------------------------------------------------------------
(* The client applies one move.                                            *)
ApplyMove(m) ==
  /\ m \in answer.moves
  /\ rects' = [rects EXCEPT ![m.box] = m.rect]
  /\ answer' = [answer EXCEPT !.moves = @ \ {m}]
  /\ UNCHANGED cords

Next ==
  \/ \E g \in Groups, mode \in AlignModes : AlignObjects(g, mode)
  \/ \E a, t \in Endpoints, adjust \in {"width", "left"} : SuggestAlignment(a, t, adjust)
  \/ \E w, h \in Sizes, near \in NearPoints : AvoidRectPosition(w, h, near)
  \/ \E scope \in Scopes, eps \in Epsilons, checks \in CheckSets :
       ValidateLayout(scope, eps, checks)
  \/ \E m \in answer.moves : ApplyMove(m)

Spec == Init /\ [][Next]_vars

-----------------------------------------------------------------------------
(* Properties.                                                             *)

CarriedOut(tool) == answer.tool = tool /\ answer.ok /\ answer.moves = {}

(* Reference: what the modes promise (mcp-tools-reference.md:664-669).     *)
Gaps(rs, mode) ==
  LET o == CHOOSE p \in Orders(rs, mode) : TRUE
  IN {Lead(rs[o[k + 1]], mode) - Far(rs[o[k]], mode) : k \in 1..Len(rs) - 1}
Aligned(rs, mode) ==
  Cardinality(CASE mode \in {"left", "top"} -> {Lead(rs[i], mode) : i \in DOMAIN rs}
                [] mode \in {"right", "bottom"} -> {Far(rs[i], mode) : i \in DOMAIN rs}
                [] mode \in {"hcenter", "vcenter"} ->
                     {Lead(rs[i], mode) + Far(rs[i], mode) : i \in DOMAIN rs}
                [] OTHER -> Gaps(rs, mode)) = 1

(* Once the client has carried out all moves of an align_objects answer,   *)
(* in whatever order, the group is aligned and asking again would give no  *)
(* further move; and an answer without moves means that it was aligned.    *)
(* Distributing boxes that have no room side by side is excepted: a gap    *)
(* below zero can carry a box past its neighbour.                          *)
Room(rs, mode) ==
  mode \in DistributeModes =>
    \A o \in Orders(rs, mode) : EqualGap(rs, mode, o) >= 0
AppliedAlignmentHolds ==
  CarriedOut("align") =>
    LET group == answer.about[1]
        mode == answer.about[2]
        rs == Selected(rects, group)
    IN (\A i, j \in DOMAIN group : group[i] = group[j] => i = j) /\ Room(rs, mode) =>
         /\ Aligned(rs, mode)
         /\ \E solution \in Solutions(rs, mode) : Moves(rs, solution) = {}

(* A suggestion that is carried out brings the target's nub to the x of    *)
(* the anchor's, so that a cord between them is vertical: unless both are  *)
(* on one box, whose anchor moves along.                                   *)
NubsMeet ==
  CarriedOut("suggest") =>
    LET anchor == answer.about[1]
        target == answer.about[2]
    IN anchor.box # target.box =>
         Nubs(rects, target)[target.index] = Nubs(rects, anchor)[anchor.index]

(* The position proposed for a new object is visible, keeps the clearance  *)
(* from every box, and is the point asked for when that is free; else no   *)
(* grid point of a smaller ring around it is free.                         *)
PlacedIsClear ==
  answer.tool = "place" =>
    LET w == answer.about[1]
        h == answer.about[2]
        a == Anchor({rects[b] : b \in Boxes}, answer.about[3])
        apart(p, q) == Max({Abs(p.x - q.x), Abs(p.y - q.y)})
    IN \A p \in answer.told :
         /\ p.x >= 0 /\ p.y >= 0
         /\ \A b \in Boxes : \/ p.x + w + Gap <= rects[b].x \/ Right(rects[b]) + Gap <= p.x
                             \/ p.y + h + Gap <= rects[b].y \/ Bottom(rects[b]) + Gap <= p.y
         /\ \A r \in {0} \cup {k \in Radii : k < apart(a, p)} : \A q \in Ring(a, r) :
              ~IsFree(q, w, h, {rects[b] : b \in Boxes}) \/ q = p

(* The report agrees with the picture.  Two boxes that share more than eps *)
(* cells in a row on both axes are reported to overlap, and two that are   *)
(* reported do share cells, more than eps of them unless a box is no       *)
(* thicker than that (aabb_overlap compares the edges, and reports a thin  *)
(* box inside another one).  A cord is reported to run over a box it does  *)
(* not join when the points of one of its segments that lie in the box,    *)
(* taken at every step at which an edge can be crossed, span more than     *)
(* eps.                                                                    *)
ShareMoreThan(eps, i, n, j, m) ==
  \E k \in i..i + n - 1 : k..k + eps \subseteq (i..i + n - 1) \cap (j..j + m - 1)
Overlapping(a, b, eps) ==
  ShareMoreThan(eps, a.x, a.w, b.x, b.w) /\ ShareMoreThan(eps, a.y, a.h, b.y, b.h)
Thicker(r, eps) == r.w > eps /\ r.h > eps
StepsInside(s, r) ==
  {k \in 0..Steps(s) : /\ s.a.x * Steps(s) + k * Dx(s) \in r.x * Steps(s)..Right(r) * Steps(s)
                       /\ s.a.y * Steps(s) + k * Dy(s) \in r.y * Steps(s)..Bottom(r) * Steps(s)}
ReportMatchesPicture ==
  answer.tool = "validate" =>
    LET scope == answer.about[1]
        eps == answer.about[2]
    IN /\ \A a, b \in Objects(scope) : a # b =>
            /\ Runs(answer.about[3], "overlap") /\ Overlapping(rects[a], rects[b], eps)
                 => {a, b} \in answer.told["overlap"]
            /\ {a, b} \in answer.told["overlap"]
                 => /\ Runs(answer.about[3], "overlap")
                    /\ Overlapping(rects[a], rects[b],
                         IF Thicker(rects[a], eps) /\ Thicker(rects[b], eps) THEN eps ELSE 0)
       /\ \A c \in cords, b \in Boxes :
            (<<c, b>> \in answer.told["cord_object"] <=>
               /\ Runs(answer.about[3], "cord_object")
               /\ {c.src, c.dst, b} \subseteq Objects(scope) /\ b \notin {c.src, c.dst}
               /\ \E s \in Path(rects, c) :
                    LET inside == StepsInside(s, rects[b])
                    IN inside # {} /\ LongerThan(s, Max(inside) - Min(inside), eps))
=============================================================================
