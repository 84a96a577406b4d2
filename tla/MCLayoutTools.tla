---------------------------- MODULE MCLayoutTools ----------------------------
(* An instance of LayoutTools for TLC: three boxes of different sizes, two *)
(* units to the pixel, placed so that they can overlap, touch, stand side  *)
(* by side or above each other; a cord between two of them, straight or    *)
(* with a midpoint, and another that it can run along.                     *)
EXTENDS LayoutTools, TLC

CONSTANTS boxA, boxB, boxC

At(x, y) == [x |-> 2 * x, y |-> 2 * y]
Points == {At(0, 0), At(1, 0), At(4, 1), At(2, 3), At(6, 3)}
Widths == boxA :> 2 @@ boxB :> 4 @@ boxC :> 8
MCPatches ==
  {[n \in Boxes |-> Rect(p[n].x, p[n].y, Widths[n], IF n = boxB THEN 12 ELSE 2)] :
     p \in [Boxes -> Points]}

MCIns  == boxA :> 1 @@ boxB :> 2 @@ boxC :> 3
MCOuts == boxA :> 1 @@ boxB :> 2 @@ boxC :> 3

Cord(s, o, d, i, mids) == [src |-> s, outlet |-> o, dst |-> d, inlet |-> i, mids |-> mids]
MCCordSets ==
  {{}, {Cord(boxA, 0, boxB, 1, <<>>)},
   {Cord(boxA, 0, boxB, 1, <<At(3, 2), At(3, 4)>>), Cord(boxA, 0, boxC, 2, <<At(3, 1), At(3, 5)>>)}}

MCGroups == {<<>>, <<boxA>>, <<boxA, boxB>>, <<boxC, boxA, boxB>>, <<boxB, boxB, boxC>>}
MCScopes == {{}, {boxA, boxB}, {boxB, boxC}}
MCCheckSets == {{}, {"upward", "cord_object"}}
MCNearPoints == {{}, {At(1, 1)}, {At(-1, 2)}}
=============================================================================
