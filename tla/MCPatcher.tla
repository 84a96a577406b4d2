----------------------------- MODULE MCPatcher -----------------------------
(* An instance of Patcher for TLC: two boxes at three addresses, so that a *)
(* replaced box can come back at its old address or at another one; an     *)
(* ordinary class and a content class without outlet, so that a box can    *)
(* come back with fewer nubs.  Addresses are interchangeable; the reply is *)
(* left out of the fingerprint, since no step reads it.                    *)
EXTENDS Patcher, TLC

CONSTANTS osc, comment

InsOf  == osc :> 1 @@ comment :> 1
OutsOf == osc :> 1 @@ comment :> 0
View == <<contents, dirty, changed, lost>>
Symmetry == Permutations(Addrs)
=============================================================================
