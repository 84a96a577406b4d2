--------------------------- MODULE MCMaxmcpObjects ---------------------------
(* The instance of MaxmcpObjects for TLC: two boxes, in one patcher or in  *)
(* two, of which each can become an agent or a patch, with the same alias. *)
(* Six instances of MCPServer are more than two boxes can make.            *)
EXTENDS MaxmcpObjects, TLC

CONSTANTS o1, o2, q1, q2, i1, i2, name

TwoApart  == o1 :> q1 @@ o2 :> q2
Together  == o1 :> q1 @@ o2 :> q1
Anywhere  == {TwoApart, Together}
AutoIds   == o1 :> i1 @@ o2 :> i2
SameAlias == o1 :> name @@ o2 :> name
=============================================================================
