------------------------- MODULE MCWebSocketServer -------------------------
(* Instances of WebSocketServer for TLC: the model values the .cfg files   *)
(* make their sets of.                                                     *)
EXTENDS WebSocketServer

CONSTANTS w1, w2, r1, r2, r3, p1
=============================================================================
