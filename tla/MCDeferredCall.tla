--------------------------- MODULE MCDeferredCall ---------------------------
(* The instance of DeferredCall for TLC.  Two calls are the least in which *)
(* a late callback meets a later call; two addresses let the cell of the   *)
(* first be handed out again or not.  One of the calls replaces the text   *)
(* of a box, and may fail after it acted.  Liveness is checked, so no      *)
(* symmetry is declared.                                                   *)
EXTENDS DeferredCall
=============================================================================
