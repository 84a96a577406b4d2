--------------------------- MODULE PatchRegistry ---------------------------
(***************************************************************************)
(* The process-wide registry of patch-mode objects: a vector guarded by a  *)
(* mutex, so that each operation is one step.  The operators below are the *)
(* operations; Id is the patch_id field of each object.                    *)
(***************************************************************************)
EXTENDS Sequences, SequencesExt

(* register_patch(): no check for a duplicate id.                          *)
Registered(registry, x) == Append(registry, x)

(* unregister_patch(): the first occurrence of the pointer goes.           *)
Unregistered(registry, x) == RemoveFirst(registry, x)

(* find_patch(): the first entry with that id, or none.                    *)
Find(registry, Id, id, none) ==
  LET match == SelectInSeq(registry, LAMBDA x : Id[x] = id)
  IN IF match = 0 THEN none ELSE registry[match]
=============================================================================
