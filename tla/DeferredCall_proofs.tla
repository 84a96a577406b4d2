------------------------- MODULE DeferredCall_proofs -------------------------
(***************************************************************************)
(* Proofs about DeferredCall, for any number of calls, patches and         *)
(* addresses.  Each action keeps the inductive invariant Inv: one lemma    *)
(* per action, one step per conjunct.  From Inv follow the typing and the  *)
(* safety properties of the module, and that each step is a step of        *)
(* ToolCalls or leaves its variables unchanged.                            *)
(***************************************************************************)
EXTENDS DeferredCall, TLAPS

LEMMA InitInv == Init => Inv
  BY CallsAssumption
  DEF Init, Inv, TypeOK, Result, Null, Cell, Freed, Replies, OneExecutor, OwnsCell,
      NoLeak, InStep, InRun, OutcomeTrue, OwnCompletion, ResultAfterCallback, StoresReachOwner, SomeTimeout

-----------------------------------------------------------------------------
(* The service thread.                                                     *)

LEMMA PatchNotFoundInv ==
  ASSUME Inv, NEW c \in Calls, NEW p \in Patches, PatchNotFound(c, p) PROVE Inv'
<1> USE CallsAssumption, AddrsAssumption
<1> USE DEF Inv, PatchNotFound, mainVars
<1>1. TypeOK' BY DEF TypeOK, Result, Null, Cell, Freed, NewCell, Replies
<1>2. OneExecutor' BY DEF OneExecutor, TypeOK
<1>3. OwnsCell' BY DEF OwnsCell, TypeOK, InRun
<1>4. NoLeak' BY DEF NoLeak, TypeOK, OwnsCell, InRun
<1>5. InStep' BY DEF InStep, TypeOK, InRun, Replies
<1>6. OutcomeTrue' BY DEF OutcomeTrue, Promise!Tells, TypeOK
<1>7. SomeTimeout' \/ OwnCompletion'
  BY DEF SomeTimeout, OwnCompletion, TypeOK, InStep, InRun
<1>8. StoresReachOwner'
  BY DEF StoresReachOwner, SomeTimeout, TypeOK, InStep, InRun
<1>9. ResultAfterCallback' BY DEF ResultAfterCallback, TypeOK, InStep, InRun
<1> QED BY <1>1, <1>2, <1>3, <1>4, <1>5, <1>6, <1>7, <1>8, <1>9

LEMMA FindPatchInv ==
  ASSUME Inv, NEW c \in Calls, NEW p \in Patches, FindPatch(c, p) PROVE Inv'
<1> USE CallsAssumption, AddrsAssumption
<1> USE DEF Inv, FindPatch, ServiceIdle, mainVars
<1>1. TypeOK' BY DEF TypeOK, Result, Null, Cell, Freed, NewCell, Replies
<1>2. OneExecutor' BY DEF OneExecutor, TypeOK
<1>3. OwnsCell' BY DEF OwnsCell, TypeOK, InRun
<1>4. NoLeak' BY DEF NoLeak, TypeOK, OwnsCell, InRun
<1>5. InStep' BY DEF InStep, TypeOK, InRun, Replies
<1>6. OutcomeTrue' BY DEF OutcomeTrue, Promise!Tells, TypeOK
<1>7. SomeTimeout' \/ OwnCompletion'
  BY DEF SomeTimeout, OwnCompletion, TypeOK, InStep, InRun
<1>8. StoresReachOwner'
  BY DEF StoresReachOwner, SomeTimeout, TypeOK, InStep, InRun
<1>9. ResultAfterCallback' BY DEF ResultAfterCallback, TypeOK, InStep, InRun
<1> QED BY <1>1, <1>2, <1>3, <1>4, <1>5, <1>6, <1>7, <1>8, <1>9

LEMMA DeferInv ==
  ASSUME Inv, NEW c \in Calls, Defer(c) PROVE Inv'
<1> USE CallsAssumption, AddrsAssumption
<1> USE DEF Inv, Defer, NewCell
<1>1. TypeOK' BY DEF TypeOK, Result, Null, Cell, Freed, NewCell, Replies
<1>2. OneExecutor' BY DEF OneExecutor, TypeOK
<1>3. OwnsCell' BY DEF OwnsCell, TypeOK, InRun
<1>4. NoLeak' BY DEF NoLeak, TypeOK, OwnsCell, InRun
<1>5. InStep' BY DEF InStep, TypeOK, InRun, Replies
<1>6. OutcomeTrue' BY DEF OutcomeTrue, Promise!Tells, InStep, TypeOK
<1>7. SomeTimeout' \/ OwnCompletion'
  BY DEF SomeTimeout, OwnCompletion, TypeOK, Cell, InStep, InRun, OwnsCell
<1>8. StoresReachOwner'
  BY DEF StoresReachOwner, SomeTimeout, TypeOK, InStep, InRun
<1>9. ResultAfterCallback' BY DEF ResultAfterCallback, TypeOK, InStep, InRun
<1> QED BY <1>1, <1>2, <1>3, <1>4, <1>5, <1>6, <1>7, <1>8, <1>9

LEMMA WaitCompletesInv ==
  ASSUME Inv, NEW c \in Calls, WaitCompletes(c) PROVE Inv'
<1> USE CallsAssumption, AddrsAssumption
<1> USE DEF Inv, WaitCompletes, mainVars
<1>1. TypeOK' BY DEF TypeOK, Result, Null, Cell, Freed, NewCell, Replies
<1>2. OneExecutor' BY DEF OneExecutor, TypeOK
<1>3. OwnsCell' BY DEF OwnsCell, TypeOK, InRun
<1>4. NoLeak' BY DEF NoLeak, TypeOK, OwnsCell, InRun
<1>5. InStep' BY DEF InStep, TypeOK, InRun, Replies
<1>6. OutcomeTrue' BY DEF OutcomeTrue, Promise!Tells, TypeOK
<1>7. SomeTimeout' \/ OwnCompletion'
  BY DEF SomeTimeout, OwnCompletion, TypeOK, InStep, InRun
<1>8. StoresReachOwner'
  BY DEF StoresReachOwner, SomeTimeout, TypeOK, InStep, InRun
<1>9. ResultAfterCallback' BY DEF ResultAfterCallback, TypeOK, InStep, InRun
<1> QED BY <1>1, <1>2, <1>3, <1>4, <1>5, <1>6, <1>7, <1>8, <1>9

LEMMA WaitExpiresInv ==
  ASSUME Inv, NEW c \in Calls, WaitExpires(c) PROVE Inv'
<1> USE CallsAssumption, AddrsAssumption
<1> USE DEF Inv, WaitExpires, mainVars
<1>1. TypeOK' BY DEF TypeOK, Result, Null, Cell, Freed, NewCell, Replies
<1>2. OneExecutor' BY DEF OneExecutor, TypeOK
<1>3. OwnsCell' BY DEF OwnsCell, TypeOK, InRun
<1>4. NoLeak' BY DEF NoLeak, TypeOK, OwnsCell, InRun
<1>5. InStep' BY DEF InStep, TypeOK, InRun, Replies
<1>6. OutcomeTrue' BY DEF OutcomeTrue, Promise!Tells, TypeOK
<1>7. SomeTimeout' \/ OwnCompletion' BY DEF SomeTimeout, TypeOK
<1>8. StoresReachOwner'
  BY DEF StoresReachOwner, SomeTimeout, TypeOK, InStep, InRun
<1>9. ResultAfterCallback' BY DEF ResultAfterCallback, TypeOK, InStep, InRun
<1> QED BY <1>1, <1>2, <1>3, <1>4, <1>5, <1>6, <1>7, <1>8, <1>9

LEMMA ReturnResultInv ==
  ASSUME Inv, NEW c \in Calls, ReturnResult(c) PROVE Inv'
<1> USE CallsAssumption, AddrsAssumption
<1> USE DEF Inv, ReturnResult, mainVars
<1>1. TypeOK'
  BY DEF TypeOK, OwnsCell, InRun, Result, Null, Cell, Freed, Replies
<1>2. OneExecutor' BY DEF OneExecutor, TypeOK
<1>3. OwnsCell' BY DEF OwnsCell, OneExecutor, TypeOK, InRun
<1>4. NoLeak' BY DEF NoLeak, OwnsCell, TypeOK, InRun, Freed
<1>5. InStep' BY DEF InStep, TypeOK, InRun, Replies
<1>6. OutcomeTrue' BY DEF OutcomeTrue, Promise!Tells, TypeOK
<1>7. SomeTimeout' \/ OwnCompletion'
  BY DEF SomeTimeout, OwnCompletion, OneExecutor, OwnsCell, TypeOK, InStep,
            InRun
<1>8. StoresReachOwner'
  BY DEF StoresReachOwner, SomeTimeout, TypeOK, InStep, InRun
<1>9. ResultAfterCallback'
  <2>1. CASE \E d \in Calls : reply[d] = "timeout"
    BY <2>1 DEF ResultAfterCallback, TypeOK, InStep
  <2>2. CASE ~(\E d \in Calls : reply[d] = "timeout")
    <3>1. ~SomeTimeout BY <2>2 DEF SomeTimeout, OneExecutor, TypeOK
    <3>2. cb[c] \in {"flagged", "done"} BY <3>1 DEF OwnCompletion, InRun
    <3> QED BY <2>2, <3>2 DEF ResultAfterCallback, TypeOK
  <2> QED BY <2>1, <2>2
<1> QED BY <1>1, <1>2, <1>3, <1>4, <1>5, <1>6, <1>7, <1>8, <1>9

LEMMA ReturnTimeoutInv ==
  ASSUME Inv, NEW c \in Calls, ReturnTimeout(c) PROVE Inv'
<1> USE CallsAssumption, AddrsAssumption
<1> USE DEF Inv, ReturnTimeout, mainVars
<1>1. TypeOK' BY DEF TypeOK, Result, Null, Cell, Freed, NewCell, Replies
<1>2. OneExecutor' BY DEF OneExecutor, TypeOK
<1>3. OwnsCell' BY DEF OwnsCell, OneExecutor, TypeOK, InRun
<1>4. NoLeak' BY DEF NoLeak, OwnsCell, TypeOK, InRun, Freed
<1>5. InStep' BY DEF InStep, TypeOK, InRun, Replies
<1>6. OutcomeTrue' BY DEF OutcomeTrue, Promise!Tells, TypeOK
<1>7. SomeTimeout' \/ OwnCompletion' BY DEF SomeTimeout, TypeOK, Replies
<1>8. StoresReachOwner'
  BY DEF StoresReachOwner, SomeTimeout, TypeOK, InStep, InRun
<1>9. ResultAfterCallback' BY DEF ResultAfterCallback, TypeOK, InStep, InRun
<1> QED BY <1>1, <1>2, <1>3, <1>4, <1>5, <1>6, <1>7, <1>8, <1>9

-----------------------------------------------------------------------------
(* Callbacks and patches: the main thread.                                 *)

LEMMA RunCallbackInv ==
  ASSUME Inv, NEW c \in Calls, RunCallback(c) PROVE Inv'
<1> USE CallsAssumption, AddrsAssumption
<1> USE DEF Inv, RunCallback, Run, serviceVars
<1>1. TypeOK' BY DEF TypeOK, Result, Null, Cell, Freed, NewCell, Replies
<1>2. OneExecutor' BY DEF OneExecutor, TypeOK
<1>3. OwnsCell' BY DEF OwnsCell, TypeOK, InRun
<1>4. NoLeak' BY DEF NoLeak
<1>5. InStep' BY DEF InStep, TypeOK, InRun, Replies
<1>6. OutcomeTrue'
  <2>1. PICK ok, acts \in BOOLEAN :
          /\ ok => acts
          /\ acts => ok \/ c \in Replacements
          /\ outcome' = [outcome EXCEPT ![c] = [call |-> c, ok |-> ok]]
          /\ executed' = IF acts THEN executed \cup {c} ELSE executed
    OBVIOUS
  <2>2. c \notin executed BY DEF OutcomeTrue
  <2>3. outcome'[c].call = c /\ outcome'[c].ok = ok BY <2>1 DEF TypeOK
  <2>4. Promise!Tells(c, outcome[c].ok)' BY <2>1, <2>2, <2>3 DEF Promise!Tells
  <2>5. ASSUME NEW d \in Calls, d # c
        PROVE (IF cb[d] \in {"none", "queued"} THEN d \notin executed
               ELSE outcome[d].call = d /\ Promise!Tells(d, outcome[d].ok))'
    BY <2>1, <2>5 DEF OutcomeTrue, Promise!Tells, TypeOK
  <2> QED BY <2>3, <2>4, <2>5 DEF OutcomeTrue, TypeOK
<1>7. SomeTimeout' \/ OwnCompletion'
  BY DEF SomeTimeout, OwnCompletion, TypeOK, InStep, InRun
<1>8. StoresReachOwner'
  BY DEF StoresReachOwner, SomeTimeout, TypeOK, InStep, InRun
<1>9. ResultAfterCallback' BY DEF ResultAfterCallback, TypeOK, InStep, InRun
<1> QED BY <1>1, <1>2, <1>3, <1>4, <1>5, <1>6, <1>7, <1>8, <1>9

LEMMA StoreResultInv ==
  ASSUME Inv, NEW c \in Calls, StoreResult(c) PROVE Inv'
<1> USE CallsAssumption, AddrsAssumption
<1> USE DEF Inv, StoreResult, Touch, serviceVars
<1>1. TypeOK' BY DEF TypeOK, Cell, InStep
<1>2. OneExecutor' BY DEF OneExecutor, TypeOK
<1>3. OwnsCell' BY DEF OwnsCell, TypeOK, Cell, InRun
<1>4. NoLeak' BY DEF NoLeak, TypeOK, Cell, InStep
<1>5. InStep' BY DEF InStep, TypeOK, InRun, Replies
<1>6. OutcomeTrue' BY DEF OutcomeTrue, Promise!Tells, TypeOK
<1>7. SomeTimeout' \/ OwnCompletion'
  BY DEF SomeTimeout, OwnCompletion, OwnsCell, OneExecutor, TypeOK, Cell, InStep,
            InRun
<1>8. StoresReachOwner'
  BY DEF StoresReachOwner, SomeTimeout, OwnCompletion, OwnsCell, InRun
<1>9. ResultAfterCallback' BY DEF ResultAfterCallback, TypeOK, InStep, InRun
<1> QED BY <1>1, <1>2, <1>3, <1>4, <1>5, <1>6, <1>7, <1>8, <1>9

LEMMA SetCompletedInv ==
  ASSUME Inv, NEW c \in Calls, SetCompleted(c) PROVE Inv'
<1> USE CallsAssumption, AddrsAssumption
<1> USE DEF Inv, SetCompleted, Touch, serviceVars
<1>1. TypeOK'
  <2> DEFINE old == heap[addr[c]]
  <2>1. addr[c] \in Addrs /\ old \in Cell BY DEF TypeOK, InStep
  <2>2. [old EXCEPT !.completed = TRUE] \in Cell BY <2>1 DEF Cell
  <2>3. heap' \in [Addrs -> Cell] BY <2>1, <2>2 DEF TypeOK
  <2> QED BY <2>3 DEF TypeOK
<1>2. OneExecutor' BY DEF OneExecutor, TypeOK
<1>3. OwnsCell' BY DEF OwnsCell, TypeOK, Cell, InRun
<1>4. NoLeak' BY DEF NoLeak, TypeOK, Cell, InStep
<1>5. InStep' BY DEF InStep, TypeOK, InRun, Replies
<1>6. OutcomeTrue' BY DEF OutcomeTrue, Promise!Tells, TypeOK
<1>7. SomeTimeout' \/ OwnCompletion'
  BY DEF SomeTimeout, OwnCompletion, OwnsCell, OneExecutor, TypeOK, Cell, InStep,
            InRun
<1>8. StoresReachOwner'
  BY DEF StoresReachOwner, SomeTimeout, OwnCompletion, OwnsCell, InRun
<1>9. ResultAfterCallback' BY DEF ResultAfterCallback, TypeOK, InStep, InRun
<1> QED BY <1>1, <1>2, <1>3, <1>4, <1>5, <1>6, <1>7, <1>8, <1>9

LEMMA NotifyOneInv ==
  ASSUME Inv, NEW c \in Calls, NotifyOne(c) PROVE Inv'
<1> USE CallsAssumption, AddrsAssumption
<1> USE DEF Inv, NotifyOne, Touch, serviceVars
<1>1. TypeOK' BY DEF TypeOK, Result, Null, Cell, Freed, NewCell, Replies
<1>2. OneExecutor' BY DEF OneExecutor, TypeOK
<1>3. OwnsCell' BY DEF OwnsCell, TypeOK, InRun
<1>4. NoLeak' BY DEF NoLeak, TypeOK, OwnsCell, InRun
<1>5. InStep' BY DEF InStep, TypeOK, InRun, Replies
<1>6. OutcomeTrue' BY DEF OutcomeTrue, Promise!Tells, TypeOK
<1>7. SomeTimeout' \/ OwnCompletion'
  BY DEF SomeTimeout, OwnCompletion, TypeOK, InStep, InRun
<1>8. StoresReachOwner'
  BY DEF StoresReachOwner, SomeTimeout, TypeOK, InStep, InRun
<1>9. ResultAfterCallback' BY DEF ResultAfterCallback, TypeOK, InStep, InRun
<1> QED BY <1>1, <1>2, <1>3, <1>4, <1>5, <1>6, <1>7, <1>8, <1>9

LEMMA MovePatchInv ==
  ASSUME Inv, NEW p \in Patches, NEW from,
         NEW to \in {"registered", "closing", "freed"}, MovePatch(p, from, to) PROVE Inv'
<1> USE CallsAssumption, AddrsAssumption
<1> USE DEF Inv, MovePatch, serviceVars, mainVars
<1>1. TypeOK' BY DEF TypeOK, Result, Null, Cell, Freed, NewCell, Replies
<1>2. OneExecutor' BY DEF OneExecutor, TypeOK
<1>3. OwnsCell' BY DEF OwnsCell, TypeOK, InRun
<1>4. NoLeak' BY DEF NoLeak, TypeOK, OwnsCell, InRun
<1>5. InStep' BY DEF InStep, TypeOK, InRun, Replies
<1>6. OutcomeTrue' BY DEF OutcomeTrue, Promise!Tells, TypeOK
<1>7. SomeTimeout' \/ OwnCompletion'
  BY DEF SomeTimeout, OwnCompletion, TypeOK, InStep, InRun
<1>8. StoresReachOwner'
  BY DEF StoresReachOwner, SomeTimeout, TypeOK, InStep, InRun
<1>9. ResultAfterCallback' BY DEF ResultAfterCallback, TypeOK, InStep, InRun
<1> QED BY <1>1, <1>2, <1>3, <1>4, <1>5, <1>6, <1>7, <1>8, <1>9

LEMMA StutterInv == Inv /\ UNCHANGED vars => Inv'
  BY DEF vars, Inv, TypeOK, OneExecutor, OwnsCell, NoLeak, InStep, OutcomeTrue, Promise!Tells,
         OwnCompletion, ResultAfterCallback, StoresReachOwner, SomeTimeout

LEMMA NextInv == Inv /\ [Next]_vars => Inv'
<1> SUFFICES ASSUME Inv, Next PROVE Inv'
  BY StutterInv
<1>1. ASSUME NEW c \in Calls, NEW p \in Patches, PatchNotFound(c, p) \/ FindPatch(c, p)
      PROVE Inv'
  BY <1>1, PatchNotFoundInv, FindPatchInv
<1>2. ASSUME NEW c \in Calls, Service(c) PROVE Inv'
  BY <1>2, DeferInv, WaitCompletesInv, WaitExpiresInv, ReturnResultInv, ReturnTimeoutInv
  DEF Service
<1>3. ASSUME NEW c \in Calls, Callback(c) PROVE Inv'
  BY <1>3, RunCallbackInv, StoreResultInv, SetCompletedInv, NotifyOneInv DEF Callback
<1>4. ASSUME NEW p \in Patches, OpenPatch(p) \/ ClosePatch(p) \/ FreePatch(p) PROVE Inv'
  BY <1>4, MovePatchInv DEF OpenPatch, ClosePatch, FreePatch
<1> QED BY <1>1, <1>2, <1>3, <1>4 DEF Next

(* Inv holds in every reachable state.                                     *)
THEOREM Invariance == Spec => []Inv
  BY InitInv, NextInv, PTL DEF Spec

(* The variables keep their types: in particular every pointer the two     *)
(* threads hold is an address or null.                                     *)
THEOREM TypeCorrect == Spec => []TypeOK
<1>1. Inv => TypeOK BY DEF Inv
<1> QED BY <1>1, Invariance, PTL

(* Until a call runs out of time, run_deferred() returns to each client    *)
(* the result its own callback built: of success only if the callback      *)
(* acted, an error after it acted only if the call replaces a box.         *)
THEOREM AnswersAreOwn == Spec => []AnswerIsOwn
<1>1. ASSUME Inv, ~SomeTimeout, NEW c \in Calls, reply[c] = "result"
      PROVE answer[c].call = c /\ Promise!Tells(c, answer[c].ok)
  <2>1. answer[c] = outcome[c] /\ cb[c] \in {"flagged", "done"}
    BY <1>1 DEF Inv, OwnCompletion
  <2>2. outcome[c].call = c /\ Promise!Tells(c, outcome[c].ok)
    BY <2>1, <1>1 DEF Inv, OutcomeTrue
  <2> QED BY <2>1, <2>2
<1>2. Inv => AnswerIsOwn
  BY <1>1 DEF AnswerIsOwn
<1> QED BY <1>2, Invariance, PTL

(* Until a call runs out of time, no callback writes to a DeferredResult   *)
(* that was deleted.                                                       *)
THEOREM StoresAreOwn == Spec => []StoresReachOwner
<1>1. Inv => StoresReachOwner BY DEF Inv
<1> QED BY <1>1, Invariance, PTL

(* A DeferredResult that was not deleted belongs to one executor, which is *)
(* still in run_deferred().                                                *)
THEOREM NothingLeaks == Spec => []NoLeak
<1>1. Inv => NoLeak BY DEF Inv
<1> QED BY <1>1, Invariance, PTL

-----------------------------------------------------------------------------
(* The refinement of ToolCalls.                                            *)

LEMMA InitRefines == Init => Promise!Init
  BY DEF Init, Promise!Init, Null, Promise!Null

(* What ToolCalls sees of this module.                                     *)
LEMMA Unseen ==
  UNCHANGED <<pc, reply, answer, executed>> => UNCHANGED Promise!vars
  BY DEF Promise!vars

LEMMA StepRefines == Inv /\ [Next]_vars => [Promise!Next]_(Promise!vars)
<1> SUFFICES ASSUME Inv, Next PROVE Promise!Next \/ UNCHANGED Promise!vars
  BY Unseen DEF vars
<1> USE CallsAssumption
<1>1. ASSUME NEW c \in Calls, NEW p \in Patches, PatchNotFound(c, p)
      PROVE Promise!Reject(c)
  BY <1>1 DEF PatchNotFound, ServiceIdle, Promise!Reject, Promise!Idle, Inv, TypeOK, InStep, mainVars
<1>2. ASSUME NEW c \in Calls, NEW p \in Patches, FindPatch(c, p)
      PROVE Promise!Accept(c)
  BY <1>2 DEF FindPatch, ServiceIdle, Promise!Accept, Promise!Idle, Inv, TypeOK, InStep, mainVars
<1>3. ASSUME NEW c \in Calls, Defer(c) \/ WaitCompletes(c) \/ WaitExpires(c)
      PROVE UNCHANGED Promise!vars
  BY <1>3 DEF Defer, WaitCompletes, WaitExpires, mainVars, Promise!vars, Inv, TypeOK
<1>4. ASSUME NEW c \in Calls, ReturnResult(c) PROVE Promise!Answer(c)
  <2>1. c \in {d \in Calls : pc[d] # "new"} /\ reply[c] = "none"
    BY <1>4 DEF ReturnResult, Inv, TypeOK, InStep
  <2>2. answer'[c] \in Result /\ answer' = [answer EXCEPT ![c] = answer'[c]]
    BY <1>4 DEF ReturnResult, Inv, TypeOK, OwnsCell, InRun, Cell
  <2>3. (answer'[c].call = c /\ Promise!Tells(c, answer'[c].ok)) \/ Promise!SomeTimeout
    <3>1. CASE Promise!SomeTimeout BY <3>1
    <3>2. CASE ~Promise!SomeTimeout
      <4>1. ~SomeTimeout
        BY <1>4, <3>2 DEF ReturnResult, SomeTimeout, Promise!SomeTimeout, Inv, OneExecutor, TypeOK
      <4>2. answer'[c] = outcome[c] /\ cb[c] \in {"flagged", "done"}
        BY <1>4, <4>1 DEF ReturnResult, Inv, TypeOK, OwnCompletion, InRun
      <4> QED BY <4>2 DEF Inv, OutcomeTrue
    <3> QED BY <3>1, <3>2
  <2>4. UNCHANGED <<{d \in Calls : pc[d] # "new"}, executed>>
    BY <1>4 DEF ReturnResult, mainVars, Inv, TypeOK
  <2>5. reply' = [reply EXCEPT ![c] = "result"]
    BY <1>4 DEF ReturnResult
  <2> QED BY <2>1, <2>2, <2>3, <2>4, <2>5 DEF Promise!Answer, Promise!Result, Result
<1>5. ASSUME NEW c \in Calls, ReturnTimeout(c) PROVE Promise!TimeOut(c)
  BY <1>5 DEF ReturnTimeout, Promise!TimeOut, Inv, TypeOK, InStep, mainVars
<1>6. ASSUME NEW c \in Calls, RunCallback(c)
      PROVE Promise!Execute(c) \/ UNCHANGED Promise!vars
  <2>1. c \in {d \in Calls : pc[d] # "new"} /\ c \notin executed
    BY <1>6 DEF RunCallback, Inv, TypeOK, InStep, OutcomeTrue
  <2>2. reply[c] = "none" \/ (reply[c] # "not_found" /\ Promise!SomeTimeout)
    BY <1>6 DEF RunCallback, Inv, TypeOK, Replies, InStep, ResultAfterCallback,
                Promise!SomeTimeout
  <2>3. executed' \in {executed, executed \cup {c}} /\ UNCHANGED <<pc, reply, answer>>
    BY <1>6 DEF RunCallback, Run, serviceVars
  <2> QED BY <2>1, <2>2, <2>3 DEF Promise!Execute, Promise!vars
<1>7. ASSUME NEW c \in Calls, StoreResult(c) \/ SetCompleted(c) \/ NotifyOne(c)
      PROVE UNCHANGED Promise!vars
  BY <1>7 DEF StoreResult, SetCompleted, NotifyOne, serviceVars, Promise!vars
<1>8. ASSUME NEW p \in Patches, OpenPatch(p) \/ ClosePatch(p) \/ FreePatch(p)
      PROVE UNCHANGED Promise!vars
  BY <1>8 DEF OpenPatch, ClosePatch, FreePatch, MovePatch, serviceVars, mainVars, Promise!vars
<1> QED
  BY <1>1, <1>2, <1>3, <1>4, <1>5, <1>6, <1>7, <1>8 DEF Next, Service, Callback, Promise!Next

(* The executors and callbacks implement the safety part of ToolCalls:     *)
(* one reply per call, at most one effect, results that are the call's own *)
(* until a call runs out of time.  (That every call is replied to is model-checked.)    *)
THEOREM Refinement == Spec => Promise!Init /\ [][Promise!Next]_(Promise!vars)
  BY InitRefines, StepRefines, Invariance, PTL DEF Spec
=============================================================================
