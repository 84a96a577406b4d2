---------------------------- MODULE DeferredCall ----------------------------
(***************************************************************************)
(* The deferred tool call: how an executor on the libwebsockets service    *)
(* thread hands a payload to the Max main thread and waits for its result. *)
(*                                                                         *)
(*   service thread   find_patch -> new DeferredResult -> defer()          *)
(*                    -> wait_for -> copy result -> delete -> reply        *)
(*   main thread      callback: read patch->patcher, act on the patcher,   *)
(*                    store the result, notify(), delete the payload       *)
(*                                                                         *)
(* The DeferredResult lives on the heap and is deleted by the service      *)
(* thread alone; the callback keeps a raw pointer to it.  The heap is a    *)
(* function of addresses, and an address that was freed can be handed out  *)
(* again, so that a write through a stale pointer has an effect.           *)
(*                                                                         *)
(* Max's defer() is external: the main thread runs each deferred callback  *)
(* once, some time later, in an order the model leaves open.               *)
(***************************************************************************)
EXTENDS FiniteSets

CONSTANTS Calls,    \* tools/call requests that reach a deferred executor
          Replacements, \* those of replace_object_text
          Patches,  \* t_maxmcp objects in patch mode
          Addrs,    \* heap addresses a DeferredResult can be given
          NoCall, NoPatch, NoAddr

ASSUME CallsAssumption == NoCall \notin Calls /\ NoPatch \notin Patches
ASSUME ReplacementsAssumption == Replacements \subseteq Calls
ASSUME AddrsAssumption == NoAddr \notin Addrs

VARIABLES
  pc,        \* service thread: progress of the executor of each call
  target,    \* the raw t_maxmcp pointer the executor got from find_patch
  addr,      \* the raw DeferredResult pointer, in executor and payload
  heap,      \* the cells of the DeferredResults
  cb,        \* main thread: progress of the callback of each call
  outcome,   \* the result the callback of each call built
  reply,     \* what kind of reply the client got
  answer,    \* the result that a reply of kind "result" carries
  executed,  \* calls whose effect on the patcher took place
  patch,     \* life of each patch
  touched    \* accesses to memory freed before: <<what, call>>

serviceVars == <<pc, target, addr, reply, answer>>
mainVars    == <<cb, outcome, executed>>
vars == <<pc, target, addr, heap, cb, outcome, reply, answer, executed,
          patch, touched>>

-----------------------------------------------------------------------------
(* A result names the call whose callback built it and says whether the    *)
(* callback did the operation or reported an error; Null is the value a    *)
(* new DeferredResult holds.                                               *)
Result == [call : Calls \cup {NoCall}, ok : BOOLEAN]
Null   == [call |-> NoCall, ok |-> FALSE]

(* A cell of the heap; the owner is the executor that allocated it.        *)
Cell == [owner : Calls \cup {NoCall}, result : Result, completed : BOOLEAN]
Freed == [owner |-> NoCall, result |-> Null, completed |-> FALSE]
(* Mutant: the constructor forgets the flag.                               *)
NewCellNoFlag(c) == [owner |-> c, result |-> Null, completed |-> NoCall]
NewCell(c) == [owner |-> c, result |-> Null, completed |-> FALSE]

Replies == {"none", "not_found", "timeout", "result"}

TypeOK ==
  /\ pc \in [Calls -> {"new", "found", "waiting", "woken", "expired", "replied"}]
  /\ target \in [Calls -> Patches \cup {NoPatch}]
  /\ addr \in [Calls -> Addrs \cup {NoAddr}]
  /\ heap \in [Addrs -> Cell]
  /\ cb \in [Calls -> {"none", "queued", "built", "stored", "flagged", "done"}]
  /\ outcome \in [Calls -> Result]
  /\ reply \in [Calls -> Replies]
  /\ answer \in [Calls -> Result]
  /\ executed \subseteq Calls
  /\ patch \in [Patches -> {"unborn", "registered", "closing", "freed"}]
  /\ touched \subseteq ({"patch", "result", "flag", "cv"} \X Calls)

Init ==
  /\ pc = [c \in Calls |-> "new"]
  /\ target = [c \in Calls |-> NoPatch]
  /\ addr = [c \in Calls |-> NoAddr]
  /\ heap = [a \in Addrs |-> Freed]
  /\ cb = [c \in Calls |-> "none"]
  /\ outcome = [c \in Calls |-> Null]
  /\ reply = [c \in Calls |-> "none"]
  /\ answer = [c \in Calls |-> Null]
  /\ executed = {}
  /\ patch = [p \in Patches |-> "unborn"]
  /\ touched = {}

(* Each thread does one thing at a time.                                   *)
ServiceIdle == \A c \in Calls : pc[c] \in {"new", "replied"}
MainIdle == /\ \A c \in Calls : cb[c] \in {"none", "queued", "done"}
            /\ \A p \in Patches : patch[p] # "closing"

-----------------------------------------------------------------------------
(* Service thread: an executor.                                            *)

PatchNotFound(c, p) ==
  /\ ServiceIdle /\ pc[c] = "new"
  /\ patch[p] # "registered"
  /\ pc' = [pc EXCEPT ![c] = "replied"]
  /\ reply' = [reply EXCEPT ![c] = "not_found"]
  /\ UNCHANGED <<target, addr, heap, answer, mainVars, patch, touched>>

FindPatch(c, p) ==
  /\ ServiceIdle /\ pc[c] = "new"
  /\ patch[p] = "registered"
  /\ pc' = [pc EXCEPT ![c] = "found"]
  /\ target' = [target EXCEPT ![c] = p]
  /\ UNCHANGED <<addr, heap, reply, answer, mainVars, patch, touched>>

(* new DeferredResult, new payload, defer().                               *)
Defer(c) ==
  /\ pc[c] = "found"
  /\ \E a \in Addrs :
       /\ heap[a].owner = NoCall
       /\ addr' = [addr EXCEPT ![c] = a]
       /\ heap' = [heap EXCEPT ![a] = NewCell(c)]
  /\ pc' = [pc EXCEPT ![c] = "waiting"]
  /\ cb' = [cb EXCEPT ![c] = "queued"]
  /\ UNCHANGED <<target, reply, answer, outcome, executed, patch, touched>>

(* wait_for re-evaluates its predicate on entry, on every wake-up, spurious *)
(* ones included, and at the deadline; it returns the predicate's value.   *)
(* Mutants: a wait without predicate; one that looks at the result.        *)
WaitNoPredicate(c) ==
  /\ pc[c] = "waiting"
  /\ pc' = [pc EXCEPT ![c] = "woken"]
  /\ UNCHANGED <<target, addr, heap, reply, answer, mainVars, patch, touched>>

WaitForResult(c) ==
  /\ pc[c] = "waiting"
  /\ heap[addr[c]].result # Null
  /\ pc' = [pc EXCEPT ![c] = "woken"]
  /\ UNCHANGED <<target, addr, heap, reply, answer, mainVars, patch, touched>>

WaitCompletes(c) ==
  /\ pc[c] = "waiting"
  /\ heap[addr[c]].completed
  /\ pc' = [pc EXCEPT ![c] = "woken"]
  /\ UNCHANGED <<target, addr, heap, reply, answer, mainVars, patch, touched>>

(* Mutant: a wait without deadline.                                        *)
WaitForever(c) == FALSE /\ UNCHANGED vars

WaitExpires(c) ==
  /\ pc[c] = "waiting"
  /\ ~heap[addr[c]].completed
  /\ pc' = [pc EXCEPT ![c] = "expired"]
  /\ UNCHANGED <<target, addr, heap, reply, answer, mainVars, patch, touched>>

(* Mutant: the result is deleted before it is copied.                      *)
ReturnDeleted(c) ==
  /\ pc[c] = "woken"
  /\ pc' = [pc EXCEPT ![c] = "replied"]
  /\ reply' = [reply EXCEPT ![c] = "result"]
  /\ answer' = [answer EXCEPT ![c] = Freed.result]
  /\ heap' = [heap EXCEPT ![addr[c]] = Freed]
  /\ UNCHANGED <<target, addr, mainVars, patch, touched>>

ReturnResult(c) ==
  /\ pc[c] = "woken"
  /\ pc' = [pc EXCEPT ![c] = "replied"]
  /\ reply' = [reply EXCEPT ![c] = "result"]
  /\ answer' = [answer EXCEPT ![c] = heap[addr[c]].result]
  /\ heap' = [heap EXCEPT ![addr[c]] = Freed]
  /\ UNCHANGED <<target, addr, mainVars, patch, touched>>

(* Mutant: the way out at a timeout does not delete.                       *)
ReturnTimeoutLeaks(c) ==
  /\ pc[c] = "expired"
  /\ pc' = [pc EXCEPT ![c] = "replied"]
  /\ reply' = [reply EXCEPT ![c] = "timeout"]
  /\ UNCHANGED <<target, addr, heap, answer, mainVars, patch, touched>>

ReturnTimeout(c) ==
  /\ pc[c] = "expired"
  /\ pc' = [pc EXCEPT ![c] = "replied"]
  /\ reply' = [reply EXCEPT ![c] = "timeout"]
  /\ heap' = [heap EXCEPT ![addr[c]] = Freed]
  /\ UNCHANGED <<target, addr, answer, mainVars, patch, touched>>

-----------------------------------------------------------------------------
(* Main thread: a callback, which nothing on the main thread interrupts.   *)

(* An access through the payload's DeferredResult pointer is stale once    *)
(* the executor of the call has deleted what it points to.                 *)
Touch(what, c) ==
  touched' = IF heap[addr[c]].owner = c THEN touched ELSE touched \cup {<<what, c>>}

(* EXTRACT_DEFERRED_DATA_WITH_RESULT and the body of the callback.  The    *)
(* body reports success after it acted, or an error before it did, except  *)
(* that replace_object_text_deferred may have deleted the old box when it  *)
(* reports that the new one could not be made.  Of a freed patch it may    *)
(* read anything.                                                          *)
Run(c) ==
  /\ cb' = [cb EXCEPT ![c] = "built"]
  /\ \E ok, acts \in BOOLEAN :
       /\ ok => acts
       /\ acts => ok \/ c \in Replacements
       /\ outcome' = [outcome EXCEPT ![c] = [call |-> c, ok |-> ok]]
       /\ executed' = IF acts THEN executed \cup {c} ELSE executed
  /\ touched' = IF patch[target[c]] = "freed" THEN touched \cup {<<"patch", c>>}
                                              ELSE touched
  /\ UNCHANGED <<serviceVars, heap, patch>>

(* Mutant: a callback whose call was given up is not run.                  *)
RunCallbackInTime(c) == MainIdle /\ cb[c] = "queued" /\ heap[addr[c]].owner = c /\ Run(c)

RunCallback(c) == MainIdle /\ cb[c] = "queued" /\ Run(c)

StoreResult(c) ==
  /\ cb[c] = "built"
  /\ cb' = [cb EXCEPT ![c] = "stored"]
  /\ heap' = [heap EXCEPT ![addr[c]].result = outcome[c]]
  /\ Touch("result", c)
  /\ UNCHANGED <<serviceVars, outcome, executed, patch>>

(* notify(): completed is set under the mutex, the mutex is released, ...  *)
SetCompleted(c) ==
  /\ cb[c] = "stored"
  /\ cb' = [cb EXCEPT ![c] = "flagged"]
  /\ heap' = [heap EXCEPT ![addr[c]].completed = TRUE]
  /\ Touch("flag", c)
  /\ UNCHANGED <<serviceVars, outcome, executed, patch>>

(* ... and the condition variable is signalled; then the payload goes.     *)
NotifyOne(c) ==
  /\ cb[c] = "flagged"
  /\ cb' = [cb EXCEPT ![c] = "done"]
  /\ Touch("cv", c)
  /\ UNCHANGED <<serviceVars, heap, outcome, executed, patch>>

-----------------------------------------------------------------------------
(* Main thread: patches come and go.                                       *)

MovePatch(p, from, to) ==
  /\ patch[p] = from
  /\ patch' = [patch EXCEPT ![p] = to]
  /\ UNCHANGED <<serviceVars, heap, mainVars, touched>>

OpenPatch(p)  == MainIdle /\ MovePatch(p, "unborn", "registered")
ClosePatch(p) == MainIdle /\ MovePatch(p, "registered", "closing")
FreePatch(p)  == MovePatch(p, "closing", "freed")

-----------------------------------------------------------------------------
Service(c) ==
  \/ Defer(c)
  \/ WaitCompletes(c)
  \/ WaitExpires(c)
  \/ ReturnResult(c)
  \/ ReturnTimeout(c)

Callback(c) ==
  \/ RunCallback(c)
  \/ StoreResult(c)
  \/ SetCompleted(c)
  \/ NotifyOne(c)

Next ==
  \/ \E c \in Calls, p \in Patches : PatchNotFound(c, p) \/ FindPatch(c, p)
  \/ \E c \in Calls : Service(c) \/ Callback(c)
  \/ \E p \in Patches : OpenPatch(p) \/ ClosePatch(p) \/ FreePatch(p)

(* The operating system schedules the service thread, and the deadline of  *)
(* a wait passes.  The main thread may hang; clients and users owe nothing.*)
Fairness == \A c \in Calls : WF_vars(Service(c))

Spec == Init /\ [][Next]_vars /\ Fairness

(* The main thread does not hang: it serves its queue and finishes what it *)
(* began.                                                                  *)
MainServes == /\ \A c \in Calls : WF_vars(Callback(c))
              /\ \A p \in Patches : WF_vars(FreePatch(p))

-----------------------------------------------------------------------------
(* Properties.                                                             *)

(* The abstract specification of the executors.                            *)
Promise == INSTANCE ToolCalls WITH sent <- {c \in Calls : pc[c] # "new"}

(* A call that ran out of time, whose callback may still be to come.       *)
SomeTimeout == \E c \in Calls : pc[c] = "expired" \/ reply[c] = "timeout"

(* As long as no call ran out of time, a client that got a result got the  *)
(* one its own callback built: run_deferred() never returns another call's *)
(* result or the empty initial one.  So success means that the callback    *)
(* acted on the patcher, and an error that it did not, or that it replaced *)
(* a box and failed half way.                                              *)
AnswerIsOwn ==
  SomeTimeout \/
  \A c \in Calls : reply[c] = "result" =>
    answer[c].call = c /\ Promise!Tells(c, answer[c].ok)

(* As long as no call ran out of time, every callback stores its result    *)
(* and raises the flag in a DeferredResult that its executor still owns.   *)
(* (The signal that follows comes after the unlock and has no such bound.) *)
StoresReachOwner ==
  SomeTimeout \/
  \A c \in Calls : <<"result", c>> \notin touched /\ <<"flag", c>> \notin touched

(* run_deferred() deletes what it allocated on both of its ways out: a     *)
(* cell that is not free belongs to an executor still in run_deferred, and *)
(* to one only.                                                            *)
NoLeak ==
  \A a \in Addrs : heap[a].owner # NoCall =>
    /\ pc[heap[a].owner] \in {"waiting", "woken", "expired"}
    /\ addr[heap[a].owner] = a

(* The safety of the module in one inductive invariant.  The executor of   *)
(* one call at a time is in run_deferred and owns its cell; callback and   *)
(* executor of a call agree on how far each is; and until a call runs out  *)
(* of time the cell of a waiting executor is completed only by its own     *)
(* callback, with the outcome that callback built.                         *)
InRun == {"waiting", "woken", "expired"}

OneExecutor ==
  \A c, d \in Calls : pc[c] \notin {"new", "replied"} /\ pc[d] \notin {"new", "replied"}
                         => c = d

OwnsCell ==
  \A c \in Calls : pc[c] \in InRun => addr[c] \in Addrs /\ heap[addr[c]].owner = c

InStep ==
  \A c \in Calls :
    /\ pc[c] \in {"new", "found"} => cb[c] = "none"
    /\ pc[c] = "found" => target[c] \in Patches
    /\ pc[c] \in InRun => cb[c] # "none"
    /\ pc[c] = "replied" <=> reply[c] # "none"
    /\ cb[c] # "none" => /\ addr[c] \in Addrs /\ target[c] \in Patches
                         /\ reply[c] # "not_found"

OutcomeTrue ==
  \A c \in Calls :
    IF cb[c] \in {"none", "queued"} THEN c \notin executed
    ELSE outcome[c].call = c /\ Promise!Tells(c, outcome[c].ok)

OwnCompletion ==
  \A c \in Calls :
    /\ cb[c] \in {"queued", "built", "stored"} => pc[c] = "waiting"
    /\ cb[c] = "stored" => heap[addr[c]].result = outcome[c]
    /\ pc[c] \in InRun /\ heap[addr[c]].completed =>
         cb[c] \in {"flagged", "done"} /\ heap[addr[c]].result = outcome[c]
    /\ pc[c] = "woken" => heap[addr[c]].completed
    /\ reply[c] = "result" => cb[c] \in {"flagged", "done"} /\ answer[c] = outcome[c]

(* Until a call was told that it timed out, a result is returned after the *)
(* callback of the call.                                                   *)
ResultAfterCallback ==
  (\E d \in Calls : reply[d] = "timeout") \/
  \A c \in Calls : reply[c] = "result" => cb[c] \in {"flagged", "done"}

Inv ==
  /\ TypeOK
  /\ OneExecutor /\ OwnsCell /\ NoLeak
  /\ InStep /\ OutcomeTrue
  /\ SomeTimeout \/ OwnCompletion
  /\ ResultAfterCallback
  /\ StoresReachOwner

(* A call is replied to even when the main thread hangs: wait_for has a    *)
(* deadline.                                                               *)
EveryCallReplied == \A c \in Calls : pc[c] = "found" ~> pc[c] = "replied"

(* Each payload handed to defer() is consumed in the end, so that the      *)
(* callback's delete is reached, timed out or not, if the main thread does *)
(* not hang.                                                               *)
EveryPayloadConsumed ==
  MainServes => \A c \in Calls : cb[c] = "queued" ~> cb[c] = "done"

(* The executors keep the promise of ToolCalls.                            *)
ImplementsToolCalls == Promise!Spec

-----------------------------------------------------------------------------
(* Statements of the sources that the code does not keep.                  *)

(* tool_common.h:442 says run_deferred() waits "for the callback" and      *)
(* returns "the unwrapped result": the result of that callback, whatever   *)
(* happened to earlier calls.                                              *)
ReturnsCallbackResult ==
  \A c \in Calls : reply[c] = "result" => answer[c].call = c

(* architecture.md:495 says patcher references must be checked for         *)
(* validity before use: no callback reads the fields of a freed patch.     *)
PatchValidBeforeUse == \A c \in Calls : <<"patch", c>> \notin touched
=============================================================================
