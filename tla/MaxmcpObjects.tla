--------------------------- MODULE MaxmcpObjects ---------------------------
(***************************************************************************)
(* The life of [maxmcp] objects: creation in agent or patch mode, the      *)
(* process-wide state they share (registry, agent singleton, MCPServer     *)
(* singleton), notifications of closing patchers, and destruction.         *)
(*                                                                         *)
(* Everything here runs on the Max main thread, except that the service    *)
(* thread of each running server calls MCPServer::get_instance(), looks    *)
(* into the registry while it handles a request, and waits for a callback  *)
(* it has deferred to the main thread.  The two threads wait for each      *)
(* other: the main thread joins the service thread, and then the queue     *)
(* thread (WebSocketServer), when it stops a server, and a callback can    *)
(* itself delete a box, of a patch or of an agent, that sits in the        *)
(* patcher of the patch it was deferred for.  Cleanup follows the          *)
(* attribute `mode`, which can be set at any time.                         *)
(*                                                                         *)
(* External: Max closes a patcher by notifying the attached objects, then  *)
(* freeing the boxes, then the patcher; opening a port may fail.           *)
(***************************************************************************)
EXTENDS Naturals, FiniteSets, PatchRegistry

CONSTANTS Objs,      \* [maxmcp] boxes, each created at most once
          Patchers,  \* the patchers that hold them
          Placements, \* ways the boxes can sit in the patchers
          Alias,     \* the @alias of each box, None when it has none
          AutoId,    \* the id generate_patch_id makes for each box
          MaxInstances, \* bound: MCPServer objects ever created
          None

ASSUME PlacementsAssumption == Placements \subseteq [Objs -> Patchers]
ASSUME InstancesAssumption == MaxInstances \in Nat
ASSUME NoneAssumption == None \notin Objs \cup Patchers
(* generate_patch_id ends in 8 random hex digits: taken to be distinct.    *)
ASSUME AutoIdAssumption == \A x, y \in Objs : AutoId[x] = AutoId[y] => x = y

VARIABLES
  boxOf,      \* the patcher each box sits in, the same throughout
  life,       \* of each object
  mode,       \* the attribute, as it is now
  flipped,    \* objects whose mode changed between agent and not agent
  patchId,    \* x->patch_id
  registry,   \* PatchRegistry::patches_
  attached,   \* objects subscribed to their patcher's notifications
  agent,      \* g_agent_instance
  server,     \* x->ws_server; in stop(): stopping while the service thread
              \* is to be joined, joined while the queue thread is
  patcher,    \* of each patcher: open, closing or gone
  notified,   \* objects that were sent the "free" notification
  main,       \* main thread: idle, or where in new (agent), free or stop
  mainObj,    \* the object it is creating, freeing or stopping
  caller,     \* the server whose callback is freeing it, or None
  instance,   \* MCPServer::instance_: 0 is nullptr
  instances,  \* MCPServer objects that exist
  created,    \* how many were ever created (bounds the model)
  svc,        \* service thread of each server, inside its callback
  svcInstance, \* the MCPServer it is calling
  pending     \* the patch it has deferred a callback for

objVars == <<life, mode, flipped, patchId, registry, attached>>
patcherVars == <<patcher, notified>>
mainVars == <<main, mainObj, caller>>
mcpVars == <<instance, instances, created>>
svcVars == <<svc, svcInstance, pending>>
vars == <<boxOf, objVars, agent, server, patcherVars, mainVars, mcpVars, svcVars>>

Modes == {"agent", "patch", "other"}
Ids == {None} \cup {Alias[x] : x \in Objs} \cup {AutoId[x] : x \in Objs}

TypeOK ==
  /\ boxOf \in Placements
  /\ life \in [Objs -> {"unborn", "failed", "alive", "freed"}]
  /\ mode \in [Objs -> Modes]
  /\ flipped \subseteq Objs
  /\ patchId \in [Objs -> Ids]
  /\ registry \in Seq(Objs)
  /\ attached \subseteq Objs
  /\ agent \in Objs \cup {None}
  /\ server \in [Objs -> {"none", "stopped", "running", "stopping", "joined"}]
  /\ patcher \in [Patchers -> {"open", "closing", "gone"}]
  /\ notified \subseteq Objs
  /\ main \in {"idle", "get", "create", "free", "stop"}
  /\ mainObj \in Objs \cup {None} /\ caller \in Objs \cup {None}
  /\ instances \subseteq 1..MaxInstances
  /\ instance \in 0..MaxInstances
  /\ created \in 0..MaxInstances
  /\ svc \in [Objs -> {"idle", "create", "handle", "wait"}]
  /\ svcInstance \in [Objs -> 0..MaxInstances]
  /\ pending \in [Objs -> Objs \cup {None}]

Init ==
  /\ boxOf \in Placements
  /\ life = [x \in Objs |-> "unborn"]
  /\ mode = [x \in Objs |-> "patch"]
  /\ flipped = {}
  /\ patchId = [x \in Objs |-> None]
  /\ registry = <<>>
  /\ attached = {}
  /\ agent = None
  /\ server = [x \in Objs |-> "none"]
  /\ patcher = [p \in Patchers |-> "open"]
  /\ notified = {}
  /\ main = "idle" /\ mainObj = None /\ caller = None
  /\ instance = 0 /\ instances = {} /\ created = 0
  /\ svc = [x \in Objs |-> "idle"]
  /\ svcInstance = [x \in Objs |-> 0]
  /\ pending = [x \in Objs |-> None]

(* The main thread is not in the middle of something.                      *)
MainIdle == main = "idle" /\ \A p \in Patchers : patcher[p] # "closing"

-----------------------------------------------------------------------------
(* maxmcp_new                                                              *)

Born(x, m) ==
  /\ MainIdle /\ life[x] = "unborn" /\ patcher[boxOf[x]] = "open"
  /\ mode' = [mode EXCEPT ![x] = m]

(* Mutant: the id is registered in place of the object.                    *)
NewPatchById(x, m) ==
  /\ m # "agent" /\ Born(x, m)
  /\ life' = [life EXCEPT ![x] = "alive"]
  /\ patchId' = [patchId EXCEPT ![x] = IF Alias[x] # None THEN Alias[x] ELSE AutoId[x]]
  /\ registry' = Registered(registry, patchId'[x])
  /\ attached' = attached \cup {x}
  /\ UNCHANGED <<flipped, agent, server, patcherVars, mainVars, mcpVars, svcVars>>

NewPatch(x, m) ==
  /\ m # "agent" /\ Born(x, m)
  /\ life' = [life EXCEPT ![x] = "alive"]
  /\ patchId' = [patchId EXCEPT ![x] = IF Alias[x] # None THEN Alias[x] ELSE AutoId[x]]
  /\ registry' = Registered(registry, x)
  /\ attached' = attached \cup {x}
  /\ UNCHANGED <<flipped, agent, server, patcherVars, mainVars, mcpVars, svcVars>>

(* A second agent, or a port that cannot be opened: nullptr is returned.   *)
NewAgentFails(x) ==
  /\ Born(x, "agent")
  /\ life' = [life EXCEPT ![x] = "failed"]
  /\ UNCHANGED <<flipped, patchId, registry, attached, agent, server, patcherVars,
                 mainVars, mcpVars, svcVars>>

(* The server is started first: requests can arrive from here on.          *)
StartAgent(x) ==
  /\ Born(x, "agent")
  /\ life' = [life EXCEPT ![x] = "alive"]
  /\ server' = [server EXCEPT ![x] = "running"]
  /\ main' = "get" /\ mainObj' = x
  /\ UNCHANGED <<flipped, patchId, registry, attached, agent, patcherVars,
                 caller, mcpVars, svcVars>>

(* Mutant: the singleton is not looked at.                                 *)
NewAgentUnchecked(x) == StartAgent(x)
NewAgent(x) == agent = None /\ StartAgent(x)

(* MCPServer::get_instance(), in two steps: look, and make one if none.    *)
CreateInstance ==
  /\ created < MaxInstances
  /\ created' = created + 1
  /\ instance' = created + 1
  /\ instances' = instances \cup {created + 1}

NewAgentLooks ==
  /\ main = "get" /\ instance = 0
  /\ main' = "create"
  /\ UNCHANGED <<objVars, agent, server, patcherVars, mainObj, caller, mcpVars, svcVars>>

NewAgentDone ==
  /\ agent' = mainObj
  /\ main' = "idle" /\ mainObj' = None
  /\ UNCHANGED <<objVars, server, patcherVars, caller, svcVars>>

NewAgentFinds ==
  /\ main = "get" /\ instance # 0
  /\ NewAgentDone
  /\ UNCHANGED <<instance, instances, created>>

NewAgentCreates ==
  /\ main = "create"
  /\ CreateInstance
  /\ NewAgentDone

-----------------------------------------------------------------------------
(* Attribute and messages.                                                 *)

SetMode(x, m) ==
  /\ MainIdle /\ life[x] = "alive" /\ mode[x] # m
  /\ mode' = [mode EXCEPT ![x] = m]
  /\ flipped' = IF m = "agent" \/ mode[x] = "agent" THEN flipped \cup {x} ELSE flipped
  /\ UNCHANGED <<life, patchId, registry, attached, agent, server, patcherVars,
                 mainVars, mcpVars, svcVars>>

SetServer(x, from, to) ==
  /\ server[x] = from
  /\ server' = [server EXCEPT ![x] = to]

(* The "start" message: only the server is started again, or fails to be.  *)
StartMessage(x) ==
  /\ MainIdle /\ life[x] = "alive" /\ mode[x] = "agent"
  /\ SetServer(x, "stopped", "running")
  /\ UNCHANGED <<objVars, agent, patcherVars, mainVars, mcpVars, svcVars>>

(* The "stop" message: stop() lowers running_, joins the service thread,   *)
(* which is then out of its callback, and joins the queue thread.          *)
StopMessage(x) ==
  /\ MainIdle /\ life[x] = "alive" /\ mode[x] = "agent"
  /\ SetServer(x, "running", "stopping")
  /\ main' = "stop" /\ mainObj' = x
  /\ UNCHANGED <<objVars, agent, patcherVars, caller, mcpVars, svcVars>>

JoinService ==
  /\ main \in {"stop", "free"} /\ svc[mainObj] = "idle"
  /\ SetServer(mainObj, "stopping", "joined")
  /\ UNCHANGED <<objVars, agent, patcherVars, mainVars, mcpVars, svcVars>>

Stopped ==
  /\ main = "stop"
  /\ SetServer(mainObj, "joined", "stopped")
  /\ main' = "idle" /\ mainObj' = None
  /\ UNCHANGED <<objVars, agent, patcherVars, caller, mcpVars, svcVars>>

-----------------------------------------------------------------------------
(* maxmcp_free: what is cleaned up depends on the mode.                    *)

DestroyAgent(x) ==
  /\ mode[x] = "agent"
  /\ server' = [server EXCEPT ![x] = "none"]
  /\ instances' = instances \ {instance}
  /\ instance' = 0
  /\ agent' = None
  /\ UNCHANGED <<registry, attached, created>>

(* Mutant: the MCPServer goes without waiting for the service thread.      *)
FreeAgentAtOnce(x) == DestroyAgent(x)
FreeAgent(x) == server[x] # "stopping" /\ DestroyAgent(x)

(* Mutant: the object stays registered.                                    *)
FreePatchOnly(x) ==
  /\ mode[x] # "agent"
  /\ attached' = attached \ {x}
  /\ UNCHANGED <<registry, agent, server, mcpVars>>

FreePatch(x) ==
  /\ mode[x] # "agent"
  /\ attached' = attached \ {x}
  /\ registry' = Unregistered(registry, x)
  /\ UNCHANGED <<agent, server, mcpVars>>

(* An object begins to be freed, by the user, because its patcher closes,  *)
(* or by the callback of a call.  The server of an agent is told to stop.  *)
BeginFree(x, by) ==
  /\ life[x] = "alive"
  /\ main' = "free" /\ mainObj' = x /\ caller' = by
  /\ server' = IF mode[x] = "agent" /\ server[x] = "running"
               THEN [server EXCEPT ![x] = "stopping"] ELSE server
  /\ UNCHANGED <<objVars, agent, patcherVars, mcpVars, svcVars>>

(* The callback of a call is over: the executor, if it still waits, wakes. *)
Completes(x) ==
  /\ pending' = [pending EXCEPT ![x] = None]
  /\ svc' = IF svc[x] = "wait" THEN [svc EXCEPT ![x] = "handle"] ELSE svc
  /\ UNCHANGED svcInstance

(* maxmcp_free returns, and with it the callback that freed the box.       *)
Freed ==
  /\ main = "free"
  /\ life' = [life EXCEPT ![mainObj] = "freed"]
  /\ FreeAgent(mainObj) \/ FreePatch(mainObj)
  /\ IF caller = None THEN UNCHANGED svcVars ELSE Completes(caller)
  /\ main' = "idle" /\ mainObj' = None /\ caller' = None
  /\ UNCHANGED <<mode, flipped, patchId, patcherVars>>

(* The box is deleted from its patcher, which stays open.                  *)
DeleteBox(x) == MainIdle /\ BeginFree(x, None)

(* The callback of a call of server x.  remove_max_object may delete any   *)
(* box of the patcher: that of the patch it was called for, and that of    *)
(* the agent.  What a callback does with a patch that was freed is the     *)
(* matter of DeferredCall.                                                 *)
CallbackRemoves(x, y) ==
  /\ MainIdle /\ pending[x] # None /\ life[pending[x]] = "alive"
  /\ boxOf[y] = boxOf[pending[x]]
  /\ BeginFree(y, x)

CallbackReturns(x) ==
  /\ MainIdle /\ pending[x] # None
  /\ Completes(x)
  /\ UNCHANGED <<objVars, agent, server, patcherVars, mainVars, mcpVars>>

-----------------------------------------------------------------------------
(* A patcher closes.                                                       *)

ClosePatcher(p) ==
  /\ MainIdle /\ patcher[p] = "open"
  /\ patcher' = [patcher EXCEPT ![p] = "closing"]
  /\ UNCHANGED <<objVars, agent, server, notified, mainVars, mcpVars, svcVars>>

Boxes(p) == {x \in Objs : boxOf[x] = p /\ life[x] = "alive"}

(* maxmcp_notify, message "free" from the object's own patcher.            *)
NotifyFree(x) ==
  /\ main = "idle"
  /\ patcher[boxOf[x]] = "closing"
  /\ life[x] = "alive" /\ x \in attached /\ x \notin notified
  /\ notified' = notified \cup {x}
  /\ registry' = IF mode[x] = "patch" THEN Unregistered(registry, x) ELSE registry
  /\ UNCHANGED <<life, mode, flipped, patchId, attached, agent, server, patcher,
                 mainVars, mcpVars, svcVars>>

AllNotified(p) == Boxes(p) \cap attached \subseteq notified

FreeBox(x) ==
  /\ main = "idle"
  /\ patcher[boxOf[x]] = "closing" /\ AllNotified(boxOf[x])
  /\ BeginFree(x, None)

PatcherGone(p) ==
  /\ main = "idle"
  /\ patcher[p] = "closing" /\ AllNotified(p) /\ Boxes(p) = {}
  /\ patcher' = [patcher EXCEPT ![p] = "gone"]
  /\ UNCHANGED <<objVars, agent, server, notified, mainVars, mcpVars, svcVars>>

-----------------------------------------------------------------------------
(* Service thread of a server: the synchronous callback.                   *)

(* stop() does not keep the thread from a message that is already there.   *)
Serves(x) == server[x] \in {"running", "stopping"}

SvcFinds(x) ==
  /\ Serves(x) /\ svc[x] = "idle" /\ instance # 0
  /\ svc' = [svc EXCEPT ![x] = "handle"]
  /\ svcInstance' = [svcInstance EXCEPT ![x] = instance]
  /\ UNCHANGED <<objVars, agent, server, patcherVars, mainVars, mcpVars, pending>>

SvcLooks(x) ==
  /\ Serves(x) /\ svc[x] = "idle" /\ instance = 0
  /\ svc' = [svc EXCEPT ![x] = "create"]
  /\ UNCHANGED <<objVars, agent, server, patcherVars, mainVars, mcpVars, svcInstance, pending>>

SvcCreates(x) ==
  /\ svc[x] = "create"
  /\ CreateInstance
  /\ svc' = [svc EXCEPT ![x] = "handle"]
  /\ svcInstance' = [svcInstance EXCEPT ![x] = instance']
  /\ UNCHANGED <<objVars, agent, server, patcherVars, mainVars, pending>>

(* An executor finds a patch and defers a callback.  Bound: one callback   *)
(* of a server is on the queue of the main thread.                         *)
SvcDefers(x) ==
  /\ svc[x] = "handle" /\ pending[x] = None
  /\ \E y \in Range(registry) :
       /\ Find(registry, patchId, patchId[y], None) = y
       /\ pending' = [pending EXCEPT ![x] = y]
  /\ svc' = [svc EXCEPT ![x] = "wait"]
  /\ UNCHANGED <<objVars, agent, server, patcherVars, mainVars, mcpVars, svcInstance>>

(* An executor that waits for the main thread gives up after its timeout,  *)
(* and leaves the callback where it is.  Mutant: it waits on.              *)
SvcWaitsOn(x) == FALSE /\ UNCHANGED vars
SvcTimesOut(x) ==
  /\ svc[x] = "wait"
  /\ svc' = [svc EXCEPT ![x] = "handle"]
  /\ UNCHANGED <<objVars, agent, server, patcherVars, mainVars, mcpVars, svcInstance, pending>>

SvcReturns(x) ==
  /\ svc[x] = "handle"
  /\ svc' = [svc EXCEPT ![x] = "idle"]
  /\ svcInstance' = [svcInstance EXCEPT ![x] = 0]
  /\ UNCHANGED <<objVars, agent, server, patcherVars, mainVars, mcpVars, pending>>

-----------------------------------------------------------------------------
New(x) == NewAgentFails(x) \/ NewAgent(x) \/ \E m \in Modes : NewPatch(x, m)
NewGoesOn == NewAgentLooks \/ NewAgentFinds \/ NewAgentCreates
Message(x) == StartMessage(x) \/ StopMessage(x) \/ \E m \in Modes : SetMode(x, m)
Callback(x) == CallbackReturns(x) \/ \E y \in Objs : CallbackRemoves(x, y)
Closing == \/ \E x \in Objs : NotifyFree(x) \/ FreeBox(x)
           \/ \E p \in Patchers : PatcherGone(p)
ServiceThread(x) ==
  SvcFinds(x) \/ SvcLooks(x) \/ SvcCreates(x) \/ SvcDefers(x) \/ SvcTimesOut(x) \/ SvcReturns(x)

Step ==
  \/ \E x \in Objs : New(x) \/ Message(x) \/ DeleteBox(x) \/ Callback(x) \/ ServiceThread(x)
  \/ NewGoesOn \/ JoinService \/ Stopped \/ Freed \/ Closing
  \/ \E p \in Patchers : ClosePatcher(p)

Next == Step /\ UNCHANGED boxOf

(* The main thread joins the queue thread of its object's server.          *)
JoinsQueueThread == main \in {"free", "stop"} /\ server[mainObj] = "joined"

(* The main thread finishes what it began, and the join with the service   *)
(* thread ends although that may still get a last message or two (SF); a   *)
(* handler returns, since an executor has its timeout.  Nothing is assumed *)
(* of callbacks: the main thread may never get to its queue.  Nor is       *)
(* anything assumed of the join with the queue thread, which may sleep on  *)
(* (StopReturns of WebSocketServer).                                       *)
Fairness ==
  /\ WF_vars(NewGoesOn /\ UNCHANGED boxOf)
  /\ WF_vars(Closing /\ UNCHANGED boxOf)
  /\ SF_vars(JoinService /\ UNCHANGED boxOf)
  /\ WF_vars(Freed /\ ~JoinsQueueThread /\ UNCHANGED boxOf)
  /\ \A x \in Objs : /\ WF_vars(SvcCreates(x) /\ UNCHANGED boxOf)
                     /\ WF_vars(SvcTimesOut(x) /\ UNCHANGED boxOf)
                     /\ WF_vars(SvcReturns(x) /\ UNCHANGED boxOf)

Spec == Init /\ [][Next]_vars /\ Fairness

-----------------------------------------------------------------------------
(* Properties.                                                             *)

(* The registry holds each patch-mode object once, from its creation until *)
(* its patcher begins to close or it is freed, and nothing that was freed, *)
(* so that no find ever yields it, as long as the object was not switched  *)
(* between agent and patch mode.                                           *)
RegistryTracksPatches ==
  /\ \A i, j \in 1..Len(registry) : registry[i] = registry[j] => i = j
  /\ \A x \in Objs \ flipped :
       LET in == x \in Range(registry)
       IN /\ in => life[x] = "alive" /\ mode[x] # "agent"
          /\ life[x] = "alive" /\ mode[x] # "agent" /\ x \notin notified => in

(* At most one object runs a server, and it is the one the singleton names *)
(* once its construction is over, as long as no mode was switched.         *)
OneServer ==
  flipped = {} =>
    \A x \in Objs :
      server[x] # "none" <=> x = (IF main \in {"get", "create"} THEN mainObj ELSE agent)

(* No request is handled by an MCPServer that was destroyed: maxmcp_free   *)
(* joins the service thread first.  (No mode switched.)                    *)
HandlerHasServer ==
  flipped = {} =>
    \A x \in Objs : svc[x] \in {"handle", "wait"} => svcInstance[x] \in instances

(* If the queue thread ends whenever it is joined, the main thread comes   *)
(* back from all it begins: from the closing of a patcher, from a stop or  *)
(* a deletion that joins a service thread, also one that waits for the     *)
(* main thread, and also when it is the callback of that very thread's     *)
(* call that deletes the agent.                                            *)
MainReturns == []<>~JoinsQueueThread => (~MainIdle ~> MainIdle)

=============================================================================
