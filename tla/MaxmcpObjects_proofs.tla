------------------------ MODULE MaxmcpObjects_proofs ------------------------
(***************************************************************************)
(* Proofs about MaxmcpObjects, for any boxes, patchers, placements,        *)
(* aliases and number of MCPServer objects.  Each lemma keeps a group of   *)
(* conjuncts of the inductive invariant Inv: one step per action.          *)
(***************************************************************************)
EXTENDS MaxmcpObjects, Sequence_proofs

(* An object that was never made has left no trace.                        *)
Unborn ==
  \A x \in Objs : life[x] \in {"unborn", "failed"} =>
    x \notin Range(registry) /\ x \notin flipped

(* What the main thread is in the middle of.                               *)
MainBusy ==
  /\ main # "idle" => mainObj \in Objs
  /\ main \in {"get", "create"} => agent = None
  /\ main = "free" => life[mainObj] = "alive"
  /\ main = "stop" => server[mainObj] \in {"stopping", "joined"}
  /\ main = "free" /\ mode[mainObj] = "agent" => server[mainObj] # "running"

(* The live objects in agent mode are those that have a server.            *)
Agents ==
  flipped = {} => \A x \in Objs : server[x] # "none" <=> life[x] = "alive" /\ mode[x] = "agent"

(* A callback runs only while its server was not joined.                   *)
InService == \A x \in Objs : svc[x] # "idle" => Serves(x)

InstanceLives == instance # 0 => instance \in instances

Inv == /\ TypeOK /\ RegistryTracksPatches /\ Unborn
       /\ MainBusy /\ Agents /\ OneServer
       /\ InService /\ InstanceLives /\ HandlerHasServer

-----------------------------------------------------------------------------
(* The registry as a set.                                                  *)

LEMMA Registering ==
  ASSUME TypeOK, RegistryTracksPatches, NEW x \in Objs, x \notin Range(registry)
  PROVE  /\ Registered(registry, x) \in Seq(Objs)
         /\ NoRepeat(Registered(registry, x))
         /\ Range(Registered(registry, x)) = Range(registry) \cup {x}
<1>1. registry \in Seq(Objs) /\ NoRepeat(registry)
  BY DEF TypeOK, RegistryTracksPatches, NoRepeat
<1> QED BY <1>1, Appended DEF Registered

LEMMA Unregistering ==
  ASSUME TypeOK, RegistryTracksPatches, NEW x \in Objs
  PROVE  /\ Unregistered(registry, x) \in Seq(Objs)
         /\ NoRepeat(Unregistered(registry, x))
         /\ Range(Unregistered(registry, x)) = Range(registry) \ {x}
<1>1. registry \in Seq(Objs) /\ NoRepeat(registry)
  BY DEF TypeOK, RegistryTracksPatches, NoRepeat
<1> QED BY <1>1, RemovedFirst DEF Unregistered

LEMMA InstanceCreated ==
  ASSUME TypeOK, CreateInstance
  PROVE  /\ instance' \in 0..MaxInstances /\ created' \in 0..MaxInstances
         /\ instances' \subseteq 1..MaxInstances
         /\ instance' \in instances'
         /\ instances \subseteq instances'
<1>1. created \in Nat /\ created < MaxInstances /\ instances \subseteq 1..MaxInstances
  BY InstancesAssumption DEF TypeOK, CreateInstance
<1>2. created + 1 \in 1..MaxInstances
  BY <1>1, InstancesAssumption
<1> QED BY <1>1, <1>2, InstancesAssumption DEF CreateInstance

(* maxmcp_free does either of two things.                                  *)
LEMMA FreedCases ==
  ASSUME Inv, Freed
  PROVE  /\ mainObj \in Objs /\ main' = "idle" /\ mainObj' = None /\ caller' = None
         /\ life[mainObj] = "alive"
         /\ life' = [life EXCEPT ![mainObj] = "freed"]
         /\ UNCHANGED <<mode, flipped, patchId, patcher, notified>>
         /\ \/ /\ mode[mainObj] = "agent" /\ svc[mainObj] = "idle"
               /\ DestroyAgent(mainObj)
            \/ FreePatch(mainObj)
         /\ \/ UNCHANGED svcVars
            \/ caller \in Objs /\ Completes(caller)
BY NoneAssumption
DEF Inv, TypeOK, MainBusy, InService, Serves, Freed, FreeAgent, DestroyAgent, patcherVars

(* The service threads, when maxmcp_free returns.                          *)
LEMMA FreedThreads ==
  ASSUME Inv, Freed
  PROVE  /\ svc' \in [Objs -> {"idle", "create", "handle", "wait"}]
         /\ pending' \in [Objs -> Objs \cup {None}]
         /\ svcInstance' = svcInstance
         /\ \A x \in Objs : svc'[x] = svc[x] \/ (svc[x] = "wait" /\ svc'[x] = "handle")
<1>1. /\ svc \in [Objs -> {"idle", "create", "handle", "wait"}]
      /\ pending \in [Objs -> Objs \cup {None}]
  BY DEF Inv, TypeOK
<1>2. CASE UNCHANGED svcVars
  <2>1. svc' = svc /\ svcInstance' = svcInstance /\ pending' = pending
    BY <1>2 DEF svcVars
  <2> QED BY <1>1, <2>1
<1>3. CASE caller \in Objs /\ Completes(caller)
  <2>1. /\ svc' = IF svc[caller] = "wait" THEN [svc EXCEPT ![caller] = "handle"] ELSE svc
        /\ pending' = [pending EXCEPT ![caller] = None]
        /\ svcInstance' = svcInstance
    BY <1>3 DEF Completes
  <2> QED BY <1>1, <1>3, <2>1
<1> QED BY <1>2, <1>3, FreedCases

LEMMA FreedTypes ==
  ASSUME Inv, Freed, boxOf' = boxOf
  PROVE  TypeOK'
<1>1. TypeOK
  BY DEF Inv
<1>2. registry' \in Seq(Objs) /\ attached' \subseteq Objs
  <2>1. Unregistered(registry, mainObj) \in Seq(Objs)
    BY FreedCases, Unregistering DEF Inv
  <2> QED BY <1>1, <2>1, FreedCases DEF TypeOK, DestroyAgent, FreePatch
<1>3. life' \in [Objs -> {"unborn", "failed", "alive", "freed"}]
  BY <1>1, FreedCases DEF TypeOK
<1>4. /\ instances' \subseteq 1..MaxInstances /\ instance' \in 0..MaxInstances
      /\ created' \in 0..MaxInstances
  <2>1. /\ instances \subseteq 1..MaxInstances /\ instance \in 0..MaxInstances
        /\ created \in 0..MaxInstances /\ 0 \in 0..MaxInstances
    BY <1>1, InstancesAssumption DEF TypeOK
  <2>2. \/ instances' \subseteq instances /\ instance' = 0 /\ created' = created
        \/ instances' = instances /\ instance' = instance /\ created' = created
    BY FreedCases DEF DestroyAgent, FreePatch, mcpVars
  <2> QED BY <2>1, <2>2
<1>5. /\ server' \in [Objs -> {"none", "stopped", "running", "stopping", "joined"}]
      /\ agent' \in Objs \cup {None}
  BY <1>1, FreedCases DEF TypeOK, DestroyAgent, FreePatch
<1>6. /\ main' = "idle" /\ mainObj' = None /\ caller' = None
      /\ UNCHANGED <<mode, flipped, patchId, patcher, notified>>
  BY FreedCases
<1> QED
  BY <1>1, <1>2, <1>3, <1>4, <1>5, <1>6, FreedThreads DEF TypeOK, Modes, Ids

-----------------------------------------------------------------------------
(* Typing.                                                                 *)

LEMMA TypesKept ==
  ASSUME Inv, Next PROVE TypeOK'
<1> USE InstancesAssumption, NoneAssumption
<1> USE DEF Inv, objVars, patcherVars, mainVars, mcpVars, svcVars,
       TypeOK, MainBusy, MainIdle, Modes, Ids, Born
<1>a. boxOf' = boxOf
  BY DEF Next
<1> USE <1>a
<1>1. ASSUME NEW x \in Objs, NewAgentFails(x) PROVE TypeOK'
  BY <1>1 DEF NewAgentFails
<1>2. ASSUME NEW x \in Objs, NewAgent(x) PROVE TypeOK'
  BY <1>2 DEF StartAgent, NewAgent
<1>3. ASSUME NEW x \in Objs, NEW m \in Modes, NewPatch(x, m) PROVE TypeOK'
  <2>1. x \notin Range(registry)
    BY <1>3 DEF NewPatch, Unborn
  <2>2. registry' \in Seq(Objs)
    BY <1>3, <2>1, Registering DEF NewPatch
  <2>3. patchId' \in [Objs -> Ids]
    BY <1>3 DEF NewPatch, Ids
  <2> QED BY <1>3, <2>2, <2>3 DEF NewPatch
<1>4. ASSUME NewAgentLooks PROVE TypeOK'
  BY <1>4 DEF NewAgentLooks
<1>5. ASSUME NewAgentFinds PROVE TypeOK'
  BY <1>5 DEF NewAgentFinds, NewAgentDone
<1>6. ASSUME NewAgentCreates PROVE TypeOK'
  <2>1. agent' \in Objs /\ mainObj' = None /\ main' = "idle"
    BY <1>6 DEF NewAgentCreates, NewAgentDone
  <2> QED BY <1>6, <2>1, InstanceCreated DEF NewAgentCreates, NewAgentDone
<1>7. ASSUME NEW x \in Objs, NEW m \in Modes, SetMode(x, m) PROVE TypeOK'
  BY <1>7 DEF SetMode
<1>8. ASSUME NEW x \in Objs, StartMessage(x) PROVE TypeOK'
  BY <1>8 DEF StartMessage, SetServer
<1>9. ASSUME NEW x \in Objs, StopMessage(x) PROVE TypeOK'
  BY <1>9 DEF StopMessage, SetServer
<1>10. ASSUME Stopped PROVE TypeOK'
  BY <1>10 DEF Stopped, SetServer
<1>25. ASSUME JoinService PROVE TypeOK'
  BY <1>25 DEF JoinService, SetServer
<1>11. ASSUME NEW x \in Objs, DeleteBox(x) PROVE TypeOK'
  BY <1>11 DEF DeleteBox, BeginFree
<1>12. ASSUME NEW x \in Objs, NEW y \in Objs, CallbackRemoves(x, y) PROVE TypeOK'
  BY <1>12 DEF CallbackRemoves, BeginFree
<1>13. ASSUME NEW x \in Objs, CallbackReturns(x) PROVE TypeOK'
  BY <1>13 DEF CallbackReturns, Completes
<1>14. ASSUME Freed PROVE TypeOK'
  BY <1>14, FreedTypes
<1>15. ASSUME NEW x \in Objs, NotifyFree(x) PROVE TypeOK'
  <2>1. registry' \in Seq(Objs)
    BY <1>15, Unregistering DEF NotifyFree
  <2> QED BY <1>15, <2>1 DEF NotifyFree
<1>16. ASSUME NEW x \in Objs, FreeBox(x) PROVE TypeOK'
  BY <1>16 DEF FreeBox, BeginFree
<1>17. ASSUME NEW p \in Patchers, ClosePatcher(p) PROVE TypeOK'
  BY <1>17 DEF ClosePatcher
<1>18. ASSUME NEW p \in Patchers, PatcherGone(p) PROVE TypeOK'
  BY <1>18 DEF PatcherGone
<1>19. ASSUME NEW x \in Objs, SvcFinds(x) PROVE TypeOK'
  BY <1>19 DEF SvcFinds
<1>20. ASSUME NEW x \in Objs, SvcLooks(x) PROVE TypeOK'
  BY <1>20 DEF SvcLooks
<1>21. ASSUME NEW x \in Objs, SvcCreates(x) PROVE TypeOK'
  BY <1>21, InstanceCreated DEF SvcCreates
<1>22. ASSUME NEW x \in Objs, SvcDefers(x) PROVE TypeOK'
  <2>1. Range(registry) \subseteq Objs
    <3>1. registry \in Seq(Objs)
      OBVIOUS
    <3> QED BY <3>1, RangeOfSeq
  <2>2. PICK y \in Objs : pending' = [pending EXCEPT ![x] = y]
    BY <1>22, <2>1 DEF SvcDefers
  <2>3. pending' \in [Objs -> Objs \cup {None}]
    BY <2>2
  <2>4. svc' \in [Objs -> {"idle", "create", "handle", "wait"}]
    BY <1>22 DEF SvcDefers
  <2> QED BY <1>22, <2>3, <2>4 DEF SvcDefers
<1>23. ASSUME NEW x \in Objs, SvcTimesOut(x) PROVE TypeOK'
  BY <1>23 DEF SvcTimesOut
<1>24. ASSUME NEW x \in Objs, SvcReturns(x) PROVE TypeOK'
  <2>1. svcInstance' \in [Objs -> 0..MaxInstances]
    <3>1. 0 \in 0..MaxInstances
      OBVIOUS
    <3> QED BY <1>24, <3>1 DEF SvcReturns
  <2>2. svc' \in [Objs -> {"idle", "create", "handle", "wait"}]
    BY <1>24 DEF SvcReturns
  <2> QED BY <1>24, <2>1, <2>2 DEF SvcReturns
<1> HIDE DEF Inv, objVars, patcherVars, mainVars, mcpVars, svcVars,
       TypeOK, MainBusy, MainIdle, Modes, Ids, Born
<1> QED
  BY <1>1, <1>2, <1>3, <1>4, <1>5, <1>6, <1>7, <1>8, <1>9, <1>10, <1>11, <1>12,
     <1>13, <1>14, <1>15, <1>16, <1>17, <1>18, <1>19, <1>20, <1>21, <1>22, <1>23, <1>24, <1>25
  DEF Next, Step, New, NewGoesOn, Message, Callback, Closing, ServiceThread

(* The registry.                                                           *)

LEMMA RegistryKept ==
  ASSUME Inv, Next PROVE RegistryTracksPatches' /\ Unborn'
<1> USE InstancesAssumption, NoneAssumption
<1> USE DEF Inv, objVars, patcherVars, mainVars, mcpVars, svcVars,
       TypeOK, RegistryTracksPatches, Unborn, MainBusy, Modes, Born
<1>1. ASSUME NEW x \in Objs, NewAgentFails(x) PROVE RegistryTracksPatches' /\ Unborn'
  <2>1. x \notin Range(registry)
    BY <1>1 DEF NewAgentFails
  <2>2. life' = [life EXCEPT ![x] = "failed"] /\ mode' = [mode EXCEPT ![x] = "agent"]
    BY <1>1 DEF NewAgentFails
  <2>3. UNCHANGED <<registry, flipped, notified>>
    BY <1>1 DEF NewAgentFails
  <2>4. x \notin flipped
    BY <1>1 DEF NewAgentFails
  <2> QED BY <2>1, <2>2, <2>3, <2>4
<1>2. ASSUME NEW x \in Objs, NewAgent(x) PROVE RegistryTracksPatches' /\ Unborn'
  BY <1>2 DEF StartAgent, NewAgent
<1>3. ASSUME NEW x \in Objs, NEW m \in Modes, NewPatch(x, m)
     PROVE  RegistryTracksPatches' /\ Unborn'
  <2>1. x \notin Range(registry) /\ x \notin flipped
    BY <1>3 DEF NewPatch
  <2>2. NoRepeat(registry') /\ Range(registry') = Range(registry) \cup {x}
    BY <1>3, <2>1, Registering DEF NewPatch
  <2>3. /\ life' = [life EXCEPT ![x] = "alive"] /\ mode' = [mode EXCEPT ![x] = m]
        /\ m # "agent" /\ UNCHANGED <<flipped, notified>>
    BY <1>3 DEF NewPatch
  <2> QED BY <2>1, <2>2, <2>3 DEF NoRepeat
<1>4. ASSUME NewAgentLooks PROVE RegistryTracksPatches' /\ Unborn'
  BY <1>4 DEF NewAgentLooks
<1>5. ASSUME NewAgentFinds PROVE RegistryTracksPatches' /\ Unborn'
  BY <1>5 DEF NewAgentFinds, NewAgentDone
<1>6. ASSUME NewAgentCreates PROVE RegistryTracksPatches' /\ Unborn'
  BY <1>6 DEF NewAgentCreates, NewAgentDone, CreateInstance
<1>7. ASSUME NEW x \in Objs, NEW m \in Modes, SetMode(x, m)
     PROVE  RegistryTracksPatches' /\ Unborn'
  BY <1>7 DEF SetMode
<1>8. ASSUME NEW x \in Objs, StartMessage(x) PROVE RegistryTracksPatches' /\ Unborn'
  BY <1>8 DEF StartMessage, SetServer
<1>9. ASSUME NEW x \in Objs, StopMessage(x) PROVE RegistryTracksPatches' /\ Unborn'
  BY <1>9 DEF StopMessage, SetServer
<1>10. ASSUME Stopped PROVE RegistryTracksPatches' /\ Unborn'
  BY <1>10 DEF Stopped, SetServer
<1>25. ASSUME JoinService PROVE RegistryTracksPatches' /\ Unborn'
  BY <1>25 DEF JoinService, SetServer
<1>11. ASSUME NEW x \in Objs, DeleteBox(x) PROVE RegistryTracksPatches' /\ Unborn'
  BY <1>11 DEF DeleteBox, BeginFree
<1>12. ASSUME NEW x \in Objs, NEW y \in Objs, CallbackRemoves(x, y)
     PROVE  RegistryTracksPatches' /\ Unborn'
  BY <1>12 DEF CallbackRemoves, BeginFree
<1>13. ASSUME NEW x \in Objs, CallbackReturns(x) PROVE RegistryTracksPatches' /\ Unborn'
  BY <1>13 DEF CallbackReturns, Completes
<1>14. ASSUME Freed PROVE RegistryTracksPatches' /\ Unborn'
  <2>1. /\ mainObj \in Objs /\ life[mainObj] = "alive"
        /\ life' = [life EXCEPT ![mainObj] = "freed"]
        /\ UNCHANGED <<mode, flipped, notified>>
    BY <1>14, FreedCases
  <2>2. CASE mode[mainObj] = "agent" /\ registry' = registry
    BY <2>1, <2>2
  <2>3. CASE registry' = Unregistered(registry, mainObj)
    <3>1. NoRepeat(registry') /\ Range(registry') = Range(registry) \ {mainObj}
      BY <2>1, <2>3, Unregistering
    <3> QED BY <2>1, <3>1 DEF NoRepeat
  <2> QED BY <1>14, <2>2, <2>3, FreedCases DEF DestroyAgent, FreePatch
<1>15. ASSUME NEW x \in Objs, NotifyFree(x) PROVE RegistryTracksPatches' /\ Unborn'
  <2>1. /\ life[x] = "alive" /\ notified' = notified \cup {x}
        /\ UNCHANGED <<life, mode, flipped>>
    BY <1>15 DEF NotifyFree
  <2>2. CASE registry' = registry
    BY <2>1, <2>2
  <2>3. CASE registry' = Unregistered(registry, x)
    <3>1. NoRepeat(registry') /\ Range(registry') = Range(registry) \ {x}
      BY <2>3, Unregistering
    <3> QED BY <2>1, <3>1 DEF NoRepeat
  <2> QED BY <1>15, <2>2, <2>3 DEF NotifyFree
<1>16. ASSUME NEW x \in Objs, FreeBox(x) PROVE RegistryTracksPatches' /\ Unborn'
  BY <1>16 DEF FreeBox, BeginFree
<1>17. ASSUME NEW p \in Patchers, ClosePatcher(p) PROVE RegistryTracksPatches' /\ Unborn'
  BY <1>17 DEF ClosePatcher
<1>18. ASSUME NEW p \in Patchers, PatcherGone(p) PROVE RegistryTracksPatches' /\ Unborn'
  BY <1>18 DEF PatcherGone
<1>19. ASSUME NEW x \in Objs, SvcFinds(x) PROVE RegistryTracksPatches' /\ Unborn'
  BY <1>19 DEF SvcFinds
<1>20. ASSUME NEW x \in Objs, SvcLooks(x) PROVE RegistryTracksPatches' /\ Unborn'
  BY <1>20 DEF SvcLooks
<1>21. ASSUME NEW x \in Objs, SvcCreates(x) PROVE RegistryTracksPatches' /\ Unborn'
  BY <1>21 DEF SvcCreates, CreateInstance
<1>22. ASSUME NEW x \in Objs, SvcDefers(x) PROVE RegistryTracksPatches' /\ Unborn'
  BY <1>22 DEF SvcDefers
<1>23. ASSUME NEW x \in Objs, SvcTimesOut(x) PROVE RegistryTracksPatches' /\ Unborn'
  BY <1>23 DEF SvcTimesOut
<1>24. ASSUME NEW x \in Objs, SvcReturns(x) PROVE RegistryTracksPatches' /\ Unborn'
  BY <1>24 DEF SvcReturns
<1> HIDE DEF Inv, objVars, patcherVars, mainVars, mcpVars, svcVars,
       TypeOK, RegistryTracksPatches, Unborn, MainBusy, Modes, Born
<1> QED
  BY <1>1, <1>2, <1>3, <1>4, <1>5, <1>6, <1>7, <1>8, <1>9, <1>10, <1>11, <1>12,
     <1>13, <1>14, <1>15, <1>16, <1>17, <1>18, <1>19, <1>20, <1>21, <1>22, <1>23, <1>24, <1>25
  DEF Next, Step, New, NewGoesOn, Message, Callback, Closing, ServiceThread

(* The agent and its server.                                               *)

LEMMA ServersKept ==
  ASSUME Inv, Next PROVE MainBusy' /\ Agents' /\ OneServer'
<1> USE InstancesAssumption, NoneAssumption
<1> USE DEF Inv, objVars, patcherVars, mainVars, mcpVars, svcVars,
       TypeOK, MainBusy, MainIdle, Agents, OneServer, Modes, Born
<1>1. ASSUME NEW x \in Objs, NewAgentFails(x) PROVE MainBusy' /\ Agents' /\ OneServer'
  BY <1>1 DEF NewAgentFails
<1>2. ASSUME NEW x \in Objs, NewAgent(x) PROVE MainBusy' /\ Agents' /\ OneServer'
  BY <1>2 DEF StartAgent, NewAgent
<1>3. ASSUME NEW x \in Objs, NEW m \in Modes, NewPatch(x, m)
     PROVE  MainBusy' /\ Agents' /\ OneServer'
  BY <1>3 DEF NewPatch
<1>4. ASSUME NewAgentLooks PROVE MainBusy' /\ Agents' /\ OneServer'
  BY <1>4 DEF NewAgentLooks
<1>5. ASSUME NewAgentFinds PROVE MainBusy' /\ Agents' /\ OneServer'
  BY <1>5 DEF NewAgentFinds, NewAgentDone
<1>6. ASSUME NewAgentCreates PROVE MainBusy' /\ Agents' /\ OneServer'
  <2>1. main = "create" /\ agent' = mainObj /\ main' = "idle"
    BY <1>6 DEF NewAgentCreates, NewAgentDone
  <2>2. UNCHANGED <<life, mode, flipped, server>>
    BY <1>6 DEF NewAgentCreates, NewAgentDone
  <2>3. MainBusy' /\ Agents'
    BY <2>1, <2>2
  <2>4. OneServer'
    BY <2>1, <2>2
  <2> QED BY <2>3, <2>4
<1>7. ASSUME NEW x \in Objs, NEW m \in Modes, SetMode(x, m)
     PROVE  MainBusy' /\ Agents' /\ OneServer'
  <2>1. main = "idle" /\ mode' = [mode EXCEPT ![x] = m]
        /\ UNCHANGED <<life, server, agent, main, mainObj>>
    BY <1>7 DEF SetMode
  <2>2. flipped' = {} => flipped = {} /\ mode[x] # "agent" /\ m # "agent"
    BY <1>7 DEF SetMode
  <2>3. MainBusy'
    BY <2>1
  <2>4. Agents'
    BY <2>1, <2>2
  <2>5. OneServer'
    BY <2>1, <2>2
  <2> QED BY <2>3, <2>4, <2>5
<1>8. ASSUME NEW x \in Objs, StartMessage(x) PROVE MainBusy' /\ Agents' /\ OneServer'
  BY <1>8 DEF StartMessage, SetServer
<1>9. ASSUME NEW x \in Objs, StopMessage(x) PROVE MainBusy' /\ Agents' /\ OneServer'
  BY <1>9 DEF StopMessage, SetServer
<1>10. ASSUME Stopped PROVE MainBusy' /\ Agents' /\ OneServer'
  BY <1>10 DEF Stopped, SetServer
<1>25. ASSUME JoinService PROVE MainBusy' /\ Agents' /\ OneServer'
  BY <1>25 DEF JoinService, SetServer
<1>11. ASSUME NEW x \in Objs, DeleteBox(x) PROVE MainBusy' /\ Agents' /\ OneServer'
  BY <1>11 DEF DeleteBox, BeginFree
<1>12. ASSUME NEW x \in Objs, NEW y \in Objs, CallbackRemoves(x, y)
     PROVE  MainBusy' /\ Agents' /\ OneServer'
  BY <1>12 DEF CallbackRemoves, BeginFree
<1>13. ASSUME NEW x \in Objs, CallbackReturns(x) PROVE MainBusy' /\ Agents' /\ OneServer'
  BY <1>13 DEF CallbackReturns, Completes
<1>14. ASSUME Freed PROVE MainBusy' /\ Agents' /\ OneServer'
  <2>1. /\ mainObj \in Objs /\ life[mainObj] = "alive" /\ main = "free"
        /\ life' = [life EXCEPT ![mainObj] = "freed"] /\ main' = "idle"
        /\ UNCHANGED <<mode, flipped>>
    BY <1>14, FreedCases DEF Freed
  <2>2. CASE /\ mode[mainObj] = "agent"
             /\ server' = [server EXCEPT ![mainObj] = "none"] /\ agent' = None
    <3>1. flipped = {} => agent = mainObj
      BY <2>1, <2>2
    <3> QED BY <2>1, <2>2, <3>1
  <2>3. CASE mode[mainObj] # "agent" /\ UNCHANGED <<server, agent>>
    BY <2>1, <2>3
  <2> QED BY <1>14, <2>2, <2>3, FreedCases DEF DestroyAgent, FreePatch
<1>15. ASSUME NEW x \in Objs, NotifyFree(x) PROVE MainBusy' /\ Agents' /\ OneServer'
  BY <1>15 DEF NotifyFree
<1>16. ASSUME NEW x \in Objs, FreeBox(x) PROVE MainBusy' /\ Agents' /\ OneServer'
  BY <1>16 DEF FreeBox, BeginFree
<1>17. ASSUME NEW p \in Patchers, ClosePatcher(p) PROVE MainBusy' /\ Agents' /\ OneServer'
  BY <1>17 DEF ClosePatcher
<1>18. ASSUME NEW p \in Patchers, PatcherGone(p) PROVE MainBusy' /\ Agents' /\ OneServer'
  BY <1>18 DEF PatcherGone
<1>19. ASSUME NEW x \in Objs, SvcFinds(x) PROVE MainBusy' /\ Agents' /\ OneServer'
  BY <1>19 DEF SvcFinds
<1>20. ASSUME NEW x \in Objs, SvcLooks(x) PROVE MainBusy' /\ Agents' /\ OneServer'
  BY <1>20 DEF SvcLooks
<1>21. ASSUME NEW x \in Objs, SvcCreates(x) PROVE MainBusy' /\ Agents' /\ OneServer'
  BY <1>21 DEF SvcCreates, CreateInstance
<1>22. ASSUME NEW x \in Objs, SvcDefers(x) PROVE MainBusy' /\ Agents' /\ OneServer'
  BY <1>22 DEF SvcDefers
<1>23. ASSUME NEW x \in Objs, SvcTimesOut(x) PROVE MainBusy' /\ Agents' /\ OneServer'
  BY <1>23 DEF SvcTimesOut
<1>24. ASSUME NEW x \in Objs, SvcReturns(x) PROVE MainBusy' /\ Agents' /\ OneServer'
  BY <1>24 DEF SvcReturns
<1> HIDE DEF Inv, objVars, patcherVars, mainVars, mcpVars, svcVars,
       TypeOK, MainBusy, MainIdle, Agents, OneServer, Modes, Born
<1> QED
  BY <1>1, <1>2, <1>3, <1>4, <1>5, <1>6, <1>7, <1>8, <1>9, <1>10, <1>11, <1>12,
     <1>13, <1>14, <1>15, <1>16, <1>17, <1>18, <1>19, <1>20, <1>21, <1>22, <1>23, <1>24, <1>25
  DEF Next, Step, New, NewGoesOn, Message, Callback, Closing, ServiceThread

(* The service threads and the MCPServer objects they call.                *)

LEMMA ServiceKept ==
  ASSUME Inv, Next PROVE InService' /\ InstanceLives' /\ HandlerHasServer'
<1> USE InstancesAssumption, NoneAssumption
<1> USE DEF Inv, objVars, patcherVars, mainVars, mcpVars, svcVars,
       TypeOK, MainBusy, Agents, OneServer, InService, InstanceLives, HandlerHasServer, Serves, Born
<1>1. ASSUME NEW x \in Objs, NewAgentFails(x)
     PROVE  InService' /\ InstanceLives' /\ HandlerHasServer'
  BY <1>1 DEF NewAgentFails
<1>2. ASSUME NEW x \in Objs, NewAgent(x)
     PROVE  InService' /\ InstanceLives' /\ HandlerHasServer'
  BY <1>2 DEF StartAgent, NewAgent
<1>3. ASSUME NEW x \in Objs, NEW m \in Modes, NewPatch(x, m)
     PROVE  InService' /\ InstanceLives' /\ HandlerHasServer'
  BY <1>3 DEF NewPatch
<1>4. ASSUME NewAgentLooks PROVE InService' /\ InstanceLives' /\ HandlerHasServer'
  BY <1>4 DEF NewAgentLooks
<1>5. ASSUME NewAgentFinds PROVE InService' /\ InstanceLives' /\ HandlerHasServer'
  BY <1>5 DEF NewAgentFinds, NewAgentDone
<1>6. ASSUME NewAgentCreates PROVE InService' /\ InstanceLives' /\ HandlerHasServer'
  BY <1>6 DEF NewAgentCreates, NewAgentDone, CreateInstance
<1>7. ASSUME NEW x \in Objs, NEW m \in Modes, SetMode(x, m)
     PROVE  InService' /\ InstanceLives' /\ HandlerHasServer'
  BY <1>7 DEF SetMode
<1>8. ASSUME NEW x \in Objs, StartMessage(x)
     PROVE  InService' /\ InstanceLives' /\ HandlerHasServer'
  BY <1>8 DEF StartMessage, SetServer
<1>9. ASSUME NEW x \in Objs, StopMessage(x)
     PROVE  InService' /\ InstanceLives' /\ HandlerHasServer'
  BY <1>9 DEF StopMessage, SetServer
<1>10. ASSUME Stopped PROVE InService' /\ InstanceLives' /\ HandlerHasServer'
  BY <1>10 DEF Stopped, SetServer
<1>25. ASSUME JoinService PROVE InService' /\ InstanceLives' /\ HandlerHasServer'
  BY <1>25 DEF JoinService, SetServer
<1>11. ASSUME NEW x \in Objs, DeleteBox(x)
     PROVE  InService' /\ InstanceLives' /\ HandlerHasServer'
  BY <1>11 DEF DeleteBox, BeginFree
<1>12. ASSUME NEW x \in Objs, NEW y \in Objs, CallbackRemoves(x, y)
     PROVE  InService' /\ InstanceLives' /\ HandlerHasServer'
  BY <1>12 DEF CallbackRemoves, BeginFree
<1>13. ASSUME NEW x \in Objs, CallbackReturns(x)
     PROVE  InService' /\ InstanceLives' /\ HandlerHasServer'
  BY <1>13 DEF CallbackReturns, Completes
<1>14. ASSUME Freed PROVE InService' /\ InstanceLives' /\ HandlerHasServer'
  <2>1. mainObj \in Objs /\ life[mainObj] = "alive" /\ main = "free" /\ UNCHANGED flipped
    BY <1>14, FreedCases DEF Freed
  <2>2. /\ svcInstance' = svcInstance
        /\ \A x \in Objs : svc'[x] = svc[x] \/ (svc[x] = "wait" /\ svc'[x] = "handle")
    BY <1>14, FreedThreads
  <2>3. CASE /\ mode[mainObj] = "agent" /\ svc[mainObj] = "idle"
             /\ server' = [server EXCEPT ![mainObj] = "none"] /\ instance' = 0
    <3>1. ASSUME flipped = {}, NEW x \in Objs PROVE svc[x] = "idle"
      <4>1. server[mainObj] # "none" /\ (x # mainObj => server[x] = "none")
        BY <2>1, <2>3, <3>1
      <4> QED BY <2>3, <4>1
    <3> QED BY <2>1, <2>2, <2>3, <3>1
  <2>4. CASE UNCHANGED <<server, instance, instances>>
    BY <2>1, <2>2, <2>4
  <2> QED BY <1>14, <2>3, <2>4, FreedCases DEF DestroyAgent, FreePatch
<1>15. ASSUME NEW x \in Objs, NotifyFree(x)
     PROVE  InService' /\ InstanceLives' /\ HandlerHasServer'
  BY <1>15 DEF NotifyFree
<1>16. ASSUME NEW x \in Objs, FreeBox(x)
     PROVE  InService' /\ InstanceLives' /\ HandlerHasServer'
  BY <1>16 DEF FreeBox, BeginFree
<1>17. ASSUME NEW p \in Patchers, ClosePatcher(p)
     PROVE  InService' /\ InstanceLives' /\ HandlerHasServer'
  BY <1>17 DEF ClosePatcher
<1>18. ASSUME NEW p \in Patchers, PatcherGone(p)
     PROVE  InService' /\ InstanceLives' /\ HandlerHasServer'
  BY <1>18 DEF PatcherGone
<1>19. ASSUME NEW x \in Objs, SvcFinds(x)
     PROVE  InService' /\ InstanceLives' /\ HandlerHasServer'
  BY <1>19 DEF SvcFinds
<1>20. ASSUME NEW x \in Objs, SvcLooks(x)
     PROVE  InService' /\ InstanceLives' /\ HandlerHasServer'
  BY <1>20 DEF SvcLooks
<1>21. ASSUME NEW x \in Objs, SvcCreates(x)
     PROVE  InService' /\ InstanceLives' /\ HandlerHasServer'
  BY <1>21 DEF SvcCreates, CreateInstance
<1>22. ASSUME NEW x \in Objs, SvcDefers(x)
     PROVE  InService' /\ InstanceLives' /\ HandlerHasServer'
  BY <1>22 DEF SvcDefers
<1>23. ASSUME NEW x \in Objs, SvcTimesOut(x)
     PROVE  InService' /\ InstanceLives' /\ HandlerHasServer'
  BY <1>23 DEF SvcTimesOut
<1>24. ASSUME NEW x \in Objs, SvcReturns(x)
     PROVE  InService' /\ InstanceLives' /\ HandlerHasServer'
  BY <1>24 DEF SvcReturns
<1> HIDE DEF Inv, objVars, patcherVars, mainVars, mcpVars, svcVars,
       TypeOK, MainBusy, Agents, OneServer, InService, InstanceLives, HandlerHasServer, Serves, Born
<1> QED
  BY <1>1, <1>2, <1>3, <1>4, <1>5, <1>6, <1>7, <1>8, <1>9, <1>10, <1>11, <1>12,
     <1>13, <1>14, <1>15, <1>16, <1>17, <1>18, <1>19, <1>20, <1>21, <1>22, <1>23, <1>24, <1>25
  DEF Next, Step, New, NewGoesOn, Message, Callback, Closing, ServiceThread

-----------------------------------------------------------------------------
(* The theorems.                                                           *)

LEMMA InitInv == Init => Inv
<1> SUFFICES ASSUME Init PROVE Inv
  OBVIOUS
<1>1. TypeOK
  BY InstancesAssumption, PlacementsAssumption DEF Init, TypeOK, Ids, Modes
<1>2. Range(registry) = {}
  BY DEF Init, Range
<1> QED
  BY <1>1, <1>2, NoneAssumption
  DEF Init, Inv, RegistryTracksPatches, Unborn, MainBusy, Agents, OneServer, InService,
      InstanceLives, HandlerHasServer

LEMMA StutterInv == Inv /\ UNCHANGED vars => Inv'
  BY DEF Inv, vars, objVars, patcherVars, mainVars, mcpVars, svcVars, TypeOK,
         RegistryTracksPatches, Unborn, MainBusy, Agents, OneServer, InService,
         Serves, InstanceLives, HandlerHasServer

LEMMA StepInv == Inv /\ [Next]_vars => Inv'
<1> SUFFICES ASSUME Inv, [Next]_vars PROVE Inv'
  OBVIOUS
<1>1. CASE Next
  <2>1. TypeOK' BY <1>1, TypesKept
  <2>2. RegistryTracksPatches' /\ Unborn' BY <1>1, RegistryKept
  <2>3. MainBusy' /\ Agents' /\ OneServer' BY <1>1, ServersKept
  <2>4. InService' /\ InstanceLives' /\ HandlerHasServer' BY <1>1, ServiceKept
  <2> QED BY <2>1, <2>2, <2>3, <2>4 DEF Inv
<1>2. CASE UNCHANGED vars
  BY <1>2, StutterInv
<1> QED BY <1>1, <1>2

THEOREM Invariance == Spec => []Inv
<1>1. Init => Inv BY InitInv
<1>2. Inv /\ [Next]_vars => Inv' BY StepInv
<1> QED BY <1>1, <1>2, PTL DEF Spec

(* The variables keep their types, whatever boxes there are.               *)
THEOREM TypeCorrect == Spec => []TypeOK
<1>1. Inv => TypeOK BY DEF Inv
<1> QED BY <1>1, Invariance, PTL

(* The registry holds the live patches, each once (maxmcp_new, _notify and *)
(* _free), for any number of objects, unless a mode was switched.          *)
THEOREM RegistryTracks == Spec => []RegistryTracksPatches
<1>1. Inv => RegistryTracksPatches BY DEF Inv
<1> QED BY <1>1, Invariance, PTL

(* One object at most runs a server, the one g_agent_instance names.       *)
THEOREM ServerIsOne == Spec => []OneServer
<1>1. Inv => OneServer BY DEF Inv
<1> QED BY <1>1, Invariance, PTL

(* maxmcp_free destroys no MCPServer that a service thread still calls.    *)
THEOREM HandlersHaveServers == Spec => []HandlerHasServer
<1>1. Inv => HandlerHasServer BY DEF Inv
<1> QED BY <1>1, Invariance, PTL
=============================================================================
