----------------------- MODULE WebSocketServer_proofs -----------------------
(***************************************************************************)
(* Proofs about WebSocketServer, for any number of connections, messages   *)
(* and starts, in every mode.  The conjuncts of Inv, the inductive         *)
(* invariant, are kept by one lemma each, with one step per action; the    *)
(* lemmas about the token and the request queue first say which actions    *)
(* touch what they are about.  The second half is about the messages:      *)
(* where each of them is, in which order they leave, and that the server   *)
(* implements ResponseChannel.                                             *)
(***************************************************************************)
EXTENDS WebSocketServer, SequenceTheorems, TLAPS

(* The service thread is inside a callback that has a connection.          *)
Busy == {"handling", "pushed", "writeable", "found", "popped", "wrote"}

(* How far stop() has come: while it is under way the server does not run, *)
(* and what it joined is gone.                                             *)
Threads ==
  /\ running => ctl \in {"idle", "pushed"}
  /\ ctl = "pushed" => running
  /\ ctl \in {"joined", "quiet"} => svc = "none"
  /\ ctl = "quiet" => que = "none"

(* Who is busy with something has it in hand, and its connection is open.  *)
Hands ==
  /\ svc \in Busy => svcWsi \in Wsis /\ conn[svcWsi] = "open"
  /\ svc \in {"handling", "pushed", "popped", "wrote"} => svcMsg \in Messages
  /\ ctl = "pushed" => ctlWsi \in Wsis
  /\ que = "process" <=> queReq # None

(* clients_ holds the connections that were established and not closed,    *)
(* and nothing waits for anyone else.                                      *)
Connected ==
  \A w \in Wsis :
    /\ w \in clients <=> conn[w] \in {"open", "hungup"}
    /\ sendQueue[w] # <<>> => w \in clients

(* What the queue thread saw under the mutex still holds when it blocks.   *)
Asleep == running /\ que \in {"checked", "blocked"} => requestQueue = <<>>

TrustedOnly == requireAuth => \A w \in Wsis \ Trusted : conn[w] \in {"new", "closed"}

Inv ==
  /\ TypeOK /\ Threads /\ Hands /\ Connected /\ Asleep /\ TrustedOnly
  /\ NoStrandedResponse /\ StopLeavesNothing /\ NoMissedRequest
  /\ HandledInOrder /\ UntrustedGetNothing

-----------------------------------------------------------------------------

(* What a push and a pop on one of the send queues (or logs) yield.        *)
LEMMA Push ==
  ASSUME NEW f \in [Wsis -> Seq(Messages)], NEW w \in Wsis, NEW m \in Messages
  PROVE  [f EXCEPT ![w] = Append(@, m)] \in [Wsis -> Seq(Messages)]
<1>1. Append(f[w], m) \in Seq(Messages)
  OBVIOUS
<1> QED BY <1>1

LEMMA Pop ==
  ASSUME NEW f \in [Wsis -> Seq(Messages)], NEW w \in Wsis, f[w] # <<>>
  PROVE  /\ Head(f[w]) \in Messages
         /\ [f EXCEPT ![w] = Tail(@)] \in [Wsis -> Seq(Messages)]
<1>1. f[w] \in Seq(Messages)
  OBVIOUS
<1>2. Head(f[w]) \in Messages /\ Tail(f[w]) \in Seq(Messages)
  BY <1>1, HeadTailProperties
<1> QED BY <1>2

LEMMA EnqueueTyped ==
  ASSUME NEW s \in Seq(QueuedRequest), NEW w \in Wsis, NEW m \in Requests
  PROVE  Append(s, [wsi |-> w, msg |-> m]) \in Seq(QueuedRequest)
<1>1. [wsi |-> w, msg |-> m] \in QueuedRequest
  BY DEF QueuedRequest
<1> QED BY <1>1

(* Two ways of seeing a sequence of requests put together.                 *)
LEMMA Appending ==
  \A s, t, u \in Seq(QueuedRequest) : \A x \in QueuedRequest :
    s \o t \o Append(u, x) = Append(s \o t \o u, x)
  OBVIOUS

LEMMA Splitting ==
  ASSUME NEW s \in Seq(QueuedRequest), NEW u \in Seq(QueuedRequest), u # <<>>
  PROVE  s \o <<>> \o u = s \o <<Head(u)>> \o Tail(u)
  BY HeadTailProperties

(* Types.  The hands tell that who appends has a connection and a message. *)
LEMMA TypeStep ==
  ASSUME TypeOK, Hands, [Next]_vars PROVE TypeOK'
<1> USE NoneAssumption, SilentAssumption
<1> USE DEF TypeOK, Hands, modes, ctlVars, svcVars, connVars, outVars,
     queVars
<1>1. CASE Start BY <1>1, StartsAssumption DEF Start
<1>2. CASE StopFlag BY <1>2 DEF StopFlag
<1>3. CASE StopSignal BY <1>3 DEF StopSignal, Notify
<1>4. CASE JoinService BY <1>4 DEF JoinService
<1>5. CASE JoinQueue BY <1>5 DEF JoinQueue
<1>6. CASE StopFinish BY <1>6 DEF StopFinish
<1>7. CASE SendRequestWritable BY <1>7 DEF SendRequestWritable
<1>8. ASSUME NEW m \in Pushes, Broadcast(m) PROVE TypeOK'
  BY <1>8 DEF Broadcast, Messages
<1>9. ASSUME NEW w \in Wsis, NEW m \in Pushes, SendPush(w, m) PROVE TypeOK'
  BY <1>9, Push DEF SendPush, Messages
<1>10. CASE EnterService BY <1>10 DEF EnterService, ServiceStep
<1>11. CASE LeaveService BY <1>11 DEF LeaveService, ServiceStep
<1>12. CASE HandlerIsSilent BY <1>12 DEF HandlerIsSilent, ServiceStep
<1>13. CASE HandlerResponds
  BY <1>13, Push DEF HandlerResponds, ServiceStep, Busy
<1>14. CASE RequestWritable BY <1>14 DEF RequestWritable, ServiceStep, Busy
<1>15. CASE WriteableFind BY <1>15 DEF WriteableFind, ServiceStep
<1>16. CASE WriteableEmpty BY <1>16 DEF WriteableEmpty, ServiceStep
<1>17. CASE WriteablePop BY <1>17, Pop DEF WriteablePop, ServiceStep, Busy
<1>18. CASE WriteableWrite
  <2>1. svcWsi \in Wsis /\ svcMsg \in Messages
    BY <1>18 DEF WriteableWrite, ServiceStep, Busy
  <2>2. [wire EXCEPT ![svcWsi] = Append(@, svcMsg)] \in [Wsis -> Seq(Messages)]
    BY <2>1, Push
  <2> QED BY <1>18, <2>1, <2>2 DEF WriteableWrite, ServiceStep
<1>19. CASE WriteableMore BY <1>19 DEF WriteableMore, ServiceStep, Busy
<1>20. ASSUME NEW w \in Wsis, Reject(w) PROVE TypeOK' BY <1>20 DEF Reject
<1>21. ASSUME NEW w \in Wsis, Establish(w) PROVE TypeOK'
  BY <1>21 DEF Establish
<1>22. ASSUME NEW w \in Wsis, Close(w) PROVE TypeOK' BY <1>22 DEF Close
<1>23. ASSUME NEW w \in Wsis, WriteableEnter(w) PROVE TypeOK'
  BY <1>23 DEF WriteableEnter
<1>24. ASSUME NEW w \in Wsis, NEW m \in Requests, ReceiveUnauthenticated(w, m)
       PROVE  TypeOK'
  BY <1>24 DEF ReceiveUnauthenticated, Arrives, Messages
<1>25. ASSUME NEW w \in Wsis, NEW m \in Requests, ReceiveSync(w, m)
       PROVE  TypeOK'
  BY <1>25 DEF ReceiveSync, Arrives, Messages
<1>26. ASSUME NEW w \in Wsis, NEW m \in Requests, ReceiveAsync(w, m)
       PROVE  TypeOK'
  BY <1>26, EnqueueTyped DEF ReceiveAsync, Enqueue, Arrives, Notify, Messages
<1>27. CASE QueueTop BY <1>27 DEF QueueTop
<1>28. CASE QueueCheck BY <1>28 DEF QueueCheck
<1>29. CASE QueueBlock BY <1>29 DEF QueueBlock
<1>30. CASE QueueBreak BY <1>30 DEF QueueBreak
<1>31. CASE QueueTake BY <1>31, HeadTailProperties DEF QueueTake
<1>32. CASE QueueProcess BY <1>32 DEF QueueProcess
<1>33. CASE QueueSpuriousWake BY <1>33 DEF QueueSpuriousWake
<1>34. CASE UNCHANGED vars BY <1>34 DEF vars
<1> QED
  BY <1>1, <1>2, <1>3, <1>4, <1>5, <1>6, <1>7, <1>8, <1>9, <1>10, <1>11,
     <1>12, <1>13, <1>14, <1>15, <1>16, <1>17, <1>18, <1>19, <1>20, <1>21,
     <1>22, <1>23, <1>24, <1>25, <1>26, <1>27, <1>28, <1>29, <1>30, <1>31,
     <1>32, <1>33, <1>34 DEF Next, Control, Service, Handle, Event, Receive,
     Queue

LEMMA HandsStep ==
  ASSUME TypeOK, Threads, StopLeavesNothing, Hands, [Next]_vars PROVE Hands'
<1> USE NoneAssumption, SilentAssumption
<1> USE DEF TypeOK, Threads, StopLeavesNothing, Hands, Busy, Messages, modes,
     ctlVars, svcVars, connVars, outVars, queVars
<1>1. CASE Start BY <1>1 DEF Start
<1>2. CASE StopFlag BY <1>2 DEF StopFlag
<1>3. CASE StopSignal BY <1>3 DEF StopSignal, Notify
<1>4. CASE JoinService BY <1>4 DEF JoinService
<1>5. CASE JoinQueue BY <1>5 DEF JoinQueue
<1>6. CASE StopFinish BY <1>6 DEF StopFinish
<1>7. CASE SendRequestWritable BY <1>7 DEF SendRequestWritable
<1>8. ASSUME NEW m \in Pushes, Broadcast(m) PROVE Hands' BY <1>8 DEF Broadcast
<1>9. ASSUME NEW w \in Wsis, NEW m \in Pushes, SendPush(w, m) PROVE Hands'
  BY <1>9 DEF SendPush
<1>10. CASE EnterService BY <1>10 DEF EnterService, ServiceStep
<1>11. CASE LeaveService BY <1>11 DEF LeaveService, ServiceStep
<1>12. CASE HandlerIsSilent BY <1>12 DEF HandlerIsSilent, ServiceStep
<1>13. CASE HandlerResponds BY <1>13 DEF HandlerResponds, ServiceStep
<1>14. CASE RequestWritable BY <1>14 DEF RequestWritable, ServiceStep
<1>15. CASE WriteableFind BY <1>15 DEF WriteableFind, ServiceStep
<1>16. CASE WriteableEmpty BY <1>16 DEF WriteableEmpty, ServiceStep
<1>17. CASE WriteablePop BY <1>17, Pop DEF WriteablePop, ServiceStep
<1>18. CASE WriteableWrite BY <1>18 DEF WriteableWrite, ServiceStep
<1>19. CASE WriteableMore BY <1>19 DEF WriteableMore, ServiceStep
<1>20. ASSUME NEW w \in Wsis, Reject(w) PROVE Hands' BY <1>20 DEF Reject
<1>21. ASSUME NEW w \in Wsis, Establish(w) PROVE Hands' BY <1>21 DEF Establish
<1>22. ASSUME NEW w \in Wsis, Close(w) PROVE Hands' BY <1>22 DEF Close
<1>23. ASSUME NEW w \in Wsis, WriteableEnter(w) PROVE Hands'
  BY <1>23 DEF WriteableEnter
<1>24. ASSUME NEW w \in Wsis, NEW m \in Requests, ReceiveUnauthenticated(w, m)
       PROVE  Hands'
  BY <1>24 DEF ReceiveUnauthenticated, Arrives
<1>25. ASSUME NEW w \in Wsis, NEW m \in Requests, ReceiveSync(w, m)
       PROVE  Hands'
  BY <1>25 DEF ReceiveSync, Arrives
<1>26. ASSUME NEW w \in Wsis, NEW m \in Requests, ReceiveAsync(w, m)
       PROVE  Hands'
  BY <1>26 DEF ReceiveAsync, Enqueue, Arrives, Notify
<1>27. CASE QueueTop BY <1>27 DEF QueueTop
<1>28. CASE QueueCheck BY <1>28 DEF QueueCheck
<1>29. CASE QueueBlock BY <1>29 DEF QueueBlock
<1>30. CASE QueueBreak BY <1>30 DEF QueueBreak
<1>31. CASE QueueTake BY <1>31, HeadTailProperties DEF QueueTake
<1>32. CASE QueueProcess BY <1>32 DEF QueueProcess
<1>33. CASE QueueSpuriousWake BY <1>33 DEF QueueSpuriousWake
<1>34. CASE UNCHANGED vars BY <1>34 DEF vars
<1> QED
  BY <1>1, <1>2, <1>3, <1>4, <1>5, <1>6, <1>7, <1>8, <1>9, <1>10, <1>11,
     <1>12, <1>13, <1>14, <1>15, <1>16, <1>17, <1>18, <1>19, <1>20, <1>21,
     <1>22, <1>23, <1>24, <1>25, <1>26, <1>27, <1>28, <1>29, <1>30, <1>31,
     <1>32, <1>33, <1>34 DEF Next, Control, Service, Handle, Event, Receive,
     Queue

LEMMA StopStep ==
  ASSUME TypeOK, Connected, Hands, Threads, StopLeavesNothing, [Next]_vars
  PROVE  (Threads /\ StopLeavesNothing)'
<1> USE NoneAssumption, SilentAssumption
<1> USE DEF TypeOK, Connected, Hands, Busy, Threads, StopLeavesNothing,
     modes, ctlVars, svcVars, connVars, outVars, queVars
<1>1. CASE Start BY <1>1 DEF Start
<1>2. CASE StopFlag BY <1>2 DEF StopFlag
<1>3. CASE StopSignal BY <1>3 DEF StopSignal, Notify
<1>4. CASE JoinService BY <1>4 DEF JoinService
<1>5. CASE JoinQueue BY <1>5 DEF JoinQueue
<1>6. CASE StopFinish BY <1>6 DEF StopFinish
<1>7. CASE SendRequestWritable BY <1>7 DEF SendRequestWritable
<1>8. ASSUME NEW m \in Pushes, Broadcast(m)
      PROVE  (Threads /\ StopLeavesNothing)'
  BY <1>8 DEF Broadcast
<1>9. ASSUME NEW w \in Wsis, NEW m \in Pushes, SendPush(w, m)
      PROVE  (Threads /\ StopLeavesNothing)'
  BY <1>9 DEF SendPush
<1>10. CASE EnterService BY <1>10 DEF EnterService, ServiceStep
<1>11. CASE LeaveService BY <1>11 DEF LeaveService, ServiceStep
<1>12. CASE HandlerIsSilent BY <1>12 DEF HandlerIsSilent, ServiceStep
<1>13. CASE HandlerResponds BY <1>13 DEF HandlerResponds, ServiceStep
<1>14. CASE RequestWritable BY <1>14 DEF RequestWritable, ServiceStep
<1>15. CASE WriteableFind BY <1>15 DEF WriteableFind, ServiceStep
<1>16. CASE WriteableEmpty BY <1>16 DEF WriteableEmpty, ServiceStep
<1>17. CASE WriteablePop BY <1>17 DEF WriteablePop, ServiceStep
<1>18. CASE WriteableWrite BY <1>18 DEF WriteableWrite, ServiceStep
<1>19. CASE WriteableMore BY <1>19 DEF WriteableMore, ServiceStep
<1>20. ASSUME NEW w \in Wsis, Reject(w) PROVE (Threads /\ StopLeavesNothing)'
  BY <1>20 DEF Reject
<1>21. ASSUME NEW w \in Wsis, Establish(w) PROVE (Threads /\ StopLeavesNothing)'
  BY <1>21 DEF Establish
<1>22. ASSUME NEW w \in Wsis, Close(w) PROVE (Threads /\ StopLeavesNothing)'
  BY <1>22 DEF Close
<1>23. ASSUME NEW w \in Wsis, WriteableEnter(w)
       PROVE  (Threads /\ StopLeavesNothing)'
  BY <1>23 DEF WriteableEnter
<1>24. ASSUME NEW w \in Wsis, NEW m \in Requests, ReceiveUnauthenticated(w, m)
       PROVE  (Threads /\ StopLeavesNothing)'
  BY <1>24 DEF ReceiveUnauthenticated, Arrives
<1>25. ASSUME NEW w \in Wsis, NEW m \in Requests, ReceiveSync(w, m)
       PROVE  (Threads /\ StopLeavesNothing)'
  BY <1>25 DEF ReceiveSync, Arrives
<1>26. ASSUME NEW w \in Wsis, NEW m \in Requests, ReceiveAsync(w, m)
       PROVE  (Threads /\ StopLeavesNothing)'
  BY <1>26 DEF ReceiveAsync, Enqueue, Arrives, Notify
<1>27. CASE QueueTop BY <1>27 DEF QueueTop
<1>28. CASE QueueCheck BY <1>28 DEF QueueCheck
<1>29. CASE QueueBlock BY <1>29 DEF QueueBlock
<1>30. CASE QueueBreak BY <1>30 DEF QueueBreak
<1>31. CASE QueueTake BY <1>31 DEF QueueTake
<1>32. CASE QueueProcess BY <1>32 DEF QueueProcess
<1>33. CASE QueueSpuriousWake BY <1>33 DEF QueueSpuriousWake
<1>34. CASE UNCHANGED vars BY <1>34 DEF vars
<1> QED
  BY <1>1, <1>2, <1>3, <1>4, <1>5, <1>6, <1>7, <1>8, <1>9, <1>10, <1>11,
     <1>12, <1>13, <1>14, <1>15, <1>16, <1>17, <1>18, <1>19, <1>20, <1>21,
     <1>22, <1>23, <1>24, <1>25, <1>26, <1>27, <1>28, <1>29, <1>30, <1>31,
     <1>32, <1>33, <1>34 DEF Next, Control, Service, Handle, Event, Receive,
     Queue

LEMMA ConnectedStep ==
  ASSUME TypeOK, Hands, Connected, [Next]_vars PROVE Connected'
<1> USE NoneAssumption, SilentAssumption
<1> USE DEF TypeOK, Hands, Busy, Connected, modes, ctlVars, svcVars,
     connVars, outVars, queVars
<1>1. CASE Start BY <1>1 DEF Start
<1>2. CASE StopFlag BY <1>2 DEF StopFlag
<1>3. CASE StopSignal BY <1>3 DEF StopSignal, Notify
<1>4. CASE JoinService BY <1>4 DEF JoinService
<1>5. CASE JoinQueue BY <1>5 DEF JoinQueue
<1>6. CASE StopFinish BY <1>6 DEF StopFinish
<1>7. CASE SendRequestWritable BY <1>7 DEF SendRequestWritable
<1>8. ASSUME NEW m \in Pushes, Broadcast(m) PROVE Connected'
  BY <1>8 DEF Broadcast
<1>9. ASSUME NEW w \in Wsis, NEW m \in Pushes, SendPush(w, m) PROVE Connected'
  BY <1>9 DEF SendPush
<1>10. CASE EnterService BY <1>10 DEF EnterService, ServiceStep
<1>11. CASE LeaveService BY <1>11 DEF LeaveService, ServiceStep
<1>12. CASE HandlerIsSilent BY <1>12 DEF HandlerIsSilent, ServiceStep
<1>13. CASE HandlerResponds BY <1>13 DEF HandlerResponds, ServiceStep
<1>14. CASE RequestWritable BY <1>14 DEF RequestWritable, ServiceStep
<1>15. CASE WriteableFind BY <1>15 DEF WriteableFind, ServiceStep
<1>16. CASE WriteableEmpty BY <1>16 DEF WriteableEmpty, ServiceStep
<1>17. CASE WriteablePop BY <1>17 DEF WriteablePop, ServiceStep
<1>18. CASE WriteableWrite BY <1>18 DEF WriteableWrite, ServiceStep
<1>19. CASE WriteableMore BY <1>19 DEF WriteableMore, ServiceStep
<1>20. ASSUME NEW w \in Wsis, Reject(w) PROVE Connected' BY <1>20 DEF Reject
<1>21. ASSUME NEW w \in Wsis, Establish(w) PROVE Connected'
  BY <1>21 DEF Establish
<1>22. ASSUME NEW w \in Wsis, Close(w) PROVE Connected' BY <1>22 DEF Close
<1>23. ASSUME NEW w \in Wsis, WriteableEnter(w) PROVE Connected'
  BY <1>23 DEF WriteableEnter
<1>24. ASSUME NEW w \in Wsis, NEW m \in Requests, ReceiveUnauthenticated(w, m)
       PROVE  Connected'
  BY <1>24 DEF ReceiveUnauthenticated, Arrives
<1>25. ASSUME NEW w \in Wsis, NEW m \in Requests, ReceiveSync(w, m)
       PROVE  Connected'
  BY <1>25 DEF ReceiveSync, Arrives
<1>26. ASSUME NEW w \in Wsis, NEW m \in Requests, ReceiveAsync(w, m)
       PROVE  Connected'
  BY <1>26 DEF ReceiveAsync, Enqueue, Arrives, Notify
<1>27. CASE QueueTop BY <1>27 DEF QueueTop
<1>28. CASE QueueCheck BY <1>28 DEF QueueCheck
<1>29. CASE QueueBlock BY <1>29 DEF QueueBlock
<1>30. CASE QueueBreak BY <1>30 DEF QueueBreak
<1>31. CASE QueueTake BY <1>31 DEF QueueTake
<1>32. CASE QueueProcess BY <1>32 DEF QueueProcess
<1>33. CASE QueueSpuriousWake BY <1>33 DEF QueueSpuriousWake
<1>34. CASE UNCHANGED vars BY <1>34 DEF vars
<1> QED
  BY <1>1, <1>2, <1>3, <1>4, <1>5, <1>6, <1>7, <1>8, <1>9, <1>10, <1>11,
     <1>12, <1>13, <1>14, <1>15, <1>16, <1>17, <1>18, <1>19, <1>20, <1>21,
     <1>22, <1>23, <1>24, <1>25, <1>26, <1>27, <1>28, <1>29, <1>30, <1>31,
     <1>32, <1>33, <1>34 DEF Next, Control, Service, Handle, Event, Receive,
     Queue

LEMMA NoStrandedStep ==
  ASSUME TypeOK, Hands, Connected, StopLeavesNothing, NoStrandedResponse,
         [Next]_vars
  PROVE  NoStrandedResponse'
<1> USE NoneAssumption, SilentAssumption
<1> USE DEF TypeOK, Hands, Busy, Connected, StopLeavesNothing,
     NoStrandedResponse, modes, ctlVars, svcVars, connVars, outVars, queVars
<1>1. CASE Start BY <1>1 DEF Start
<1>2. CASE StopFlag BY <1>2 DEF StopFlag
<1>3. CASE StopSignal BY <1>3 DEF StopSignal, Notify
<1>4. CASE JoinService BY <1>4 DEF JoinService
<1>5. CASE JoinQueue BY <1>5 DEF JoinQueue
<1>6. CASE StopFinish BY <1>6 DEF StopFinish
<1>7. CASE SendRequestWritable BY <1>7 DEF SendRequestWritable
<1>8. ASSUME NEW m \in Pushes, Broadcast(m) PROVE NoStrandedResponse'
  BY <1>8 DEF Broadcast
<1>9. ASSUME NEW w \in Wsis, NEW m \in Pushes, SendPush(w, m)
      PROVE  NoStrandedResponse'
  BY <1>9 DEF SendPush
<1>10. CASE EnterService BY <1>10 DEF EnterService, ServiceStep
<1>11. CASE LeaveService BY <1>11 DEF LeaveService, ServiceStep
<1>12. CASE HandlerIsSilent BY <1>12 DEF HandlerIsSilent, ServiceStep
<1>13. CASE HandlerResponds BY <1>13 DEF HandlerResponds, ServiceStep
<1>14. CASE RequestWritable BY <1>14 DEF RequestWritable, ServiceStep
<1>15. CASE WriteableFind BY <1>15 DEF WriteableFind, ServiceStep
<1>16. CASE WriteableEmpty BY <1>16 DEF WriteableEmpty, ServiceStep
<1>17. CASE WriteablePop BY <1>17 DEF WriteablePop, ServiceStep
<1>18. CASE WriteableWrite BY <1>18 DEF WriteableWrite, ServiceStep
<1>19. CASE WriteableMore BY <1>19 DEF WriteableMore, ServiceStep
<1>20. ASSUME NEW w \in Wsis, Reject(w) PROVE NoStrandedResponse'
  BY <1>20 DEF Reject
<1>21. ASSUME NEW w \in Wsis, Establish(w) PROVE NoStrandedResponse'
  BY <1>21 DEF Establish
<1>22. ASSUME NEW w \in Wsis, Close(w) PROVE NoStrandedResponse'
  BY <1>22 DEF Close
<1>23. ASSUME NEW w \in Wsis, WriteableEnter(w) PROVE NoStrandedResponse'
  BY <1>23 DEF WriteableEnter
<1>24. ASSUME NEW w \in Wsis, NEW m \in Requests, ReceiveUnauthenticated(w, m)
       PROVE  NoStrandedResponse'
  BY <1>24 DEF ReceiveUnauthenticated, Arrives
<1>25. ASSUME NEW w \in Wsis, NEW m \in Requests, ReceiveSync(w, m)
       PROVE  NoStrandedResponse'
  BY <1>25 DEF ReceiveSync, Arrives
<1>26. ASSUME NEW w \in Wsis, NEW m \in Requests, ReceiveAsync(w, m)
       PROVE  NoStrandedResponse'
  BY <1>26 DEF ReceiveAsync, Enqueue, Arrives, Notify
<1>27. CASE QueueTop BY <1>27 DEF QueueTop
<1>28. CASE QueueCheck BY <1>28 DEF QueueCheck
<1>29. CASE QueueBlock BY <1>29 DEF QueueBlock
<1>30. CASE QueueBreak BY <1>30 DEF QueueBreak
<1>31. CASE QueueTake BY <1>31 DEF QueueTake
<1>32. CASE QueueProcess BY <1>32 DEF QueueProcess
<1>33. CASE QueueSpuriousWake BY <1>33 DEF QueueSpuriousWake
<1>34. CASE UNCHANGED vars BY <1>34 DEF vars
<1> QED
  BY <1>1, <1>2, <1>3, <1>4, <1>5, <1>6, <1>7, <1>8, <1>9, <1>10, <1>11,
     <1>12, <1>13, <1>14, <1>15, <1>16, <1>17, <1>18, <1>19, <1>20, <1>21,
     <1>22, <1>23, <1>24, <1>25, <1>26, <1>27, <1>28, <1>29, <1>30, <1>31,
     <1>32, <1>33, <1>34 DEF Next, Control, Service, Handle, Event, Receive,
     Queue

(* What touches connections and messages; the rest leaves them alone.      *)
LEMMA ConnectionSteps ==
  [Next]_vars =>
    \/ (\E w \in Wsis, m \in Pushes : SendPush(w, m))
    \/ (\E m \in Pushes : Broadcast(m))
    \/ HandlerResponds
    \/ WriteablePop
    \/ WriteableWrite
    \/ StopFinish
    \/ (\E w \in Wsis : Reject(w))
    \/ (\E w \in Wsis : Establish(w))
    \/ (\E w \in Wsis : Close(w))
    \/ (\E w \in Wsis, m \in Requests : ReceiveUnauthenticated(w, m))
    \/ (\E w \in Wsis, m \in Requests : ReceiveAsync(w, m))
    \/ UNCHANGED <<modes, connVars, sendQueue, wire, arrived>>
  BY DEF Next, Control, Service, Handle, Event, Receive, Queue, vars, modes,
     ctlVars, svcVars, connVars, outVars, queVars, Start, StopFlag,
     StopSignal, JoinService, JoinQueue, SendRequestWritable, EnterService,
     LeaveService, HandlerIsSilent, RequestWritable, WriteableFind,
     WriteableEmpty, WriteableMore, WriteableEnter, ReceiveSync, QueueTop,
     QueueCheck, QueueBlock, QueueBreak, QueueTake, QueueProcess,
     QueueSpuriousWake, ServiceStep, Arrives

LEMMA UntrustedStep ==
  ASSUME TypeOK, Hands, TrustedOnly, UntrustedGetNothing, [Next]_vars
  PROVE  (TrustedOnly /\ UntrustedGetNothing)'
<1> USE NoneAssumption, SilentAssumption
<1> USE DEF TypeOK, Hands, Busy, TrustedOnly, UntrustedGetNothing, modes,
     ctlVars, svcVars, connVars, outVars, queVars
<1>1. CASE StopFinish BY <1>1 DEF StopFinish
<1>2. ASSUME NEW m \in Pushes, Broadcast(m)
      PROVE  (TrustedOnly /\ UntrustedGetNothing)'
  BY <1>2 DEF Broadcast
<1>3. ASSUME NEW w \in Wsis, NEW m \in Pushes, SendPush(w, m)
      PROVE  (TrustedOnly /\ UntrustedGetNothing)'
  BY <1>3 DEF SendPush
<1>4. CASE HandlerResponds BY <1>4 DEF HandlerResponds, ServiceStep
<1>5. CASE WriteablePop BY <1>5 DEF WriteablePop, ServiceStep
<1>6. CASE WriteableWrite BY <1>6 DEF WriteableWrite, ServiceStep
<1>7. ASSUME NEW w \in Wsis, Reject(w)
      PROVE  (TrustedOnly /\ UntrustedGetNothing)'
  BY <1>7 DEF Reject
<1>8. ASSUME NEW w \in Wsis, Establish(w)
      PROVE  (TrustedOnly /\ UntrustedGetNothing)'
  BY <1>8 DEF Establish
<1>9. ASSUME NEW w \in Wsis, Close(w)
      PROVE  (TrustedOnly /\ UntrustedGetNothing)'
  BY <1>9 DEF Close
<1>10. ASSUME NEW w \in Wsis, NEW m \in Requests, ReceiveUnauthenticated(w, m)
       PROVE  (TrustedOnly /\ UntrustedGetNothing)'
  BY <1>10 DEF ReceiveUnauthenticated, Arrives
<1>11. ASSUME NEW w \in Wsis, NEW m \in Requests, ReceiveAsync(w, m)
       PROVE  (TrustedOnly /\ UntrustedGetNothing)'
  <2> DEFINE r == [wsi |-> w, msg |-> m]
  <2>1. requireAuth => w \in Trusted
    BY <1>11 DEF ReceiveAsync, Enqueue, Arrives
  <2>2. r \in QueuedRequest
    BY DEF QueuedRequest
  <2>3. \A i \in 1..Len(Append(arrived, r)) :
          \/ i \in 1..Len(arrived) /\ Append(arrived, r)[i] = arrived[i]
          \/ Append(arrived, r)[i] = r
    <3> HIDE DEF r
    <3> QED BY <2>2, AppendProperties
  <2>4. r.wsi = w
    OBVIOUS
  <2> HIDE DEF r
  <2>5. arrived' = Append(arrived, r)
    BY <1>11 DEF ReceiveAsync, Enqueue, r
  <2>6. \A v \in Wsis \ Trusted : requireAuth =>
          \A i \in 1..Len(arrived') : arrived'[i].wsi # v
    <3> SUFFICES ASSUME NEW v \in Wsis \ Trusted, requireAuth,
                        NEW i \in 1..Len(arrived')
                 PROVE  arrived'[i].wsi # v
      OBVIOUS
    <3>1. CASE i \in 1..Len(arrived) /\ arrived'[i] = arrived[i]
      BY <3>1
    <3>2. CASE arrived'[i] = r
      BY <3>2, <2>1, <2>4
    <3> QED BY <3>1, <3>2, <2>3, <2>5
  <2> QED BY <1>11, <2>6 DEF ReceiveAsync, Enqueue, Arrives
<1>12. CASE UNCHANGED <<modes, connVars, sendQueue, wire, arrived>> BY <1>12
<1> QED
  BY <1>1, <1>2, <1>3, <1>4, <1>5, <1>6, <1>7, <1>8, <1>9, <1>10, <1>11,
     <1>12, ConnectionSteps

(* What touches the request queue and its thread.                          *)
LEMMA QueueSteps ==
  [Next]_vars =>
    \/ Start
    \/ StopFlag
    \/ StopSignal
    \/ JoinQueue
    \/ (\E w \in Wsis, m \in Requests : ReceiveAsync(w, m))
    \/ QueueTop
    \/ QueueCheck
    \/ QueueBlock
    \/ QueueBreak
    \/ QueueTake
    \/ QueueProcess
    \/ QueueSpuriousWake
    \/ UNCHANGED <<running, queVars>>
  BY DEF Next, Control, Service, Handle, Event, Receive, Queue, vars, modes,
     ctlVars, svcVars, connVars, outVars, queVars, JoinService, StopFinish,
     SendRequestWritable, Broadcast, SendPush, EnterService, LeaveService,
     HandlerIsSilent, HandlerResponds, RequestWritable, WriteableFind,
     WriteableEmpty, WriteablePop, WriteableWrite, WriteableMore, Reject,
     Establish, Close, WriteableEnter, ReceiveUnauthenticated, ReceiveSync,
     ServiceStep, Arrives

LEMMA AwakeStep ==
  ASSUME TypeOK, Asleep, NoMissedRequest, [Next]_vars
  PROVE  (Asleep /\ NoMissedRequest)'
<1> USE DEF Asleep, NoMissedRequest, modes, ctlVars, svcVars, connVars,
     outVars, queVars
<1>1. CASE Start BY <1>1 DEF Start
<1>2. CASE StopFlag BY <1>2 DEF StopFlag
<1>3. CASE StopSignal BY <1>3 DEF StopSignal, Notify
<1>4. CASE JoinQueue BY <1>4 DEF JoinQueue
<1>5. ASSUME NEW w \in Wsis, NEW m \in Requests, ReceiveAsync(w, m)
      PROVE  (Asleep /\ NoMissedRequest)'
  BY <1>5 DEF ReceiveAsync, Enqueue, Arrives, Notify
<1>6. CASE QueueTop BY <1>6 DEF QueueTop
<1>7. CASE QueueCheck BY <1>7 DEF QueueCheck
<1>8. CASE QueueBlock BY <1>8 DEF QueueBlock
<1>9. CASE QueueBreak BY <1>9 DEF QueueBreak
<1>10. CASE QueueTake BY <1>10 DEF QueueTake
<1>11. CASE QueueProcess BY <1>11 DEF QueueProcess
<1>12. CASE QueueSpuriousWake BY <1>12 DEF QueueSpuriousWake
<1>13. CASE UNCHANGED <<running, queVars>> BY <1>13
<1> QED
  BY <1>1, <1>2, <1>3, <1>4, <1>5, <1>6, <1>7, <1>8, <1>9, <1>10, <1>11,
     <1>12, <1>13, QueueSteps

LEMMA InOrderStep ==
  ASSUME TypeOK, Hands, HandledInOrder, [Next]_vars PROVE HandledInOrder'
<1> USE NoneAssumption
<1> USE DEF TypeOK, Hands, HandledInOrder, modes, ctlVars, svcVars, connVars,
     outVars, queVars
<1>1. CASE Start BY <1>1 DEF Start
<1>2. CASE StopFlag BY <1>2 DEF StopFlag
<1>3. CASE StopSignal BY <1>3 DEF StopSignal, Notify
<1>4. CASE JoinQueue BY <1>4 DEF JoinQueue
<1>5. ASSUME NEW w \in Wsis, NEW m \in Requests, ReceiveAsync(w, m)
      PROVE  HandledInOrder'
  <2> DEFINE r == [wsi |-> w, msg |-> m]
             mid == IF queReq = None THEN <<>> ELSE <<queReq>>
  <2>1. r \in QueuedRequest
    BY DEF QueuedRequest
  <2> HIDE DEF r
  <2>2. mid \in Seq(QueuedRequest)
    <3>1. CASE queReq = None BY <3>1
    <3>2. CASE queReq # None BY <3>2
    <3> QED BY <3>1, <3>2
  <2> HIDE DEF mid
  <2>3. handled \in Seq(QueuedRequest) /\ requestQueue \in Seq(QueuedRequest)
    OBVIOUS
  <2>4. handled \o mid \o Append(requestQueue, r)
          = Append(handled \o mid \o requestQueue, r)
    <3>1. \A u \in Seq(QueuedRequest) : \A x \in QueuedRequest :
            handled \o mid \o Append(u, x) = Append(handled \o mid \o u, x)
      BY <2>2, <2>3, Appending
    <3> QED BY <3>1, <2>1, <2>3
  <2> QED BY <1>5, <2>4 DEF ReceiveAsync, Enqueue, mid, r
<1>6. CASE QueueTop BY <1>6 DEF QueueTop
<1>7. CASE QueueCheck BY <1>7 DEF QueueCheck
<1>8. CASE QueueBlock BY <1>8 DEF QueueBlock
<1>9. CASE QueueBreak BY <1>9 DEF QueueBreak
<1>10. CASE QueueTake
  <2>1. queReq = None /\ queReq' = Head(requestQueue) /\ queReq' # None
    BY <1>10, HeadTailProperties DEF QueueTake
  <2>2. handled \o <<>> \o requestQueue = handled \o <<Head(requestQueue)>> \o Tail(requestQueue)
    BY <1>10, Splitting DEF QueueTake
  <2> QED BY <1>10, <2>1, <2>2 DEF QueueTake
<1>11. CASE QueueProcess
  <2>1. queReq \in QueuedRequest /\ queReq # None
    BY <1>11 DEF QueueProcess
  <2>2. handled \o <<queReq>> = Append(handled, queReq) \o <<>>
    BY <2>1
  <2> QED BY <1>11, <2>1, <2>2 DEF QueueProcess
<1>12. CASE QueueSpuriousWake BY <1>12 DEF QueueSpuriousWake
<1>13. CASE UNCHANGED <<running, queVars>> BY <1>13
<1> QED
  BY <1>1, <1>2, <1>3, <1>4, <1>5, <1>6, <1>7, <1>8, <1>9, <1>10, <1>11,
     <1>12, <1>13, QueueSteps

-----------------------------------------------------------------------------
LEMMA InitInv == Init => Inv
<1> SUFFICES ASSUME Init PROVE Inv
  OBVIOUS
<1> USE NoneAssumption DEF Init
<1>1. TypeOK
  <2>1. starts \in 0..MaxStarts
    BY StartsAssumption
  <2>2. /\ sendQueue \in [Wsis -> Seq(Messages)]
        /\ queued \in [Wsis -> Seq(Messages)]
        /\ wire \in [Wsis -> Seq(Messages)]
    OBVIOUS
  <2>3. conn \in [Wsis -> {"new", "open", "hungup", "closed"}]
    OBVIOUS
  <2>4. /\ requestQueue \in Seq(QueuedRequest)
        /\ arrived \in Seq(QueuedRequest) /\ handled \in Seq(QueuedRequest)
    OBVIOUS
  <2>5. /\ clients \subseteq Wsis /\ writable \subseteq Wsis
        /\ sent \subseteq Messages /\ lost \subseteq Messages
    OBVIOUS
  <2> QED BY <2>1, <2>2, <2>3, <2>4, <2>5 DEF TypeOK
<1>2. Threads /\ Hands /\ Connected /\ Asleep /\ TrustedOnly
  BY DEF Threads, Hands, Busy, Connected, Asleep, TrustedOnly
<1>3. NoStrandedResponse /\ StopLeavesNothing /\ NoMissedRequest
  BY DEF NoStrandedResponse, StopLeavesNothing, NoMissedRequest
<1>4. HandledInOrder
  BY DEF HandledInOrder
<1>5. UntrustedGetNothing
  BY DEF UntrustedGetNothing
<1> QED BY <1>1, <1>2, <1>3, <1>4, <1>5 DEF Inv

LEMMA NextInv == Inv /\ [Next]_vars => Inv'
  BY TypeStep, HandsStep, StopStep, ConnectedStep, NoStrandedStep, UntrustedStep,
     AwakeStep, InOrderStep
  DEF Inv

LEMMA Invariance == Spec => []Inv
  BY InitInv, NextInv, PTL DEF Spec

(* The types of all variables.                                             *)
THEOREM TypeCorrect == Spec => []TypeOK
  BY Invariance, PTL DEF Inv

(* No response waits on the send queue of an open connection without a     *)
(* writable callback that is requested or about to be: the pop of one      *)
(* message per WRITEABLE, the push of the handler and the one of           *)
(* send_to_client() in between leave none behind.                          *)
THEOREM NoResponseStranded == Spec => []NoStrandedResponse
  BY Invariance, PTL DEF Inv

(* stop(), when it returns, leaves no client, thread or queued response.   *)
THEOREM StopIsClean == Spec => []StopLeavesNothing
  BY Invariance, PTL DEF Inv

(* The queue thread never sleeps over a request of a running server.       *)
THEOREM NoRequestMissed == Spec => []NoMissedRequest
  BY Invariance, PTL DEF Inv

(* The queue thread hands requests over in order, each once, across stops  *)
(* and restarts.                                                           *)
THEOREM RequestsInOrder == Spec => []HandledInOrder
  BY Invariance, PTL DEF Inv

(* A connection without the token gets nothing and has nothing handled.    *)
THEOREM TokenProtects == Spec => []UntrustedGetNothing
  BY Invariance, PTL DEF Inv

-----------------------------------------------------------------------------
(* The messages.                                                           *)

(* The service thread has taken a message of w and not yet written it.     *)
Carried(w) == svc = "popped" /\ svcWsi = w

(* How many of the messages queued for w have left its send queue, and how *)
(* many of these were written or lost.                                     *)
Left(w) == Len(queued[w]) - Len(sendQueue[w])
Gone(w) == IF Carried(w) THEN Left(w) - 1 ELSE Left(w)

(* Messages are new when they are pushed, and are pushed once.             *)
Fresh ==
  /\ lost \subseteq sent
  /\ \A w \in Wsis : Range(queued[w]) \cup Range(wire[w]) \subseteq sent
  /\ svc = "handling" =>
       /\ svcMsg \in sent \ lost
       /\ \A w \in Wsis : svcMsg \notin Range(queued[w]) \cup Range(wire[w])
  /\ \A w \in Wsis : conn[w] = "new" => queued[w] = <<>>
Unique ==
  \A v, w \in Wsis : \A i \in 1..Len(queued[v]), j \in 1..Len(queued[w]) :
    queued[v][i] = queued[w][j] => v = w /\ i = j

(* The send queue is the end of what was queued ...                        *)
Suffix(w) ==
  /\ Gone(w) >= 0
  /\ \A i \in 1..Len(sendQueue[w]) : sendQueue[w][i] = queued[w][Left(w) + i]
  /\ Carried(w) => svcMsg = queued[w][Left(w)]

(* ... of the rest each message was either written or lost ...             *)
Written(w) ==
  /\ \A i \in 1..Gone(w) :
       queued[w][i] \in lost <=> queued[w][i] \notin Range(wire[w])
  /\ \A i \in Gone(w) + 1..Len(queued[w]) :
       queued[w][i] \notin lost /\ queued[w][i] \notin Range(wire[w])

(* ... and the order on the wire is that in which they were queued.        *)
InOrder(w) ==
  \A i, j \in 1..Len(wire[w]), a, b \in 1..Len(queued[w]) :
    i < j /\ wire[w][i] = queued[w][a] /\ wire[w][j] = queued[w][b] => a < b

Outgoing == \A w \in Wsis : conn[w] = "open" => Suffix(w) /\ Written(w) /\ InOrder(w)

-----------------------------------------------------------------------------
LEMMA ElementsOf ==
  ASSUME NEW S, NEW s \in Seq(S)
  PROVE  \A x : x \in Range(s) <=> \E i \in 1..Len(s) : s[i] = x
<1>1. DOMAIN s = 1..Len(s)
  BY LenProperties
<1>2. Range(s) = {s[x] : x \in DOMAIN s}
  BY DEF Range
<1> QED BY <1>1, <1>2

LEMMA PushAt ==
  ASSUME NEW s \in Seq(Messages), NEW m \in Messages, NEW t, t = Append(s, m)
  PROVE  /\ t \in Seq(Messages)
         /\ Len(s) \in Nat /\ Len(t) = Len(s) + 1
         /\ \A i \in 1..Len(s) : t[i] = s[i]
         /\ t[Len(s) + 1] = m
  BY AppendProperties, LenProperties

LEMMA PushRange ==
  \A s \in Seq(Messages), m \in Messages :
    /\ \A x \in Range(Append(s, m)) : x \in Range(s) \/ x = m
    /\ m \in Range(Append(s, m)) /\ Range(s) \subseteq Range(Append(s, m))
<1> SUFFICES ASSUME NEW s \in Seq(Messages), NEW m \in Messages
             PROVE  /\ \A x \in Range(Append(s, m)) : x \in Range(s) \/ x = m
                    /\ m \in Range(Append(s, m)) /\ Range(s) \subseteq Range(Append(s, m))
  OBVIOUS
<1> DEFINE t == Append(s, m)
<1>1. /\ t \in Seq(Messages)
      /\ Len(s) \in Nat /\ Len(t) = Len(s) + 1
      /\ \A i \in 1..Len(s) : t[i] = s[i]
      /\ t[Len(s) + 1] = m
  BY AppendProperties, LenProperties
<1> HIDE DEF t
<1>2. \A x : x \in Range(s) <=> \E i \in 1..Len(s) : s[i] = x
  BY ElementsOf
<1>3. \A x : x \in Range(t) <=> \E i \in 1..Len(t) : t[i] = x
  BY <1>1, ElementsOf
<1>4. \A i \in 1..Len(t) : i \in 1..Len(s) \/ i = Len(s) + 1
  BY <1>1
<1>5. Len(s) + 1 \in 1..Len(t) /\ 1..Len(s) \subseteq 1..Len(t)
  BY <1>1
<1>6. /\ \A x \in Range(t) : x \in Range(s) \/ x = m
      /\ m \in Range(t) /\ Range(s) \subseteq Range(t)
  BY <1>1, <1>2, <1>3, <1>4, <1>5
<1> QED BY <1>6 DEF t

LEMMA PopAt ==
  ASSUME NEW s \in Seq(Messages), s # <<>>
  PROVE  /\ Len(Tail(s)) = Len(s) - 1
         /\ \A i \in 1..Len(s) - 1 : Tail(s)[i] = s[i + 1]
         /\ Head(s) = s[1]
         /\ Len(s) \in Nat \ {0}
  BY HeadTailProperties, EmptySeq

(* Nothing that concerns w has changed.                                    *)
LEMMA SameOut ==
  ASSUME TypeOK, NEW w \in Wsis, Suffix(w), Written(w), InOrder(w),
         UNCHANGED <<sendQueue[w], queued[w], wire[w]>>,
         (Carried(w)' <=> Carried(w)), Carried(w) => svcMsg' = svcMsg,
         \A i \in 1..Len(queued[w]) : queued[w][i] \in lost' <=> queued[w][i] \in lost
  PROVE  (Suffix(w) /\ Written(w) /\ InOrder(w))'
<1>1. Left(w)' = Left(w) /\ Gone(w)' = Gone(w)
  BY DEF Left, Gone
<1>2. Suffix(w)'
  BY <1>1 DEF Suffix
<1>3. Written(w)'
  <2>1. Range(wire[w])' = Range(wire[w])
    OBVIOUS
  <2>2. Len(sendQueue[w]) \in Nat /\ Len(queued[w]) \in Nat
    BY LenProperties DEF TypeOK
  <2>9. /\ Left(w) \in Int /\ Left(w) <= Len(queued[w])
        /\ Gone(w) \in Int /\ Gone(w) <= Left(w)
    <3>1. Left(w) \in Int /\ Left(w) <= Len(queued[w])
      BY DEF Left, TypeOK
    <3>2. Gone(w) = Left(w) \/ Gone(w) = Left(w) - 1
      BY DEF Gone
    <3> QED BY <3>1, <3>2
  <2>3. 1..Gone(w) \subseteq 1..Len(queued[w])
    BY <2>2, <2>9
  <2>4. Gone(w) + 1..Len(queued[w]) \subseteq 1..Len(queued[w])
    BY <2>2, <2>9 DEF Suffix
  <2> QED BY <1>1, <2>1, <2>3, <2>4 DEF Written
<1>4. InOrder(w)'
  BY DEF InOrder
<1> QED BY <1>2, <1>3, <1>4

(* What touches messages; the rest leaves them alone, and the service      *)
(* thread neither begins nor ends with one.                                *)
LEMMA MessageSteps ==
  Inv /\ [Next]_vars =>
    \/ (\E w \in Wsis, m \in Pushes : SendPush(w, m))
    \/ (\E m \in Pushes : Broadcast(m))
    \/ HandlerResponds
    \/ WriteablePop
    \/ WriteableWrite
    \/ StopFinish
    \/ (\E w \in Wsis : Reject(w))
    \/ (\E w \in Wsis : Establish(w))
    \/ (\E w \in Wsis : Close(w))
    \/ (\E w \in Wsis, m \in Requests : ReceiveUnauthenticated(w, m))
    \/ (\E w \in Wsis, m \in Requests : ReceiveSync(w, m))
    \/ (\E w \in Wsis, m \in Requests : ReceiveAsync(w, m))
    \/ /\ UNCHANGED <<conn, sendQueue, queued, wire, lost, sent>>
       /\ \/ UNCHANGED svcVars
          \/ svc # "popped" /\ svc' \notin {"handling", "popped"}
  BY DEF Next, Control, Service, Handle, Event, Receive, Queue, vars, modes, ctlVars,
     svcVars, connVars, outVars, queVars, Start, StopFlag, StopSignal, JoinService,
     JoinQueue, SendRequestWritable, EnterService, LeaveService, HandlerIsSilent,
     RequestWritable, WriteableFind, WriteableEmpty, WriteableMore, WriteableEnter,
     QueueTop, QueueCheck, QueueBlock, QueueBreak, QueueTake, QueueProcess,
     QueueSpuriousWake, ServiceStep, Inv, StopLeavesNothing

MInv == Inv /\ Fresh /\ Unique /\ Outgoing

(* The parts of Inv that the proofs below use.                             *)
LEMMA Typed ==
  ASSUME MInv
  PROVE  /\ Wsis = DOMAIN sendQueue /\ Wsis = DOMAIN queued /\ Wsis = DOMAIN wire
         /\ Wsis = DOMAIN conn
         /\ \A w \in Wsis : /\ sendQueue[w] \in Seq(Messages)
                             /\ queued[w] \in Seq(Messages)
                             /\ wire[w] \in Seq(Messages)
         /\ svc \in Busy => svcWsi \in Wsis /\ conn[svcWsi] = "open"
         /\ svc \in {"handling", "pushed", "popped", "wrote"} => svcMsg \in Messages
         /\ \A w \in clients : w \in Wsis /\ conn[w] \in {"open", "hungup"}
  BY DEF MInv, Inv, TypeOK, Hands, Connected

(* A message that was not sent before is put on the send queue of w.       *)
LEMMA PushUnique ==
  ASSUME MInv, NEW w \in Wsis, NEW m \in Messages, m \notin Range(queued[w]),
         \A v \in Wsis : m \notin Range(queued[v]),
         queued' = [queued EXCEPT ![w] = Append(@, m)]
  PROVE  Unique'
<1>1. /\ queued'[w] = Append(queued[w], m)
      /\ \A v \in Wsis \ {w} : queued'[v] = queued[v]
  BY Typed
<1>2. /\ Len(queued'[w]) = Len(queued[w]) + 1 /\ Len(queued[w]) \in Nat
      /\ \A i \in 1..Len(queued[w]) : queued'[w][i] = queued[w][i]
      /\ queued'[w][Len(queued[w]) + 1] = m
  BY <1>1, Typed, PushAt
<1>3. \A v \in Wsis : \A i \in 1..Len(queued[v]) : queued[v][i] # m
  BY Typed, ElementsOf
<1>4. ASSUME NEW u \in Wsis, NEW v \in Wsis, NEW i \in 1..Len(queued'[u]),
             NEW j \in 1..Len(queued'[v]), queued'[u][i] = queued'[v][j]
      PROVE  u = v /\ i = j
  <2>1. u = w \/ i \in 1..Len(queued[u])
    BY <1>1
  <2>2. v = w \/ j \in 1..Len(queued[v])
    BY <1>1
  <2>3. u = w => i \in 1..Len(queued[w]) \/ i = Len(queued[w]) + 1
    BY <1>2
  <2>4. v = w => j \in 1..Len(queued[w]) \/ j = Len(queued[w]) + 1
    BY <1>2
  <2>5. CASE i \in 1..Len(queued[u]) /\ j \in 1..Len(queued[v])
    <3>1. queued'[u][i] = queued[u][i] /\ queued'[v][j] = queued[v][j]
      BY <1>1, <1>2, <2>5
    <3> QED BY <3>1, <2>5, <1>4 DEF MInv, Unique
  <2>6. CASE ~(i \in 1..Len(queued[u])) /\ j \in 1..Len(queued[v])
    BY <2>6, <2>1, <2>3, <1>1, <1>2, <1>3, <1>4
  <2>7. CASE i \in 1..Len(queued[u]) /\ ~(j \in 1..Len(queued[v]))
    BY <2>7, <2>2, <2>4, <1>1, <1>2, <1>3, <1>4
  <2>8. CASE ~(i \in 1..Len(queued[u])) /\ ~(j \in 1..Len(queued[v]))
    BY <2>8, <2>1, <2>2, <2>3, <2>4
  <2> QED BY <2>5, <2>6, <2>7, <2>8
<1> QED BY <1>4 DEF Unique

LEMMA UniqueStep ==
  ASSUME MInv, [Next]_vars PROVE Unique'
<1>1. ASSUME NEW w \in Wsis, NEW m \in Pushes, SendPush(w, m) PROVE Unique'
  <2>1. m \in Messages /\ m \notin sent /\ queued' = [queued EXCEPT ![w] = Append(@, m)]
    BY <1>1 DEF SendPush, Messages
  <2>2. \A v \in Wsis : m \notin Range(queued[v])
    BY <2>1 DEF MInv, Fresh
  <2> QED BY <2>1, <2>2, PushUnique
<1>2. CASE HandlerResponds
  <2>1. /\ svc = "handling" /\ svcWsi \in Wsis /\ svcMsg \in Messages
        /\ queued' = [queued EXCEPT ![svcWsi] = Append(@, svcMsg)]
    BY <1>2, Typed DEF HandlerResponds, ServiceStep, Busy
  <2>2. \A v \in Wsis : svcMsg \notin Range(queued[v])
    BY <2>1 DEF MInv, Fresh
  <2> QED BY <2>1, <2>2, PushUnique
<1>3. CASE UNCHANGED queued
  BY <1>3 DEF MInv, Unique
<1>4. QED
  BY <1>1, <1>2, <1>3, MessageSteps
  DEF MInv, Broadcast, WriteablePop, WriteableWrite, StopFinish, Reject, Establish,
      Close, ReceiveUnauthenticated, ReceiveSync, ReceiveAsync, Enqueue, outVars

-----------------------------------------------------------------------------
LEMMA FreshStep ==
  ASSUME MInv, [Next]_vars PROVE Fresh'
<1> USE DEF Fresh
<1>1. /\ sendQueue \in [Wsis -> Seq(Messages)]
      /\ queued \in [Wsis -> Seq(Messages)] /\ wire \in [Wsis -> Seq(Messages)]
      /\ conn \in [Wsis -> {"new", "open", "hungup", "closed"}]
      /\ Fresh
  BY DEF MInv, Inv, TypeOK
<1>2. ASSUME NEW w \in Wsis, NEW m \in Pushes, SendPush(w, m) PROVE Fresh'
  <2>1. /\ m \in Messages /\ m \notin sent /\ sent' = sent \cup {m}
        /\ queued' = [queued EXCEPT ![w] = Append(@, m)]
        /\ UNCHANGED <<svc, svcMsg, conn, wire, lost>>
        /\ conn[w] # "new"
    BY <1>2, Typed DEF SendPush, Messages, svcVars, connVars
  <2>2. /\ queued'[w] = Append(queued[w], m) /\ queued[w] \in Seq(Messages)
        /\ \A v \in Wsis \ {w} : queued'[v] = queued[v]
    BY <1>1, <2>1
  <2>3. \A x : x \in Range(queued'[w]) => x \in Range(queued[w]) \/ x = m
    <3>1. m \in Messages
      BY <2>1
    <3> QED BY <3>1, <2>2, PushRange
  <2> QED BY <1>1, <2>1, <2>2, <2>3
<1>3. ASSUME NEW m \in Pushes, Broadcast(m) PROVE Fresh'
  <2>1. /\ m \in Messages /\ m \notin sent /\ sent' = sent \cup {m}
        /\ UNCHANGED <<svc, svcMsg, conn, queued, lost>>
        /\ \A v \in Wsis : wire'[v] = wire[v] \/ wire'[v] = Append(wire[v], m)
    BY <1>3 DEF Broadcast, Messages, svcVars, connVars
  <2>2. \A v \in Wsis : wire[v] \in Seq(Messages)
    BY <1>1
  <2>3. \A v \in Wsis : \A x : x \in Range(wire'[v]) => x \in Range(wire[v]) \/ x = m
    BY <2>1, <2>2, PushRange
  <2> QED BY <1>1, <2>1, <2>3
<1>4. CASE HandlerResponds
  <2>1. /\ svcWsi \in Wsis /\ svcMsg \in Messages /\ svcMsg \in sent
        /\ queued' = [queued EXCEPT ![svcWsi] = Append(@, svcMsg)]
        /\ svc' = "pushed" /\ UNCHANGED <<conn, wire, lost, sent>>
        /\ conn[svcWsi] # "new"
    BY <1>1, <1>4, Typed DEF HandlerResponds, ServiceStep, Busy, connVars
  <2>2. /\ queued'[svcWsi] = Append(queued[svcWsi], svcMsg) /\ queued[svcWsi] \in Seq(Messages)
        /\ \A v \in Wsis \ {svcWsi} : queued'[v] = queued[v]
    BY <1>1, <2>1
  <2>3. \A x : x \in Range(queued'[svcWsi]) => x \in Range(queued[svcWsi]) \/ x = svcMsg
    <3>1. svcMsg \in Messages
      BY <2>1
    <3> QED BY <3>1, <2>2, PushRange
  <2> QED BY <1>1, <2>1, <2>2, <2>3
<1>5. CASE WriteablePop
  BY <1>1, <1>5 DEF WriteablePop, ServiceStep, connVars
<1>6. CASE WriteableWrite
  <2>1. /\ svc = "popped" /\ svcWsi \in Wsis /\ svcMsg \in Messages
        /\ conn[svcWsi] = "open"
        /\ svc' = "wrote" /\ UNCHANGED <<conn, queued, sent>>
        /\ \/ wire' = [wire EXCEPT ![svcWsi] = Append(@, svcMsg)] /\ lost' = lost
           \/ wire' = wire /\ lost' = lost \cup {svcMsg}
    BY <1>6, Typed DEF WriteableWrite, ServiceStep, Busy, connVars
  <2>2. svcMsg \in sent
    <3>1. Suffix(svcWsi) /\ Carried(svcWsi)
      BY <2>1 DEF MInv, Outgoing, Carried
    <3>2. Left(svcWsi) \in 1..Len(queued[svcWsi])
      BY <1>1, <2>1, <3>1 DEF Suffix, Gone, Left
    <3> QED BY <1>1, <2>1, <3>1, <3>2, ElementsOf DEF Suffix
  <2>3. \A v \in Wsis : \/ wire'[v] = wire[v]
                        \/ wire'[v] = Append(wire[v], svcMsg) /\ wire[v] \in Seq(Messages)
    BY <1>1, <2>1
  <2>4. \A v \in Wsis : \A x : x \in Range(wire'[v]) => x \in Range(wire[v]) \/ x = svcMsg
    BY <2>1, <2>3, PushRange
  <2> QED BY <1>1, <2>1, <2>2, <2>4
<1>7. CASE StopFinish
  BY <1>1, <1>7 DEF StopFinish, svcVars
<1>8. ASSUME NEW w \in Wsis, Reject(w) \/ Establish(w) \/ Close(w) PROVE Fresh'
  BY <1>1, <1>8 DEF Reject, Establish, Close, svcVars, outVars
<1>9. ASSUME NEW w \in Wsis, NEW m \in Requests,
             \/ ReceiveUnauthenticated(w, m)
             \/ ReceiveSync(w, m)
             \/ ReceiveAsync(w, m)
      PROVE  Fresh'
  BY <1>1, <1>9 DEF ReceiveUnauthenticated, ReceiveSync, ReceiveAsync, Enqueue, Arrives,
                    svcVars, outVars, connVars
<1>10. CASE /\ UNCHANGED <<conn, sendQueue, queued, wire, lost, sent>>
            /\ \/ UNCHANGED svcVars
               \/ svc # "popped" /\ svc' \notin {"handling", "popped"}
  BY <1>1, <1>10 DEF svcVars
<1> QED
  BY <1>2, <1>3, <1>4, <1>5, <1>6, <1>7, <1>8, <1>9, <1>10, MessageSteps DEF MInv

-----------------------------------------------------------------------------
(* The lengths that the positions below are computed from.                 *)
LEMMA Lengths ==
  ASSUME TypeOK, NEW w \in Wsis, Suffix(w)
  PROVE  /\ Len(sendQueue[w]) \in Nat /\ Len(queued[w]) \in Nat /\ Len(wire[w]) \in Nat
         /\ Left(w) \in Nat /\ Left(w) + Len(sendQueue[w]) = Len(queued[w])
         /\ Gone(w) \in Nat
         /\ Carried(w) => Gone(w) = Left(w) - 1 /\ Left(w) \in 1..Len(queued[w])
         /\ ~Carried(w) => Gone(w) = Left(w)
<1>1. /\ sendQueue[w] \in Seq(Messages) /\ queued[w] \in Seq(Messages)
      /\ wire[w] \in Seq(Messages)
  BY DEF TypeOK
<1>2. /\ Len(sendQueue[w]) \in Nat /\ Len(queued[w]) \in Nat /\ Len(wire[w]) \in Nat
  BY <1>1, LenProperties
<1>3. Left(w) \in Int /\ Left(w) + Len(sendQueue[w]) = Len(queued[w])
  BY <1>1 DEF Left
<1>4. Gone(w) >= 0 /\ (Carried(w) => Gone(w) = Left(w) - 1)
      /\ (~Carried(w) => Gone(w) = Left(w))
  BY DEF Suffix, Gone
<1> QED BY <1>2, <1>3, <1>4

LEMMA UpTo ==
  \A k \in Nat : /\ \A i \in 1..k + 1 : i = k + 1 \/ i \in 1..k
                 /\ \A g \in Nat : \A i \in g + 1..k + 1 : i = k + 1 \/ i \in g + 1..k
  OBVIOUS

(* A new message is put on the send queue of w.                            *)
LEMMA PushOut ==
  ASSUME TypeOK, NEW w \in Wsis, Suffix(w), Written(w), InOrder(w),
         NEW m \in Messages, m \notin lost, m \notin Range(wire[w]),
         sendQueue'[w] = Append(sendQueue[w], m), queued'[w] = Append(queued[w], m),
         UNCHANGED <<wire[w], lost>>,
         (Carried(w)' <=> Carried(w)), Carried(w) => svcMsg' = svcMsg
  PROVE  (Suffix(w) /\ Written(w) /\ InOrder(w))'
<1> DEFINE k == Len(sendQueue[w])
           n == Len(queued[w])
<1>1. /\ k \in Nat /\ n \in Nat /\ Left(w) \in Nat /\ Left(w) + k = n
      /\ Gone(w) \in Nat /\ Gone(w) <= Left(w)
      /\ Carried(w) => Left(w) \in 1..n
  BY Lengths
<1>2. sendQueue[w] \in Seq(Messages) /\ queued[w] \in Seq(Messages)
  BY DEF TypeOK
<1>3. /\ Len(sendQueue'[w]) = k + 1 /\ sendQueue'[w][k + 1] = m
      /\ \A i \in 1..k : sendQueue'[w][i] = sendQueue[w][i]
  BY <1>2, PushAt
<1>4. /\ Len(queued'[w]) = n + 1 /\ queued'[w][n + 1] = m
      /\ \A i \in 1..n : queued'[w][i] = queued[w][i]
  BY <1>2, PushAt
<1>5. Left(w)' = Left(w)
  BY <1>1, <1>3, <1>4 DEF Left
<1>6. Gone(w)' = Gone(w)
  BY <1>5 DEF Gone
<1>7. Suffix(w)'
  <2>1. ASSUME NEW i \in 1..Len(sendQueue'[w])
        PROVE  sendQueue'[w][i] = queued'[w][Left(w) + i]
    <3>1. CASE i \in 1..k
      <4>1. Left(w) + i \in 1..n
        BY <1>1, <3>1
      <4> QED BY <3>1, <4>1, <1>3, <1>4 DEF Suffix
    <3>2. CASE i = k + 1
      <4>1. Left(w) + i = n + 1
        <5>1. k \in Nat /\ n \in Nat /\ Left(w) \in Nat /\ Left(w) + k = n
          BY <1>1
        <5> HIDE DEF k, n
        <5> QED BY <5>1, <3>2
      <4> QED BY <3>2, <4>1, <1>3, <1>4
    <3>3. i \in 1..k + 1
      BY <1>1, <1>3
    <3>4. i = k + 1 \/ i \in 1..k
      BY <1>1, <3>3, UpTo
    <3> QED BY <3>1, <3>2, <3>4
  <2>2. Carried(w) => svcMsg' = queued'[w][Left(w)]
    BY <1>1, <1>4 DEF Suffix
  <2> QED BY <2>1, <2>2, <1>1, <1>5, <1>6 DEF Suffix
<1>8. Written(w)'
  <2>1. Range(wire'[w]) = Range(wire[w]) /\ lost' = lost
    OBVIOUS
  <2>2. \A i \in 1..Gone(w) : queued'[w][i] = queued[w][i]
    BY <1>1, <1>4
  <2>3. \A i \in Gone(w) + 1..n + 1 :
          i = n + 1 \/ (i \in Gone(w) + 1..n /\ queued'[w][i] = queued[w][i])
    <3>1. \A i \in Gone(w) + 1..n + 1 : i = n + 1 \/ i \in Gone(w) + 1..n
      BY <1>1, UpTo
    <3>2. \A i \in Gone(w) + 1..n : i \in 1..n
      BY <1>1
    <3>3. \A i \in Gone(w) + 1..n : queued'[w][i] = queued[w][i]
      BY <3>2, <1>4
    <3> QED BY <3>1, <3>3
  <2> QED BY <2>1, <2>2, <2>3, <1>4, <1>6 DEF Written
<1>9. InOrder(w)'
  <2>1. \A i \in 1..Len(wire[w]) : wire[w][i] # m
    BY ElementsOf DEF TypeOK
  <2>2. \A a \in 1..n + 1 : a = n + 1 \/ a \in 1..n
    BY <1>1
  <2> QED BY <2>1, <2>2, <1>4 DEF InOrder
<1> QED BY <1>7, <1>8, <1>9

(* broadcast() writes a message that was not queued for w.                 *)
LEMMA BroadcastOut ==
  ASSUME TypeOK, NEW w \in Wsis, Suffix(w), Written(w), InOrder(w),
         NEW m \in Messages, m \notin Range(queued[w]),
         wire'[w] = Append(wire[w], m),
         UNCHANGED <<sendQueue[w], queued[w], lost, svcVars>>
  PROVE  (Suffix(w) /\ Written(w) /\ InOrder(w))'
<1> DEFINE n == Len(queued[w])
           k == Len(wire[w])
<1>1. n \in Nat /\ k \in Nat /\ Gone(w) \in Nat /\ Left(w) \in Nat /\ Gone(w) <= n
  BY Lengths
<1>2. (Carried(w)' <=> Carried(w)) /\ svcMsg' = svcMsg
  BY DEF Carried, svcVars
<1>3. Left(w)' = Left(w) /\ Gone(w)' = Gone(w)
  BY <1>2 DEF Left, Gone
<1>4. \A i \in 1..n : queued[w][i] # m
  BY ElementsOf DEF TypeOK
<1>5. wire[w] \in Seq(Messages)
  BY DEF TypeOK
<1>6. Suffix(w)'
  BY <1>2, <1>3 DEF Suffix
<1>7. Written(w)'
  <2>1. \A x : x # m => (x \in Range(wire'[w]) <=> x \in Range(wire[w]))
    BY <1>5, PushRange
  <2>2. /\ \A i \in 1..Gone(w) : i \in 1..n
        /\ \A i \in Gone(w) + 1..n : i \in 1..n
    BY <1>1
  <2> QED BY <2>1, <2>2, <1>3, <1>4 DEF Written
<1>8. InOrder(w)'
  <2>1. /\ Len(wire'[w]) = k + 1 /\ wire'[w][k + 1] = m
        /\ \A i \in 1..k : wire'[w][i] = wire[w][i]
    BY <1>5, PushAt
  <2>2. \A i \in 1..k + 1 : i = k + 1 \/ i \in 1..k
    BY <1>1
  <2> QED BY <2>1, <2>2, <1>4 DEF InOrder
<1> QED BY <1>6, <1>7, <1>8

(* The WRITEABLE handler takes the first message from the send queue.      *)
LEMMA PopOut ==
  ASSUME TypeOK, NEW w \in Wsis, Suffix(w), Written(w), InOrder(w),
         sendQueue[w] # <<>>, sendQueue'[w] = Tail(sendQueue[w]),
         svcMsg' = Head(sendQueue[w]), ~Carried(w), Carried(w)',
         UNCHANGED <<queued[w], wire[w], lost>>
  PROVE  (Suffix(w) /\ Written(w) /\ InOrder(w))'
<1> DEFINE k == Len(sendQueue[w])
           n == Len(queued[w])
<1>1. k \in Nat /\ n \in Nat /\ Left(w) \in Nat /\ Left(w) + k = n /\ Gone(w) = Left(w)
  BY Lengths
<1>2. /\ Len(sendQueue'[w]) = k - 1 /\ k \in Nat \ {0}
      /\ \A i \in 1..k - 1 : sendQueue'[w][i] = sendQueue[w][i + 1]
      /\ svcMsg' = sendQueue[w][1]
  BY PopAt DEF TypeOK
<1>3. Left(w)' = Left(w) + 1
  <2>1. Left(w)' = n - Len(sendQueue'[w]) /\ Left(w) = n - k
    BY DEF Left
  <2>2. Left(w)' = n - (k - 1)
    BY <2>1, <1>2
  <2>3. k \in Nat /\ n \in Nat
    BY <1>1
  <2> HIDE DEF n, k
  <2>4. n - (k - 1) = (n - k) + 1
    BY <2>3
  <2> QED BY <2>1, <2>2, <2>4
<1>4. Gone(w)' = Gone(w)
  BY <1>1, <1>3 DEF Gone
<1>5. Suffix(w)'
  <2>1. ASSUME NEW i \in 1..k - 1
        PROVE  sendQueue'[w][i] = queued[w][Left(w) + 1 + i]
    <3>1. i + 1 \in 1..k /\ Left(w) + (i + 1) = Left(w) + 1 + i
      BY <1>1
    <3> QED BY <3>1, <1>2 DEF Suffix
  <2>2. svcMsg' = queued[w][Left(w) + 1]
    BY <1>2 DEF Suffix
  <2> QED BY <2>1, <2>2, <1>1, <1>2, <1>3, <1>4 DEF Suffix
<1>6. Written(w)' /\ InOrder(w)'
  <2>1. Range(wire'[w]) = Range(wire[w])
    OBVIOUS
  <2> QED BY <2>1, <1>4 DEF Written, InOrder
<1> QED BY <1>5, <1>6

(* The message taken is written, or the write fails.                       *)
LEMMA WriteOut ==
  ASSUME TypeOK, Unique, NEW w \in Wsis, Suffix(w), Written(w), InOrder(w),
         Carried(w), ~Carried(w)', svcMsg \in Messages,
         \/ wire'[w] = Append(wire[w], svcMsg) /\ lost' = lost
         \/ wire'[w] = wire[w] /\ lost' = lost \cup {svcMsg},
         UNCHANGED <<queued[w], sendQueue[w]>>
  PROVE  (Suffix(w) /\ Written(w) /\ InOrder(w))'
<1> DEFINE n == Len(queued[w])
           k == Len(wire[w])
<1>1. /\ n \in Nat /\ k \in Nat /\ Left(w) \in 1..n /\ Gone(w) \in Nat
      /\ Left(w) = Gone(w) + 1
  BY Lengths
<1>2. Left(w)' = Left(w) /\ Gone(w)' = Left(w)
  BY DEF Left, Gone
<1>3. svcMsg = queued[w][Left(w)] /\ svcMsg \notin lost /\ svcMsg \notin Range(wire[w])
  BY <1>1 DEF Suffix, Written
<1>4. \A i \in 1..n : i # Left(w) => queued[w][i] # svcMsg
  BY <1>1, <1>3 DEF Unique
<1>5. wire[w] \in Seq(Messages)
  BY DEF TypeOK
<1>6. Suffix(w)'
  BY <1>1, <1>2 DEF Suffix
<1>7. Written(w)'
  <2>1. ASSUME NEW m, m # svcMsg
        PROVE  (m \in Range(wire'[w]) <=> m \in Range(wire[w])) /\ (m \in lost' <=> m \in lost)
    BY <2>1, <1>5, PushRange
  <2>2. svcMsg \in lost' <=> svcMsg \notin Range(wire'[w])
    BY <1>3, <1>5, PushRange
  <2>3. \A i \in 1..Left(w) : i \in 1..n /\ (i = Left(w) \/ i \in 1..Gone(w))
    BY <1>1
  <2>4. \A i \in Left(w) + 1..n : i \in 1..n /\ i # Left(w) /\ i \in Gone(w) + 1..n
    BY <1>1
  <2>5. ASSUME NEW i \in 1..Left(w)
        PROVE  queued[w][i] \in lost' <=> queued[w][i] \notin Range(wire'[w])
    <3>1. CASE i = Left(w)
      BY <3>1, <2>2, <1>3
    <3>2. CASE i # Left(w)
      <4>1. queued[w][i] # svcMsg /\ i \in 1..Gone(w)
        BY <3>2, <2>3, <1>4
      <4> DEFINE m == queued[w][i]
      <4>2. m # svcMsg /\ (m \in lost <=> m \notin Range(wire[w]))
        BY <4>1 DEF Written
      <4> HIDE DEF m
      <4>3. /\ m \in Range(wire'[w]) <=> m \in Range(wire[w])
            /\ m \in lost' <=> m \in lost
        BY <4>2, <2>1
      <4> QED BY <4>2, <4>3 DEF m
    <3> QED BY <3>1, <3>2
  <2>6. ASSUME NEW i \in Left(w) + 1..n
        PROVE  queued[w][i] \notin lost' /\ queued[w][i] \notin Range(wire'[w])
    <3>1. queued[w][i] # svcMsg /\ i \in Gone(w) + 1..n
      BY <2>4, <1>4
    <3> DEFINE m == queued[w][i]
    <3>2. m # svcMsg /\ m \notin lost /\ m \notin Range(wire[w])
      BY <3>1 DEF Written
    <3> HIDE DEF m
    <3>3. /\ m \in Range(wire'[w]) <=> m \in Range(wire[w])
          /\ m \in lost' <=> m \in lost
      BY <3>2, <2>1
    <3> QED BY <3>2, <3>3 DEF m
  <2> QED BY <2>5, <2>6, <1>2 DEF Written
<1>8. InOrder(w)'
  <2>1. CASE wire'[w] = wire[w]
    BY <2>1 DEF InOrder
  <2>2. CASE wire'[w] = Append(wire[w], svcMsg)
    <3>1. /\ Len(wire'[w]) = k + 1 /\ wire'[w][k + 1] = svcMsg
          /\ \A i \in 1..k : wire'[w][i] = wire[w][i]
      BY <2>2, <1>5, PushAt
    <3>2. \A i \in 1..k : wire[w][i] \in Range(wire[w])
      BY <1>5, ElementsOf
    <3>3. \A i \in 1..k, a \in 1..n : wire[w][i] = queued[w][a] => a < Left(w)
      <4>1. \A a \in 1..n : a < Left(w) \/ a \in Gone(w) + 1..n
        BY <1>1
      <4> QED BY <4>1, <3>2 DEF Written
    <3>4. ASSUME NEW i \in 1..k + 1, NEW j \in 1..k + 1, NEW a \in 1..n, NEW b \in 1..n,
                 i < j, wire'[w][i] = queued[w][a], wire'[w][j] = queued[w][b]
          PROVE  a < b
      <4>1. i \in 1..k /\ (j = k + 1 \/ j \in 1..k)
        BY <1>1, <3>4
      <4>2. CASE j = k + 1
        <5>1. b = Left(w)
          BY <4>2, <3>1, <3>4, <1>4
        <5> QED BY <5>1, <4>1, <3>1, <3>3, <3>4
      <4>3. CASE j \in 1..k
        BY <4>1, <4>3, <3>1, <3>4 DEF InOrder
      <4> QED BY <4>1, <4>2, <4>3
    <3> QED BY <3>1, <3>4 DEF InOrder
  <2> QED BY <2>1, <2>2
<1> QED BY <1>6, <1>7, <1>8

(* Every step, for a connection that is open after it.                     *)
LEMMA OutgoingStep ==
  ASSUME MInv, [Next]_vars PROVE Outgoing'
<1> SUFFICES ASSUME NEW v \in Wsis, conn'[v] = "open"
             PROVE  (Suffix(v) /\ Written(v) /\ InOrder(v))'
  BY DEF Outgoing
<1>1. TypeOK /\ Fresh /\ Unique
  BY DEF MInv, Inv
<1>2. conn[v] = "open" => Suffix(v) /\ Written(v) /\ InOrder(v)
  BY DEF MInv, Outgoing
<1>3. /\ sendQueue[v] \in Seq(Messages) /\ queued[v] \in Seq(Messages)
      /\ wire[v] \in Seq(Messages)
  BY Typed
(* Steps that leave the messages of v alone.                               *)
<1>4. ASSUME conn[v] = "open", UNCHANGED <<sendQueue[v], queued[v], wire[v], lost>>,
             (Carried(v)' <=> Carried(v)), Carried(v) => svcMsg' = svcMsg
      PROVE  (Suffix(v) /\ Written(v) /\ InOrder(v))'
  BY <1>1, <1>2, <1>4, SameOut
<1>5. ASSUME NEW w \in Wsis, NEW m \in Pushes, SendPush(w, m)
      PROVE  (Suffix(v) /\ Written(v) /\ InOrder(v))'
  <2>1. /\ m \in Messages /\ m \notin sent /\ conn[v] = "open"
        /\ sendQueue' = [sendQueue EXCEPT ![w] = Append(@, m)]
        /\ queued' = [queued EXCEPT ![w] = Append(@, m)]
        /\ UNCHANGED <<svc, svcWsi, svcMsg, wire, lost>>
    BY <1>5 DEF SendPush, Messages, svcVars, connVars
  <2>2. (Carried(v)' <=> Carried(v)) /\ svcMsg' = svcMsg
    BY <2>1 DEF Carried
  <2>3. m \notin lost /\ m \notin Range(wire[v])
    BY <2>1, <1>1 DEF Fresh
  <2>4. CASE v = w
    <3>1. sendQueue'[v] = Append(sendQueue[v], m) /\ queued'[v] = Append(queued[v], m)
      BY <2>1, <2>4, Typed
    <3>2. UNCHANGED <<wire[v], lost>> /\ m \in Messages
      BY <2>1
    <3> QED BY <3>1, <3>2, <2>1, <2>2, <2>3, <1>1, <1>2, PushOut
  <2>5. CASE v # w
    <3>1. sendQueue'[v] = sendQueue[v] /\ queued'[v] = queued[v]
      BY <2>1, <2>5, Typed
    <3> QED BY <3>1, <2>1, <2>2, <1>4
  <2> QED BY <2>4, <2>5
<1>6. ASSUME NEW m \in Pushes, Broadcast(m)
      PROVE  (Suffix(v) /\ Written(v) /\ InOrder(v))'
  <2>1. /\ m \in Messages /\ m \notin sent /\ conn[v] = "open"
        /\ UNCHANGED <<sendQueue, queued, lost, svcVars>>
        /\ wire'[v] = wire[v] \/ wire'[v] = Append(wire[v], m)
    BY <1>6 DEF Broadcast, Messages, connVars
  <2>2. (Carried(v)' <=> Carried(v)) /\ svcMsg' = svcMsg
    BY <2>1 DEF Carried, svcVars
  <2>3. m \notin Range(queued[v])
    BY <2>1, <1>1 DEF Fresh
  <2>4. UNCHANGED <<sendQueue[v], queued[v], lost, svcVars>>
    BY <2>1
  <2>5. CASE wire'[v] = Append(wire[v], m)
    BY <2>5, <2>1, <2>3, <2>4, <1>1, <1>2, BroadcastOut
  <2>6. CASE wire'[v] = wire[v]
    BY <2>6, <2>1, <2>2, <2>4, <1>4
  <2> QED BY <2>1, <2>5, <2>6
<1>7. CASE HandlerResponds
  <2>1. /\ svc = "handling" /\ svc' = "pushed" /\ svcWsi' = svcWsi
        /\ svcWsi \in Wsis /\ svcMsg \in Messages /\ svcMsg' = svcMsg
        /\ conn[v] = "open"
        /\ sendQueue' = [sendQueue EXCEPT ![svcWsi] = Append(@, svcMsg)]
        /\ queued' = [queued EXCEPT ![svcWsi] = Append(@, svcMsg)]
        /\ UNCHANGED <<wire, lost>>
    BY <1>7, Typed DEF HandlerResponds, ServiceStep, Busy, connVars
  <2>2. ~Carried(v) /\ ~Carried(v)'
    BY <2>1 DEF Carried
  <2>3. svcMsg \notin lost /\ svcMsg \notin Range(wire[v])
    BY <2>1, <1>1 DEF Fresh
  <2>4. CASE v = svcWsi
    <3>1. /\ sendQueue'[v] = Append(sendQueue[v], svcMsg)
          /\ queued'[v] = Append(queued[v], svcMsg)
      BY <2>1, <2>4, Typed
    <3>2. UNCHANGED <<wire[v], lost>> /\ svcMsg \in Messages /\ conn[v] = "open"
          /\ (Carried(v)' <=> Carried(v))
      BY <2>1, <2>2
    <3> QED BY <3>1, <3>2, <2>2, <2>3, <1>1, <1>2, PushOut
  <2>5. CASE v # svcWsi
    <3>1. sendQueue'[v] = sendQueue[v] /\ queued'[v] = queued[v]
      BY <2>1, <2>5, Typed
    <3>2. UNCHANGED <<sendQueue[v], queued[v], wire[v], lost>> /\ (Carried(v)' <=> Carried(v))
      BY <3>1, <2>1, <2>2
    <3> QED BY <3>2, <2>1, <2>2, <1>4
  <2> QED BY <2>4, <2>5
<1>8. CASE WriteablePop
  <2>1. /\ svc = "found" /\ svc' = "popped" /\ svcWsi' = svcWsi
        /\ svcWsi \in Wsis /\ conn[v] = "open"
        /\ sendQueue[svcWsi] # <<>> /\ svcMsg' = Head(sendQueue[svcWsi])
        /\ sendQueue' = [sendQueue EXCEPT ![svcWsi] = Tail(@)]
        /\ UNCHANGED <<queued, wire, lost>>
    BY <1>8, Typed DEF WriteablePop, ServiceStep, Busy, connVars
  <2>2. ~Carried(v) /\ (Carried(v)' <=> v = svcWsi)
    BY <2>1 DEF Carried
  <2>3. UNCHANGED <<queued[v], wire[v], lost>>
    BY <2>1
  <2>4. CASE v = svcWsi
    <3>1. /\ sendQueue'[v] = Tail(sendQueue[v])
          /\ sendQueue[v] # <<>> /\ svcMsg' = Head(sendQueue[v]) /\ conn[v] = "open"
      BY <2>1, <2>4, Typed
    <3> QED BY <3>1, <2>2, <2>3, <2>4, <1>1, <1>2, PopOut
  <2>5. CASE v # svcWsi
    <3>1. sendQueue'[v] = sendQueue[v]
      BY <2>1, <2>5, Typed
    <3>2. UNCHANGED <<sendQueue[v], queued[v], wire[v], lost>> /\ (Carried(v)' <=> Carried(v))
      BY <3>1, <2>2, <2>3, <2>5
    <3> QED BY <3>2, <2>1, <2>2, <1>4
  <2> QED BY <2>4, <2>5
<1>9. CASE WriteableWrite
  <2>1. /\ svc = "popped" /\ svc' = "wrote" /\ svcWsi' = svcWsi
        /\ svcWsi \in Wsis /\ svcMsg \in Messages /\ svcMsg' = svcMsg
        /\ conn[v] = "open" /\ conn[svcWsi] = "open"
        /\ \/ wire' = [wire EXCEPT ![svcWsi] = Append(@, svcMsg)] /\ lost' = lost
           \/ wire' = wire /\ lost' = lost \cup {svcMsg}
        /\ UNCHANGED <<queued, sendQueue>>
    BY <1>9, Typed DEF WriteableWrite, ServiceStep, Busy, connVars
  <2>2. UNCHANGED <<queued[v], sendQueue[v]>>
    BY <2>1
  <2>3. ~Carried(v)' /\ (Carried(v) <=> v = svcWsi)
    BY <2>1 DEF Carried
  <2>4. CASE v = svcWsi
    <3>1. \/ wire'[v] = Append(wire[v], svcMsg) /\ lost' = lost
          \/ wire'[v] = wire[v] /\ lost' = lost \cup {svcMsg}
      BY <2>1, <2>4, Typed
    <3>2. svcMsg \in Messages /\ conn[v] = "open"
      BY <2>1
    <3> QED BY <3>1, <3>2, <2>2, <2>3, <2>4, <1>1, <1>2, WriteOut
  <2>5. CASE v # svcWsi
    <3>1. wire'[v] = wire[v]
      BY <2>1, <2>5, Typed
    <3>2. svcMsg = queued[svcWsi][Left(svcWsi)] /\ Left(svcWsi) \in 1..Len(queued[svcWsi])
      <4>1. Suffix(svcWsi) /\ Carried(svcWsi)
        BY <2>1 DEF MInv, Outgoing, Carried
      <4> QED BY <4>1, <2>1, <1>1, Lengths DEF Suffix
    <3>3. \A i \in 1..Len(queued[v]) : queued[v][i] # svcMsg
      BY <3>2, <2>1, <2>5, <1>1 DEF Unique
    <3>4. \A i \in 1..Len(queued[v]) : queued[v][i] \in lost' <=> queued[v][i] \in lost
      BY <3>3, <2>1
    <3>5. UNCHANGED <<sendQueue[v], queued[v], wire[v]>> /\ (Carried(v)' <=> Carried(v))
      BY <3>1, <2>2, <2>3, <2>5
    <3> QED BY <3>4, <3>5, <2>1, <2>3, <2>5, <1>1, <1>2, SameOut
  <2> QED BY <2>4, <2>5
<1>10. CASE StopFinish
  BY <1>10 DEF StopFinish
<1>11. ASSUME NEW w \in Wsis, Establish(w)
       PROVE  (Suffix(v) /\ Written(v) /\ InOrder(v))'
  <2>1. /\ svc = "service" /\ conn[w] = "new" /\ conn' = [conn EXCEPT ![w] = "open"]
        /\ UNCHANGED <<svc, svcMsg, sendQueue, queued, wire, lost>>
    BY <1>11 DEF Establish, svcVars, outVars
  <2>2. ~Carried(v) /\ ~Carried(v)'
    BY <2>1 DEF Carried
  <2>3. CASE v # w
    BY <2>1, <2>2, <2>3, <1>4, Typed
  <2>4. CASE v = w
    <3>1. queued'[v] = <<>> /\ sendQueue'[v] = <<>>
      BY <2>1, <2>4, <1>1 DEF Fresh, MInv, Inv, Connected
    <3>2. Len(queued'[v]) = 0 /\ Len(sendQueue'[v]) = 0
      BY <3>1
    <3>3. Left(v)' = 0 /\ Gone(v)' = 0
      BY <3>2, <2>2 DEF Left, Gone
    <3> QED BY <3>2, <3>3, <2>2 DEF Suffix, Written, InOrder
  <2> QED BY <2>3, <2>4
<1>12. ASSUME NEW w \in Wsis, Reject(w) \/ Close(w)
       PROVE  (Suffix(v) /\ Written(v) /\ InOrder(v))'
  <2>1. /\ conn' = [conn EXCEPT ![w] = "closed"]
        /\ sendQueue' = sendQueue \/ sendQueue' = [sendQueue EXCEPT ![w] = <<>>]
        /\ UNCHANGED <<svc, svcWsi, svcMsg, queued, wire, lost>>
    BY <1>12 DEF Reject, Close, svcVars, outVars
  <2>2. v # w /\ conn[v] = "open" /\ sendQueue'[v] = sendQueue[v]
    BY <2>1, Typed
  <2>3. (Carried(v)' <=> Carried(v))
    BY <2>1 DEF Carried
  <2> QED BY <2>1, <2>2, <2>3, <1>4
<1>13. ASSUME NEW w \in Wsis, NEW m \in Requests,
              \/ ReceiveUnauthenticated(w, m)
              \/ ReceiveSync(w, m)
              \/ ReceiveAsync(w, m)
       PROVE  (Suffix(v) /\ Written(v) /\ InOrder(v))'
  <2>1. /\ svc = "service" /\ svc' \in {"service", "handling"}
        /\ conn' = conn \/ conn' = [conn EXCEPT ![w] = "hungup"]
        /\ UNCHANGED <<sendQueue, queued, wire, lost>>
    BY <1>13 DEF ReceiveUnauthenticated, ReceiveSync, ReceiveAsync, Enqueue, Arrives,
                 svcVars, outVars, connVars
  <2>2. conn[v] = "open"
    BY <2>1, Typed
  <2>3. ~Carried(v) /\ ~Carried(v)'
    BY <2>1 DEF Carried
  <2> QED BY <2>1, <2>2, <2>3, <1>4
<1>14. CASE /\ UNCHANGED <<conn, sendQueue, queued, wire, lost, sent>>
            /\ \/ UNCHANGED svcVars
               \/ svc # "popped" /\ svc' \notin {"handling", "popped"}
  <2>1. (Carried(v)' <=> Carried(v)) /\ (Carried(v) => svcMsg' = svcMsg)
    BY <1>14 DEF Carried, svcVars
  <2> QED BY <2>1, <1>14, <1>4
<1> QED
  BY <1>5, <1>6, <1>7, <1>8, <1>9, <1>10, <1>11, <1>12, <1>13, <1>14, MessageSteps
  DEF MInv

-----------------------------------------------------------------------------
LEMMA InitMInv == Init => MInv
<1> SUFFICES ASSUME Init PROVE MInv
  OBVIOUS
<1>1. Inv
  BY InitInv
<1>2. /\ svc = "none" /\ lost = {}
      /\ \A w \in Wsis : queued[w] = <<>> /\ wire[w] = <<>> /\ conn[w] = "new"
  BY DEF Init
<1>3. Range(<<>>) = {}
  BY DEF Range
<1>4. Fresh
  BY <1>2, <1>3 DEF Fresh
<1>5. Unique
  BY <1>2 DEF Unique
<1>6. Outgoing
  BY <1>2 DEF Outgoing
<1> QED BY <1>1, <1>4, <1>5, <1>6 DEF MInv

LEMMA NextMInv == MInv /\ [Next]_vars => MInv'
  BY NextInv, FreshStep, UniqueStep, OutgoingStep DEF MInv

LEMMA MInvariance == Spec => []MInv
  BY InitMInv, NextMInv, PTL DEF Spec

-----------------------------------------------------------------------------
(* What Outgoing says of one message, the i-th that was queued for w.      *)
LEMMA WhereItIs ==
  ASSUME MInv, NEW w \in Wsis, conn[w] = "open", NEW i \in 1..Len(queued[w])
  PROVE  /\ queued[w][i] \in Pending(w) <=> i > Left(w)
         /\ queued[w][i] \in InHand(w) <=> Carried(w) /\ i = Left(w)
         /\ i > Gone(w) => queued[w][i] \notin lost /\ queued[w][i] \notin Range(wire[w])
         /\ i <= Gone(w) => (queued[w][i] \in lost <=> queued[w][i] \notin Range(wire[w]))
<1> DEFINE n == Len(queued[w])
<1>1. TypeOK /\ Unique /\ Suffix(w) /\ Written(w)
  BY DEF MInv, Inv, Outgoing
<1>2. /\ Len(sendQueue[w]) \in Nat /\ n \in Nat
      /\ Left(w) \in Nat /\ Left(w) + Len(sendQueue[w]) = n
      /\ Gone(w) \in Nat /\ Gone(w) <= Left(w)
      /\ Carried(w) => Gone(w) = Left(w) - 1 /\ Left(w) \in 1..n
  BY <1>1, Lengths
<1>3. \A j \in 1..n : queued[w][j] = queued[w][i] => j = i
  BY <1>1 DEF Unique
<1>4. queued[w][i] \in Pending(w) <=> i > Left(w)
  <2>1. ASSUME queued[w][i] \in Pending(w) PROVE i > Left(w)
    <3>1. PICK p \in 1..Len(sendQueue[w]) : sendQueue[w][p] = queued[w][i]
      BY <2>1 DEF Pending
    <3>2. sendQueue[w][p] = queued[w][Left(w) + p]
      BY <1>1 DEF Suffix
    <3>3. Left(w) + p \in 1..n
      BY <1>2
    <3> QED BY <3>1, <3>2, <3>3, <1>2, <1>3
  <2>2. ASSUME i > Left(w) PROVE queued[w][i] \in Pending(w)
    <3>1. i - Left(w) \in 1..Len(sendQueue[w]) /\ Left(w) + (i - Left(w)) = i
      BY <2>2, <1>2
    <3>2. sendQueue[w][i - Left(w)] = queued[w][i]
      BY <3>1, <1>1 DEF Suffix
    <3> QED BY <3>1, <3>2 DEF Pending
  <2> QED BY <2>1, <2>2
<1>5. queued[w][i] \in InHand(w) <=> Carried(w) /\ i = Left(w)
  BY <1>1, <1>2, <1>3 DEF InHand, Carried, Suffix
<1>6. i > Gone(w) => i \in Gone(w) + 1..n
  BY <1>2
<1>7. i <= Gone(w) => i \in 1..Gone(w)
  BY <1>2
<1> QED BY <1>1, <1>4, <1>5, <1>6, <1>7 DEF Written

LEMMA OnePlace ==
  ASSUME NEW A \in BOOLEAN, NEW B \in BOOLEAN, NEW C \in BOOLEAN, NEW D \in BOOLEAN,
         \/ A /\ ~B /\ ~C /\ ~D
         \/ ~A /\ B /\ ~C /\ ~D
         \/ ~A /\ ~B /\ C /\ ~D
         \/ ~A /\ ~B /\ ~C /\ D
  PROVE  \E k \in 1..4 : /\ <<A, B, C, D>>[k]
                         /\ \A j \in 1..4 : <<A, B, C, D>>[j] => j = k
<1> DEFINE p == <<A, B, C, D>>
<1>1. p[1] = A /\ p[2] = B /\ p[3] = C /\ p[4] = D
  OBVIOUS
<1>2. 1..4 = {1, 2, 3, 4}
  OBVIOUS
<1> HIDE DEF p
<1>3. \E k \in 1..4 : p[k] /\ \A j \in 1..4 : p[j] => j = k
  BY <1>1, <1>2
<1> QED BY <1>3 DEF p

LEMMA MessagesKept == MInv => EachMessageInOnePlace
<1> SUFFICES ASSUME MInv, NEW w \in Wsis, conn[w] = "open", NEW i \in 1..Len(queued[w])
             PROVE  LET m == queued[w][i]
                        places == << m \in Pending(w), m \in InHand(w),
                                     m \in Range(wire[w]), m \in lost >>
                    IN \E k \in 1..4 : places[k] /\ \A j \in 1..4 : places[j] => j = k
  BY DEF EachMessageInOnePlace
<1> DEFINE m == queued[w][i]
<1>1. /\ m \in Pending(w) <=> i > Left(w)
      /\ m \in InHand(w) <=> Carried(w) /\ i = Left(w)
      /\ i > Gone(w) => m \notin lost /\ m \notin Range(wire[w])
      /\ i <= Gone(w) => (m \in lost <=> m \notin Range(wire[w]))
  BY WhereItIs
<1>2. /\ Left(w) \in Nat /\ Gone(w) \in Nat
      /\ Carried(w) => Gone(w) = Left(w) - 1
      /\ ~Carried(w) => Gone(w) = Left(w)
  BY Lengths DEF MInv, Inv, Outgoing
<1>3. \/ i <= Gone(w) /\ ~(i > Left(w)) /\ i # Left(w)
      \/ i <= Gone(w) /\ ~(i > Left(w)) /\ ~Carried(w)
      \/ i > Gone(w) /\ i = Left(w) /\ Carried(w) /\ ~(i > Left(w))
      \/ i > Gone(w) /\ i > Left(w) /\ i # Left(w)
  BY <1>2
<1> HIDE DEF m
<1>4. \/ m \in Pending(w) /\ m \notin InHand(w) /\ m \notin Range(wire[w]) /\ m \notin lost
      \/ m \notin Pending(w) /\ m \in InHand(w) /\ m \notin Range(wire[w]) /\ m \notin lost
      \/ m \notin Pending(w) /\ m \notin InHand(w) /\ m \in Range(wire[w]) /\ m \notin lost
      \/ m \notin Pending(w) /\ m \notin InHand(w) /\ m \notin Range(wire[w]) /\ m \in lost
  BY <1>1, <1>3
<1> DEFINE A == m \in Pending(w)
           B == m \in InHand(w)
           C == m \in Range(wire[w])
           D == m \in lost
<1>5. A \in BOOLEAN /\ B \in BOOLEAN /\ C \in BOOLEAN /\ D \in BOOLEAN
  OBVIOUS
<1>6. \/ A /\ ~B /\ ~C /\ ~D
      \/ ~A /\ B /\ ~C /\ ~D
      \/ ~A /\ ~B /\ C /\ ~D
      \/ ~A /\ ~B /\ ~C /\ D
  BY <1>4
<1> HIDE DEF A, B, C, D
<1>7. \E k \in 1..4 : <<A, B, C, D>>[k] /\ \A j \in 1..4 : <<A, B, C, D>>[j] => j = k
  BY <1>5, <1>6, OnePlace
<1> QED BY <1>7 DEF m, A, B, C, D

(* Where position i of three sequences put together lies.                  *)
LEMMA Joined ==
  ASSUME NEW s \in Seq(Messages), NEW t \in Seq(Messages), NEW u \in Seq(Messages),
         NEW i \in 1..Len(s \o t \o u)
  PROVE  \/ i \in 1..Len(s) /\ (s \o t \o u)[i] = s[i]
         \/ i - Len(s) \in 1..Len(t) /\ (s \o t \o u)[i] = t[i - Len(s)]
         \/ /\ i - Len(s) - Len(t) \in 1..Len(u)
            /\ (s \o t \o u)[i] = u[i - Len(s) - Len(t)]
<1>1. /\ s \o t \in Seq(Messages) /\ Len(s \o t) = Len(s) + Len(t)
      /\ \A j \in 1..Len(s) + Len(t) :
           (s \o t)[j] = IF j <= Len(s) THEN s[j] ELSE t[j - Len(s)]
  BY ConcatProperties
<1>2. /\ Len(s \o t \o u) = Len(s) + Len(t) + Len(u)
      /\ (s \o t \o u)[i] = IF i <= Len(s) + Len(t) THEN (s \o t)[i]
                                                   ELSE u[i - (Len(s) + Len(t))]
  BY <1>1, ConcatProperties
<1>3. Len(s) \in Nat /\ Len(t) \in Nat /\ Len(u) \in Nat
  OBVIOUS
<1>4. CASE i <= Len(s)
  BY <1>1, <1>2, <1>3, <1>4
<1>5. CASE i > Len(s) /\ i <= Len(s) + Len(t)
  BY <1>1, <1>2, <1>3, <1>5
<1>6. CASE i > Len(s) + Len(t)
  <2>1. i - (Len(s) + Len(t)) = i - Len(s) - Len(t)
    BY <1>3
  <2> QED BY <2>1, <1>2, <1>3, <1>6
<1> QED BY <1>3, <1>4, <1>5, <1>6

LEMMA OrderKept == MInv => FifoPerClient
<1> SUFFICES ASSUME MInv, NEW w \in Wsis, conn[w] = "open"
             PROVE  LET hand == IF svcWsi = w /\ svc = "popped" THEN <<svcMsg>> ELSE <<>>
                        out  == wire[w] \o hand \o sendQueue[w]
                    IN \A i, j \in 1..Len(out), a, b \in 1..Len(queued[w]) :
                         i < j /\ out[i] = queued[w][a] /\ out[j] = queued[w][b] => a < b
  BY DEF FifoPerClient
<1> DEFINE hand == IF svcWsi = w /\ svc = "popped" THEN <<svcMsg>> ELSE <<>>
           out  == wire[w] \o hand \o sendQueue[w]
           n    == Len(queued[w])
<1>1. TypeOK /\ Unique /\ Suffix(w) /\ Written(w) /\ InOrder(w)
  BY DEF MInv, Inv, Outgoing
<1>2. /\ Len(sendQueue[w]) \in Nat /\ n \in Nat /\ Len(wire[w]) \in Nat
      /\ Left(w) \in Nat /\ Left(w) + Len(sendQueue[w]) = n
      /\ Gone(w) \in Nat
      /\ Carried(w) => Gone(w) = Left(w) - 1 /\ Left(w) \in 1..n
      /\ ~Carried(w) => Gone(w) = Left(w)
  BY <1>1, Lengths
<1>3. /\ hand \in Seq(Messages)
      /\ Carried(w) => Len(hand) = 1 /\ hand[1] = svcMsg
      /\ ~Carried(w) => Len(hand) = 0
  <2>1. CASE Carried(w)
    <3>1. svcMsg \in Messages /\ hand = <<svcMsg>>
      BY <2>1, Typed DEF Carried
    <3> HIDE DEF hand
    <3> QED BY <3>1, <2>1
  <2>2. CASE ~Carried(w)
    <3>1. hand = <<>>
      BY <2>2 DEF Carried
    <3> HIDE DEF hand
    <3> QED BY <3>1, <2>2
  <2> QED BY <2>1, <2>2
<1>4. wire[w] \in Seq(Messages) /\ sendQueue[w] \in Seq(Messages)
  BY <1>1 DEF TypeOK
<1> HIDE DEF hand
(* In each part, which of the messages queued stands at a position.        *)
<1>5. ASSUME NEW i \in 1..Len(wire[w]), NEW a \in 1..n, wire[w][i] = queued[w][a]
      PROVE  a <= Gone(w)
  <2>1. queued[w][a] \in Range(wire[w])
    BY <1>4, <1>5, ElementsOf
  <2>2. a > Gone(w) => queued[w][a] \notin Range(wire[w])
    BY WhereItIs
  <2> QED BY <2>1, <2>2, <1>2
<1>6. ASSUME NEW i \in 1..Len(hand), NEW a \in 1..n, hand[i] = queued[w][a]
      PROVE  Carried(w) /\ a = Left(w)
  <2>1. Carried(w)
    <3>1. ~Carried(w) => 1..Len(hand) = {}
      BY <1>3
    <3> QED BY <3>1
  <2>2. Len(hand) = 1 /\ hand[1] = svcMsg
    BY <2>1, <1>3
  <2>3. i = 1
    BY <2>2
  <2>4. queued[w][a] = queued[w][Left(w)]
    BY <2>1, <2>2, <2>3, <1>1, <1>6 DEF Suffix
  <2> QED BY <2>1, <2>4, <1>1, <1>2 DEF Unique
<1>7. ASSUME NEW i \in 1..Len(sendQueue[w]), NEW a \in 1..n, sendQueue[w][i] = queued[w][a]
      PROVE  a = Left(w) + i
  <2>1. Left(w) + i \in 1..n /\ sendQueue[w][i] = queued[w][Left(w) + i]
    BY <1>1, <1>2 DEF Suffix
  <2>2. \A c, d \in 1..n : queued[w][c] = queued[w][d] => c = d
    BY <1>1 DEF Unique
  <2> QED BY <2>1, <2>2, <1>7
<1>8. ASSUME NEW i \in 1..Len(out), NEW j \in 1..Len(out), NEW a \in 1..n, NEW b \in 1..n,
             i < j, out[i] = queued[w][a], out[j] = queued[w][b]
      PROVE  a < b
  <2> DEFINE l == Len(wire[w])
             h == Len(hand)
  <2>1. \/ i \in 1..l /\ out[i] = wire[w][i]
        \/ i - l \in 1..h /\ out[i] = hand[i - l]
        \/ i - l - h \in 1..Len(sendQueue[w]) /\ out[i] = sendQueue[w][i - l - h]
    BY <1>3, <1>4, Joined
  <2>2. \/ j \in 1..l /\ out[j] = wire[w][j]
        \/ j - l \in 1..h /\ out[j] = hand[j - l]
        \/ j - l - h \in 1..Len(sendQueue[w]) /\ out[j] = sendQueue[w][j - l - h]
    BY <1>3, <1>4, Joined
  <2>3. l \in Nat /\ h \in Nat /\ i \in Int /\ j \in Int
    BY <1>2, <1>3, LenProperties
  <2> HIDE DEF out, l, h
  <2>4. CASE j \in 1..l /\ out[j] = wire[w][j]
    <3>1. i \in 1..l /\ out[i] = wire[w][i]
      BY <2>1, <2>3, <2>4, <1>8
    <3> QED BY <3>1, <2>4, <1>1, <1>8 DEF InOrder, l
  <2>5. CASE j - l \in 1..h /\ out[j] = hand[j - l]
    <3>1. Carried(w) /\ b = Left(w)
      BY <2>5, <1>6, <1>8 DEF h
    <3>2. h = 1
      BY <3>1, <1>3 DEF h
    <3>3. i \in 1..l /\ out[i] = wire[w][i]
      BY <2>1, <2>3, <2>5, <3>2, <1>8
    <3>4. a <= Gone(w)
      BY <3>3, <1>5, <1>8 DEF l
    <3> QED BY <3>1, <3>4, <1>2
  <2>6. CASE j - l - h \in 1..Len(sendQueue[w]) /\ out[j] = sendQueue[w][j - l - h]
    <3>1. b = Left(w) + (j - l - h)
      BY <2>6, <1>7, <1>8
    <3>2. CASE i \in 1..l /\ out[i] = wire[w][i]
      <4>1. a <= Gone(w)
        BY <3>2, <1>5, <1>8 DEF l
      <4>2. Gone(w) <= Left(w) /\ j - l - h >= 1
        BY <1>2, <2>6
      <4> QED BY <3>1, <4>1, <4>2, <1>2, <2>3
    <3>3. CASE i - l \in 1..h /\ out[i] = hand[i - l]
      <4>1. a = Left(w)
        BY <3>3, <1>6, <1>8 DEF h
      <4>2. j - l - h >= 1
        BY <2>6
      <4> QED BY <3>1, <4>1, <4>2, <1>2, <2>3
    <3>4. CASE i - l - h \in 1..Len(sendQueue[w]) /\ out[i] = sendQueue[w][i - l - h]
      <4>1. a = Left(w) + (i - l - h)
        BY <3>4, <1>7, <1>8
      <4> QED BY <3>1, <4>1, <1>2, <1>8, <2>3
    <3> QED BY <3>2, <3>3, <3>4, <2>1
  <2> QED BY <2>2, <2>4, <2>5, <2>6
<1> QED BY <1>8 DEF hand

(* No message pushed for an open connection disappears or is doubled on    *)
(* its way through the send queue and the WRITEABLE handler.               *)
THEOREM MessagesAreKept == Spec => []EachMessageInOnePlace
  BY MInvariance, MessagesKept, PTL

(* What the handlers and send_to_client() push for a client leaves in the  *)
(* order of the pushes, whatever broadcast() writes in between.            *)
THEOREM MessagesLeaveInOrder == Spec => []FifoPerClient
  BY MInvariance, OrderKept, PTL

-----------------------------------------------------------------------------
(* WebSocketServer implements ResponseChannel, for any connections,        *)
(* messages, modes and number of starts: every step of the three threads   *)
(* is a step of the channel or leaves it as it is.                         *)

State == [w \in Wsis |-> IF conn[w] = "hungup" THEN "open" ELSE conn[w]]
Waiting == [w \in Wsis |-> InChannel(w)]
Hand(w) == IF svc = "popped" /\ svcWsi = w THEN <<svcMsg>> ELSE <<>>

(* What the steps below use of the inductive invariant.                    *)
LEMMA Facts ==
  ASSUME Inv
  PROVE  /\ conn \in [Wsis -> {"new", "open", "hungup", "closed"}]
         /\ \A w \in Wsis : sendQueue[w] \in Seq(Messages)
         /\ DOMAIN sendQueue = Wsis /\ DOMAIN wire = Wsis
         /\ svc = "popped" => svcWsi \in Wsis /\ conn[svcWsi] = "open" /\ svcMsg \in Messages
         /\ svc \in {"handling", "found"} => svcWsi \in Wsis /\ conn[svcWsi] = "open"
         /\ svc = "handling" => svcMsg \in Messages
         /\ \A w \in Wsis : w \in clients <=> conn[w] \in {"open", "hungup"}
         /\ \A w \in Wsis : conn[w] \in {"new", "closed"} => sendQueue[w] = <<>>
BY DEF Inv, TypeOK, Hands, Busy, Connected

(* Nothing is in the hands of the WRITEABLE handler: what waits is what is *)
(* on the send queues.                                                     *)
LEMMA EmptyHands ==
  ASSUME Inv, svc # "popped"
  PROVE  Waiting = sendQueue
<1>1. \A w \in Wsis : <<>> \o sendQueue[w] = sendQueue[w]
  BY Facts, ConcatEmptySeq
<1>2. sendQueue = [w \in Wsis |-> sendQueue[w]]
  BY DEF Inv, TypeOK
<1> QED BY <1>1, <1>2 DEF Waiting, InChannel

(* A push on the send queue is a push into the channel.                    *)
LEMMA PushPuts ==
  ASSUME Inv, NEW w \in Wsis, conn[w] \in {"open", "hungup"}, NEW m \in Messages,
         sendQueue' = [sendQueue EXCEPT ![w] = Append(@, m)],
         \A v \in Wsis : Hand(v)' = Hand(v),
         UNCHANGED <<conn, wire, lost>>
  PROVE  Channel!Put(w, m)
<1>1. \A v \in Wsis : Hand(v) \in Seq(Messages) /\ sendQueue[v] \in Seq(Messages)
  BY Facts DEF Hand
<1>2. \A v \in Wsis : InChannel(v) = Hand(v) \o sendQueue[v]
                        /\ InChannel(v)' = Hand(v) \o sendQueue'[v]
  BY DEF InChannel, Hand
<1>3. Hand(w) \o Append(sendQueue[w], m) = Append(Hand(w) \o sendQueue[w], m)
  BY <1>1
<1>4. /\ sendQueue'[w] = Append(sendQueue[w], m)
      /\ \A v \in Wsis \ {w} : sendQueue'[v] = sendQueue[v]
  BY Facts
<1>5. Waiting' = [Waiting EXCEPT ![w] = Append(@, m)]
  BY <1>2, <1>3, <1>4 DEF Waiting
<1>6. State' = State /\ State[w] = "open"
  BY DEF State
<1> QED BY <1>5, <1>6 DEF Channel!Put, State, Waiting

LEMMA SendPushPuts ==
  ASSUME Inv, NEW w \in Wsis, NEW m \in Pushes, SendPush(w, m)
  PROVE  Channel!Put(w, m)
<1>1. conn[w] \in {"open", "hungup"} /\ m \in Messages
  BY Facts DEF SendPush, Messages
<1>2. /\ sendQueue' = [sendQueue EXCEPT ![w] = Append(@, m)]
      /\ UNCHANGED <<svcVars, conn, wire, lost>>
  BY DEF SendPush, connVars
<1>3. \A v \in Wsis : Hand(v)' = Hand(v)
  BY <1>2 DEF Hand, svcVars
<1> QED BY <1>1, <1>2, <1>3, PushPuts

LEMMA ResponsePuts ==
  ASSUME Inv, HandlerResponds
  PROVE  Channel!Put(svcWsi, svcMsg)
<1>1. svc = "handling" /\ svc' = "pushed"
  BY DEF HandlerResponds, ServiceStep
<1>2. svcWsi \in Wsis /\ conn[svcWsi] = "open" /\ svcMsg \in Messages
  BY <1>1, Facts
<1>3. /\ sendQueue' = [sendQueue EXCEPT ![svcWsi] = Append(@, svcMsg)]
      /\ UNCHANGED <<conn, wire, lost>>
  BY DEF HandlerResponds, connVars
<1>4. \A v \in Wsis : Hand(v)' = Hand(v)
  BY <1>1 DEF Hand
<1> QED BY <1>2, <1>3, <1>4, PushPuts

(* The pop of the WRITEABLE handler changes nothing yet ...                *)
LEMMA PopStutters ==
  ASSUME Inv, WriteablePop
  PROVE  UNCHANGED Channel!vars
<1>1. /\ svc = "found" /\ svc' = "popped" /\ svcWsi' = svcWsi
      /\ svcWsi \in Wsis /\ sendQueue[svcWsi] # <<>>
      /\ svcMsg' = Head(sendQueue[svcWsi])
      /\ sendQueue' = [sendQueue EXCEPT ![svcWsi] = Tail(@)]
      /\ UNCHANGED <<conn, wire, lost>>
  BY Facts DEF WriteablePop, ServiceStep, connVars
<1>2. \A w \in Wsis : sendQueue[w] \in Seq(Messages)
  BY Facts
<1>3. <<Head(sendQueue[svcWsi])>> \o Tail(sendQueue[svcWsi]) = sendQueue[svcWsi]
  BY <1>1, <1>2
<1>4. /\ sendQueue'[svcWsi] = Tail(sendQueue[svcWsi])
      /\ \A w \in Wsis \ {svcWsi} : sendQueue'[w] = sendQueue[w]
  BY <1>1, Facts
<1>5. \A w \in Wsis : <<>> \o sendQueue[w] = sendQueue[w]
  BY <1>2, ConcatEmptySeq
<1>6. \A w \in Wsis : InChannel(w)' = InChannel(w)
  BY <1>1, <1>3, <1>4, <1>5 DEF InChannel
<1> QED BY <1>1, <1>6 DEF Channel!vars

(* ... the write does.                                                     *)
LEMMA WriteTakesOut ==
  ASSUME Inv, WriteableWrite
  PROVE  Channel!Deliver(svcWsi) \/ Channel!Drop(svcWsi)
<1>1. /\ svc = "popped" /\ svc' = "wrote" /\ svcWsi' = svcWsi
      /\ svcWsi \in Wsis /\ conn[svcWsi] = "open" /\ svcMsg \in Messages
      /\ UNCHANGED <<conn, sendQueue>>
  BY Facts DEF WriteableWrite, ServiceStep, connVars
<1>2. \A w \in Wsis : sendQueue[w] \in Seq(Messages)
  BY Facts
<1>3. Waiting[svcWsi] = <<svcMsg>> \o sendQueue[svcWsi]
  BY <1>1 DEF Waiting, InChannel
<1>4. <<svcMsg>> \o sendQueue[svcWsi] # <<>>
  BY <1>1, <1>2
<1>5. /\ Head(<<svcMsg>> \o sendQueue[svcWsi]) = svcMsg
      /\ Tail(<<svcMsg>> \o sendQueue[svcWsi]) = sendQueue[svcWsi]
  BY <1>1, <1>2
<1>6. \A w \in Wsis : <<>> \o sendQueue[w] = sendQueue[w]
  BY <1>2, ConcatEmptySeq
<1>7. Waiting' = [Waiting EXCEPT ![svcWsi] = Tail(@)]
  BY <1>1, <1>3, <1>5, <1>6 DEF Waiting, InChannel
<1>8. State' = State /\ State[svcWsi] = "open"
  BY <1>1 DEF State
<1>9. Channel!TakeOut(svcWsi)
  BY <1>3, <1>4, <1>7, <1>8 DEF Channel!TakeOut, State, Waiting
<1>10. Waiting[svcWsi] = InChannel(svcWsi) /\ Head(Waiting[svcWsi]) = svcMsg
  BY <1>1, <1>3, <1>5 DEF Waiting
<1>11. CASE wire' = [wire EXCEPT ![svcWsi] = Append(@, svcMsg)] /\ UNCHANGED lost
  BY <1>9, <1>10, <1>11 DEF Channel!Deliver, Waiting
<1>12. CASE lost' = lost \cup {svcMsg} /\ UNCHANGED wire
  BY <1>9, <1>10, <1>12 DEF Channel!Drop, Waiting
<1> QED BY <1>11, <1>12 DEF WriteableWrite

LEMMA BroadcastRefines ==
  ASSUME Inv, NEW m \in Pushes, Broadcast(m)
  PROVE  Channel!Broadcast(m)
<1>1. /\ wire' = [w \in Wsis |-> IF w \in clients THEN Append(wire[w], m) ELSE wire[w]]
      /\ UNCHANGED <<conn, svc, svcWsi, svcMsg, sendQueue, lost>>
  BY DEF Broadcast, connVars, svcVars
<1>2. \A w \in Wsis : w \in clients <=> State[w] = "open"
  BY Facts DEF State
<1>3. Waiting' = Waiting /\ State' = State
  BY <1>1 DEF Waiting, InChannel, State
<1> QED BY <1>1, <1>2, <1>3 DEF Channel!Broadcast, State, Waiting

(* Connections come and go while the handler has nothing in its hands.     *)
LEMMA EstablishOpens ==
  ASSUME Inv, NEW w \in Wsis, Establish(w)
  PROVE  Channel!Open(w)
<1>1. /\ conn[w] = "new" /\ conn' = [conn EXCEPT ![w] = "open"]
      /\ UNCHANGED <<svc, svcWsi, svcMsg, sendQueue, wire, lost>>
  BY DEF Establish, svcVars, outVars
<1>2. Waiting' = Waiting
  BY <1>1 DEF Waiting, InChannel
<1>3. State[w] = "new" /\ State' = [State EXCEPT ![w] = "open"]
  BY <1>1, Facts DEF State
<1> QED BY <1>1, <1>2, <1>3 DEF Channel!Open, State, Waiting

LEMMA ClosingCloses ==
  ASSUME Inv, svc # "popped", svc' # "popped", NEW W \in SUBSET Wsis,
         conn' = [w \in Wsis |-> IF w \in W THEN "closed" ELSE conn[w]],
         sendQueue' = [w \in Wsis |-> IF w \in W THEN <<>> ELSE sendQueue[w]],
         UNCHANGED <<wire, lost>>
  PROVE  Channel!Close(W)
<1>1. \A w \in Wsis : sendQueue[w] \in Seq(Messages) /\ <<>> \o sendQueue[w] = sendQueue[w]
  BY Facts, ConcatEmptySeq
<1>2. <<>> \o <<>> = <<>>
  BY ConcatEmptySeq, EmptySeq
<1>3. Waiting' = [w \in Wsis |-> IF w \in W THEN <<>> ELSE Waiting[w]]
  BY <1>1, <1>2 DEF Waiting, InChannel
<1>4. State' = [w \in Wsis |-> IF w \in W THEN "closed" ELSE State[w]]
  BY DEF State
<1> QED BY <1>3, <1>4 DEF Channel!Close, State, Waiting

LEMMA CloseRefines ==
  ASSUME Inv, NEW w \in Wsis, Close(w) \/ Reject(w)
  PROVE  Channel!Close({w})
<1>1. /\ svc = "service" /\ svc' = "service"
      /\ conn' = [conn EXCEPT ![w] = "closed"]
      /\ sendQueue' = [sendQueue EXCEPT ![w] = <<>>]
      /\ UNCHANGED <<wire, lost>>
  <2>1. CASE Close(w)
    BY <2>1 DEF Close, svcVars
  <2>2. CASE Reject(w)
    <3>1. sendQueue[w] = <<>>
      BY <2>2, Facts DEF Reject
    <3>2. sendQueue = [sendQueue EXCEPT ![w] = <<>>]
      BY <3>1, Facts DEF Inv, TypeOK
    <3> QED BY <2>2, <3>2 DEF Reject, svcVars, outVars
  <2> QED BY <2>1, <2>2
<1>2. /\ conn' = [v \in Wsis |-> IF v \in {w} THEN "closed" ELSE conn[v]]
      /\ sendQueue' = [v \in Wsis |-> IF v \in {w} THEN <<>> ELSE sendQueue[v]]
  BY <1>1, Facts
<1> QED BY <1>1, <1>2, ClosingCloses

LEMMA StopRefines ==
  ASSUME Inv, StopFinish
  PROVE  \E W \in SUBSET Wsis : Channel!Close(W)
<1>1. PICK W \in SUBSET Wsis : W = {w \in Wsis : conn[w] # "new"}
  OBVIOUS
<1>2. /\ svc = "none" /\ svc' = "none"
      /\ conn' = [w \in Wsis |-> IF conn[w] = "new" THEN "new" ELSE "closed"]
      /\ sendQueue' = [w \in Wsis |-> <<>>]
      /\ UNCHANGED <<wire, lost>>
  BY DEF StopFinish, svcVars, Inv, Threads
<1>3. \A w \in Wsis : w \in W <=> conn[w] # "new"
  BY <1>1
<1>4. conn' = [w \in Wsis |-> IF w \in W THEN "closed" ELSE conn[w]]
  BY <1>2, <1>3
<1>5. sendQueue' = [w \in Wsis |-> IF w \in W THEN <<>> ELSE sendQueue[w]]
  BY <1>2, <1>3, Facts
<1>6. svc # "popped" /\ svc' # "popped" /\ UNCHANGED <<wire, lost>>
  BY <1>2
<1>7. Channel!Close(W)
  BY <1>4, <1>5, <1>6, ClosingCloses
<1> QED BY <1>7

(* A request arrives, or nothing happens to messages and connections.      *)
LEMMA ReceiveStutters ==
  ASSUME Inv, NEW w \in Wsis, NEW m \in Requests,
         ReceiveUnauthenticated(w, m) \/ ReceiveSync(w, m) \/ ReceiveAsync(w, m)
  PROVE  UNCHANGED Channel!vars
<1>1. /\ svc = "service" /\ svc' # "popped"
      /\ \/ conn' = conn
         \/ conn[w] = "open" /\ conn' = [conn EXCEPT ![w] = "hungup"]
      /\ UNCHANGED <<sendQueue, wire, lost>>
  BY DEF ReceiveUnauthenticated, ReceiveSync, ReceiveAsync, Enqueue, Arrives, svcVars,
         connVars, outVars
<1>2. Waiting' = Waiting
  BY <1>1 DEF Waiting, InChannel
<1>3. State' = State
  BY <1>1, Facts DEF State
<1> QED BY <1>1, <1>2, <1>3 DEF Channel!vars, State, Waiting

LEMMA OtherStutters ==
  ASSUME Inv, UNCHANGED <<conn, sendQueue, queued, wire, lost, sent>>,
         \/ UNCHANGED svcVars
         \/ svc # "popped" /\ svc' \notin {"handling", "popped"}
  PROVE  UNCHANGED Channel!vars
<1>1. Waiting' = Waiting /\ State' = State
  BY DEF Waiting, InChannel, State, svcVars
<1> QED BY <1>1 DEF Channel!vars, State, Waiting

-----------------------------------------------------------------------------
LEMMA InitRefines == Init => Channel!Init
<1> SUFFICES ASSUME Init PROVE Channel!Init
  OBVIOUS
<1>1. <<>> \o <<>> = <<>>
  BY ConcatEmptySeq, EmptySeq
<1> QED BY <1>1 DEF Init, Channel!Init, InChannel

LEMMA StepRefines == Inv /\ [Next]_vars => [Channel!Next]_(Channel!vars)
<1> SUFFICES ASSUME Inv, [Next]_vars PROVE Channel!Next \/ UNCHANGED Channel!vars
  OBVIOUS
<1>1. ASSUME NEW w \in Wsis, NEW m \in Pushes, SendPush(w, m) PROVE Channel!Next
  BY <1>1, SendPushPuts DEF Channel!Next, Messages
<1>2. ASSUME NEW m \in Pushes, Broadcast(m) PROVE Channel!Next
  BY <1>2, BroadcastRefines DEF Channel!Next, Messages
<1>3. ASSUME HandlerResponds PROVE Channel!Next
  <2>1. svcWsi \in Wsis /\ svcMsg \in Messages
    BY <1>3, Facts DEF HandlerResponds, ServiceStep
  <2> QED BY <1>3, <2>1, ResponsePuts DEF Channel!Next
<1>4. ASSUME WriteableWrite PROVE Channel!Next
  <2>1. svcWsi \in Wsis
    BY <1>4, Facts DEF WriteableWrite, ServiceStep
  <2> QED BY <1>4, <2>1, WriteTakesOut DEF Channel!Next
<1>5. ASSUME StopFinish PROVE Channel!Next
  BY <1>5, StopRefines DEF Channel!Next
<1>6. ASSUME NEW w \in Wsis, Close(w) \/ Reject(w) PROVE Channel!Next
  BY <1>6, CloseRefines DEF Channel!Next
<1>7. ASSUME NEW w \in Wsis, Establish(w) PROVE Channel!Next
  BY <1>7, EstablishOpens DEF Channel!Next
<1> QED
  BY <1>1, <1>2, <1>3, <1>4, <1>5, <1>6, <1>7, MessageSteps, PopStutters,
     ReceiveStutters, OtherStutters

(* Every behaviour of the server is one of the channel: no response is     *)
(* lost, doubled or overtaken between its push and its write, whatever the *)
(* three threads do in between, and none is put in for a closed connection.*)
THEOREM Refinement == Spec => ImplementsChannel
<1>1. Spec => Channel!Init /\ [][Channel!Next]_(Channel!vars)
  BY InitRefines, StepRefines, Invariance, PTL DEF Spec
<1> QED BY <1>1 DEF ImplementsChannel, Channel!Spec
=============================================================================
