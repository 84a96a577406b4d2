-------------------------- MODULE WebSocketServer --------------------------
(***************************************************************************)
(* The WebSocket server of the agent: three threads and the data they      *)
(* share.                                                                  *)
(*                                                                         *)
(*   service thread  runs lws_service(): connections, requests, writing    *)
(*   queue thread    hands queued requests to the callbacks (async mode)   *)
(*   control thread  calls start(), stop(), send_to_client(), broadcast()  *)
(*                                                                         *)
(* With a synchronous callback (what maxmcp.cpp installs) the service      *)
(* thread computes the response itself; without one it queues the request. *)
(* The callbacks are external: they answer any request some time later,    *)
(* and a request in Silent with nothing.                                   *)
(*                                                                         *)
(* A client is identified with its lws connection: the random ids of       *)
(* generate_client_id are assumed distinct.                                *)
(***************************************************************************)
EXTENDS Naturals, Sequences, SequencesExt

CONSTANTS Wsis,      \* connections, each opened at most once
          Requests,  \* messages the clients send
          Pushes,    \* messages the server sends by itself
          Silent,    \* requests whose handler returns the empty response
          SyncModes, \* may the synchronous callback be set, may it not be?
          AuthModes, \* may the server be given a token, may it not be?
          Trusted,   \* connections that present the token
          MaxStarts, \* bound: how often start() is called
          None

ASSUME SilentAssumption == Silent \subseteq Requests /\ Requests \cap Pushes = {}
ASSUME ModesAssumption == SyncModes \subseteq BOOLEAN /\ AuthModes \subseteq BOOLEAN
ASSUME StartsAssumption == MaxStarts \in Nat

VARIABLES
  syncMode,     \* is sync_message_callback_ set? (before start(), for good)
  requireAuth,  \* require_auth_: was a token given to the constructor?
  running,      \* running_
  starts,       \* how often start() succeeded (bounds the model)
  ctl,          \* control thread: idle, or where in stop() or send_to_client()
  ctlWsi,       \* the client send_to_client() is busy with
  svc,          \* service thread: where it is
  svcWsi,       \* the connection it is busy with
  svcMsg,       \* the message it is busy with
  que,          \* queue thread: where it is
  conn,         \* each connection, as lws sees it
  clients,      \* clients_
  sendQueue,    \* send_queue of each client
  writable,     \* connections with a writable callback requested
  requestQueue, \* request_queue_
  queReq,       \* the request the queue thread works on
  sent,         \* messages sent so far: each is sent once
  queued,       \* history: what was ever pushed on each client's send queue
  wire,         \* history: what was written to each connection
  lost,         \* history: messages whose lws_write failed
  arrived,      \* history: requests enqueued, in order
  handled       \* history: requests given to a callback by the queue thread

modes    == <<syncMode, requireAuth>>
ctlVars  == <<modes, running, starts, ctl, ctlWsi>>
svcVars  == <<svc, svcWsi, svcMsg>>
connVars == <<conn, clients>>
outVars  == <<sendQueue, writable, queued, wire, lost>>
queVars  == <<que, requestQueue, queReq, arrived, handled>>
vars == <<ctlVars, svcVars, connVars, outVars, queVars, sent>>

Messages == Requests \cup Pushes
QueuedRequest == [wsi : Wsis, msg : Requests]

ASSUME NoneAssumption == None \notin Wsis \cup Messages \cup QueuedRequest

TypeOK ==
  /\ syncMode \in SyncModes /\ requireAuth \in AuthModes
  /\ running \in BOOLEAN
  /\ starts \in 0..MaxStarts
  /\ ctl \in {"idle", "flagged", "signalled", "joined", "quiet", "pushed"}
  /\ ctlWsi \in Wsis \cup {None}
  /\ svc \in {"none", "loop", "service", "handling", "pushed", "writeable",
             "found", "popped", "wrote", "done"}
  /\ svcWsi \in Wsis \cup {None}
  /\ svcMsg \in Messages \cup {None}
  /\ que \in {"none", "top", "predicate", "checked", "blocked", "process", "done"}
  /\ conn \in [Wsis -> {"new", "open", "hungup", "closed"}]
  /\ clients \subseteq Wsis
  /\ sendQueue \in [Wsis -> Seq(Messages)]
  /\ writable \subseteq Wsis
  /\ requestQueue \in Seq(QueuedRequest)
  /\ queReq \in QueuedRequest \cup {None}
  /\ sent \subseteq Messages
  /\ queued \in [Wsis -> Seq(Messages)]
  /\ wire \in [Wsis -> Seq(Messages)]
  /\ lost \subseteq Messages
  /\ arrived \in Seq(QueuedRequest)
  /\ handled \in Seq(QueuedRequest)

Init ==
  /\ syncMode \in SyncModes /\ requireAuth \in AuthModes
  /\ running = FALSE /\ starts = 0
  /\ ctl = "idle" /\ ctlWsi = None
  /\ svc = "none" /\ svcWsi = None /\ svcMsg = None
  /\ que = "none" /\ requestQueue = <<>> /\ queReq = None
  /\ conn = [w \in Wsis |-> "new"]
  /\ clients = {}
  /\ sendQueue = [w \in Wsis |-> <<>>]
  /\ writable = {}
  /\ sent = {}
  /\ queued = [w \in Wsis |-> <<>>]
  /\ wire = [w \in Wsis |-> <<>>]
  /\ lost = {}
  /\ arrived = <<>> /\ handled = <<>>

-----------------------------------------------------------------------------
(* Control thread: start() and stop().                                     *)

(* The context is created, running_ raised and both threads are spawned.   *)
Start ==
  /\ ctl = "idle" /\ ~running
  /\ starts < MaxStarts
  /\ starts' = starts + 1
  /\ running' = TRUE
  /\ svc' = "loop"
  /\ que' = "top"
  /\ UNCHANGED <<modes, ctl, ctlWsi, svcWsi, svcMsg, connVars, outVars,
                 requestQueue, queReq, arrived, handled, sent>>

StopFlag ==
  /\ ctl = "idle" /\ running
  /\ running' = FALSE
  /\ ctl' = "flagged"
  /\ UNCHANGED <<modes, starts, ctlWsi, svcVars, connVars, outVars, queVars, sent>>

(* notify_one() wakes the queue thread if it is blocked in wait(), and has *)
(* no effect otherwise.  queue_mutex_ is not taken.                        *)
Notify == que' = IF que = "blocked" THEN "predicate" ELSE que

StopSignal ==
  /\ ctl = "flagged"
  /\ ctl' = "signalled"
  /\ Notify
  /\ UNCHANGED <<modes, running, starts, ctlWsi, svcVars, connVars, outVars,
                 requestQueue, queReq, arrived, handled, sent>>

JoinService ==
  /\ ctl = "signalled" /\ svc = "done"
  /\ ctl' = "joined"
  /\ svc' = "none"
  /\ UNCHANGED <<modes, running, starts, ctlWsi, svcWsi, svcMsg, connVars, outVars,
                 queVars, sent>>

JoinQueue ==
  /\ ctl = "joined" /\ que = "done"
  /\ ctl' = "quiet"
  /\ que' = "none"
  /\ UNCHANGED <<modes, running, starts, ctlWsi, svcVars, connVars, outVars,
                 requestQueue, queReq, arrived, handled, sent>>

(* Mutant: stop() forgets the clients.                                     *)
StopKeepsClients ==
  /\ ctl = "quiet"
  /\ ctl' = "idle"
  /\ conn' = [w \in Wsis |-> IF conn[w] = "new" THEN "new" ELSE "closed"]
  /\ writable' = {}
  /\ UNCHANGED <<modes, running, starts, ctlWsi, svcVars, clients, sendQueue, queued, wire,
                 lost, queVars, sent>>

(* The context goes and closes its connections; clients_ is cleared and    *)
(* with it the send queues.  request_queue_ is not.                        *)
StopFinish ==
  /\ ctl = "quiet"
  /\ ctl' = "idle"
  /\ conn' = [w \in Wsis |-> IF conn[w] = "new" THEN "new" ELSE "closed"]
  /\ clients' = {}
  /\ sendQueue' = [w \in Wsis |-> <<>>]
  /\ writable' = {}
  /\ UNCHANGED <<modes, running, starts, ctlWsi, svcVars, queued, wire, lost,
                 queVars, sent>>

(* send_to_client(): the message is pushed under the client's send_mutex,  *)
(* and then the writable callback is requested.                            *)
SendPush(w, m) ==
  /\ ctl = "idle" /\ w \in clients
  /\ m \in Pushes \ sent
  /\ sent' = sent \cup {m}
  /\ sendQueue' = [sendQueue EXCEPT ![w] = Append(@, m)]
  /\ queued' = [queued EXCEPT ![w] = Append(@, m)]
  /\ ctl' = "pushed" /\ ctlWsi' = w
  /\ UNCHANGED <<modes, running, starts, svcVars, connVars, writable, wire, lost, queVars>>

SendRequestWritable ==
  /\ ctl = "pushed"
  /\ writable' = IF conn[ctlWsi] = "open" THEN writable \cup {ctlWsi} ELSE writable
  /\ ctl' = "idle" /\ ctlWsi' = None
  /\ UNCHANGED <<modes, running, starts, svcVars, connVars, sendQueue, queued, wire,
                 lost, queVars, sent>>

(* broadcast() writes at once, past the send queues.                       *)
Broadcast(m) ==
  /\ ctl = "idle"
  /\ m \in Pushes \ sent
  /\ sent' = sent \cup {m}
  /\ wire' = [w \in Wsis |-> IF w \in clients THEN Append(wire[w], m) ELSE wire[w]]
  /\ UNCHANGED <<ctlVars, svcVars, connVars, sendQueue, writable, queued, lost, queVars>>

-----------------------------------------------------------------------------
(* Service thread: the loop.  One lws_service() handles any number of      *)
(* events before it returns.                                               *)

ServiceStep(from, to) == svc = from /\ svc' = to

(* Mutant: the loop does not look at running_.                             *)
EnterAlways ==
  /\ ServiceStep("loop", "service")
  /\ UNCHANGED <<ctlVars, svcWsi, svcMsg, connVars, outVars, queVars, sent>>

EnterService ==
  /\ IF running THEN ServiceStep("loop", "service") ELSE ServiceStep("loop", "done")
  /\ UNCHANGED <<ctlVars, svcWsi, svcMsg, connVars, outVars, queVars, sent>>

LeaveService ==
  /\ ServiceStep("service", "loop")
  /\ UNCHANGED <<ctlVars, svcWsi, svcMsg, connVars, outVars, queVars, sent>>

-----------------------------------------------------------------------------
(* Service thread: lws_callback, one action per callback reason, or per    *)
(* stretch of one between which other threads can be seen.                 *)

(* clients_mutex_ is held by send_to_client() between its two steps.       *)
ClientsFree == ctl # "pushed"

Reject(w) ==
  /\ svc = "service" /\ conn[w] = "new"
  /\ requireAuth /\ w \notin Trusted
  /\ conn' = [conn EXCEPT ![w] = "closed"]
  /\ UNCHANGED <<ctlVars, svcVars, clients, outVars, queVars, sent>>

(* Mutant: the filter callback lets everyone pass.                         *)
EstablishAny(w) ==
  /\ svc = "service" /\ conn[w] = "new" /\ ClientsFree
  /\ conn' = [conn EXCEPT ![w] = "open"]
  /\ clients' = clients \cup {w}
  /\ UNCHANGED <<ctlVars, svcVars, outVars, queVars, sent>>

Establish(w) ==
  /\ svc = "service" /\ conn[w] = "new" /\ ClientsFree
  /\ requireAuth => w \in Trusted
  /\ conn' = [conn EXCEPT ![w] = "open"]
  /\ clients' = clients \cup {w}
  /\ UNCHANGED <<ctlVars, svcVars, outVars, queVars, sent>>

(* ClientInfo.authenticated, as add_client sets it and nothing changes it. *)
Authenticated(w) == ~requireAuth

(* A request arrives: the part of RECEIVE that is common.                  *)
Arrives(w, m) ==
  /\ svc = "service" /\ conn[w] = "open" /\ ClientsFree
  /\ w \in clients
  /\ m \in Requests \ sent
  /\ sent' = sent \cup {m}

ReceiveUnauthenticated(w, m) ==
  /\ Arrives(w, m)
  /\ ~Authenticated(w) /\ requireAuth
  /\ conn' = [conn EXCEPT ![w] = "hungup"]
  /\ UNCHANGED <<ctlVars, svcVars, clients, outVars, queVars>>

ReceiveSync(w, m) ==
  /\ Arrives(w, m)
  /\ Authenticated(w) \/ ~requireAuth
  /\ syncMode
  /\ svc' = "handling" /\ svcWsi' = w /\ svcMsg' = m
  /\ UNCHANGED <<ctlVars, connVars, outVars, queVars>>

(* enqueue_request()                                                       *)
Enqueue(w, m) ==
  /\ Arrives(w, m)
  /\ Authenticated(w) \/ ~requireAuth
  /\ ~syncMode
  /\ requestQueue' = Append(requestQueue, [wsi |-> w, msg |-> m])
  /\ arrived' = Append(arrived, [wsi |-> w, msg |-> m])
  /\ UNCHANGED <<ctlVars, svcVars, connVars, outVars, queReq, handled>>

(* Mutants: without queue_mutex_; without notify_one().                    *)
EnqueueUnlocked(w, m) == Enqueue(w, m) /\ Notify
EnqueueQuietly(w, m) == que # "checked" /\ Enqueue(w, m) /\ UNCHANGED que

(* It holds queue_mutex_, as the queue thread does from evaluating the     *)
(* predicate of its wait until it blocks.                                  *)
ReceiveAsync(w, m) == que # "checked" /\ Enqueue(w, m) /\ Notify

HandlerIsSilent ==
  /\ svcMsg \in Silent
  /\ ServiceStep("handling", "service")
  /\ svcWsi' = None /\ svcMsg' = None
  /\ UNCHANGED <<ctlVars, connVars, outVars, queVars, sent>>

(* Mutant: the response jumps the queue.                                   *)
HandlerPushesFront ==
  /\ svcMsg \notin Silent
  /\ ServiceStep("handling", "pushed")
  /\ sendQueue' = [sendQueue EXCEPT ![svcWsi] = <<svcMsg>> \o @]
  /\ queued' = [queued EXCEPT ![svcWsi] = Append(@, svcMsg)]
  /\ UNCHANGED <<ctlVars, svcWsi, svcMsg, connVars, writable, wire, lost, queVars, sent>>

(* The response to request m is written m as well.                         *)
HandlerResponds ==
  /\ svcMsg \notin Silent
  /\ ServiceStep("handling", "pushed")
  /\ sendQueue' = [sendQueue EXCEPT ![svcWsi] = Append(@, svcMsg)]
  /\ queued' = [queued EXCEPT ![svcWsi] = Append(@, svcMsg)]
  /\ UNCHANGED <<ctlVars, svcWsi, svcMsg, connVars, writable, wire, lost, queVars, sent>>

(* Mutant: the connection is forgotten before it is used.                  *)
RequestWritableLate ==
  /\ ServiceStep("pushed", "service")
  /\ svcWsi' = None /\ svcMsg' = None
  /\ writable' = writable \cup {svcWsi'}
  /\ UNCHANGED <<ctlVars, connVars, sendQueue, queued, wire, lost, queVars, sent>>

RequestWritable ==
  /\ ServiceStep("pushed", "service")
  /\ writable' = writable \cup {svcWsi}
  /\ svcWsi' = None /\ svcMsg' = None
  /\ UNCHANGED <<ctlVars, connVars, sendQueue, queued, wire, lost, queVars, sent>>

(* The peer hangs up, or lws closes after a callback returned -1.          *)
Close(w) ==
  /\ svc = "service" /\ conn[w] \in {"open", "hungup"} /\ ClientsFree
  /\ conn' = [conn EXCEPT ![w] = "closed"]
  /\ clients' = clients \ {w}
  /\ sendQueue' = [sendQueue EXCEPT ![w] = <<>>]
  /\ writable' = writable \ {w}
  /\ UNCHANGED <<ctlVars, svcVars, queued, wire, lost, queVars, sent>>

(* lws forgets the request for a writable callback and calls back ...      *)
WriteableEnter(w) ==
  /\ svc = "service" /\ conn[w] = "open"
  /\ w \in writable
  /\ writable' = writable \ {w}
  /\ svc' = "writeable" /\ svcWsi' = w
  /\ UNCHANGED <<ctlVars, svcMsg, connVars, sendQueue, queued, wire, lost, queVars, sent>>

(* ... the client is looked up under clients_mutex_, which is released ... *)
WriteableFind ==
  /\ ServiceStep("writeable", "found") /\ ClientsFree
  /\ UNCHANGED <<ctlVars, svcWsi, svcMsg, connVars, outVars, queVars, sent>>

(* ... and one message is taken under its send_mutex.  Nothing waits when  *)
(* send_to_client() asked again for what an earlier callback has taken.    *)
WriteableEmpty ==
  /\ ServiceStep("found", "service")
  /\ sendQueue[svcWsi] = <<>>
  /\ svcWsi' = None
  /\ UNCHANGED <<ctlVars, svcMsg, connVars, outVars, queVars, sent>>

(* Mutant: the message is read and not popped.                             *)
WriteablePeek ==
  /\ ServiceStep("found", "popped")
  /\ sendQueue[svcWsi] # <<>>
  /\ svcMsg' = Head(sendQueue[svcWsi])
  /\ UNCHANGED <<ctlVars, svcWsi, connVars, outVars, queVars, sent>>

WriteablePop ==
  /\ ServiceStep("found", "popped")
  /\ sendQueue[svcWsi] # <<>>
  /\ svcMsg' = Head(sendQueue[svcWsi])
  /\ sendQueue' = [sendQueue EXCEPT ![svcWsi] = Tail(@)]
  /\ UNCHANGED <<ctlVars, svcWsi, connVars, writable, queued, wire, lost, queVars, sent>>

(* lws_write(): a failure is logged and nothing else.                      *)
WriteableWrite ==
  /\ ServiceStep("popped", "wrote")
  /\ \/ wire' = [wire EXCEPT ![svcWsi] = Append(@, svcMsg)] /\ UNCHANGED lost
     \/ lost' = lost \cup {svcMsg} /\ UNCHANGED wire
  /\ UNCHANGED <<ctlVars, svcWsi, svcMsg, connVars, sendQueue, writable, queued,
                 queVars, sent>>

(* Mutant: nothing is requested for the messages that remain.              *)
WriteableOnce ==
  /\ ServiceStep("wrote", "service")
  /\ svcWsi' = None /\ svcMsg' = None
  /\ UNCHANGED <<ctlVars, connVars, outVars, queVars, sent>>

WriteableMore ==
  /\ ServiceStep("wrote", "service")
  /\ writable' = IF sendQueue[svcWsi] # <<>> THEN writable \cup {svcWsi} ELSE writable
  /\ svcWsi' = None /\ svcMsg' = None
  /\ UNCHANGED <<ctlVars, connVars, sendQueue, queued, wire, lost, queVars, sent>>

-----------------------------------------------------------------------------
(* Queue thread: process_queue_loop().                                     *)

QueueTop ==
  /\ que = "top"
  /\ que' = IF running THEN "predicate" ELSE "done"
  /\ UNCHANGED <<ctlVars, svcVars, connVars, outVars, requestQueue, queReq,
                 arrived, handled, sent>>

(* queue_mutex_ is held; the thread is about to block ...                  *)
QueueCheck ==
  /\ que = "predicate"
  /\ running /\ requestQueue = <<>>
  /\ que' = "checked"
  /\ UNCHANGED <<ctlVars, svcVars, connVars, outVars, requestQueue, queReq,
                 arrived, handled, sent>>

(* ... and blocks, releasing queue_mutex_ in the same instant.             *)
QueueBlock ==
  /\ que = "checked"
  /\ que' = "blocked"
  /\ UNCHANGED <<ctlVars, svcVars, connVars, outVars, requestQueue, queReq,
                 arrived, handled, sent>>

QueueBreak ==
  /\ que = "predicate" /\ ~running
  /\ que' = "done"
  /\ UNCHANGED <<ctlVars, svcVars, connVars, outVars, requestQueue, queReq,
                 arrived, handled, sent>>

(* Mutant: the youngest request first.                                     *)
QueueTakeLast ==
  /\ que = "predicate" /\ running /\ requestQueue # <<>>
  /\ que' = "process"
  /\ queReq' = Last(requestQueue)
  /\ requestQueue' = Front(requestQueue)
  /\ UNCHANGED <<ctlVars, svcVars, connVars, outVars, arrived, handled, sent>>

QueueTake ==
  /\ que = "predicate" /\ running /\ requestQueue # <<>>
  /\ que' = "process"
  /\ queReq' = Head(requestQueue)
  /\ requestQueue' = Tail(requestQueue)
  /\ UNCHANGED <<ctlVars, svcVars, connVars, outVars, arrived, handled, sent>>

(* wait() may also return by itself; it then evaluates the predicate.      *)
QueueSpuriousWake ==
  /\ que = "blocked"
  /\ que' = "predicate"
  /\ UNCHANGED <<ctlVars, svcVars, connVars, outVars, requestQueue, queReq,
                 arrived, handled, sent>>

(* process_request(): the message or the error callback gets the request.  *)
QueueProcess ==
  /\ que = "process"
  /\ que' = "top"
  /\ handled' = Append(handled, queReq)
  /\ queReq' = None
  /\ UNCHANGED <<ctlVars, svcVars, connVars, outVars, requestQueue, arrived, sent>>

-----------------------------------------------------------------------------
Control == Start \/ StopFlag \/ StopSignal \/ JoinService \/ JoinQueue \/ StopFinish
             \/ SendRequestWritable
             \/ (\E m \in Pushes : Broadcast(m) \/ \E w \in Wsis : SendPush(w, m))

Handle == HandlerIsSilent \/ HandlerResponds \/ RequestWritable
            \/ WriteableFind \/ WriteableEmpty \/ WriteablePop \/ WriteableWrite \/ WriteableMore
Event(w) == Reject(w) \/ Establish(w) \/ Close(w) \/ WriteableEnter(w)
Receive(w, m) == ReceiveUnauthenticated(w, m) \/ ReceiveSync(w, m) \/ ReceiveAsync(w, m)

Service == EnterService \/ LeaveService \/ Handle
             \/ (\E w \in Wsis : Event(w) \/ \E m \in Requests : Receive(w, m))

Queue == QueueTop \/ QueueCheck \/ QueueBlock \/ QueueBreak \/ QueueTake \/ QueueProcess

Next == Control \/ Service \/ Queue \/ QueueSpuriousWake

(* A call of the control thread goes on once begun; the service thread     *)
(* goes round its loop and lws_service() returns after its 50 ms, having   *)
(* served the connections that are writable and closed those whose callback*)
(* returned -1; the queue thread is scheduled.                             *)
(* Clients, lws failures and calls of start() and stop() owe nothing.      *)
Fairness ==
  /\ WF_vars(StopSignal \/ JoinService \/ JoinQueue \/ StopFinish \/ SendRequestWritable)
  /\ WF_vars(EnterService \/ Handle)
  /\ SF_vars(LeaveService)
  /\ \A w \in Wsis : SF_vars(WriteableEnter(w)) /\ SF_vars(conn[w] = "hungup" /\ Close(w))
  /\ WF_vars(Queue)

Spec == Init /\ [][Next]_vars /\ Fairness

-----------------------------------------------------------------------------
(* Properties.                                                             *)

Pending(w) == {sendQueue[w][i] : i \in 1..Len(sendQueue[w])}
InHand(w) == IF svcWsi = w /\ svc = "popped" THEN {svcMsg} ELSE {}

(* A message that waits in the send queue of an open connection always has *)
(* a writable callback requested for it, or a thread about to request one: *)
(* the WRITEABLE handler that pops one message, and every push, see to it. *)
NoStrandedResponse ==
  \A w \in Wsis : conn[w] = "open" /\ sendQueue[w] # <<>> =>
    \/ w \in writable
    \/ svcWsi = w /\ svc \in {"pushed", "writeable", "found", "popped", "wrote"}
    \/ ctlWsi = w /\ ctl = "pushed"

(* While a connection stays open each message pushed for it is still in    *)
(* its queue, in the hands of the WRITEABLE handler, written, or lost to a *)
(* failed lws_write, and only in one of these places.                      *)
EachMessageInOnePlace ==
  \A w \in Wsis : conn[w] = "open" =>
    \A i \in 1..Len(queued[w]) :
      LET m == queued[w][i]
          places == << m \in Pending(w), m \in InHand(w),
                       m \in Range(wire[w]), m \in lost >>
      IN \E k \in 1..4 : places[k] /\ \A j \in 1..4 : places[j] => j = k

(* What leaves through the send queue leaves in the order it was pushed,   *)
(* and once: on the wire, then in hand, then still queued.                 *)
FifoPerClient ==
  \A w \in Wsis : conn[w] = "open" =>
    LET hand == IF svcWsi = w /\ svc = "popped" THEN <<svcMsg>> ELSE <<>>
        out  == wire[w] \o hand \o sendQueue[w]
    IN \A i, j \in 1..Len(out), a, b \in 1..Len(queued[w]) :
         i < j /\ out[i] = queued[w][a] /\ out[j] = queued[w][b] => a < b

(* ServerStopsCleanly of test_websocket_server.cpp, for every interleaving *)
(* stop() can return from: no client, connection, thread, pending writable *)
(* callback or queued response outlives it.                                *)
StopLeavesNothing ==
  ctl = "idle" /\ ~running =>
    /\ clients = {} /\ writable = {}
    /\ svc = "none" /\ que = "none"
    /\ \A w \in Wsis : conn[w] \in {"new", "closed"} /\ sendQueue[w] = <<>>

(* A request that is queued while the server runs never finds the queue    *)
(* thread asleep: enqueue_request notifies under queue_mutex_.             *)
NoMissedRequest == running /\ requestQueue # <<>> => que # "blocked"

(* The queue thread hands over the requests in the order of their arrival, *)
(* none twice and none skipped, across stops and restarts.                 *)
HandledInOrder ==
  handled \o (IF queReq = None THEN <<>> ELSE <<queReq>>) \o requestQueue = arrived

(* With a token set, a connection that did not present it neither gets     *)
(* anything, not even what the server broadcasts or sends by itself, nor   *)
(* has a request handled.                                                  *)
UntrustedGetNothing ==
  requireAuth => \A w \in Wsis \ Trusted :
    /\ w \notin clients
    /\ wire[w] = <<>> /\ sendQueue[w] = <<>>
    /\ \A i \in 1..Len(arrived) : arrived[i].wsi # w

(* stop() gets past its first join: the service thread always sees the     *)
(* flag, whatever the handlers and clients do.                             *)
ServiceThreadJoins == ctl = "flagged" ~> ctl = "joined"

(* A response on a send queue is written, or lost to a failed write, or    *)
(* dropped because its connection closed or the server was stopped.        *)
ResponseLeaves ==
  \A w \in Wsis, m \in Messages :
    m \in Pending(w) ~> m \in Range(wire[w]) \/ m \in lost \/ conn[w] = "closed" \/ ~running

(* A queued request is handled unless the server is stopped.               *)
RequestHandled ==
  \A r \in QueuedRequest : r \in Range(requestQueue) ~> r \in Range(handled) \/ ~running

-----------------------------------------------------------------------------
(* The server is a ResponseChannel: a message waits from the push until    *)
(* the WRITEABLE handler, which has popped it, has written it.             *)
InChannel(w) ==
  (IF svc = "popped" /\ svcWsi = w THEN <<svcMsg>> ELSE <<>>) \o sendQueue[w]
Channel ==
  INSTANCE ResponseChannel
  WITH state <- [w \in Wsis |-> IF conn[w] = "hungup" THEN "open" ELSE conn[w]],
       waiting <- [w \in Wsis |-> InChannel(w)],
       delivered <- wire, dropped <- lost
ImplementsChannel == Channel!Spec

-----------------------------------------------------------------------------
(* Statements of the sources that the code does not keep.                  *)

(* websocket_server.cpp:89 says that stop() wakes the queue processor      *)
(* thread, and websocket_server.h:67 that it stops the server: a call of   *)
(* stop() returns.                                                         *)
StopReturns == ctl = "flagged" ~> ctl = "idle"

(* websocket_server.cpp:370 says of an established connection that its     *)
(* authentication has already passed: no request on it is refused as       *)
(* unauthenticated.                                                        *)
TrustedIsServed == \A w \in Wsis : conn[w] # "hungup"
=============================================================================
