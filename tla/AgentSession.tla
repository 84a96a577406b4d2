---------------------------- MODULE AgentSession ----------------------------
(***************************************************************************)
(* One MCP session from end to end: a client writes JSON-RPC lines to the  *)
(* stdin of the bridge, the bridge sends each as a WebSocket message, the  *)
(* RECEIVE handler of the server passes what arrives to MCPServer, which   *)
(* carries tool calls out by the executors, and the replies come back to   *)
(* the stdout of the bridge.                                               *)
(*                                                                         *)
(*   client --stdin--> bridge [buffer] --outgoing--> RECEIVE + McpServer   *)
(*                                                   + ToolExecutors       *)
(*   client <--stdout-- bridge <--incoming-- send queue                    *)
(*                                                                         *)
(* The send queue and its order are the matter of WebSocketServer.  How an *)
(* executor and its callback work together is that of DeferredCall, which  *)
(* implements ToolCalls: a call that gets past the checks of ToolExecutors *)
(* goes on as a call of ToolCalls here, and its effect on the patcher is   *)
(* put on record.  libwebsockets delivers at most rx_buffer_size bytes per *)
(* callback, so that a longer message arrives in pieces.                   *)
(*                                                                         *)
(* External: the client, the sockets, the main thread of Max, and the      *)
(* event loop of Node.js, which runs one handler of the bridge at a time.  *)
(***************************************************************************)
EXTENDS McpServer, ToolExecutors

CONSTANTS MaxWritten,  \* bound: lines the client writes
          MaxPieces    \* bound: pieces a long message arrives in

ASSUME BoundAssumption == MaxWritten \in Nat /\ MaxPieces \in Nat \ {0, 1}
ASSUME NullIdAssumption == NullId \notin 1..MaxWritten

VARIABLES
  written,   \* all lines of the client, in order
  stdin,     \* those the bridge has not read yet
  bridge,    \* connecting, open, closing (a close frame came) or exited
  buffer,    \* messageBuffer
  outgoing,  \* lines on their way to the server
  pieces,    \* how much of the first of them has arrived, if it is long
  received,  \* lines that have arrived whole, or to the last piece
  incoming,  \* replies on their way to the bridge
  stdout,    \* replies printed
  verdict,   \* what the executor of each tool call decided
  sent, reply, answer, executed,  \* the calls it deferred (ToolCalls)
  effects    \* calls in the order in which their effects took place

bridgeVars == <<bridge, buffer>>
wireVars == <<outgoing, pieces, received, incoming>>
callVars == <<sent, reply, answer, executed>>
toolVars == <<verdict, callVars, effects>>
vars == <<written, stdin, bridgeVars, wireVars, stdout, toolVars>>

Ids == 1..MaxWritten
Deferred == INSTANCE ToolCalls WITH Calls <- Ids, NoCall <- NullId, Replacements <- Ids

Kinds == Requests \cup Notifications \cup {"broken", "long"}
Message(n, kind) == [kind |-> kind, id |-> IF kind \in Notifications THEN NullId ELSE n]
Messages == {Message(n, k) : n \in Ids, k \in Kinds}
ReplySet == [kind : {"result", "error"}, id : Ids \cup {NullId}]

TypeOK ==
  /\ \A s \in {written, stdin, buffer, outgoing, received} : s \in Seq(Messages)
  /\ bridge \in {"connecting", "open", "closing", "exited"}
  /\ pieces \in 0..MaxPieces - 1
  /\ \A s \in {incoming, stdout} : s \in Seq(ReplySet)
  /\ verdict \in [Ids -> AllVerdicts \cup {"none"}]
  /\ sent \subseteq Ids /\ executed \subseteq Ids
  /\ reply \in [Ids -> {"none", "not_found", "result", "timeout"}]
  /\ answer \in [Ids -> Deferred!Result]
  /\ effects \in Seq(Ids)

Init ==
  /\ written = <<>> /\ stdin = <<>>
  /\ bridge = "connecting" /\ buffer = <<>>
  /\ outgoing = <<>> /\ pieces = 0 /\ received = <<>> /\ incoming = <<>>
  /\ stdout = <<>>
  /\ verdict = [n \in Ids |-> "none"] /\ effects = <<>>
  /\ Deferred!Init

-----------------------------------------------------------------------------
ClientWrites(kind) ==
  /\ bridge # "exited" /\ Len(written) < MaxWritten
  /\ LET m == Message(Len(written) + 1, kind)
     IN written' = Append(written, m) /\ stdin' = Append(stdin, m)
  /\ UNCHANGED <<bridgeVars, wireVars, stdout, toolVars>>

(* ws 'open': the buffer is sent, first line first.  Mutants: last line    *)
(* first; not at all.                                                      *)
OpenReversed ==
  /\ bridge = "connecting"
  /\ bridge' = "open" /\ buffer' = <<>>
  /\ outgoing' = outgoing \o Reverse(buffer)
  /\ UNCHANGED <<written, stdin, pieces, received, incoming, stdout, toolVars>>
OpenOnly ==
  /\ bridge = "connecting"
  /\ bridge' = "open"
  /\ UNCHANGED <<written, stdin, buffer, wireVars, stdout, toolVars>>

Open ==
  /\ bridge = "connecting"
  /\ bridge' = "open" /\ buffer' = <<>>
  /\ outgoing' = outgoing \o buffer
  /\ UNCHANGED <<written, stdin, pieces, received, incoming, stdout, toolVars>>

(* rl 'line'                                                               *)
LineSent ==
  /\ bridge = "open" /\ stdin # <<>>
  /\ outgoing' = Append(outgoing, Head(stdin))
  /\ stdin' = Tail(stdin)
  /\ UNCHANGED <<written, bridgeVars, pieces, received, incoming, stdout, toolVars>>

(* Mutant: all lines are pushed as one.                                    *)
LineBufferedWhole ==
  /\ bridge \in {"connecting", "closing"} /\ stdin # <<>>
  /\ buffer' = Append(buffer, stdin)
  /\ stdin' = <<>>
  /\ UNCHANGED <<written, bridge, wireVars, stdout, toolVars>>

LineBuffered ==
  /\ bridge \in {"connecting", "closing"} /\ stdin # <<>>
  /\ buffer' = Append(buffer, Head(stdin))
  /\ stdin' = Tail(stdin)
  /\ UNCHANGED <<written, bridge, wireVars, stdout, toolVars>>

(* LWS_CALLBACK_RECEIVE: every callback is taken for a message, and the    *)
(* service thread handles one after another.  A long line comes in several *)
(* callbacks, none of which has a JSON value.                              *)
ReceivePiece ==
  /\ outgoing # <<>> /\ Deferred!Idle
  /\ Head(outgoing).kind = "long" /\ pieces + 1 < MaxPieces
  /\ pieces' = pieces + 1
  /\ incoming' = incoming \o ParseError
  /\ UNCHANGED <<written, stdin, bridgeVars, outgoing, received, stdout, toolVars>>

(* A message, or the last piece of a long one.                             *)
Take ==
  /\ outgoing # <<>> /\ Deferred!Idle
  /\ Head(outgoing).kind = "long" => pieces + 1 = MaxPieces
  /\ received' = Append(received, Head(outgoing))
  /\ outgoing' = Tail(outgoing) /\ pieces' = 0
  /\ UNCHANGED <<written, stdin, bridgeVars, stdout, effects>>

(* A message that is no tool call.  An empty response is not sent.         *)
Receive ==
  /\ Take
  /\ Head(outgoing).kind \notin ToolCallKinds
  /\ \E response \in HandleRequestString(Head(outgoing)) : incoming' = incoming \o response
  /\ UNCHANGED <<verdict, callVars>>

(* tools/call: what the executor of some tool makes of the arguments.      *)
VerdictsOn(m) ==
  CASE m.kind = "good call" -> GoodVerdicts
    [] m.kind = "faulty call" -> FaultyVerdicts
    [] OTHER -> {}

(* Raw and OnSuccess come to the same for handle_request().                *)
Shape(v) == IF v = "OnSuccess" THEN "Raw" ELSE v

ReceiveCall ==
  /\ Take
  /\ LET m == Head(outgoing)
     IN \E v \in VerdictsOn(m) :
          /\ verdict' = [verdict EXCEPT ![m.id] = Shape(v)]
          /\ IF v \in Wraps THEN Deferred!Accept(m.id) /\ UNCHANGED incoming
             ELSE /\ \E response \in CallReplies(m.id, v) : incoming' = incoming \o response
                  /\ IF v = "unknown" THEN Deferred!Reject(m.id) ELSE UNCHANGED callVars

(* The callback of a call acts on the patcher.                             *)
CallbackActs(n) ==
  /\ Deferred!Execute(n)
  /\ effects' = Append(effects, n)
  /\ UNCHANGED <<written, stdin, bridgeVars, wireVars, stdout, verdict>>

(* run_deferred() returns: what it returned is sent if the client is still *)
(* there.  Of the callbacks only replace_object_text_deferred, which may   *)
(* have deleted the old box, reports an error after it acted.              *)
Send(r) == incoming' = IF bridge = "open" THEN Append(incoming, r) ELSE incoming

CallReturns(n) ==
  /\ \/ /\ Deferred!Answer(n) /\ Send(DeferredReply(n, verdict[n], answer'[n].ok))
        /\ \/ Deferred!SomeTimeout \/ verdict[n] = "Replace"
           \/ n \in executed => answer'[n].ok
     \/ Deferred!TimeOut(n) /\ Send(Reply("error", n))
  /\ UNCHANGED <<written, stdin, bridgeVars, outgoing, pieces, received, stdout, verdict, effects>>

(* ws 'message'                                                            *)
ReplyPrinted ==
  /\ bridge = "open" /\ incoming # <<>>
  /\ stdout' = Append(stdout, Head(incoming))
  /\ incoming' = Tail(incoming)
  /\ UNCHANGED <<written, stdin, bridgeVars, outgoing, pieces, received, toolVars>>

(* The connection ends: nothing more arrives on either side.               *)
Disconnect ==
  /\ bridge = "open"
  /\ bridge' = "closing"
  /\ outgoing' = <<>> /\ pieces' = 0 /\ incoming' = <<>>
  /\ UNCHANGED <<written, stdin, buffer, received, stdout, toolVars>>

(* ws 'error' (no connection), ws 'close', SIGINT and SIGTERM.             *)
Exit ==
  /\ bridge # "exited"
  /\ bridge' = "exited" /\ stdin' = <<>> /\ buffer' = <<>>
  /\ outgoing' = <<>> /\ pieces' = 0 /\ incoming' = <<>>
  /\ UNCHANGED <<written, received, stdout, toolVars>>

-----------------------------------------------------------------------------
BridgeReads == LineSent \/ LineBuffered
ServerReads == ReceivePiece \/ Receive \/ ReceiveCall
Connects == bridge = "connecting" /\ (Open \/ Exit)
Closes == bridge = "closing" /\ Exit

Next ==
  \/ \E kind \in Kinds : ClientWrites(kind)
  \/ Open \/ BridgeReads \/ ServerReads \/ ReplyPrinted \/ Disconnect \/ Exit
  \/ \E n \in Ids : CallbackActs(n) \/ CallReturns(n)

(* The event loop serves every event; a connection attempt ends; the       *)
(* service thread handles what it receives, its waits have a deadline      *)
(* (EveryCallReplied of DeferredCall), and it sends what it has to send    *)
(* (ResponseLeaves of WebSocketServer).  Nothing is assumed of the main    *)
(* thread of Max.                                                          *)
Fairness ==
  /\ WF_vars(Connects) /\ WF_vars(Closes) /\ WF_vars(BridgeReads)
  /\ WF_vars(ServerReads) /\ WF_vars(\E n \in Ids : CallReturns(n))
  /\ WF_vars(ReplyPrinted)

Spec == Init /\ [][Next]_vars /\ Fairness

-----------------------------------------------------------------------------
(* Properties.                                                             *)

(* While the connection lasts, and before it is made, no line is lost,     *)
(* duplicated or overtaken: what was received, is on its way, waits in the *)
(* buffer and waits in the pipe is what was written.                       *)
LinesKeepOrder ==
  bridge \in {"connecting", "open"} => received \o outgoing \o buffer \o stdin = written

(* The client can match replies to requests by id: every id printed or on  *)
(* its way is that of a request of its, no id comes twice, they come in    *)
(* the order of the requests, and each request that was received has its   *)
(* reply, as long as the connection lasts, unless its executor waits for   *)
(* the callback or threw.                                                  *)
Waiting(n) == n \in sent /\ reply[n] = "none"
Replies == stdout \o incoming
RepliesMatchRequests ==
  /\ \A j, k \in DOMAIN Replies :
       j < k /\ NullId \notin {Replies[j].id, Replies[k].id} => Replies[j].id < Replies[k].id
  /\ \A r \in ToSet(Replies) : r.id # NullId => written[r.id].kind \in Requests
  /\ bridge \in {"connecting", "open"} =>
       \A m \in ToSet(received) :
         m.kind \in Requests /\ verdict[m.id] # "throws" /\ ~Waiting(m.id) =>
           \E r \in ToSet(Replies) : r.id = m.id

(* Until a call times out, the effects of an agent's calls take place one  *)
(* after another in the order in which it wrote them, whether or not it    *)
(* waits for the replies.                                                  *)
EffectsInOrder ==
  Deferred!SomeTimeout \/
  \A j, k \in DOMAIN effects : j < k => effects[j] < effects[k]

(* Until a call times out, the reply tells the agent what happened: a call *)
(* answered by a result took effect, unless its tool wraps errors too      *)
(* (DeferredWrap::Always), and one answered by an error did not and will   *)
(* not take effect, unless it was to replace the text of a box: that fails *)
(* at times after the old box is gone.                                     *)
RepliesTellOutcome ==
  Deferred!SomeTimeout \/
  \A k \in DOMAIN Replies :
    LET r == Replies[k] IN
    r.id # NullId /\ verdict[r.id] \in Wraps =>
      IF r.kind = "result" THEN r.id \in executed \/ verdict[r.id] = "Always"
      ELSE r.id \notin executed \/ verdict[r.id] = "Replace"

(* Executors and schemas agree: arguments against the schema of a tool are *)
(* turned down before anything is deferred, and arguments as it says are   *)
(* not turned down.                                                        *)
ArgumentsChecked ==
  \A n \in DOMAIN written :
    /\ written[n].kind = "faulty call" => verdict[n] \in {"none", "refused", "throws"}
    /\ written[n].kind = "good call" => verdict[n] \notin {"refused", "throws"}

WellFormed == {"plain", "unserved", "good call"}

(* A request that the client wrote as the schemas say is answered under    *)
(* its id, or the bridge exits, even when the main thread of Max hangs.    *)
RequestAnswered ==
  \A n \in Ids :
    Len(written) >= n /\ written[n].kind \in WellFormed ~>
      bridge = "exited" \/ \E k \in DOMAIN stdout : stdout[k].id = n
=============================================================================
