------------------------------ MODULE McpServer ------------------------------
(***************************************************************************)
(* MCPServer as a function: which replies handle_request_string() can give *)
(* to a message.  A message is its kind and its id; the text of a reply is *)
(* its kind and the id it carries.  The server keeps no state between      *)
(* messages.                                                               *)
(***************************************************************************)
EXTENDS Naturals, Sequences

CONSTANT NullId   \* the id null, which also stands for a missing one

(* Kinds of messages by what handle_request() tells apart.                 *)
(*   plain     initialize, tools/list                                      *)
(*   unserved  no tool name, a tool no module knows, an unknown method     *)
(*   good and faulty call: a tools/call whose arguments are as the schema  *)
(*             of the tool says, and one with a required one that is not   *)
(*   broken    a request whose fields have other types than the code asks  *)
(*             for, or no JSON value                                       *)
(*   long      longer than rx_buffer_size, of which only pieces arrive     *)
ToolCallKinds == {"good call", "faulty call"}
Requests == {"plain", "unserved"} \cup ToolCallKinds
Notifications == {"initialized", "other notification"}
Broken == {"broken", "long"}

Reply(kind, id) == [kind |-> kind, id |-> id]
ParseError == <<Reply("error", NullId)>>

(* A tool call that nothing was deferred for, by what its executor did.    *)
CallReplies(id, verdict) ==
  CASE verdict = "throws" -> {ParseError}
    [] verdict = "direct" -> {<<Reply("result", id)>>, <<Reply("error", id)>>}
    [] OTHER -> {<<Reply("error", id)>>}

(* A tool call whose callback stored a result: ok if it is no error.       *)
(* run_deferred() shapes it, and handle_request() makes an error reply of  *)
(* what still is an error.  Mutant: every result is wrapped.               *)
DeferredReplyWrapped(id, wrap, ok) == Reply("result", id)
DeferredReply(id, wrap, ok) ==
  Reply(IF ok \/ wrap = "Always" THEN "result" ELSE "error", id)

(* Mutant: an error reply carries no id.                                   *)
HandleRequestNoId(m) ==
  CASE m.kind = "plain" -> {<<Reply("result", m.id)>>}
    [] m.kind = "initialized" -> {<<>>}
    [] OTHER -> {ParseError}

(* Only the notification "initialized" is silent: any other method that is *)
(* not known is answered with an error, a notification with a null id.     *)
HandleRequest(m) ==
  CASE m.kind = "plain" -> {<<Reply("result", m.id)>>}
    [] m.kind = "initialized" -> {<<>>}
    [] OTHER -> {<<Reply("error", m.id)>>}

(* A message that is no tool call.  A throw anywhere below is answered     *)
(* with a parse error and a null id.                                       *)
HandleRequestString(m) ==
  IF m.kind \in Broken THEN {ParseError} ELSE HandleRequest(m)
=============================================================================
