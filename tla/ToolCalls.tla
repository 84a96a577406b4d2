------------------------------ MODULE ToolCalls ------------------------------
(***************************************************************************)
(* What the tool executors promise a client, without threads, heap or      *)
(* condition variables.                                                    *)
(*                                                                         *)
(*   - one call is carried out at a time, and replied to once: the patch   *)
(*     is not known, the call timed out, or here is the result;            *)
(*   - its effect on the patcher takes place at most once, never after a   *)
(*     "not found" reply, but possibly after a "timeout" reply; until some *)
(*     call has timed out it takes place before the reply;                 *)
(*   - a result is the call's own; one of success says that the effect     *)
(*     took place, an error that it did not, unless the call replaces the  *)
(*     text of a box, which may fail after it deleted that box.  Once some *)
(*     call has timed out this is promised no more: its late callback may  *)
(*     complete another call in its place.                                 *)
(***************************************************************************)
CONSTANTS Calls, NoCall,
          Replacements  \* the calls of replace_object_text

VARIABLES sent, reply, answer, executed
vars == <<sent, reply, answer, executed>>

Result == [call : Calls \cup {NoCall}, ok : BOOLEAN]
Null   == [call |-> NoCall, ok |-> FALSE]

Init ==
  /\ sent = {}
  /\ reply = [c \in Calls |-> "none"]
  /\ answer = [c \in Calls |-> Null]
  /\ executed = {}

(* Mutant: a call is taken on while another is carried out.                *)
IdleAlways == TRUE
Idle == \A d \in sent : reply[d] # "none"

Reject(c) ==
  /\ Idle /\ c \notin sent
  /\ sent' = sent \cup {c}
  /\ reply' = [reply EXCEPT ![c] = "not_found"]
  /\ UNCHANGED <<answer, executed>>

Accept(c) ==
  /\ Idle /\ c \notin sent
  /\ sent' = sent \cup {c}
  /\ UNCHANGED <<reply, answer, executed>>

SomeTimeout == \E c \in Calls : reply[c] = "timeout"

Execute(c) ==
  /\ c \in sent /\ c \notin executed
  /\ reply[c] = "none" \/ (reply[c] # "not_found" /\ SomeTimeout)
  /\ executed' = executed \cup {c}
  /\ UNCHANGED <<sent, reply, answer>>

(* What a result of success, or an error, tells of the call.               *)
Tells(c, ok) ==
  /\ ok => c \in executed
  /\ c \in executed => ok \/ c \in Replacements

Answer(c) ==
  /\ c \in sent /\ reply[c] = "none"
  /\ reply' = [reply EXCEPT ![c] = "result"]
  /\ \E r \in Result :
       /\ (r.call = c /\ Tells(c, r.ok)) \/ SomeTimeout
       /\ answer' = [answer EXCEPT ![c] = r]
  /\ UNCHANGED <<sent, executed>>

TimeOut(c) ==
  /\ c \in sent /\ reply[c] = "none"
  /\ reply' = [reply EXCEPT ![c] = "timeout"]
  /\ UNCHANGED <<sent, answer, executed>>

Next == \E c \in Calls : \/ Reject(c) \/ Accept(c) \/ Execute(c)
                         \/ Answer(c) \/ TimeOut(c)

Spec == Init /\ [][Next]_vars /\ \A c \in Calls : WF_vars(Answer(c) \/ TimeOut(c))
=============================================================================
