-------------------------- MODULE ResponseChannel --------------------------
(***************************************************************************)
(* What WebSocketServer promises to those who send through it: each        *)
(* connection has a channel from which messages come out in the order in   *)
(* which they were put in, one at a time.  While the connection is open    *)
(* nothing disappears from it but a message whose write failed; when it    *)
(* closes what still waits is discarded, and nothing is put in from then   *)
(* on.  A broadcast goes past the waiting messages of all that are open.   *)
(***************************************************************************)
EXTENDS Sequences

CONSTANTS Wsis, Messages

VARIABLES
  state,     \* of each connection: new, open or closed
  waiting,   \* messages in the channel of each connection
  delivered, \* messages that came out of it
  dropped    \* messages whose write failed

vars == <<state, waiting, delivered, dropped>>

Init ==
  /\ state = [w \in Wsis |-> "new"]
  /\ waiting = [w \in Wsis |-> <<>>]
  /\ delivered = [w \in Wsis |-> <<>>]
  /\ dropped = {}

Open(w) ==
  /\ state[w] = "new"
  /\ state' = [state EXCEPT ![w] = "open"]
  /\ UNCHANGED <<waiting, delivered, dropped>>

Put(w, m) ==
  /\ state[w] = "open"
  /\ waiting' = [waiting EXCEPT ![w] = Append(@, m)]
  /\ UNCHANGED <<state, delivered, dropped>>

TakeOut(w) ==
  /\ state[w] = "open" /\ waiting[w] # <<>>
  /\ waiting' = [waiting EXCEPT ![w] = Tail(@)]
  /\ UNCHANGED state

Deliver(w) ==
  /\ TakeOut(w)
  /\ delivered' = [delivered EXCEPT ![w] = Append(@, Head(waiting[w]))]
  /\ UNCHANGED dropped

Drop(w) ==
  /\ TakeOut(w)
  /\ dropped' = dropped \cup {Head(waiting[w])}
  /\ UNCHANGED delivered

Broadcast(m) ==
  /\ delivered' = [w \in Wsis |-> IF state[w] = "open" THEN Append(delivered[w], m)
                                                        ELSE delivered[w]]
  /\ UNCHANGED <<state, waiting, dropped>>

(* Connections close, or are turned away, one or several at once.          *)
Close(W) ==
  /\ state' = [w \in Wsis |-> IF w \in W THEN "closed" ELSE state[w]]
  /\ waiting' = [w \in Wsis |-> IF w \in W THEN <<>> ELSE waiting[w]]
  /\ UNCHANGED <<delivered, dropped>>

Next ==
  \/ \E w \in Wsis : Open(w) \/ Deliver(w) \/ Drop(w)
  \/ \E m \in Messages : Broadcast(m) \/ \E w \in Wsis : Put(w, m)
  \/ \E W \in SUBSET Wsis : Close(W)

Spec == Init /\ [][Next]_vars
=============================================================================
