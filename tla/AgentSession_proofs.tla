------------------------- MODULE AgentSession_proofs -------------------------
(***************************************************************************)
(* Proofs about AgentSession, for any number of lines and of pieces: the   *)
(* lines keep their order, the replies match them, and until a call times  *)
(* out the effects take place in order and the replies tell of them.       *)
(*                                                                         *)
(* The inductive invariant has three parts.  Lines is about what the       *)
(* client wrote and where it is; Talk is about the calls, their effects    *)
(* and the replies, and rests on Lines; Decisions is about what the        *)
(* executors made of the arguments, and rests on both and on the tables of *)
(* ToolExecutors.                                                          *)
(***************************************************************************)
EXTENDS AgentSession, ToolExecutors_proofs

(* Each line has its number for its id, if it has one.                     *)
Numbered ==
  /\ Len(written) <= MaxWritten
  /\ \A n \in 1..Len(written) : \E kind \in Kinds : written[n] = Message(n, kind)

(* What was received are the first lines written.                          *)
Arrived ==
  /\ Len(received) <= Len(written)
  /\ \A n \in 1..Len(received) : received[n] = written[n]

Lines ==
  /\ written \in Seq(Messages) /\ stdin \in Seq(Messages) /\ buffer \in Seq(Messages)
  /\ outgoing \in Seq(Messages) /\ received \in Seq(Messages)
  /\ bridge \in {"connecting", "open", "closing", "exited"}
  /\ pieces \in 0..MaxPieces - 1
  /\ bridge # "open" => outgoing = <<>>
  /\ bridge = "connecting" => received = <<>>
  /\ bridge = "open" => buffer = <<>>
  /\ Numbered /\ Arrived /\ LinesKeepOrder

-----------------------------------------------------------------------------
(* Sequences: an element goes from one place to the next.                  *)

LEMMA AppendedOne ==
  ASSUME NEW S, NEW s \in Seq(S), NEW e \in S
  PROVE  Append(s, e) = s \o <<e>> /\ <<e>> \in Seq(S)
OBVIOUS

LEMMA Split ==
  ASSUME NEW S, NEW s \in Seq(S), s # <<>>
  PROVE  Head(s) \in S /\ Tail(s) \in Seq(S) /\ s = <<Head(s)>> \o Tail(s)
<1>1. /\ Head(s) \in S /\ Tail(s) \in Seq(S) /\ Len(Tail(s)) = Len(s) - 1
      /\ Head(s) = s[1] /\ Len(s) \in Nat /\ Len(Tail(s)) \in Nat
      /\ \A i \in 1..Len(Tail(s)) : Tail(s)[i] = s[i + 1]
  BY HeadTailProperties, LenProperties
<1>2. PICK t \in Seq(S) : t = Tail(s)
  BY <1>1
<1>3. PICK h \in Seq(S) : h = <<Head(s)>>
  <2>1. <<Head(s)>> \in Seq(S)
    BY <1>1, AppendedOne
  <2> QED BY <2>1
<1>4. Len(h) = 1 /\ h[1] = s[1]
  BY <1>1, <1>3
<1>5. /\ h \o t \in Seq(S) /\ Len(h \o t) = Len(h) + Len(t)
      /\ \A i \in 1..Len(h) + Len(t) : (h \o t)[i] = IF i <= Len(h) THEN h[i] ELSE t[i - Len(h)]
  BY ConcatProperties
<1>6. \A i \in 1..Len(s) : (h \o t)[i] = s[i]
  BY <1>1, <1>2, <1>4, <1>5
<1>7. h \o t = s
  BY <1>1, <1>2, <1>4, <1>5, <1>6, SeqEqual
<1> QED BY <1>1, <1>2, <1>3, <1>7

LEMMA Moved ==
  ASSUME NEW S, NEW s \in Seq(S), NEW t \in Seq(S), t # <<>>
  PROVE  Append(s, Head(t)) \o Tail(t) = s \o t
<1>1. /\ Head(t) \in S /\ <<Head(t)>> \in Seq(S) /\ Tail(t) \in Seq(S)
      /\ t = <<Head(t)>> \o Tail(t)
  BY Split, AppendedOne
<1>2. Append(s, Head(t)) = s \o <<Head(t)>>
  BY <1>1, AppendedOne
<1> QED BY <1>1, <1>2, ConcatAssociative

LEMMA AppendedLast ==
  ASSUME NEW S, NEW s \in Seq(S), NEW t \in Seq(S), NEW e \in S
  PROVE  s \o Append(t, e) = Append(s \o t, e)
<1>1. Append(t, e) = t \o <<e>> /\ <<e>> \in Seq(S)
  BY AppendedOne
<1>2. s \o t \in Seq(S) /\ Append(s \o t, e) = (s \o t) \o <<e>>
  BY ConcatProperties, AppendedOne
<1> QED BY <1>1, <1>2, ConcatAssociative

-----------------------------------------------------------------------------
(* The lines.                                                              *)

LEMMA Entries ==
  ASSUME NEW n \in Ids, NEW kind \in Kinds
  PROVE  Message(n, kind) \in Messages
BY DEF Messages

LEMMA WritesLines ==
  ASSUME Lines, NEW kind \in Kinds, ClientWrites(kind)
  PROVE  Lines'
<1> DEFINE m == Message(Len(written) + 1, kind)
<1>1. Len(written) \in Nat /\ Len(written) + 1 \in Ids
  BY BoundAssumption DEF Lines, ClientWrites, Ids
<1>2. m \in Messages
  BY <1>1, Entries
<1>3. written' = Append(written, m) /\ stdin' = Append(stdin, m)
      /\ UNCHANGED <<bridge, buffer, outgoing, pieces, received>>
  BY DEF ClientWrites, bridgeVars, wireVars
<1>4. written' \in Seq(Messages) /\ stdin' \in Seq(Messages)
      /\ Len(written') = Len(written) + 1
      /\ written'[Len(written) + 1] = m
      /\ \A n \in 1..Len(written) : written'[n] = written[n]
  BY <1>2, <1>3, AppendProperties DEF Lines
<1>5. Numbered'
  <2> HIDE DEF m
  <2>1. Len(written') <= MaxWritten
    BY <1>1, <1>4, BoundAssumption DEF Ids
  <2>2. ASSUME NEW n \in 1..Len(written') PROVE \E k \in Kinds : written'[n] = Message(n, k)
    <3>1. CASE n = Len(written) + 1
      BY <1>4, <3>1 DEF m
    <3>2. CASE n \in 1..Len(written)
      BY <1>4, <3>2 DEF Lines, Numbered
    <3> QED BY <1>1, <1>4, <3>1, <3>2
  <2> QED BY <2>1, <2>2 DEF Numbered
<1>6. Arrived'
  <2>1. Len(received) \in Nat
    BY DEF Lines
  <2> QED BY <1>1, <1>3, <1>4, <2>1 DEF Lines, Arrived
<1>7. LinesKeepOrder'
  <2> DEFINE r == received \o outgoing \o buffer
  <2>1. received \in Seq(Messages) /\ outgoing \in Seq(Messages) /\ buffer \in Seq(Messages)
    BY DEF Lines
  <2>2. r \in Seq(Messages)
    <3>1. received \o outgoing \in Seq(Messages)
      BY <2>1, ConcatProperties
    <3> QED BY <2>1, <3>1, ConcatProperties
  <2> HIDE DEF r, m
  <2>3. r \o Append(stdin, m) = Append(r \o stdin, m)
    <3>1. stdin \in Seq(Messages)
      BY DEF Lines
    <3> QED BY <1>2, <2>2, <3>1, AppendedLast
  <2> QED BY <1>3, <2>3 DEF Lines, LinesKeepOrder, r
<1> QED BY <1>3, <1>4, <1>5, <1>6, <1>7 DEF Lines

LEMMA OpenLines ==
  ASSUME Lines, Open
  PROVE  Lines'
<1>1. /\ bridge = "connecting" /\ bridge' = "open" /\ buffer' = <<>>
      /\ outgoing' = outgoing \o buffer /\ UNCHANGED <<written, stdin, pieces, received>>
  BY DEF Open
<1>2. outgoing' \in Seq(Messages) /\ <<>> \in Seq(Messages)
  BY <1>1, ConcatProperties DEF Lines
<1>3. LinesKeepOrder'
  <2> received \in Seq(Messages) /\ outgoing \in Seq(Messages) /\ buffer \in Seq(Messages)
    BY DEF Lines
  <2>1. received \o (outgoing \o buffer) = received \o outgoing \o buffer
    BY ConcatAssociative
  <2>2. received \o (outgoing \o buffer) \in Seq(Messages)
    BY <1>1, <1>2, ConcatProperties DEF Lines
  <2>3. received \o (outgoing \o buffer) \o <<>> = received \o (outgoing \o buffer)
    BY <2>2, ConcatEmptySeq
  <2> QED BY <1>1, <2>1, <2>3 DEF Lines, LinesKeepOrder
<1>4. Numbered' /\ Arrived'
  BY <1>1 DEF Lines, Numbered, Arrived
<1> QED BY <1>1, <1>2, <1>3, <1>4 DEF Lines

LEMMA SentLines ==
  ASSUME Lines, LineSent
  PROVE  Lines'
<1>1. /\ bridge = "open" /\ stdin # <<>> /\ buffer = <<>>
      /\ outgoing' = Append(outgoing, Head(stdin)) /\ stdin' = Tail(stdin)
      /\ UNCHANGED <<written, bridge, buffer, pieces, received>>
  BY DEF LineSent, bridgeVars, Lines
<1>2. Head(stdin) \in Messages /\ Tail(stdin) \in Seq(Messages)
  BY <1>1, Split DEF Lines
<1>3. outgoing' \in Seq(Messages)
  BY <1>1, <1>2, AppendProperties DEF Lines
<1>4. LinesKeepOrder'
  <2>1. /\ received \o outgoing \in Seq(Messages)
        /\ received \o Append(outgoing, Head(stdin)) = Append(received \o outgoing, Head(stdin))
        /\ Append(received \o outgoing, Head(stdin)) \in Seq(Messages)
    BY <1>2, ConcatProperties, AppendedLast, AppendProperties DEF Lines
  <2>2. /\ received \o outgoing \o <<>> = received \o outgoing
        /\ Append(received \o outgoing, Head(stdin)) \o <<>> = Append(received \o outgoing, Head(stdin))
    BY <2>1, ConcatEmptySeq
  <2>3. Append(received \o outgoing, Head(stdin)) \o Tail(stdin) = received \o outgoing \o stdin
    BY <1>1, <2>1, Moved DEF Lines
  <2> QED BY <1>1, <2>1, <2>2, <2>3 DEF Lines, LinesKeepOrder
<1>5. Numbered' /\ Arrived'
  BY <1>1 DEF Lines, Numbered, Arrived
<1> QED BY <1>1, <1>2, <1>3, <1>4, <1>5 DEF Lines

LEMMA BufferedLines ==
  ASSUME Lines, LineBuffered
  PROVE  Lines'
<1>1. /\ bridge \in {"connecting", "closing"} /\ stdin # <<>>
      /\ buffer' = Append(buffer, Head(stdin)) /\ stdin' = Tail(stdin)
      /\ UNCHANGED <<written, bridge, outgoing, pieces, received>>
  BY DEF LineBuffered, wireVars
<1>2. Head(stdin) \in Messages /\ Tail(stdin) \in Seq(Messages)
  BY <1>1, Split DEF Lines
<1>3. buffer' \in Seq(Messages)
  BY <1>1, <1>2, AppendProperties DEF Lines
<1>4. LinesKeepOrder'
  <2> DEFINE r == received \o outgoing
  <2> received \in Seq(Messages) /\ outgoing \in Seq(Messages) /\ buffer \in Seq(Messages)
    BY DEF Lines
  <2>1. r \in Seq(Messages) /\ r \o buffer \in Seq(Messages)
    BY ConcatProperties
  <2> HIDE DEF r
  <2>2. r \o Append(buffer, Head(stdin)) = Append(r \o buffer, Head(stdin))
    BY <1>2, <2>1, AppendedLast
  <2>3. Append(r \o buffer, Head(stdin)) \o Tail(stdin) = r \o buffer \o stdin
    BY <1>1, <2>1, Moved DEF Lines
  <2> QED BY <1>1, <2>2, <2>3 DEF Lines, LinesKeepOrder, r
<1>5. Numbered' /\ Arrived'
  BY <1>1 DEF Lines, Numbered, Arrived
<1> QED BY <1>1, <1>2, <1>3, <1>4, <1>5 DEF Lines

(* The line that is taken is the next one written.                         *)
LEMMA NextLine ==
  ASSUME Lines, outgoing # <<>>
  PROVE  /\ bridge = "open"
         /\ Len(received) + 1 \in 1..Len(written)
         /\ Head(outgoing) = written[Len(received) + 1]
<1>1. bridge = "open" /\ buffer = <<>>
  BY DEF Lines
<1> DEFINE r == received \o outgoing
<1>2. /\ r \in Seq(Messages) /\ Len(r) = Len(received) + Len(outgoing)
      /\ \A i \in 1..Len(received) + Len(outgoing) :
           r[i] = IF i <= Len(received) THEN received[i] ELSE outgoing[i - Len(received)]
  <2> received \in Seq(Messages) /\ outgoing \in Seq(Messages)
    BY DEF Lines
  <2> QED BY ConcatProperties
<1> HIDE DEF r
<1>3. r \o <<>> = r
  BY <1>2, ConcatEmptySeq
<1>4. written = r \o stdin
  BY <1>1, <1>3 DEF Lines, LinesKeepOrder, r
<1>5. /\ Len(written) = Len(r) + Len(stdin)
      /\ \A i \in 1..Len(r) + Len(stdin) : written[i] = IF i <= Len(r) THEN r[i] ELSE stdin[i - Len(r)]
  <2> stdin \in Seq(Messages)
    BY DEF Lines
  <2>1. /\ Len(r \o stdin) = Len(r) + Len(stdin)
        /\ \A i \in 1..Len(r) + Len(stdin) :
             (r \o stdin)[i] = IF i <= Len(r) THEN r[i] ELSE stdin[i - Len(r)]
    BY <1>2, ConcatProperties
  <2> QED BY <1>4, <2>1
<1>6. Len(received) \in Nat /\ Len(stdin) \in Nat /\ Len(outgoing) \in Nat \ {0}
      /\ Head(outgoing) = outgoing[1]
  BY EmptySeq DEF Lines
<1> QED BY <1>1, <1>2, <1>5, <1>6

LEMMA TakeLines ==
  ASSUME Lines, Take
  PROVE  Lines'
<1>1. /\ outgoing # <<>> /\ received' = Append(received, Head(outgoing))
      /\ outgoing' = Tail(outgoing) /\ pieces' = 0
      /\ UNCHANGED <<written, stdin, bridge, buffer>>
  BY DEF Take, bridgeVars
<1>2. Head(outgoing) \in Messages /\ Tail(outgoing) \in Seq(Messages)
  BY <1>1, Split DEF Lines
<1>3. /\ received' \in Seq(Messages) /\ Len(received') = Len(received) + 1
      /\ received'[Len(received) + 1] = Head(outgoing)
      /\ \A n \in 1..Len(received) : received'[n] = received[n]
  BY <1>1, <1>2, AppendProperties DEF Lines
<1>4. LinesKeepOrder'
  <2>1. received' \o outgoing' = received \o outgoing
    BY <1>1, Moved DEF Lines
  <2> QED BY <1>1, <2>1 DEF Lines, LinesKeepOrder
<1>5. Arrived'
  <2>1. Len(received) \in Nat
    BY DEF Lines
  <2> QED BY <1>1, <1>3, <2>1, NextLine DEF Lines, Arrived
<1>6. Numbered' /\ pieces' \in 0..MaxPieces - 1
  BY <1>1, BoundAssumption DEF Lines, Numbered
<1>7. bridge = "open"
  BY <1>1, NextLine
<1> QED BY <1>1, <1>2, <1>3, <1>4, <1>5, <1>6, <1>7 DEF Lines

LEMMA PieceLines ==
  ASSUME Lines, ReceivePiece
  PROVE  Lines'
<1>1. pieces' = pieces + 1 /\ pieces + 1 < MaxPieces
      /\ UNCHANGED <<written, stdin, bridge, buffer, outgoing, received>>
  BY DEF ReceivePiece, bridgeVars
<1>2. pieces' \in 0..MaxPieces - 1
  BY <1>1, BoundAssumption DEF Lines
<1> QED BY <1>1, <1>2 DEF Lines, Numbered, Arrived, LinesKeepOrder

LEMMA EndLines ==
  ASSUME Lines, Disconnect \/ Exit
  PROVE  Lines'
<1>1. /\ bridge' \in {"closing", "exited"} /\ outgoing' = <<>> /\ pieces' = 0
      /\ stdin' \in {stdin, <<>>} /\ buffer' \in {buffer, <<>>}
      /\ UNCHANGED <<written, received>>
  BY DEF Disconnect, Exit
<1>2. <<>> \in Seq(Messages) /\ 0 \in 0..MaxPieces - 1
  BY BoundAssumption
<1> QED BY <1>1, <1>2 DEF Lines, Numbered, Arrived, LinesKeepOrder

LEMMA SameLines ==
  ASSUME Lines, UNCHANGED <<written, stdin, bridgeVars, outgoing, pieces, received>>
  PROVE  Lines'
BY DEF Lines, bridgeVars, Numbered, Arrived, LinesKeepOrder

LEMMA LinesKept ==
  ASSUME Lines, [Next]_vars
  PROVE  Lines'
<1>1. ASSUME NEW kind \in Kinds, ClientWrites(kind) PROVE Lines'
  BY <1>1, WritesLines
<1>2. CASE Open \/ BridgeReads
  BY <1>2, OpenLines, SentLines, BufferedLines DEF BridgeReads
<1>3. CASE ServerReads
  BY <1>3, PieceLines, TakeLines DEF ServerReads, Receive, ReceiveCall
<1>4. CASE ReplyPrinted \/ \E n \in Ids : CallbackActs(n) \/ CallReturns(n)
  BY <1>4, SameLines DEF ReplyPrinted, CallbackActs, CallReturns, wireVars
<1>5. CASE Disconnect \/ Exit
  BY <1>5, EndLines
<1>6. CASE UNCHANGED vars
  BY <1>6, SameLines DEF vars, wireVars
<1> QED BY <1>1, <1>2, <1>3, <1>4, <1>5, <1>6 DEF Next

LEMMA InitLines == Init => Lines
<1> SUFFICES ASSUME Init PROVE Lines
  OBVIOUS
<1>1. <<>> \in Seq(Messages) /\ Len(<<>>) = 0 /\ 0 \in 0..MaxPieces - 1
  BY BoundAssumption
<1>2. <<>> \o <<>> \o <<>> \o <<>> = <<>>
  BY <1>1, ConcatEmptySeq
<1> QED BY <1>1, <1>2, BoundAssumption DEF Init, Lines, Numbered, Arrived, LinesKeepOrder

LEMMA LinesHold == Spec => []Lines
BY InitLines, LinesKept, PTL DEF Spec

(* LinesKeepOrder, for any number of lines and pieces.                     *)
THEOREM LinesOrdered == Spec => []LinesKeepOrder
<1>1. Lines => LinesKeepOrder
  BY DEF Lines
<1> QED BY <1>1, LinesHold, PTL

-----------------------------------------------------------------------------
(* The calls: which have a verdict, which were deferred, and that only the *)
(* last line received can be a call that waits.                            *)
Calls ==
  /\ DOMAIN verdict = Ids
  /\ sent \subseteq Ids /\ executed \subseteq sent
  /\ reply \in [Ids -> {"none", "not_found", "result", "timeout"}]
  /\ answer \in [Ids -> Deferred!Result]
  /\ \A n \in Ids :
       /\ verdict[n] # "none" => n \in 1..Len(received) /\ received[n].kind \in ToolCallKinds
       /\ n \in sent => n \in 1..Len(received)
       /\ verdict[n] \in Wraps <=> n \in sent /\ reply[n] # "not_found"
       /\ n \notin sent => reply[n] = "none"
       /\ Waiting(n) => n = Len(received)

Acts ==
  /\ effects \in Seq(Ids)
  /\ \A k \in 1..Len(effects) : effects[k] \in executed
  /\ EffectsInOrder

(* What holds of a reply on its own.                                       *)
Said(r) ==
  r.id # NullId =>
    /\ r.id \in 1..Len(received) /\ received[r.id].kind \in Requests
    /\ ~Waiting(r.id)
    /\ \/ Deferred!SomeTimeout
       \/ verdict[r.id] \in Wraps =>
            IF r.kind = "result" THEN r.id \in executed \/ verdict[r.id] = "Always"
            ELSE r.id \notin executed \/ verdict[r.id] = "Replace"

Speech ==
  /\ stdout \in Seq(ReplySet) /\ incoming \in Seq(ReplySet)
  /\ \A k \in 1..Len(Replies) : Said(Replies[k])
  /\ \A j, k \in 1..Len(Replies) :
       j < k /\ Replies[j].id # NullId /\ Replies[k].id # NullId => Replies[j].id < Replies[k].id

Answered ==
  bridge \in {"connecting", "open"} =>
    \A n \in 1..Len(received) :
      received[n].kind \in Requests /\ verdict[n] # "throws" /\ ~Waiting(n) =>
        \E k \in 1..Len(Replies) : Replies[k].id = n

Talk ==
  /\ Calls /\ Acts /\ Speech /\ Answered
  /\ bridge # "open" => incoming = <<>>

-----------------------------------------------------------------------------
(* How the replies change.                                                 *)

LEMMA RepliesType ==
  ASSUME Speech
  PROVE  Replies \in Seq(ReplySet) /\ Len(Replies) \in Nat /\ DOMAIN Replies = 1..Len(Replies)
<1> stdout \in Seq(ReplySet) /\ incoming \in Seq(ReplySet)
  BY DEF Speech
<1>1. Replies \in Seq(ReplySet)
  BY ConcatProperties DEF Replies
<1> QED BY <1>1, LenProperties

LEMMA SpeechQuiet ==
  ASSUME Speech, stdout' \in Seq(ReplySet), incoming' \in Seq(ReplySet), Replies' = Replies,
         \A q \in ReplySet : Said(q) => Said(q)'
  PROVE  Speech'
<1>1. \A k \in 1..Len(Replies) : Replies[k] \in ReplySet
  BY RepliesType, ElementOfSeq
<1> QED BY <1>1 DEF Speech

LEMMA SpeechGrows ==
  ASSUME Speech, NEW r \in ReplySet, incoming' = Append(incoming, r), stdout' = stdout,
         \A q \in ReplySet : Said(q) => Said(q)',
         Said(r)',
         \A q \in ReplySet : Said(q) /\ q.id # NullId /\ r.id # NullId => q.id < r.id
  PROVE  /\ Speech'
         /\ Len(Replies') = Len(Replies) + 1 /\ Replies'[Len(Replies) + 1] = r
         /\ \A k \in 1..Len(Replies) : Replies'[k] = Replies[k]
<1>1. /\ stdout \in Seq(ReplySet) /\ incoming \in Seq(ReplySet)
      /\ incoming' \in Seq(ReplySet)
  BY AppendProperties DEF Speech
<1>2. Replies' = Append(Replies, r)
  BY <1>1, AppendedLast DEF Replies
<1>3. /\ Len(Replies') = Len(Replies) + 1 /\ Replies'[Len(Replies) + 1] = r
      /\ \A k \in 1..Len(Replies) : Replies'[k] = Replies[k]
  BY <1>2, RepliesType, AppendProperties
<1>4. /\ Len(Replies) \in Nat
      /\ \A k \in 1..Len(Replies) : Replies[k] \in ReplySet /\ Said(Replies[k])
  BY RepliesType, ElementOfSeq DEF Speech
<1>5. ASSUME NEW k \in 1..Len(Replies') PROVE Said(Replies[k])'
  <2>1. CASE k = Len(Replies) + 1
    BY <1>3, <2>1 DEF Said, Waiting
  <2>2. CASE k \in 1..Len(Replies)
    <3>1. PICK q \in ReplySet : q = Replies[k] /\ q = Replies'[k] /\ Said(q)
      BY <1>3, <1>4, <2>2
    <3>2. Said(q)'
      BY <3>1
    <3> QED BY <3>1, <3>2 DEF Said, Waiting
  <2> QED BY <1>3, <1>4, <2>1, <2>2
<1>6. ASSUME NEW j \in 1..Len(Replies'), NEW k \in 1..Len(Replies'), j < k,
             Replies'[j].id # NullId, Replies'[k].id # NullId
      PROVE  Replies'[j].id < Replies'[k].id
  <2>1. j \in 1..Len(Replies)
    BY <1>3, <1>4, <1>6
  <2>2. CASE k = Len(Replies) + 1
    <3>1. Replies'[k] = r /\ Replies'[j] = Replies[j]
      BY <1>3, <2>1, <2>2
    <3>2. Replies[j] \in ReplySet /\ Said(Replies[j])
      BY <1>4, <2>1
    <3> QED BY <1>6, <3>1, <3>2
  <2>3. CASE k \in 1..Len(Replies)
    <3>1. Replies'[k] = Replies[k] /\ Replies'[j] = Replies[j]
      BY <1>3, <2>1, <2>3
    <3> QED BY <1>6, <2>1, <2>3, <3>1 DEF Speech
  <2> QED BY <1>3, <1>4, <2>2, <2>3
<1> QED BY <1>1, <1>3, <1>5, <1>6 DEF Speech

LEMMA SpeechCut ==
  ASSUME Speech, incoming' = <<>>, stdout' = stdout,
         \A q \in ReplySet : Said(q) => Said(q)'
  PROVE  Speech'
<1>1. stdout \in Seq(ReplySet) /\ incoming \in Seq(ReplySet)
  BY DEF Speech
<1>2. incoming' \in Seq(ReplySet) /\ Replies' = stdout
  BY <1>1, ConcatEmptySeq DEF Replies
<1>3. /\ Len(stdout) \in Nat /\ Len(incoming) \in Nat
      /\ Len(Replies) = Len(stdout) + Len(incoming)
      /\ \A k \in 1..Len(stdout) + Len(incoming) :
           Replies[k] = IF k <= Len(stdout) THEN stdout[k] ELSE incoming[k - Len(stdout)]
  BY <1>1, ConcatProperties, LenProperties DEF Replies
<1>4. \A k \in 1..Len(stdout) : k \in 1..Len(Replies) /\ Replies[k] = stdout[k] /\ stdout[k] \in ReplySet
  BY <1>1, <1>3, ElementOfSeq
<1> QED BY <1>1, <1>2, <1>4 DEF Speech

LEMMA AnsweredGrows ==
  ASSUME Talk, bridge' = bridge,
         NEW r, Len(Replies') = Len(Replies) + 1, Replies'[Len(Replies) + 1] = r,
         \A k \in 1..Len(Replies) : Replies'[k] = Replies[k],
         bridge = "open" => \A n \in 1..Len(received)' :
           received'[n].kind \in Requests /\ verdict'[n] # "throws" /\ ~Waiting(n)' =>
             \/ r.id = n
             \/ /\ n \in 1..Len(received) /\ received[n].kind \in Requests
                /\ verdict[n] # "throws" /\ ~Waiting(n),
         bridge # "connecting"
  PROVE  Answered'
<1>1. Len(Replies) \in Nat
  BY RepliesType DEF Talk
<1> QED BY <1>1 DEF Talk, Answered

-----------------------------------------------------------------------------
(* Steps that leave the calls and the replies alone.                       *)

LEMMA TalkUntouched ==
  ASSUME Talk, UNCHANGED <<received, incoming, stdout, toolVars>>,
         bridge' = bridge \/ (bridge = "connecting" /\ bridge' = "open")
  PROVE  Talk'
<1>1. UNCHANGED <<received, incoming, stdout, verdict, sent, reply, answer, executed, effects>>
  BY DEF toolVars, callVars
<1>2. Calls'
  BY <1>1 DEF Talk, Calls, Waiting
<1>3. Acts'
  BY <1>1 DEF Talk, Acts, EffectsInOrder, Deferred!SomeTimeout
<1>4. Speech'
  BY <1>1 DEF Talk, Speech, Replies, Said, Waiting, Deferred!SomeTimeout
<1>5. Answered' /\ (bridge' # "open" => incoming' = <<>>)
  BY <1>1 DEF Talk, Answered, Replies, Waiting
<1> QED BY <1>2, <1>3, <1>4, <1>5 DEF Talk

LEMMA PrintedTalk ==
  ASSUME Talk, ReplyPrinted
  PROVE  Talk'
<1>1. /\ bridge = "open" /\ bridge' = "open" /\ incoming # <<>>
      /\ stdout' = Append(stdout, Head(incoming)) /\ incoming' = Tail(incoming)
      /\ UNCHANGED <<received, verdict, sent, reply, answer, executed, effects>>
  BY DEF ReplyPrinted, toolVars, callVars, bridgeVars
<1>2. stdout \in Seq(ReplySet) /\ incoming \in Seq(ReplySet)
  BY DEF Talk, Speech
<1>3. stdout' \in Seq(ReplySet) /\ incoming' \in Seq(ReplySet)
  BY <1>1, <1>2, Split, AppendProperties
<1>4. Replies' = Replies
  BY <1>1, <1>2, Moved DEF Replies
<1>5. \A q \in ReplySet : Said(q) => Said(q)'
  BY <1>1 DEF Said, Waiting, Deferred!SomeTimeout
<1>6. Speech'
  BY <1>3, <1>4, <1>5, SpeechQuiet DEF Talk
<1>7. Calls' /\ Acts'
  BY <1>1 DEF Talk, Calls, Acts, EffectsInOrder, Waiting, Deferred!SomeTimeout
<1>8. Answered'
  BY <1>1, <1>4 DEF Talk, Answered, Waiting
<1> QED BY <1>1, <1>6, <1>7, <1>8 DEF Talk

LEMMA EndTalk ==
  ASSUME Talk, Disconnect \/ Exit
  PROVE  Talk'
<1>1. /\ bridge' \in {"closing", "exited"} /\ incoming' = <<>>
      /\ UNCHANGED <<received, stdout, verdict, sent, reply, answer, executed, effects>>
  BY DEF Disconnect, Exit, toolVars, callVars
<1>2. \A q \in ReplySet : Said(q) => Said(q)'
  BY <1>1 DEF Said, Waiting, Deferred!SomeTimeout
<1>3. Speech'
  BY <1>1, <1>2, SpeechCut DEF Talk
<1>4. Calls' /\ Acts'
  BY <1>1 DEF Talk, Calls, Acts, EffectsInOrder, Waiting, Deferred!SomeTimeout
<1> QED BY <1>1, <1>3, <1>4 DEF Talk, Answered

-----------------------------------------------------------------------------
(* The server reads.                                                       *)

LEMMA JoinedOne ==
  ASSUME NEW S, NEW s \in Seq(S), NEW e \in S
  PROVE  s \o <<e>> = Append(s, e) /\ s \o <<>> = s
BY AppendedOne, ConcatEmptySeq

LEMMA ReplyTypes ==
  ASSUME NEW kind \in {"result", "error"}, NEW id \in Ids \cup {NullId}
  PROVE  Reply(kind, id) \in ReplySet
BY DEF Reply, ReplySet

LEMMA PieceTalk ==
  ASSUME Lines, Talk, ReceivePiece
  PROVE  Talk'
<1>1. PICK r \in ReplySet : r.id = NullId /\ ParseError = <<r>>
  BY ReplyTypes DEF ParseError, Reply
<1>2. incoming \in Seq(ReplySet)
  BY DEF Talk, Speech
<1>3. /\ bridge = "open" /\ bridge' = bridge
      /\ incoming' = Append(incoming, r)
      /\ UNCHANGED <<received, stdout, verdict, sent, reply, answer, executed, effects>>
  BY <1>1, <1>2, NextLine, JoinedOne DEF ReceivePiece, toolVars, callVars, bridgeVars
<1>4. \A q \in ReplySet : Said(q) => Said(q)'
  BY <1>3 DEF Said, Waiting, Deferred!SomeTimeout
<1>5. Said(r)'
  BY <1>1 DEF Said
<1>6. /\ Speech'
      /\ Len(Replies') = Len(Replies) + 1 /\ Replies'[Len(Replies) + 1] = r
      /\ \A k \in 1..Len(Replies) : Replies'[k] = Replies[k]
  BY <1>1, <1>3, <1>4, <1>5, SpeechGrows DEF Talk
<1>7. Calls' /\ Acts'
  BY <1>3 DEF Talk, Calls, Acts, EffectsInOrder, Waiting, Deferred!SomeTimeout
<1>8. \A n \in 1..Len(received)' :
        received'[n].kind \in Requests /\ verdict'[n] # "throws" /\ ~Waiting(n)' =>
          /\ n \in 1..Len(received) /\ received[n].kind \in Requests
          /\ verdict[n] # "throws" /\ ~Waiting(n)
  BY <1>3 DEF Waiting
<1>9. Answered'
  BY <1>3, <1>6, <1>8, AnsweredGrows
<1> QED BY <1>3, <1>6, <1>7, <1>9 DEF Talk

LEMMA Taken ==
  ASSUME Lines, Take
  PROVE  /\ bridge = "open" /\ bridge' = "open"
         /\ UNCHANGED <<stdout, effects>> /\ Deferred!Idle
         /\ Len(received) \in Nat /\ Len(received) + 1 \in Ids
         /\ Len(received') = Len(received) + 1
         /\ received'[Len(received) + 1] = Head(outgoing)
         /\ \A n \in 1..Len(received) : received'[n] = received[n]
         /\ \E kind \in Kinds : Head(outgoing) = Message(Len(received) + 1, kind)
<1>1. /\ outgoing # <<>> /\ received' = Append(received, Head(outgoing))
      /\ UNCHANGED <<bridge, stdout, effects>> /\ Deferred!Idle
  BY DEF Take, bridgeVars
<1>2. /\ bridge = "open" /\ Len(received) + 1 \in 1..Len(written)
      /\ Head(outgoing) = written[Len(received) + 1]
  BY <1>1, NextLine
<1>3. \E kind \in Kinds : Head(outgoing) = Message(Len(received) + 1, kind)
  BY <1>2 DEF Lines, Numbered
<1>4. received \in Seq(Messages) /\ Head(outgoing) \in Messages
  BY <1>1, Split DEF Lines
<1>5. /\ Len(received) \in Nat /\ Len(received') = Len(received) + 1
      /\ received'[Len(received) + 1] = Head(outgoing)
      /\ \A n \in 1..Len(received) : received'[n] = received[n]
  BY <1>1, <1>4, AppendProperties, LenProperties
<1>6. Len(received) + 1 \in Ids
  <2>1. Len(written) \in Nat /\ Len(written) <= MaxWritten
    BY DEF Lines, Numbered
  <2> QED BY <1>2, <1>5, <2>1, BoundAssumption DEF Ids
<1> QED BY <1>1, <1>2, <1>3, <1>5, <1>6

(* What is said of earlier lines stays true when line n is received.       *)
OnlyLine(n) ==
  /\ n = Len(received) + 1 /\ executed' = executed
  /\ Deferred!SomeTimeout => Deferred!SomeTimeout'
  /\ \A i \in Ids \ {n} :
       /\ verdict'[i] = verdict[i] /\ reply'[i] = reply[i]
       /\ i \in sent' <=> i \in sent

LEMMA StillSaid ==
  ASSUME Lines, Talk, Take, NEW n \in Ids, OnlyLine(n)
  PROVE  /\ \A q \in ReplySet : Said(q) => Said(q)'
         /\ \A i \in 1..Len(received) :
              /\ i \in Ids \ {n} /\ i < n /\ received'[i] = received[i]
              /\ verdict'[i] = verdict[i] /\ Waiting(i)' = Waiting(i)
         /\ \A q \in ReplySet : Said(q) /\ q.id # NullId => q.id < n
<1>1. /\ Len(received) \in Nat /\ Len(received') = Len(received) + 1
      /\ \A i \in 1..Len(received) : received'[i] = received[i]
  BY Taken
<1>2. \A i \in 1..Len(received) : i \in Ids \ {n} /\ i < n
  BY <1>1, BoundAssumption DEF OnlyLine, Ids
<1>3. \A i \in 1..Len(received) : verdict'[i] = verdict[i] /\ Waiting(i)' = Waiting(i)
  BY <1>2 DEF OnlyLine, Waiting
<1>4. ASSUME NEW q \in ReplySet, Said(q), q.id # NullId
      PROVE  Said(q)' /\ q.id < n
  <2>1. q.id \in 1..Len(received)
    BY <1>4 DEF Said
  <2>2. PICK i \in 1..Len(received) : i = q.id
    BY <2>1
  <2>3. /\ received'[i] = received[i] /\ verdict'[i] = verdict[i] /\ Waiting(i)' = Waiting(i)
        /\ i \in 1..Len(received') /\ i < n
    BY <1>1, <1>2, <1>3
  <2> QED BY <1>4, <2>2, <2>3 DEF Said, OnlyLine, Waiting
<1>5. \A q \in ReplySet : q.id = NullId => Said(q)'
  BY DEF Said
<1> QED BY <1>1, <1>2, <1>3, <1>4, <1>5

LEMMA ReceivedSilently ==
  ASSUME Lines, Talk, Take, NEW n \in Ids, OnlyLine(n), Calls', Acts', incoming' = incoming,
         received'[n].kind \in Requests => Waiting(n)'
  PROVE  Talk'
<1>1. /\ bridge = "open" /\ bridge' = "open" /\ stdout' = stdout
      /\ Len(received) \in Nat /\ Len(received') = Len(received) + 1
  BY Taken
<1>2. Replies' = Replies /\ stdout \in Seq(ReplySet) /\ incoming \in Seq(ReplySet)
  BY <1>1 DEF Replies, Talk, Speech
<1>3. Speech'
  BY <1>1, <1>2, StillSaid, SpeechQuiet DEF Talk
<1>4. Answered'
  <2>1. SUFFICES ASSUME NEW i \in 1..Len(received'), received'[i].kind \in Requests,
                        verdict'[i] # "throws", ~Waiting(i)'
                 PROVE  \E k \in 1..Len(Replies) : Replies[k].id = i
    BY <1>2 DEF Answered
  <2>2. CASE i = n
    <3>1. PICK j \in Ids : j = n /\ j = i
      BY <2>2
    <3> QED BY <2>1, <3>1 DEF Waiting
  <2>3. CASE i \in 1..Len(received)
    BY <1>1, <2>1, <2>3, StillSaid DEF Talk, Answered
  <2> QED BY <1>1, <2>2, <2>3 DEF OnlyLine
<1> QED BY <1>1, <1>3, <1>4 DEF Talk

LEMMA ReceivedAnswered ==
  ASSUME Lines, Talk, Take, NEW n \in Ids, OnlyLine(n), Calls', Acts',
         NEW r \in ReplySet, incoming' = Append(incoming, r),
         r.id # NullId =>
           r.id = n /\ received'[n].kind \in Requests /\ ~Waiting(n)' /\ verdict'[n] \notin Wraps,
         r.id = NullId => received'[n].kind \notin Requests \/ verdict'[n] = "throws"
  PROVE  Talk'
<1>1. /\ bridge = "open" /\ bridge' = "open" /\ stdout' = stdout
      /\ Len(received) \in Nat /\ Len(received') = Len(received) + 1
  BY Taken
<1>2. Said(r)'
  <2>1. CASE r.id = NullId
    BY <2>1 DEF Said
  <2>2. CASE r.id # NullId
    <3>1. r.id = n /\ n \in 1..Len(received')
      BY <1>1, <2>2 DEF OnlyLine
    <3> QED BY <2>2, <3>1 DEF Said, Waiting
  <2> QED BY <2>1, <2>2
<1>3. \A q \in ReplySet : Said(q) /\ q.id # NullId /\ r.id # NullId => q.id < r.id
  BY StillSaid
<1>4. /\ Speech'
      /\ Len(Replies') = Len(Replies) + 1 /\ Replies'[Len(Replies) + 1] = r
      /\ \A k \in 1..Len(Replies) : Replies'[k] = Replies[k]
  BY <1>1, <1>2, <1>3, StillSaid, SpeechGrows DEF Talk
<1>5. ASSUME NEW i \in 1..Len(received'), received'[i].kind \in Requests,
             verdict'[i] # "throws", ~Waiting(i)'
      PROVE  \/ r.id = i
             \/ /\ i \in 1..Len(received) /\ received[i].kind \in Requests
                /\ verdict[i] # "throws" /\ ~Waiting(i)
  <2>1. CASE i = n
    BY <1>5, <2>1
  <2>2. CASE i \in 1..Len(received)
    BY <1>5, <2>2, StillSaid
  <2> QED BY <1>1, <2>1, <2>2 DEF OnlyLine
<1>6. Answered'
  BY <1>1, <1>4, <1>5, AnsweredGrows
<1> QED BY <1>1, <1>4, <1>6 DEF Talk

(* Until line n has been received, nothing is known of it.                 *)
LEMMA NotYetCalled ==
  ASSUME Lines, Talk, Take, NEW n \in Ids, n = Len(received) + 1
  PROVE  /\ n \notin sent /\ n \notin executed /\ reply[n] = "none" /\ verdict[n] \notin Wraps
         /\ n \notin 1..Len(received) /\ n = Len(received') /\ n \in 1..Len(received')
         /\ \A i \in Ids : ~Waiting(i)
<1>1. /\ Len(received) \in Nat /\ Len(received') = Len(received) + 1 /\ Deferred!Idle
  BY Taken
<1>2. n \notin sent /\ n \notin executed /\ reply[n] = "none" /\ verdict[n] \notin Wraps
  BY <1>1 DEF Talk, Calls
<1>3. \A i \in Ids : ~Waiting(i)
  BY <1>1 DEF Waiting, Deferred!Idle
<1> QED BY <1>1, <1>2, <1>3

LEMMA ResponseTo ==
  ASSUME NEW n \in Ids, NEW kind \in Kinds \ ToolCallKinds,
         NEW response \in HandleRequestString(Message(n, kind))
  PROVE  \/ response = <<>> /\ kind \notin Requests
         \/ \E r \in ReplySet : /\ response = <<r>>
                                /\ r.id # NullId => r.id = n /\ kind \in Requests
                                /\ r.id = NullId => kind \notin Requests
<1> DEFINE m == Message(n, kind)
<1>1. m.kind = kind /\ m.id = IF kind \in Notifications THEN NullId ELSE n
  BY DEF Message
<1> HIDE DEF m
<1>2. CASE kind \in Broken
  <2>1. response = <<Reply("error", NullId)>>
    BY <1>1, <1>2 DEF HandleRequestString, ParseError, m
  <2>2. kind \notin Requests
    BY <1>2 DEF Broken, Requests, ToolCallKinds
  <2> QED BY <2>1, <2>2, ReplyTypes DEF Reply
<1>3. CASE kind = "plain"
  <2>1. response = <<Reply("result", n)>>
    BY <1>1, <1>3 DEF HandleRequestString, HandleRequest, Broken, Notifications, m
  <2>2. Reply("result", n).id = n /\ kind \in Requests
    BY <1>3 DEF Reply, Requests
  <2> QED BY <2>1, <2>2, ReplyTypes, NullIdAssumption DEF Ids
<1>4. CASE kind = "initialized"
  <2>1. response = <<>> /\ kind \notin Requests
    BY <1>1, <1>4 DEF HandleRequestString, HandleRequest, Broken, Requests, ToolCallKinds, m
  <2> QED BY <2>1
<1>5. CASE kind = "other notification"
  <2>1. response = <<Reply("error", NullId)>> /\ kind \notin Requests
    BY <1>1, <1>5
       DEF HandleRequestString, HandleRequest, Broken, Notifications, Requests, ToolCallKinds, m
  <2> QED BY <2>1, ReplyTypes DEF Reply
<1>6. CASE kind = "unserved"
  <2>1. response = <<Reply("error", n)>>
    BY <1>1, <1>6 DEF HandleRequestString, HandleRequest, Broken, Notifications, m
  <2>2. Reply("error", n).id = n /\ kind \in Requests
    BY <1>6 DEF Reply, Requests
  <2> QED BY <2>1, <2>2, ReplyTypes, NullIdAssumption DEF Ids
<1> QED BY <1>2, <1>3, <1>4, <1>5, <1>6 DEF Kinds, Requests, Notifications, Broken

LEMMA ReceiveTalk ==
  ASSUME Lines, Talk, Receive
  PROVE  Talk'
<1>1. /\ Take /\ Head(outgoing).kind \notin ToolCallKinds
      /\ UNCHANGED <<verdict, sent, reply, answer, executed>>
  BY DEF Receive, callVars
<1>2. PICK n \in Ids : n = Len(received) + 1
  BY <1>1, Taken
<1>3. PICK kind \in Kinds : Head(outgoing) = Message(n, kind)
  BY <1>1, <1>2, Taken
<1>4. kind \notin ToolCallKinds /\ received'[n].kind = kind
  BY <1>1, <1>2, <1>3, Taken DEF Message
<1>5. OnlyLine(n)
  BY <1>1, <1>2 DEF OnlyLine, Deferred!SomeTimeout
<1>6. /\ ~Waiting(n)' /\ verdict'[n] \notin Wraps
  BY <1>1, <1>2, NotYetCalled DEF Waiting
<1>7. Calls'
  <2>1. \A i \in 1..Len(received) : i \in 1..Len(received') /\ received'[i] = received[i]
    BY <1>1, Taken
  <2>2. \A i \in Ids : ~Waiting(i)'
    BY <1>1, <1>2, NotYetCalled DEF Waiting
  <2> QED BY <1>1, <2>1, <2>2 DEF Talk, Calls
<1>8. Acts'
  BY <1>1, Taken DEF Talk, Acts, EffectsInOrder, Deferred!SomeTimeout
<1>9. PICK response \in HandleRequestString(Message(n, kind)) : incoming' = incoming \o response
  BY <1>3 DEF Receive
<1>10. incoming \in Seq(ReplySet)
  BY DEF Talk, Speech
<1>11. CASE response = <<>> /\ kind \notin Requests
  BY <1>1, <1>4, <1>5, <1>7, <1>8, <1>9, <1>10, <1>11, ConcatEmptySeq, ReceivedSilently
<1>12. ASSUME NEW r \in ReplySet, response = <<r>>,
              r.id # NullId => r.id = n /\ kind \in Requests,
              r.id = NullId => kind \notin Requests
       PROVE  Talk'
  <2>1. incoming' = Append(incoming, r)
    BY <1>9, <1>10, <1>12, JoinedOne
  <2> QED BY <1>1, <1>4, <1>5, <1>6, <1>7, <1>8, <1>12, <2>1, ReceivedAnswered
<1> QED BY <1>4, <1>11, <1>12, ResponseTo

(* Line n is a tool call, and v is what its executor makes of it.          *)
Called(n, v) ==
  /\ Take /\ n = Len(received) + 1 /\ received'[n].kind \in ToolCallKinds
  /\ v \in VerdictsOn(received'[n])
  /\ verdict' = [verdict EXCEPT ![n] = Shape(v)]
  /\ IF v \in Wraps THEN Deferred!Accept(n) /\ incoming' = incoming
     ELSE /\ \E response \in CallReplies(n, v) : incoming' = incoming \o response
          /\ IF v = "unknown" THEN Deferred!Reject(n) ELSE UNCHANGED callVars

LEMMA CallTaken ==
  ASSUME Lines, Talk, ReceiveCall
  PROVE  \E n \in Ids : \E v : Called(n, v)
<1> DEFINE m == Head(outgoing)
<1>1. Take
  BY DEF ReceiveCall
<1>2. PICK v \in VerdictsOn(m) :
        /\ verdict' = [verdict EXCEPT ![m.id] = Shape(v)]
        /\ IF v \in Wraps THEN Deferred!Accept(m.id) /\ UNCHANGED incoming
           ELSE /\ \E response \in CallReplies(m.id, v) : incoming' = incoming \o response
                /\ IF v = "unknown" THEN Deferred!Reject(m.id) ELSE UNCHANGED callVars
  BY DEF ReceiveCall
<1>3. m.kind \in ToolCallKinds
  BY <1>2 DEF VerdictsOn, ToolCallKinds
<1>4. PICK n \in Ids : n = Len(received) + 1
  BY <1>1, Taken
<1>5. PICK kind \in Kinds : m = Message(n, kind)
  BY <1>1, <1>4, Taken
<1>6. received'[n] = m /\ received'[n].kind \in ToolCallKinds
  BY <1>1, <1>3, <1>4, Taken
<1> HIDE DEF m
<1>7. m.id = n
  <2>1. m.kind = kind /\ m.id = IF kind \in Notifications THEN NullId ELSE n
    BY <1>5 DEF Message
  <2>2. kind \notin Notifications
    BY <1>3, <2>1 DEF ToolCallKinds, Notifications
  <2> QED BY <2>1, <2>2
<1>8. Called(n, v)
  BY <1>1, <1>2, <1>4, <1>6, <1>7 DEF Called
<1> QED BY <1>4, <1>8

LEMMA CalledCalls ==
  ASSUME Lines, Talk, Take, NEW n \in Ids, n = Len(received) + 1,
         received'[n].kind \in ToolCallKinds,
         NEW v, verdict' = [verdict EXCEPT ![n] = v],
         \/ v \in Wraps /\ Deferred!Accept(n)
         \/ v \notin Wraps /\ Deferred!Reject(n)
         \/ v \notin Wraps /\ UNCHANGED callVars
  PROVE  Calls' /\ Acts' /\ OnlyLine(n) /\ verdict'[n] = v /\ Waiting(n)' = (v \in Wraps)
<1>1. /\ n \notin sent /\ n \notin executed /\ reply[n] = "none" /\ n = Len(received')
      /\ \A i \in Ids : ~Waiting(i)
  BY NotYetCalled
<1>2. /\ executed' = executed /\ answer' = answer /\ DOMAIN verdict' = Ids
      /\ sent' = IF v \in Wraps \/ Deferred!Reject(n) THEN sent \cup {n} ELSE sent
  BY DEF Talk, Calls, callVars, Deferred!Accept, Deferred!Reject
<1>3. /\ reply' \in [Ids -> {"none", "not_found", "result", "timeout"}]
      /\ \A i \in Ids \ {n} : reply'[i] = reply[i] /\ verdict'[i] = verdict[i]
      /\ verdict'[n] = v
      /\ \A i \in Ids \ {n} : i \in sent' <=> i \in sent
      /\ reply'[n] # "timeout"
      /\ v \in Wraps => n \in sent' /\ reply'[n] = "none"
      /\ v \notin Wraps => IF n \in sent' THEN reply'[n] = "not_found" ELSE reply'[n] = "none"
      /\ sent' \subseteq Ids
  BY <1>1 DEF Talk, Calls, callVars, Deferred!Accept, Deferred!Reject
<1>4. OnlyLine(n)
  BY <1>1, <1>2, <1>3 DEF OnlyLine, Deferred!SomeTimeout
<1>5. Waiting(n)' = (v \in Wraps)
  BY <1>3 DEF Waiting
<1>6. /\ \A i \in 1..Len(received) : i \in 1..Len(received') /\ received'[i] = received[i]
      /\ n \in 1..Len(received')
  BY NotYetCalled, Taken
<1>7. Calls'
  <2>1. executed' \subseteq sent' /\ answer' \in [Ids -> Deferred!Result]
    BY <1>2 DEF Talk, Calls
  <2>2. ASSUME NEW i \in Ids \ {n}
        PROVE  /\ verdict'[i] # "none" => i \in 1..Len(received') /\ received'[i].kind \in ToolCallKinds
               /\ i \in sent' => i \in 1..Len(received')
               /\ verdict'[i] \in Wraps <=> i \in sent' /\ reply'[i] # "not_found"
               /\ i \notin sent' => reply'[i] = "none"
               /\ ~Waiting(i)'
    BY <1>1, <1>3, <1>6 DEF Talk, Calls, Waiting
  <2> QED BY <1>1, <1>2, <1>3, <1>6, <2>1, <2>2 DEF Calls
<1>8. Acts'
  BY <1>2, <1>3, <1>4, Taken DEF Talk, Acts, EffectsInOrder, OnlyLine
<1> QED BY <1>3, <1>4, <1>5, <1>7, <1>8

LEMMA ReceiveCallTalk ==
  ASSUME Lines, Talk, ReceiveCall
  PROVE  Talk'
<1>1. PICK n \in Ids : \E u : Called(n, u)
  BY CallTaken
<1>2. PICK v : Called(n, v)
  BY <1>1
<1>3. PICK w : w = Shape(v)
  OBVIOUS
<1>4. /\ w \in Wraps <=> v \in Wraps
      /\ v \notin Wraps => w = v
  BY <1>3 DEF Shape, Wraps
<1>5. /\ Take /\ n = Len(received) + 1 /\ received'[n].kind \in ToolCallKinds
      /\ verdict' = [verdict EXCEPT ![n] = w]
      /\ \/ v \in Wraps /\ Deferred!Accept(n) /\ incoming' = incoming
         \/ v \notin Wraps /\ Deferred!Reject(n)
         \/ v \notin Wraps /\ UNCHANGED callVars
      /\ v \notin Wraps => \E response \in CallReplies(n, v) : incoming' = incoming \o response
  BY <1>2, <1>3 DEF Called
<1>6. /\ Calls' /\ Acts' /\ OnlyLine(n) /\ verdict'[n] = w
      /\ Waiting(n)' = (v \in Wraps)
  BY <1>4, <1>5, CalledCalls
<1>7. CASE v \in Wraps
  <2>1. incoming' = incoming
    BY <1>5, <1>7
  <2> QED BY <1>5, <1>6, <1>7, <2>1, ReceivedSilently
<1>8. CASE v \notin Wraps
  <2>1. PICK response \in CallReplies(n, v) : incoming' = incoming \o response
    BY <1>5, <1>8
  <2>2. PICK r \in ReplySet : /\ response = <<r>>
                              /\ r.id # NullId => r.id = n
                              /\ r.id = NullId => v = "throws"
    <3>1. n # NullId
      BY NullIdAssumption DEF Ids
    <3>2. CASE v = "throws"
      BY <2>1, <3>2, ReplyTypes DEF CallReplies, ParseError, Reply
    <3>3. CASE v = "direct"
      BY <2>1, <3>1, <3>3, ReplyTypes DEF CallReplies, Reply
    <3>4. CASE v \notin {"throws", "direct"}
      BY <2>1, <3>1, <3>4, ReplyTypes DEF CallReplies, Reply
    <3> QED BY <3>2, <3>3, <3>4
  <2>3. incoming' = Append(incoming, r)
    <3>1. incoming \in Seq(ReplySet)
      BY DEF Talk, Speech
    <3> QED BY <2>1, <2>2, <3>1, JoinedOne
  <2>4. received'[n].kind \in Requests
    BY <1>5 DEF Requests
  <2> QED BY <1>4, <1>5, <1>6, <1>8, <2>2, <2>3, <2>4, ReceivedAnswered
<1> QED BY <1>7, <1>8

-----------------------------------------------------------------------------
(* A deferred call goes on.                                                *)

LEMMA ActsTalk ==
  ASSUME Lines, Talk, NEW n \in Ids, CallbackActs(n)
  PROVE  Talk'
<1>1. /\ n \in sent /\ n \notin executed
      /\ Waiting(n) \/ (reply[n] # "not_found" /\ Deferred!SomeTimeout)
      /\ executed' = executed \cup {n} /\ effects' = Append(effects, n)
      /\ UNCHANGED <<bridge, received, incoming, stdout, verdict, sent, reply, answer>>
  BY DEF CallbackActs, Deferred!Execute, Waiting, bridgeVars, wireVars
<1>2. Calls'
  BY <1>1 DEF Talk, Calls, Waiting
<1>3. ASSUME NEW q \in ReplySet, Said(q) PROVE Said(q)'
  <2>1. Deferred!SomeTimeout' <=> Deferred!SomeTimeout
    BY <1>1 DEF Deferred!SomeTimeout
  <2>2. CASE Waiting(n)
    <3>1. q.id # NullId => q.id # n
      BY <1>3, <2>2 DEF Said
    <3> QED BY <1>1, <1>3, <2>1, <3>1 DEF Said, Waiting
  <2>3. CASE Deferred!SomeTimeout
    BY <1>1, <1>3, <2>1, <2>3 DEF Said, Waiting
  <2> QED BY <1>1, <2>2, <2>3
<1>4. Replies' = Replies /\ stdout' \in Seq(ReplySet) /\ incoming' \in Seq(ReplySet)
  BY <1>1 DEF Replies, Talk, Speech
<1>5. Speech'
  BY <1>3, <1>4, SpeechQuiet DEF Talk
<1>6. Acts'
  <2>1. /\ effects \in Seq(Ids) /\ Len(effects) \in Nat
        /\ \A k \in 1..Len(effects) : effects[k] \in executed
    BY LenProperties DEF Talk, Acts
  <2>2. /\ effects' \in Seq(Ids) /\ Len(effects') = Len(effects) + 1
        /\ effects'[Len(effects) + 1] = n
        /\ \A k \in 1..Len(effects) : effects'[k] = effects[k]
    BY <1>1, <2>1, AppendProperties
  <2>3. \A k \in 1..Len(effects') : effects'[k] \in executed'
    BY <1>1, <2>1, <2>2
  <2>4. ASSUME ~Deferred!SomeTimeout', NEW j \in 1..Len(effects'), NEW k \in 1..Len(effects'), j < k
        PROVE  effects'[j] < effects'[k]
    <3>1. ~Deferred!SomeTimeout /\ Waiting(n)
      BY <1>1, <2>4 DEF Deferred!SomeTimeout
    <3>2. j \in 1..Len(effects)
      BY <2>1, <2>2, <2>4
    <3>3. CASE k \in 1..Len(effects)
      BY <2>1, <2>2, <2>4, <3>1, <3>2, <3>3 DEF Talk, Acts, EffectsInOrder
    <3>4. CASE k = Len(effects) + 1
      <4>1. effects[j] \in executed /\ effects[j] # n
        BY <1>1, <2>1, <3>2
      <4>2. effects[j] \in 1..Len(received) /\ n = Len(received) /\ Len(received) \in Nat
        BY <3>1, <4>1, LenProperties DEF Talk, Calls, Lines
      <4> QED BY <2>2, <3>2, <3>4, <4>1, <4>2
    <3> QED BY <2>1, <2>2, <3>3, <3>4
  <2>5. DOMAIN effects' = 1..Len(effects')
    BY <2>2
  <2> QED BY <2>2, <2>3, <2>4, <2>5 DEF Acts, EffectsInOrder
<1>7. Answered'
  BY <1>1, <1>4 DEF Talk, Answered, Waiting
<1> QED BY <1>1, <1>2, <1>5, <1>6, <1>7 DEF Talk

(* The reply to call n tells of its effect.                                *)
LEMMA ReplyTold ==
  ASSUME Talk, NEW n \in Ids, CallReturns(n)
  PROVE  \E r \in ReplySet :
           /\ r.id = n
           /\ incoming' = IF bridge = "open" THEN Append(incoming, r) ELSE incoming
           /\ \/ Deferred!SomeTimeout'
              \/ IF r.kind = "result" THEN n \in executed \/ verdict[n] = "Always"
                 ELSE n \notin executed \/ verdict[n] = "Replace"
<1>1. CASE /\ Deferred!Answer(n) /\ Send(DeferredReply(n, verdict[n], answer'[n].ok))
           /\ \/ Deferred!SomeTimeout \/ verdict[n] = "Replace"
              \/ n \in executed => answer'[n].ok
  <2>1. PICK ok : /\ ok = answer'[n].ok
                  /\ \/ Deferred!SomeTimeout \/ verdict[n] = "Replace"
                     \/ n \in executed => ok
                  /\ incoming' = IF bridge = "open"
                                 THEN Append(incoming, DeferredReply(n, verdict[n], ok)) ELSE incoming
    BY <1>1 DEF Send
  <2>2. \/ Deferred!SomeTimeout'
        \/ (ok => n \in executed) /\ (n \in executed => ok \/ verdict[n] = "Replace")
    <3>1. PICK r \in Deferred!Result :
            /\ (r.call = n /\ Deferred!Tells(n, r.ok)) \/ Deferred!SomeTimeout
            /\ answer' = [answer EXCEPT ![n] = r]
      BY <1>1 DEF Deferred!Answer
    <3>2. answer'[n] = r
      BY <3>1 DEF Talk, Calls
    <3>3. Deferred!SomeTimeout => Deferred!SomeTimeout'
      BY <1>1 DEF Deferred!Answer, Deferred!SomeTimeout, Talk, Calls
    <3>4. CASE Deferred!Tells(n, r.ok)
      <4>1. ok => n \in executed
        BY <2>1, <3>2, <3>4 DEF Deferred!Tells
      <4> QED BY <2>1, <3>3, <4>1
    <3> QED BY <3>1, <3>3, <3>4
  <2>3. PICK r \in ReplySet : r = Reply(IF ok \/ verdict[n] = "Always" THEN "result" ELSE "error", n)
    BY ReplyTypes
  <2>4. r.id = n /\ r = DeferredReply(n, verdict[n], ok)
        /\ r.kind = IF ok \/ verdict[n] = "Always" THEN "result" ELSE "error"
    BY <2>3 DEF Reply, DeferredReply
  <2> QED BY <2>1, <2>2, <2>4
<1>2. CASE Deferred!TimeOut(n) /\ Send(Reply("error", n))
  <2>1. Deferred!SomeTimeout'
    BY <1>2 DEF Deferred!TimeOut, Deferred!SomeTimeout, Talk, Calls
  <2>2. PICK r \in ReplySet : r = Reply("error", n)
    BY ReplyTypes
  <2> QED BY <1>2, <2>1, <2>2 DEF Send, Reply
<1> QED BY <1>1, <1>2 DEF CallReturns

LEMMA ReturnsTalk ==
  ASSUME Lines, Talk, NEW n \in Ids, CallReturns(n)
  PROVE  Talk'
<1>1. /\ n \in sent /\ reply[n] = "none"
      /\ reply' \in {[reply EXCEPT ![n] = "result"], [reply EXCEPT ![n] = "timeout"]}
      /\ answer' \in [Ids -> Deferred!Result]
      /\ UNCHANGED <<bridge, received, stdout, verdict, sent, executed, effects>>
  BY DEF CallReturns, Deferred!Answer, Deferred!TimeOut, bridgeVars, Talk, Calls
<1>2. /\ n \in 1..Len(received) /\ n = Len(received) /\ Len(received) \in Nat
      /\ verdict[n] \in Wraps /\ received[n].kind \in ToolCallKinds
  BY <1>1, LenProperties DEF Talk, Calls, Waiting, Lines, Wraps
<1>3. /\ reply' \in [Ids -> {"none", "not_found", "result", "timeout"}]
      /\ \A i \in Ids \ {n} : reply'[i] = reply[i]
      /\ reply'[n] \in {"result", "timeout"}
      /\ Deferred!SomeTimeout => Deferred!SomeTimeout'
  BY <1>1 DEF Talk, Calls, Deferred!SomeTimeout
<1>4. Calls'
  BY <1>1, <1>3 DEF Talk, Calls, Waiting
<1>5. Acts'
  BY <1>1, <1>3 DEF Talk, Acts, EffectsInOrder
<1>6. \A q \in ReplySet : Said(q) /\ q.id # NullId => q.id < n
  BY <1>1, <1>2 DEF Said, Waiting
<1>7. ASSUME NEW q \in ReplySet, Said(q) PROVE Said(q)'
  <2>1. CASE q.id = NullId
    BY <2>1 DEF Said
  <2>2. CASE q.id # NullId
    <3>1. q.id \in 1..Len(received) /\ q.id \in Ids \ {n}
      <4>1. q.id \in 1..Len(received) /\ q.id < n
        BY <1>6, <1>7, <2>2 DEF Said
      <4> QED BY <1>2, <4>1, BoundAssumption DEF Ids
    <3>2. reply'[q.id] = reply[q.id]
      BY <1>3, <3>1
    <3> QED BY <1>1, <1>3, <1>7, <2>2, <3>2 DEF Said, Waiting
  <2> QED BY <2>1, <2>2
<1>8. PICK r \in ReplySet :
        /\ r.id = n
        /\ incoming' = IF bridge = "open" THEN Append(incoming, r) ELSE incoming
        /\ \/ Deferred!SomeTimeout'
           \/ IF r.kind = "result" THEN n \in executed \/ verdict[n] = "Always"
              ELSE n \notin executed \/ verdict[n] = "Replace"
  BY ReplyTold
<1>9. Said(r)'
  <2>1. n \in 1..Len(received) /\ received[n].kind \in Requests /\ ~Waiting(n)'
    BY <1>2, <1>3 DEF Requests, Waiting
  <2> QED BY <1>1, <1>8, <2>1 DEF Said, Waiting
<1>10. CASE bridge = "open"
  <2>1. incoming' = Append(incoming, r)
    BY <1>8, <1>10
  <2>2. /\ Speech'
        /\ Len(Replies') = Len(Replies) + 1 /\ Replies'[Len(Replies) + 1] = r
        /\ \A k \in 1..Len(Replies) : Replies'[k] = Replies[k]
    BY <1>1, <1>6, <1>7, <1>8, <1>9, <2>1, SpeechGrows DEF Talk
  <2>3. \A i \in 1..Len(received') : i # n => ~Waiting(i)
    BY <1>1, <1>2, BoundAssumption DEF Talk, Calls, Waiting, Ids
  <2>4. \A i \in 1..Len(received)' :
          received'[i].kind \in Requests /\ verdict'[i] # "throws" /\ ~Waiting(i)' =>
            \/ r.id = i
            \/ /\ i \in 1..Len(received) /\ received[i].kind \in Requests
               /\ verdict[i] # "throws" /\ ~Waiting(i)
    BY <1>1, <1>8, <2>3
  <2>5. Answered'
    BY <1>1, <1>10, <2>2, <2>4, AnsweredGrows
  <2> QED BY <1>1, <1>4, <1>5, <1>10, <2>2, <2>5 DEF Talk
<1>11. CASE bridge # "open"
  <2>1. incoming' = incoming /\ Replies' = Replies
    BY <1>1, <1>8, <1>11 DEF Replies
  <2>2. Speech'
    BY <1>1, <1>7, <2>1, SpeechQuiet DEF Talk, Speech
  <2>3. bridge # "connecting"
    <3>1. Len(<<>>) = 0
      OBVIOUS
    <3> QED BY <1>2, <3>1 DEF Lines
  <2>4. Answered'
    BY <1>1, <1>11, <2>3 DEF Answered
  <2> QED BY <1>1, <1>4, <1>5, <1>11, <2>1, <2>2, <2>4 DEF Talk
<1> QED BY <1>10, <1>11

-----------------------------------------------------------------------------
(* Both parts are invariant.                                               *)

LEMMA TalkKept ==
  ASSUME Lines, Talk, [Next]_vars
  PROVE  Talk'
<1>1. ASSUME NEW kind \in Kinds, ClientWrites(kind) PROVE Talk'
  BY <1>1, TalkUntouched DEF ClientWrites, bridgeVars, wireVars
<1>2. CASE Open
  BY <1>2, TalkUntouched DEF Open
<1>3. CASE BridgeReads
  BY <1>3, TalkUntouched DEF BridgeReads, LineSent, LineBuffered, bridgeVars, wireVars
<1>4. CASE ServerReads
  BY <1>4, PieceTalk, ReceiveTalk, ReceiveCallTalk DEF ServerReads
<1>5. ASSUME NEW n \in Ids, CallbackActs(n) \/ CallReturns(n) PROVE Talk'
  BY <1>5, ActsTalk, ReturnsTalk
<1>6. CASE ReplyPrinted
  BY <1>6, PrintedTalk
<1>7. CASE Disconnect \/ Exit
  BY <1>7, EndTalk
<1>8. CASE UNCHANGED vars
  BY <1>8, TalkUntouched DEF vars, bridgeVars, wireVars
<1> QED BY <1>1, <1>2, <1>3, <1>4, <1>5, <1>6, <1>7, <1>8 DEF Next

LEMMA InitTalk == Init => Talk
<1> SUFFICES ASSUME Init PROVE Talk
  OBVIOUS
<1>1. /\ received = <<>> /\ stdout = <<>> /\ incoming = <<>> /\ effects = <<>>
      /\ verdict = [n \in Ids |-> "none"] /\ sent = {} /\ executed = {}
      /\ reply = [n \in Ids |-> "none"] /\ answer = [n \in Ids |-> Deferred!Null]
  BY DEF Init, Deferred!Init
<1>2. Deferred!Null \in Deferred!Result
  BY DEF Deferred!Null, Deferred!Result
<1>3. Calls
  <2>1. "none" \notin Wraps
    BY DEF Wraps
  <2> QED BY <1>1, <1>2, <2>1 DEF Calls, Waiting
<1>4. Acts
  BY <1>1 DEF Acts, EffectsInOrder
<1>5. Replies = <<>> /\ Len(Replies) = 0
  BY <1>1, ConcatEmptySeq DEF Replies
<1>6. Speech
  BY <1>1, <1>5 DEF Speech
<1>7. Answered
  BY <1>1 DEF Answered
<1> QED BY <1>1, <1>3, <1>4, <1>6, <1>7 DEF Talk

LEMMA TalkHolds == Spec => []Talk
<1>1. Lines /\ Talk /\ [Next]_vars => Talk'
  BY TalkKept
<1> QED BY InitTalk, LinesHold, <1>1, PTL DEF Spec

(* EffectsInOrder, for any number of lines, pieces and calls.              *)
THEOREM EffectsOrdered == Spec => []EffectsInOrder
<1>1. Talk => EffectsInOrder
  BY DEF Talk, Acts
<1> QED BY <1>1, TalkHolds, PTL

(* RepliesTellOutcome: the reply tells the agent what happened.            *)
THEOREM RepliesTell == Spec => []RepliesTellOutcome
<1>1. ASSUME Talk PROVE RepliesTellOutcome
  <2>1. DOMAIN Replies = 1..Len(Replies) /\ \A k \in 1..Len(Replies) : Said(Replies[k])
    BY <1>1, RepliesType DEF Talk, Speech
  <2> QED BY <2>1 DEF RepliesTellOutcome, Said
<1> QED BY <1>1, TalkHolds, PTL

(* RepliesMatchRequests: the client can tell which reply is to which       *)
(* request, and none is missing while the connection lasts.                *)
THEOREM RepliesMatch == Spec => []RepliesMatchRequests
<1>1. ASSUME Lines, Talk PROVE RepliesMatchRequests
  <2>1. /\ DOMAIN Replies = 1..Len(Replies)
        /\ \A k \in 1..Len(Replies) : Said(Replies[k])
        /\ \A j, k \in 1..Len(Replies) :
             j < k /\ Replies[j].id # NullId /\ Replies[k].id # NullId => Replies[j].id < Replies[k].id
    BY <1>1, RepliesType DEF Talk, Speech
  <2>2. \A i \in 1..Len(received) : received[i] = written[i]
    BY <1>1 DEF Lines, Arrived
  <2>3. ASSUME NEW r \in ToSet(Replies), r.id # NullId PROVE written[r.id].kind \in Requests
    <3>1. PICK k \in 1..Len(Replies) : r = Replies[k]
      BY <2>1 DEF ToSet
    <3> QED BY <2>1, <2>2, <2>3, <3>1 DEF Said
  <2>4. ASSUME bridge \in {"connecting", "open"}, NEW m \in ToSet(received),
               m.kind \in Requests, verdict[m.id] # "throws", ~Waiting(m.id)
        PROVE  \E r \in ToSet(Replies) : r.id = m.id
    <3>1. DOMAIN received = 1..Len(received) /\ Len(received) \in Nat
      BY <1>1, LenProperties DEF Lines
    <3>2. PICK n \in 1..Len(received) : m = received[n]
      BY <3>1 DEF ToSet
    <3>3. PICK kind \in Kinds : m = Message(n, kind)
      <4>1. n \in 1..Len(written) /\ Len(written) \in Nat
        BY <1>1, <3>1, <3>2, LenProperties DEF Lines, Arrived
      <4> QED BY <1>1, <2>2, <3>2, <4>1 DEF Lines, Numbered
    <3>4. m.id = n
      <4>1. m.kind = kind /\ m.id = IF kind \in Notifications THEN NullId ELSE n
        BY <3>3 DEF Message
      <4>2. kind \notin Notifications
        BY <2>4, <4>1 DEF Requests, ToolCallKinds, Notifications
      <4> QED BY <4>1, <4>2
    <3>5. PICK k \in 1..Len(Replies) : Replies[k].id = n
      BY <1>1, <2>4, <3>2, <3>4 DEF Talk, Answered
    <3>6. Replies[k] \in ToSet(Replies)
      BY <2>1 DEF ToSet
    <3> QED BY <3>4, <3>5, <3>6
  <2> QED BY <2>1, <2>3, <2>4 DEF RepliesMatchRequests
<1> QED BY <1>1, LinesHold, TalkHolds, PTL

-----------------------------------------------------------------------------
(* What the executors make of the arguments.                               *)
Decisions ==
  /\ verdict \in [Ids -> AllVerdicts \cup {"none"}]
  /\ \A n \in 1..Len(received) :
       /\ received[n].kind = "faulty call" => verdict[n] \in TurnedDown
       /\ received[n].kind = "good call" => verdict[n] \notin TurnedDown

LEMMA DecisionsTaken ==
  ASSUME Lines, Talk, Decisions, ReceiveCall
  PROVE  Decisions'
<1>1. PICK n \in Ids : \E u : Called(n, u)
  BY CallTaken
<1>2. PICK v : Called(n, v)
  BY <1>1
<1>3. /\ n = Len(received) + 1 /\ v \in VerdictsOn(received'[n])
      /\ verdict' = [verdict EXCEPT ![n] = Shape(v)]
      /\ Len(received) \in Nat /\ Len(received') = Len(received) + 1
      /\ \A i \in 1..Len(received) : received'[i] = received[i]
  BY <1>2, Taken DEF Called
<1>4. /\ v \in AllVerdicts
      /\ received'[n].kind = "faulty call" => v \in TurnedDown
      /\ received'[n].kind = "good call" => v \notin TurnedDown
  <2>1. TurnedDown \subseteq AllVerdicts
    BY DEF TurnedDown, AllVerdicts
  <2>2. CASE received'[n].kind = "good call"
    BY <1>3, <2>2, Outcomes DEF VerdictsOn
  <2>3. CASE received'[n].kind = "faulty call"
    BY <1>3, <2>1, <2>3, Outcomes DEF VerdictsOn
  <2> QED BY <1>3, <2>2, <2>3 DEF VerdictsOn
<1>5. Shape(v) \in AllVerdicts /\ (Shape(v) \in TurnedDown <=> v \in TurnedDown)
  BY <1>4 DEF Shape, AllVerdicts, Wraps, TurnedDown
<1>6. /\ verdict' \in [Ids -> AllVerdicts \cup {"none"}]
      /\ verdict'[n] = Shape(v)
      /\ \A i \in Ids \ {n} : verdict'[i] = verdict[i]
  BY <1>3, <1>5 DEF Decisions
<1>7. \A i \in 1..Len(received) : i \in Ids \ {n}
  BY <1>3, BoundAssumption DEF Ids
<1>8. ASSUME NEW i \in 1..Len(received')
      PROVE  /\ received'[i].kind = "faulty call" => verdict'[i] \in TurnedDown
             /\ received'[i].kind = "good call" => verdict'[i] \notin TurnedDown
  <2>1. CASE i = n
    BY <1>4, <1>5, <1>6, <2>1
  <2>2. CASE i \in 1..Len(received)
    BY <1>3, <1>6, <1>7, <2>2 DEF Decisions
  <2>3. i = n \/ i \in 1..Len(received)
    BY <1>3
  <2> QED BY <2>1, <2>2, <2>3
<1> QED BY <1>6, <1>8 DEF Decisions

LEMMA DecisionsKept ==
  ASSUME Lines, Talk, Decisions, [Next]_vars
  PROVE  Decisions'
<1>1. CASE UNCHANGED <<received, verdict>>
  BY <1>1 DEF Decisions
<1>2. CASE Receive
  <2>1. /\ Take /\ verdict' = verdict /\ Head(outgoing).kind \notin ToolCallKinds
    BY <1>2 DEF Receive
  <2>2. /\ Len(received) \in Nat /\ Len(received') = Len(received) + 1
        /\ received'[Len(received) + 1] = Head(outgoing)
        /\ \A i \in 1..Len(received) : received'[i] = received[i]
    BY <2>1, Taken
  <2>3. ASSUME NEW i \in 1..Len(received')
        PROVE  i \in 1..Len(received) \/ received'[i].kind \notin {"faulty call", "good call"}
    <3>1. i \in 1..Len(received) \/ i = Len(received) + 1
      BY <2>2
    <3>2. received'[Len(received) + 1].kind \notin {"faulty call", "good call"}
      BY <2>1, <2>2 DEF ToolCallKinds
    <3> QED BY <3>1, <3>2
  <2> QED BY <2>1, <2>2, <2>3 DEF Decisions
<1>3. CASE ReceiveCall
  BY <1>3, DecisionsTaken
<1>4. ASSUME NEW kind \in Kinds, ClientWrites(kind) PROVE UNCHANGED <<received, verdict>>
  BY <1>4 DEF ClientWrites, wireVars, toolVars
<1>5. Open \/ BridgeReads \/ ReceivePiece \/ ReplyPrinted \/ Disconnect \/ Exit
        => UNCHANGED <<received, verdict>>
  BY DEF Open, BridgeReads, LineSent, LineBuffered, ReceivePiece, ReplyPrinted, Disconnect, Exit,
         wireVars, toolVars
<1>6. ASSUME NEW n \in Ids, CallbackActs(n) \/ CallReturns(n) PROVE UNCHANGED <<received, verdict>>
  BY <1>6 DEF CallbackActs, CallReturns, wireVars
<1>7. UNCHANGED vars => UNCHANGED <<received, verdict>>
  BY DEF vars, wireVars, toolVars
<1> QED BY <1>1, <1>2, <1>3, <1>4, <1>5, <1>6, <1>7 DEF Next, ServerReads

LEMMA DecisionsHold == Spec => []Decisions
<1>1. Init => Decisions
  <2> SUFFICES ASSUME Init PROVE Decisions
    OBVIOUS
  <2>1. received = <<>> /\ verdict = [n \in Ids |-> "none"] /\ Len(<<>>) = 0
    BY DEF Init
  <2>2. verdict \in [Ids -> AllVerdicts \cup {"none"}]
    BY <2>1
  <2> QED BY <2>1, <2>2 DEF Decisions
<1>2. Lines /\ Talk /\ Decisions /\ [Next]_vars => Decisions'
  BY DecisionsKept
<1> QED BY <1>1, <1>2, LinesHold, TalkHolds, PTL DEF Spec

(* ArgumentsChecked: whatever tool a call names, its arguments are turned  *)
(* down if they are against the schema of the tool, and only then.         *)
THEOREM ArgumentsAreChecked == Spec => []ArgumentsChecked
<1>1. ASSUME Lines, Talk, Decisions PROVE ArgumentsChecked
  <2>1. /\ DOMAIN written = 1..Len(written) /\ Len(written) <= MaxWritten
        /\ \A n \in 1..Len(received) : received[n] = written[n]
        /\ Len(written) \in Nat
    BY <1>1, LenProperties DEF Lines, Numbered, Arrived
  <2>2. ASSUME NEW n \in DOMAIN written
        PROVE  /\ written[n].kind = "faulty call" => verdict[n] \in {"none", "refused", "throws"}
               /\ written[n].kind = "good call" => verdict[n] \notin {"refused", "throws"}
    <3>1. CASE n \in 1..Len(received)
      BY <1>1, <2>1, <3>1 DEF Decisions, TurnedDown
    <3>2. CASE n \notin 1..Len(received)
      <4>1. n \in Ids
        BY <2>1, BoundAssumption DEF Ids
      <4> QED BY <1>1, <3>2, <4>1 DEF Talk, Calls
    <3> QED BY <3>1, <3>2
  <2> QED BY <2>2 DEF ArgumentsChecked
<1> QED BY <1>1, LinesHold, TalkHolds, DecisionsHold, PTL

(* TypeOK.                                                                 *)
THEOREM TypeCorrect == Spec => []TypeOK
<1>1. Lines /\ Talk /\ Decisions => TypeOK
  BY DEF Lines, Talk, Calls, Acts, Speech, Decisions, TypeOK
<1> QED BY <1>1, LinesHold, TalkHolds, DecisionsHold, PTL
=============================================================================
