------------------------- MODULE JrpcProtocolProofs -------------------------
(* Proofs about JrpcProtocol, for every set of connections and messages,    *)
(* every choice of handlers and of what may fail, and every int width.      *)
EXTENDS JrpcProtocol, TLAPS, SequenceTheorems

(* What is kept for a connection goes with it.                              *)
ClosedEmpty ==
  \A c \in Connection \ open : inbox[c] = <<>> /\ pending[c] = {} /\ queue[c] = <<>>

IInv == TypeOK /\ WritableArmed /\ ClosedEmpty
-----------------------------------------------------------------------------
LEMMA ToIntInRange ==
  ASSUME NEW n \in Int
  PROVE  ToInt(n) \in IntRange
<1>1. IntLimit \in Nat \ {0} /\ 2 * IntLimit \in Nat \ {0}
  BY ConstantsAssumption
<1>2. (n + IntLimit) % (2 * IntLimit) \in 0..(2 * IntLimit - 1)
  BY <1>1
<1> QED BY <1>1, <1>2 DEF ToInt, IntRange

LEMMA PieceFacts ==
  ASSUME NEW p \in Piece
  PROVE  /\ p.message \in ClientMessage
         /\ p.message.id \in Int
         /\ IsRequest(p.message) => p.call \in 1..MaxCalls
  BY ConstantsAssumption DEF Piece, JsonMessage

LEMMA FrameFacts ==
  ASSUME NEW f \in Frame, f.type # "notification"
  PROVE  /\ [call |-> f.call, id |-> f.id] \in CallRecord
         /\ f.call \in 1..MaxCalls
  BY DEF Frame, Response, Notification, CallRecord

LEMMA SentFrames ==
  /\ Notification \in Frame
  /\ \A r \in CallRecord : Response(r) \in Frame
  BY DEF Frame

LEMMA FrameCalls ==
  ASSUME NEW f \in Frame
  PROVE  {f.call} \ {0} \subseteq 1..MaxCalls
  BY DEF Frame, Response, Notification, CallRecord

(* The call that a request becomes, whatever its id. *)
LEMMA ToIntOfRequest ==
  ASSUME NEW p \in Piece, WellFormed(p.message), HasId(p.message)
  PROVE  [call |-> p.call, id |-> ToInt(p.message.id)] \in CallRecord
<1>1. IsRequest(p.message)
  BY DEF IsRequest, WellFormed, HasId
<1> QED BY <1>1, PieceFacts, ToIntInRange DEF CallRecord
-----------------------------------------------------------------------------
LEMMA InitIInv == Init => IInv
<1> SUFFICES ASSUME Init PROVE IInv
  OBVIOUS
<1>1. TypeOK
  BY EmptySeq DEF Init, TypeOK, NoFrame
<1>2. WritableArmed /\ ClosedEmpty
  BY DEF Init, WritableArmed, ClosedEmpty
<1> QED BY <1>1, <1>2 DEF IInv

LEMMA ModeIInv ==
  ASSUME IInv, Run \/ Return \/ Dispose \/ Destroyed
  PROVE  IInv'
  BY DEF IInv, TypeOK, WritableArmed, ClosedEmpty, Run, Return, Dispose, Destroyed

LEMMA ClientSendIInv ==
  ASSUME IInv, NEW c \in Connection, NEW m \in ClientMessage, ClientSend(c, m)
  PROVE  IInv'
<1> DEFINE number == IF IsRequest(m) THEN Len(called[c]) + 1 ELSE 0
           pieces == [i \in 1..m.pieces |-> [message |-> m, call |-> number]]
<1>1. /\ c \in open
      /\ number <= MaxCalls
      /\ called' = IF IsRequest(m) THEN [called EXCEPT ![c] = Append(@, m.id)] ELSE called
      /\ inbox' = [inbox EXCEPT ![c] = @ \o pieces]
      /\ UNCHANGED <<mode, handler, current, open, pending, queue, armed, wire, answered, lost>>
  BY DEF ClientSend, control
<1>2. called[c] \in Seq({x.id : x \in ClientMessage}) /\ inbox[c] \in Seq(Piece)
  BY DEF IInv, TypeOK
<1>3. [message |-> m, call |-> number] \in Piece
  <2>1. MaxCalls \in Nat /\ Len(called[c]) \in Nat
    BY <1>2, ConstantsAssumption, LenProperties
  <2> QED BY <1>1, <2>1 DEF Piece
<1>4. pieces \in Seq(Piece)
  <2>1. m.pieces \in Nat
    BY ConstantsAssumption DEF JsonMessage
  <2>2. pieces \in [1..m.pieces -> Piece]
    BY <1>3
  <2> QED BY <2>1, <2>2
<1>5. inbox' \in [Connection -> Seq(Piece)]
  <2>1. inbox[c] \o pieces \in Seq(Piece)
    BY <1>2, <1>4, ConcatProperties
  <2> QED BY <1>1, <2>1 DEF IInv, TypeOK
<1>6. called' \in [Connection -> Seq({x.id : x \in ClientMessage})]
  <2>1. Append(called[c], m.id) \in Seq({x.id : x \in ClientMessage})
    BY <1>2, AppendProperties
  <2> QED BY <1>1, <2>1 DEF IInv, TypeOK
<1>7. TypeOK'
  BY <1>1, <1>5, <1>6 DEF IInv, TypeOK
<1>8. WritableArmed'
  BY <1>1 DEF IInv, WritableArmed
<1>9. ClosedEmpty'
  BY <1>1 DEF IInv, ClosedEmpty, TypeOK
<1> QED BY <1>7, <1>8, <1>9 DEF IInv

LEMMA EstablishedIInv ==
  ASSUME IInv, NEW c \in Connection, Established(c)
  PROVE  IInv'
<1> USE DEF IInv, Established, Enter, Serving
<1>1. TypeOK'
  BY EmptySeq DEF TypeOK, Handler
<1>2. WritableArmed' /\ ClosedEmpty'
  BY DEF TypeOK, WritableArmed, ClosedEmpty
<1> QED BY <1>1, <1>2

LEMMA ReceiveIInv ==
  ASSUME IInv, NEW c \in Connection, Receive(c)
  PROVE  IInv'
<1> DEFINE p == Head(inbox[c])
<1>1. /\ mode = "service" /\ handler = "none" /\ c \in open /\ inbox[c] # <<>>
      /\ inbox' = [inbox EXCEPT ![c] = Tail(@)]
      /\ UNCHANGED <<mode, open, queue, wire, called, answered, lost>>
  BY DEF Receive, Serving
<1>2. \/ /\ WellFormed(p.message) /\ HasId(p.message)
         /\ pending' = [pending EXCEPT ![c] =
                          @ \union {[call |-> p.call, id |-> ToInt(p.message.id)]}]
         /\ handler' = "method" /\ current' = c /\ armed' = armed
      \/ handler' = "notify" /\ current' = c /\ UNCHANGED <<pending, armed>>
      \/ /\ armed' = [armed EXCEPT ![c] = @ \/ queue[c] # <<>>]
         /\ UNCHANGED <<handler, current, pending>>
  BY DEF Receive, Enter, Rearm
<1>3. p \in Piece /\ Tail(inbox[c]) \in Seq(Piece)
  BY <1>1, HeadTailProperties DEF IInv, TypeOK
<1>4. inbox' \in [Connection -> Seq(Piece)]
  BY <1>1, <1>3 DEF IInv, TypeOK
<1>5. pending' \in [Connection -> SUBSET CallRecord]
  <2>1. CASE pending' = pending
    BY <2>1 DEF IInv, TypeOK
  <2>2. CASE pending' # pending
    <3> DEFINE r == [call |-> p.call, id |-> ToInt(p.message.id)]
    <3>1. r \in CallRecord
      BY <1>2, <1>3, <2>2, ToIntOfRequest
    <3>2. pending' = [pending EXCEPT ![c] = @ \union {r}]
      BY <1>2, <2>2
    <3> HIDE DEF r
    <3> QED BY <3>1, <3>2 DEF IInv, TypeOK
  <2> QED BY <2>1, <2>2
<1>6. WritableArmed' /\ armed' \in [Connection -> BOOLEAN]
  BY <1>1, <1>2 DEF IInv, WritableArmed, TypeOK
<1>7. TypeOK'
  BY <1>1, <1>2, <1>4, <1>5, <1>6 DEF IInv, TypeOK, Handler
<1>8. ClosedEmpty'
  BY <1>1, <1>2 DEF IInv, ClosedEmpty, TypeOK
<1> QED BY <1>6, <1>7, <1>8 DEF IInv

LEMMA WriteableIInv ==
  ASSUME IInv, NEW c \in Connection, Writeable(c)
  PROVE  IInv'
<1> DEFINE f == Head(queue[c])
<1>1. /\ mode = "service" /\ handler = "none" /\ c \in open /\ queue[c] # <<>>
      /\ wire' = <<c, f>>
      /\ queue' = [queue EXCEPT ![c] = Tail(@)]
      /\ armed' = [armed EXCEPT ![c] = Tail(queue[c]) # <<>>]
      /\ UNCHANGED <<mode, handler, current, open, inbox, pending, called>>
  BY DEF Writeable, Serving, control
<1>2. \/ UNCHANGED <<answered, lost>>
      \/ /\ f.type # "notification"
         /\ answered' = [answered EXCEPT ![c] = Append(@, [call |-> f.call, id |-> f.id])]
         /\ UNCHANGED lost
      \/ /\ f.type # "notification"
         /\ lost' = [lost EXCEPT ![c] = @ \union {f.call}]
         /\ UNCHANGED answered
  BY DEF Writeable
<1>3. f \in Frame /\ Tail(queue[c]) \in Seq(Frame)
  BY <1>1, HeadTailProperties DEF IInv, TypeOK
<1>4. queue' \in [Connection -> Seq(Frame)]
  BY <1>1, <1>3 DEF IInv, TypeOK
<1>5. answered' \in [Connection -> Seq(CallRecord)]
  <2>1. CASE answered' = answered
    BY <2>1 DEF IInv, TypeOK
  <2>2. CASE answered' # answered
    <3> DEFINE r == [call |-> f.call, id |-> f.id]
    <3>1. r \in CallRecord
      BY <1>2, <1>3, <2>2, FrameFacts
    <3>2. answered' = [answered EXCEPT ![c] = Append(@, r)]
      BY <1>2, <2>2
    <3> HIDE DEF r
    <3>3. answered \in [Connection -> Seq(CallRecord)]
      BY DEF IInv, TypeOK
    <3>4. Append(answered[c], r) \in Seq(CallRecord)
      BY <3>1, <3>3, AppendProperties
    <3> QED BY <3>2, <3>3, <3>4
  <2> QED BY <2>1, <2>2
<1>6. lost' \in [Connection -> SUBSET (1..MaxCalls)]
  <2>1. CASE lost' = lost
    BY <2>1 DEF IInv, TypeOK
  <2>2. CASE lost' # lost
    <3>1. f.call \in 1..MaxCalls
      BY <1>2, <1>3, <2>2, FrameFacts
    <3>2. lost' = [lost EXCEPT ![c] = @ \union {f.call}]
      BY <1>2, <2>2
    <3>3. lost \in [Connection -> SUBSET (1..MaxCalls)]
      BY DEF IInv, TypeOK
    <3> QED BY <3>1, <3>2, <3>3
  <2> QED BY <2>1, <2>2
<1>7. TypeOK'
  BY <1>1, <1>3, <1>4, <1>5, <1>6 DEF IInv, TypeOK
<1>8. WritableArmed'
  BY <1>1 DEF IInv, WritableArmed, TypeOK
<1>9. ClosedEmpty'
  BY <1>1 DEF IInv, ClosedEmpty, TypeOK
<1> QED BY <1>7, <1>8, <1>9 DEF IInv

LEMMA ClosedIInv ==
  ASSUME IInv, NEW c \in Connection, Closed(c)
  PROVE  IInv'
  BY DEF IInv, TypeOK, WritableArmed, ClosedEmpty, Closed, Enter, Handler

(* What jrpc_connection_send does to the variables it may change.           *)
LEMMA SendEffect ==
  ASSUME IInv, NEW c \in Connection, NEW f \in Frame, Send(c, f)
  PROVE  /\ queue' \in [Connection -> Seq(Frame)]
         /\ armed' \in [Connection -> BOOLEAN]
         /\ lost' \in [Connection -> SUBSET (1..MaxCalls)]
         /\ WritableArmed'
         /\ \A d \in Connection \ {c} : queue'[d] = queue[d]
<1>1. CASE /\ queue' = [queue EXCEPT ![c] = Append(@, f)]
           /\ armed' = [armed EXCEPT ![c] = TRUE]
           /\ UNCHANGED lost
  <2>0. queue[c] \in Seq(Frame)
    BY DEF IInv, TypeOK
  <2>1. Append(queue[c], f) \in Seq(Frame) /\ Append(queue[c], f) # <<>>
    BY <2>0, AppendProperties
  <2> QED BY <1>1, <2>1 DEF IInv, TypeOK, WritableArmed
<1>2. CASE /\ lost' = [lost EXCEPT ![c] = @ \union ({f.call} \ {0})]
           /\ UNCHANGED <<queue, armed>>
  BY <1>2, FrameCalls DEF IInv, TypeOK, WritableArmed
<1> QED BY <1>1, <1>2 DEF Send

LEMMA RespondIInv ==
  ASSUME IInv, NEW c \in Connection, NEW r \in pending[c], Respond(c, r)
  PROVE  IInv'
<1>1. r \in CallRecord /\ Response(r) \in Frame
  BY SentFrames DEF IInv, TypeOK
<1>2. /\ c \in open /\ Send(c, Response(r))
      /\ pending' = [pending EXCEPT ![c] = @ \ {r}]
      /\ UNCHANGED <<mode, handler, current, open, inbox, wire, called, answered>>
  BY DEF Respond, control
<1>3. /\ queue' \in [Connection -> Seq(Frame)]
      /\ armed' \in [Connection -> BOOLEAN]
      /\ lost' \in [Connection -> SUBSET (1..MaxCalls)]
      /\ WritableArmed'
      /\ \A d \in Connection \ {c} : queue'[d] = queue[d]
  BY <1>1, <1>2, SendEffect
<1>4. TypeOK'
  BY <1>2, <1>3 DEF IInv, TypeOK
<1>5. ClosedEmpty'
  BY <1>2, <1>3 DEF IInv, ClosedEmpty, TypeOK
<1> QED BY <1>3, <1>4, <1>5 DEF IInv

LEMMA NotifyIInv ==
  ASSUME IInv, NEW c \in Connection, Notify(c)
  PROVE  IInv'
<1>1. /\ c \in open /\ Send(c, Notification)
      /\ UNCHANGED <<mode, handler, current, open, inbox, pending, wire, called, answered>>
  BY DEF Notify, control
<1>2. /\ queue' \in [Connection -> Seq(Frame)]
      /\ armed' \in [Connection -> BOOLEAN]
      /\ lost' \in [Connection -> SUBSET (1..MaxCalls)]
      /\ WritableArmed'
      /\ \A d \in Connection \ {c} : queue'[d] = queue[d]
  BY <1>1, SentFrames, SendEffect
<1>3. TypeOK'
  BY <1>1, <1>2 DEF IInv, TypeOK
<1>4. ClosedEmpty'
  BY <1>1, <1>2 DEF IInv, ClosedEmpty, TypeOK
<1> QED BY <1>2, <1>3, <1>4 DEF IInv

LEMMA HandlerReturnIInv ==
  ASSUME IInv, NEW c \in Connection, HandlerReturn(c)
  PROVE  IInv'
<1>1. c \in open /\ handler' = "none" /\ current' = NULL /\ UNCHANGED <<mode, wire>>
  BY DEF IInv, TypeOK, HandlerReturn, Enter
<1>2. CASE handler = "disconnected"
  <2>1. /\ open' = open \ {c}
        /\ inbox' = [inbox EXCEPT ![c] = <<>>]
        /\ pending' = [pending EXCEPT ![c] = {}]
        /\ queue' = [queue EXCEPT ![c] = <<>>]
        /\ armed' = [armed EXCEPT ![c] = FALSE]
        /\ called' = [called EXCEPT ![c] = <<>>]
        /\ answered' = [answered EXCEPT ![c] = <<>>]
        /\ lost' = [lost EXCEPT ![c] = {}]
    BY <1>2 DEF HandlerReturn, Cleanup
  <2>2. inbox' \in [Connection -> Seq(Piece)]
    BY <2>1, EmptySeq DEF IInv, TypeOK
  <2>3. queue' \in [Connection -> Seq(Frame)]
    BY <2>1, EmptySeq DEF IInv, TypeOK
  <2>4. called' \in [Connection -> Seq({m.id : m \in ClientMessage})]
    BY <2>1, EmptySeq DEF IInv, TypeOK
  <2>5. answered' \in [Connection -> Seq(CallRecord)]
    BY <2>1, EmptySeq DEF IInv, TypeOK
  <2>6. pending' \in [Connection -> SUBSET CallRecord]
    BY <2>1 DEF IInv, TypeOK
  <2>7. lost' \in [Connection -> SUBSET (1..MaxCalls)]
    BY <2>1 DEF IInv, TypeOK
  <2>8. TypeOK'
    BY <1>1, <2>1, <2>2, <2>3, <2>4, <2>5, <2>6, <2>7 DEF IInv, TypeOK
  <2>9. WritableArmed'
    BY <2>1 DEF IInv, TypeOK, WritableArmed
  <2>10. ClosedEmpty'
    BY <2>1 DEF IInv, TypeOK, ClosedEmpty
  <2> QED BY <2>8, <2>9, <2>10 DEF IInv
<1>3. CASE handler # "disconnected"
  <2>1. /\ armed' = [armed EXCEPT ![c] = @ \/ queue[c] # <<>>]
        /\ UNCHANGED <<open, inbox, pending, queue, called, answered, lost>>
    BY <1>3 DEF HandlerReturn, Rearm
  <2>2. TypeOK'
    BY <1>1, <2>1 DEF IInv, TypeOK
  <2>3. WritableArmed' /\ ClosedEmpty'
    BY <2>1 DEF IInv, TypeOK, WritableArmed, ClosedEmpty
  <2> QED BY <2>2, <2>3 DEF IInv
<1> QED BY <1>2, <1>3

LEMMA NextIInv == IInv /\ [Next]_vars => IInv'
<1> SUFFICES ASSUME IInv, [Next]_vars PROVE IInv'
  OBVIOUS
<1>1. CASE Run \/ Return \/ Dispose \/ Destroyed
  BY <1>1, ModeIInv
<1>2. ASSUME NEW c \in Connection, NEW m \in ClientMessage, ClientSend(c, m) PROVE IInv'
  BY <1>2, ClientSendIInv
<1>3. ASSUME NEW c \in Connection, Established(c) PROVE IInv'
  BY <1>3, EstablishedIInv
<1>4. ASSUME NEW c \in Connection, Receive(c) PROVE IInv'
  BY <1>4, ReceiveIInv
<1>5. ASSUME NEW c \in Connection, Writeable(c) PROVE IInv'
  BY <1>5, WriteableIInv
<1>6. ASSUME NEW c \in Connection, Closed(c) PROVE IInv'
  BY <1>6, ClosedIInv
<1>7. ASSUME NEW c \in Connection, NEW r \in pending[c], Respond(c, r) PROVE IInv'
  BY <1>7, RespondIInv
<1>8. ASSUME NEW c \in Connection, Notify(c) PROVE IInv'
  BY <1>8, NotifyIInv
<1>9. ASSUME NEW c \in Connection, HandlerReturn(c) PROVE IInv'
  BY <1>9, HandlerReturnIInv
<1>10. CASE UNCHANGED vars
  BY <1>10 DEF vars, control, IInv, TypeOK, WritableArmed, ClosedEmpty
<1> QED
  BY <1>1, <1>2, <1>3, <1>4, <1>5, <1>6, <1>7, <1>8, <1>9, <1>10 DEF Next

(* IInv holds in every state.                                               *)
THEOREM Inductive == Spec => []IInv
<1> QED BY InitIInv, NextIInv, PTL DEF Spec

(* Every variable keeps its type: no handler runs outside of libwebsockets  *)
(* or for a connection whose memory has been given back, and the ids handed *)
(* to the application fit an int, whatever the clients send.                *)
THEOREM TypeCorrect == Spec => []TypeOK
<1>1. IInv => TypeOK
  BY DEF IInv
<1> QED BY <1>1, Inductive, PTL

(* No message waits in a queue without libwebsockets having been asked to   *)
(* call back for it, whichever handlers are set and whatever fails.         *)
THEOREM AlwaysArmed == Spec => []WritableArmed
<1>1. IInv => WritableArmed
  BY DEF IInv
<1> QED BY <1>1, Inductive, PTL
-----------------------------------------------------------------------------
LEMMA NextFifo == IInv /\ [Next]_vars => [Fifo!Next]_(Fifo!fifoVars)
<1> SUFFICES ASSUME IInv, [Next]_vars PROVE Fifo!Next \/ UNCHANGED <<open, queue, wire>>
  BY DEF Fifo!fifoVars
<1>1. CASE Run \/ Return \/ Dispose \/ Destroyed
  BY <1>1 DEF Run, Return, Dispose, Destroyed
<1>2. ASSUME NEW c \in Connection, NEW m \in ClientMessage, ClientSend(c, m)
      PROVE  UNCHANGED <<open, queue, wire>>
  BY <1>2 DEF ClientSend
<1>3. ASSUME NEW c \in Connection, Established(c) PROVE Fifo!Next
  BY <1>3 DEF Established, Fifo!Next, Fifo!Open
<1>4. ASSUME NEW c \in Connection, Receive(c) PROVE UNCHANGED <<open, queue, wire>>
  BY <1>4 DEF Receive
<1>5. ASSUME NEW c \in Connection, Writeable(c) PROVE Fifo!Next
  BY <1>5 DEF Writeable, Fifo!Next, Fifo!Deliver
<1>6. ASSUME NEW c \in Connection, Closed(c) PROVE UNCHANGED <<open, queue, wire>>
  BY <1>6 DEF Closed
<1>7. ASSUME NEW c \in Connection, NEW f \in Frame, c \in open, Send(c, f), UNCHANGED <<open, wire>>
      PROVE  Fifo!Next \/ UNCHANGED <<open, queue, wire>>
  <2>1. Fifo!Enqueue(c, f) \/ queue' = queue
    BY <1>7 DEF Send, Fifo!Enqueue
  <2> QED BY <1>7, <2>1 DEF Fifo!Next
<1>8. ASSUME NEW c \in Connection, NEW r \in pending[c], Respond(c, r)
      PROVE  Fifo!Next \/ UNCHANGED <<open, queue, wire>>
  <2>1. Response(r) \in Frame
    BY SentFrames DEF IInv, TypeOK
  <2> QED BY <1>7, <1>8, <2>1 DEF Respond
<1>9. ASSUME NEW c \in Connection, Notify(c)
      PROVE  Fifo!Next \/ UNCHANGED <<open, queue, wire>>
  BY <1>7, <1>9, SentFrames DEF Notify
<1>10. ASSUME NEW c \in Connection, HandlerReturn(c)
       PROVE  Fifo!Next \/ UNCHANGED <<open, queue, wire>>
  <2>1. CASE handler = "disconnected"
    <3>1. Fifo!Close(c)
      BY <1>10, <2>1 DEF HandlerReturn, Cleanup, Fifo!Close, IInv, TypeOK
    <3> QED BY <3>1 DEF Fifo!Next
  <2>2. CASE handler # "disconnected"
    BY <1>10, <2>2 DEF HandlerReturn
  <2> QED BY <2>1, <2>2
<1>11. CASE UNCHANGED vars
  BY <1>11 DEF vars
<1> QED
  BY <1>1, <1>2, <1>3, <1>4, <1>5, <1>6, <1>8, <1>9, <1>10, <1>11 DEF Next

(* The frames passed to lws_write are, on each connection, the ones that    *)
(* were sent to it since it was opened, in order and each once.             *)
THEOREM FramesStayInOrder == Spec => FramesInOrder
<1>1. Init => Fifo!Init
  BY DEF Init, Fifo!Init, NoFrame, Fifo!NoFrame
<1> QED BY <1>1, NextFifo, Inductive, PTL DEF Spec, FramesInOrder, Fifo!Spec
=============================================================================
