-------------------------- MODULE ChatOnJrpcProofs --------------------------
(***************************************************************************)
(* The chat server keeps the promises JrpcProtocol relies on: for any      *)
(* clients and messages, and whatever fails, it sends to open connections  *)
(* only and leaves no call for later.                                      *)
(***************************************************************************)
EXTENDS ChatOnJrpc, JrpcProtocolCalls, FiniteSetTheorems

(* Between two callbacks no handler has anything left to send; and one that *)
(* runs, runs for an open connection and sends to chatters.                 *)
AudienceInv ==
  /\ handler = "none" => step = "none" /\ audience = {}
  /\ handler # "none" => current \in open
  /\ step = "begin" => audience = {}
  /\ chatters \subseteq open
  /\ audience \subseteq chatters

LEMMA AudienceInit == ChatInit => AudienceInv
  BY DEF ChatInit, Init, AudienceInv

LEMMA AudienceStep == AudienceInv /\ [ChatNext]_chatAll => AudienceInv'
<1> SUFFICES ASSUME AudienceInv, [ChatNext]_chatAll PROVE AudienceInv'
  OBVIOUS
<1> USE DEF AudienceInv, control
<1>1. CASE onconnected
  BY <1>1 DEF onconnected, Begins, vars
<1>2. CASE onmethod
  <2>1. UNCHANGED <<handler, current, open>>
    BY <1>2 DEF onmethod, Begins, Respond
  <2>2. step' = "posting" /\ chatters' = chatters /\ handler = "method" /\ audience' \subseteq chatters
    BY <1>2 DEF onmethod, Begins
  <2> QED BY <2>1, <2>2
<1>3. CASE onnotify
  BY <1>3 DEF onnotify, Begins, vars
<1>4. CASE ondisconnected
  BY <1>4 DEF ondisconnected, Begins, vars
<1>5. ASSUME NEW d \in Connection, Post(d) PROVE AudienceInv'
  BY <1>5 DEF Post
<1>6. CASE HandlerDone
  <2>1. CASE handler = "disconnected"
    BY <1>6, <2>1 DEF HandlerDone, HandlerReturn, Cleanup, Enter
  <2>2. CASE handler # "disconnected"
    BY <1>6, <2>2 DEF HandlerDone, HandlerReturn, Enter
  <2> QED BY <2>1, <2>2
<1>7. ASSUME NEW c \in Connection, Callback(c) PROVE AudienceInv'
  <2>1. CASE Established(c)
    BY <1>7, <2>1 DEF Callback, Established, Serving, Enter
  <2>2. CASE Receive(c)
    <3>1. handler = "none" /\ c \in open /\ open' = open
      BY <2>2 DEF Receive, Serving
    <3>2. handler' = "none" \/ current' = c
      BY <2>2, <3>1 DEF Receive, Enter
    <3>3. UNCHANGED <<chatters, audience>> /\ step' = IF handler' = "none" THEN "none" ELSE "begin"
      BY <1>7 DEF Callback
    <3> QED BY <3>1, <3>2, <3>3
  <2>3. CASE Closed(c)
    BY <1>7, <2>3 DEF Callback, Closed, Enter
  <2> QED BY <1>7, <2>1, <2>2, <2>3 DEF Callback
<1>8. ASSUME NEW c \in Connection, Writeable(c) \/ \E m \in ClientMessage : ClientSend(c, m),
             UNCHANGED chatVars
      PROVE  AudienceInv'
  <2>1. UNCHANGED <<handler, current, open>>
    BY <1>8 DEF Writeable, ClientSend
  <2> QED BY <1>8, <2>1 DEF chatVars
<1>9. CASE (Run \/ Return \/ Dispose \/ Destroyed) /\ UNCHANGED chatVars
  BY <1>9 DEF Run, Return, Dispose, Destroyed, chatVars
<1>10. CASE UNCHANGED chatAll
  BY <1>10 DEF chatAll, chatVars, vars
<1> QED BY <1>1, <1>2, <1>3, <1>4, <1>5, <1>6, <1>7, <1>8, <1>9, <1>10 DEF ChatNext, InHandler

(* jrpc_notify is never called for a connection that is closed: the loops   *)
(* of announce and chat, and those of later handlers, see open connections. *)
THEOREM SendsToOpen == ChatSpec => []RecipientsOpen
<1>1. AudienceInv => RecipientsOpen
  BY DEF AudienceInv, RecipientsOpen
<1> QED BY <1>1, AudienceInit, AudienceStep, PTL DEF ChatSpec
-----------------------------------------------------------------------------
(* A call is pending only where the method handler has just begun, and it   *)
(* is the only one.                                                         *)
PendingInv ==
  /\ AudienceInv
  /\ DOMAIN pending = Connection
  /\ \A c \in Connection : pending[c] # {} => handler = "method" /\ step = "begin" /\ c = current
  /\ handler = "method" /\ step = "begin" => current \in Connection /\ \E r : pending[current] = {r}

LEMMA PendingInit == ChatInit => PendingInv
  BY AudienceInit DEF ChatInit, Init, PendingInv

LEMMA PendingStep == PendingInv /\ [ChatNext]_chatAll => PendingInv'
<1> SUFFICES ASSUME PendingInv, [ChatNext]_chatAll PROVE PendingInv'
  OBVIOUS
<1>0. AudienceInv /\ AudienceInv'
  BY AudienceStep DEF PendingInv
<1> USE DEF PendingInv, control
<1>1. CASE onconnected
  BY <1>0, <1>1 DEF onconnected, Begins, vars
<1>2. CASE onmethod
  <2>1. PICK r \in pending[current] : Respond(current, r)
    BY <1>2 DEF onmethod
  <2>2. /\ pending' = [pending EXCEPT ![current] = @ \ {r}]
        /\ handler' = handler
    BY <2>1 DEF Respond
  <2>3. handler = "method" /\ step = "begin" /\ step' = "posting"
    BY <1>2 DEF onmethod, Begins
  <2>4. pending[current] \ {r} = {}
    BY <2>1, <2>3
  <2> QED BY <1>0, <2>2, <2>3, <2>4
<1>3. CASE onnotify
  BY <1>0, <1>3 DEF onnotify, Begins, vars
<1>4. CASE ondisconnected
  BY <1>0, <1>4 DEF ondisconnected, Begins, vars
<1>5. ASSUME NEW d \in Connection, Post(d) PROVE PendingInv'
  <2>1. UNCHANGED <<handler, current, pending, step>>
    BY <1>5 DEF Post
  <2> QED BY <1>0, <2>1
<1>6. CASE HandlerDone
  <2>1. step = "posting" /\ handler' = "none"
    BY <1>6 DEF HandlerDone, HandlerReturn, Enter
  <2>2. pending' = pending \/ pending' = [pending EXCEPT ![current] = {}]
    BY <1>6 DEF HandlerDone, HandlerReturn, Cleanup
  <2> QED BY <1>0, <2>1, <2>2
<1>7. ASSUME NEW c \in Connection, Callback(c) PROVE PendingInv'
  <2>0. step' = IF handler' = "none" THEN "none" ELSE "begin"
    BY <1>7 DEF Callback
  <2>1. CASE Established(c)
    BY <1>0, <2>0, <2>1 DEF Established, Serving, Enter
  <2>2. CASE Receive(c)
    <3>1. handler = "none"
      BY <2>2 DEF Receive, Serving
    <3>2. \/ pending' = pending /\ handler' # "method"
          \/ \E r : /\ pending' = [pending EXCEPT ![c] = @ \union {r}]
                    /\ handler' = "method" /\ current' = c
      BY <2>2, <3>1 DEF Receive, Enter
    <3>3. pending[c] = {}
      BY <3>1
    <3> QED BY <1>0, <2>0, <3>1, <3>2, <3>3
  <2>3. CASE Closed(c)
    BY <1>0, <2>0, <2>3 DEF Closed, Enter
  <2> QED BY <1>7, <2>1, <2>2, <2>3 DEF Callback
<1>8. ASSUME NEW c \in Connection, Writeable(c) \/ \E m \in ClientMessage : ClientSend(c, m),
             UNCHANGED chatVars
      PROVE  PendingInv'
  <2>1. UNCHANGED <<handler, current, pending>>
    BY <1>8 DEF Writeable, ClientSend
  <2> QED BY <1>0, <1>8, <2>1 DEF chatVars
<1>9. CASE (Run \/ Return \/ Dispose \/ Destroyed) /\ UNCHANGED chatVars
  BY <1>0, <1>9 DEF Run, Return, Dispose, Destroyed, chatVars
<1>10. CASE UNCHANGED chatAll
  BY <1>0, <1>10 DEF chatAll, chatVars, vars
<1> QED BY <1>1, <1>2, <1>3, <1>4, <1>5, <1>6, <1>7, <1>8, <1>9, <1>10 DEF ChatNext, InHandler
-----------------------------------------------------------------------------
(* How long the queues get, so that no handler is stopped by MaxQueue: when *)
(* a handler begins, no queue has more than MaxWaiting messages; it sends   *)
(* each chatter one notification, and may have answered a call before.      *)
(* While the server is destroyed nothing is written any more, and every     *)
(* connection that leaves adds a message to the queues of the others.       *)
Left == IF mode # "destroy" THEN {}
        ELSE (Connection \ open) \union (IF handler = "none" THEN {} ELSE {current})

Ceiling == MaxWaiting + 2 + Cardinality(Left)

QueueInv ==
  /\ \A d \in Connection : Len(queue[d]) <= Ceiling
  /\ step = "begin" => \A d \in Connection : Len(queue[d]) <= Ceiling - 1
  /\ step = "begin" /\ handler = "method" => \A d \in Connection : Len(queue[d]) <= Ceiling - 2
  /\ \A d \in audience : Len(queue[d]) <= Ceiling - 1
  /\ mode = "destroy" /\ handler # "none" => handler = "disconnected"
  /\ step = "begin" => handler # "none"

AppInv == PendingInv /\ IInv /\ QueueInv

LEMMA LeftFinite ==
  ASSUME IInv
  PROVE  /\ IsFiniteSet(Left) /\ Cardinality(Left) \in Nat
         /\ Cardinality(Left) <= Cardinality(Connection)
         /\ Ceiling \in Nat /\ Ceiling <= MaxQueue
<1>1. Left \subseteq Connection
  BY DEF Left, IInv, TypeOK
<1>2. /\ IsFiniteSet(Left) /\ Cardinality(Left) \in Nat /\ Cardinality(Connection) \in Nat
      /\ Cardinality(Left) <= Cardinality(Connection)
  BY <1>1, FS_Subset, FS_CardinalityType, ChatAssumption
<1> QED BY <1>2, ChatAssumption DEF Ceiling

LEMMA QueueLengths ==
  ASSUME IInv
  PROVE  \A d \in Connection : Len(queue[d]) \in Nat /\ queue[d] \in Seq(Frame)
  BY DEF IInv, TypeOK

(* Every step of the chat server is one of JrpcProtocol, or none.           *)
LEMMA ChatStep == AppInv /\ [ChatNext]_chatAll => [Next]_vars
<1> SUFFICES ASSUME AppInv, [ChatNext]_chatAll PROVE [Next]_vars
  OBVIOUS
<1>1. AudienceInv /\ PendingInv /\ IInv /\ QueueInv
  BY DEF AppInv, PendingInv
<1>2. handler # "none" => current \in Connection
  BY <1>1 DEF IInv, TypeOK
<1>3. CASE onmethod
  <2>1. current \in Connection
    BY <1>2, <1>3 DEF onmethod, Begins
  <2> QED BY <1>3, <2>1 DEF onmethod, Next
<1>4. ASSUME NEW d \in Connection, Post(d) PROVE Next
  <2>1. d \in audience /\ d \in open
    BY <1>1, <1>4 DEF Post, AudienceInv
  <2>2. handler # "none" /\ handler \in Custom
    BY <1>1, <2>1, ChatAssumption DEF AudienceInv, IInv, TypeOK
  <2>3. Len(queue[d]) < MaxQueue
    <3>1. Len(queue[d]) <= Ceiling - 1
      BY <1>1, <2>1 DEF QueueInv
    <3> QED BY <1>1, <3>1, LeftFinite, QueueLengths, ChatAssumption
  <2>4. {"connected", "disconnected"} \subseteq Custom
    BY ChatAssumption DEF Handler
  <2>5. Notify(d)
    BY <1>4, <2>1, <2>2, <2>3, <2>4 DEF Notify, Post, InApplication
  <2> QED BY <2>5 DEF Next
<1>5. CASE HandlerDone
  <2>1. handler # "none" /\ HandlerReturn(current)
    BY <1>5 DEF HandlerDone, HandlerReturn
  <2> QED BY <1>2, <2>1 DEF Next
<1>6. CASE onconnected \/ onnotify \/ ondisconnected
  BY <1>6 DEF onconnected, onnotify, ondisconnected
<1>7. ASSUME NEW c \in Connection, Callback(c) PROVE Next
  BY <1>7 DEF Callback, Next
<1> QED BY <1>3, <1>4, <1>5, <1>6, <1>7 DEF ChatNext, InHandler, Next, chatAll

LEMMA ChatInitRight == ChatInit => Init /\ AppInv
<1> SUFFICES ASSUME ChatInit PROVE Init /\ AppInv
  OBVIOUS
<1>1. Init /\ IInv /\ PendingInv
  BY InitIInv, PendingInit DEF ChatInit
<1>2. \A d \in Connection : Len(queue[d]) = 0
  BY <1>1 DEF Init
<1> QED BY <1>1, <1>2, LeftFinite DEF AppInv, QueueInv, ChatInit, Init

(* What Send makes of the queues: one of them may be a message longer. *)
LEMMA SendLengths ==
  ASSUME IInv, NEW c \in Connection, NEW f, Send(c, f)
  PROVE  \A d \in Connection :
           Len(queue'[d]) <= Len(queue[d]) + 1 /\ (d # c => Len(queue'[d]) = Len(queue[d]))
<1>1. \A d \in Connection : Len(queue[d]) \in Nat
  BY QueueLengths
<1>2. queue \in [Connection -> Seq(Frame)]
  BY DEF IInv, TypeOK
<1>3. CASE queue' = queue
  BY <1>1, <1>3
<1>4. CASE queue' = [queue EXCEPT ![c] = Append(queue[c], f)]
  <2>1. Len(Append(queue[c], f)) = Len(queue[c]) + 1
    BY <1>2
  <2> QED BY <1>1, <1>2, <1>4, <2>1
<1> QED BY <1>3, <1>4 DEF Send

LEMMA PostQueue ==
  ASSUME AppInv, NEW c \in Connection, Post(c)
  PROVE  QueueInv'
<1>1. IInv /\ QueueInv /\ AudienceInv
  BY DEF AppInv, PendingInv
<1>2. /\ c \in audience /\ audience' = audience \ {c} /\ Send(c, Notification)
      /\ UNCHANGED <<mode, handler, current, open, step>>
  BY DEF Post, control
<1>3. Ceiling' = Ceiling /\ Ceiling \in Nat
  BY <1>1, <1>2, LeftFinite DEF Ceiling, Left
<1>4. \A d \in Connection : /\ Len(queue[d]) \in Nat /\ Len(queue[d]) <= Ceiling
                            /\ Len(queue'[d]) <= Len(queue[d]) + 1
                            /\ d # c => Len(queue'[d]) = Len(queue[d])
  BY <1>1, <1>2, SendLengths, QueueLengths DEF QueueInv
<1>5. Len(queue[c]) <= Ceiling - 1 /\ step # "begin" /\ audience \subseteq Connection
  BY <1>1, <1>2 DEF QueueInv, AudienceInv, IInv, TypeOK
<1>6. Len(queue'[c]) \in Int
  <2>1. ChatNext
    BY DEF ChatNext, InHandler
  <2>2. IInv'
    BY <2>1, ChatStep, NextIInv DEF AppInv
  <2> QED BY <2>2 DEF IInv, TypeOK
<1>7. ASSUME NEW d \in Connection
      PROVE  Len(queue'[d]) <= Ceiling /\ (d \in audience' => Len(queue'[d]) <= Ceiling - 1)
  <2>1. CASE d = c
    BY <1>2, <1>3, <1>4, <1>5, <1>6, <2>1
  <2>2. CASE d # c
    BY <1>1, <1>2, <1>3, <1>4, <2>2 DEF QueueInv
  <2> QED BY <2>1, <2>2
<1> QED BY <1>1, <1>2, <1>3, <1>5, <1>7 DEF QueueInv

LEMMA onmethodQueue ==
  ASSUME AppInv, onmethod
  PROVE  QueueInv'
<1>1. IInv /\ QueueInv /\ AudienceInv
  BY DEF AppInv, PendingInv
<1>2. PICK r \in pending[current] : Respond(current, r)
  BY DEF onmethod
<1>3. /\ Send(current, Response(r)) /\ UNCHANGED <<mode, handler, current, open>>
      /\ handler = "method" /\ step = "begin" /\ step' = "posting"
      /\ current \in Connection /\ audience' \subseteq Connection
  BY <1>1, <1>2 DEF onmethod, Begins, Respond, control, AudienceInv, IInv, TypeOK
<1>4. Ceiling' = Ceiling /\ Ceiling \in Nat
  BY <1>1, <1>3, LeftFinite DEF Ceiling, Left
<1>5. IInv'
  <2>1. ChatNext
    BY DEF ChatNext, InHandler
  <2> QED BY <2>1, ChatStep, NextIInv DEF AppInv
<1>6. \A d \in Connection : /\ Len(queue[d]) \in Nat /\ Len(queue[d]) <= Ceiling - 2
                            /\ Len(queue'[d]) <= Len(queue[d]) + 1
                            /\ Len(queue'[d]) \in Nat
  <2>1. \A d \in Connection : Len(queue[d]) \in Nat /\ Len(queue'[d]) \in Nat
    BY <1>1, <1>5, QueueLengths DEF IInv, TypeOK
  <2>2. \A d \in Connection : Len(queue[d]) <= Ceiling - 2
    BY <1>1, <1>3 DEF QueueInv
  <2>3. \A d \in Connection : Len(queue'[d]) <= Len(queue[d]) + 1
    <3>1. \A d \in Connection :
            Len(queue'[d]) <= Len(queue[d]) + 1 /\ (d # current => Len(queue'[d]) = Len(queue[d]))
      BY <1>1, <1>3, SendLengths
    <3> QED BY <3>1
  <2> QED BY <2>1, <2>2, <2>3
<1>7. \A d \in Connection : Len(queue'[d]) <= Ceiling - 1 /\ Len(queue'[d]) <= Ceiling
  BY <1>4, <1>6
<1>8. mode = "destroy" /\ handler # "none" => handler = "disconnected"
  BY <1>1 DEF QueueInv
<1> QED BY <1>3, <1>4, <1>7, <1>8 DEF QueueInv

(* A handler begins only in a service call with short queues, or because a  *)
(* connection closes that was not counted as leaving before.                *)
LEMMA CallbackQueue ==
  ASSUME AppInv, NEW c \in Connection, Callback(c)
  PROVE  QueueInv'
<1>1. IInv /\ QueueInv /\ AudienceInv
  BY DEF AppInv, PendingInv
<1>2. /\ handler = "none" /\ step = "none" /\ audience' = {} /\ mode' = mode
      /\ step' = IF handler' = "none" THEN "none" ELSE "begin"
  BY <1>1 DEF Callback, Established, Receive, Closed, Serving, AudienceInv
<1>3. \A d \in Connection : Len(queue[d]) \in Nat /\ Len(queue'[d]) = Len(queue[d])
  <2>1. CASE Established(c)
    <3>1. queue[c] = <<>> /\ queue' = [queue EXCEPT ![c] = <<>>]
      BY <1>1, <2>1 DEF Established, IInv, ClosedEmpty
    <3> QED BY <1>1, <3>1, QueueLengths DEF IInv, TypeOK
  <2>2. CASE Receive(c) \/ Closed(c)
    BY <1>1, <2>2, QueueLengths DEF Receive, Closed
  <2> QED BY <2>1, <2>2 DEF Callback
<1>4. Ceiling \in Nat /\ \A d \in Connection : Len(queue[d]) <= Ceiling
  BY <1>1, LeftFinite DEF QueueInv
<1>5. CASE mode = "service"
  <2>1. Left = {} /\ Left' = {}
    BY <1>2, <1>5 DEF Left
  <2>2. Cardinality({}) = 0
    BY FS_EmptySet
  <2>3. Ceiling = MaxWaiting + 2 /\ Ceiling' = Ceiling
    BY <2>1, <2>2, ChatAssumption DEF Ceiling
  <2>4. \A d \in Connection : Len(queue[d]) <= MaxWaiting
    <3>1. \A d \in open : Len(queue[d]) < MaxWaiting
      BY <1>5 DEF Callback, Room
    <3>2. \A d \in Connection \ open : queue[d] = <<>>
      BY <1>1 DEF IInv, ClosedEmpty
    <3>3. Len(<<>>) = 0
      OBVIOUS
    <3> QED BY <1>3, <3>1, <3>2, <3>3, ChatAssumption
  <2>5. \A d \in Connection : /\ Len(queue'[d]) <= Ceiling' /\ Len(queue'[d]) <= Ceiling' - 1
                              /\ Len(queue'[d]) <= Ceiling' - 2
    BY <1>3, <2>3, <2>4, ChatAssumption
  <2> QED BY <1>2, <1>5, <2>5 DEF QueueInv
<1>6. CASE mode # "service"
  <2>1. Closed(c) /\ mode = "destroy" /\ handler' = "disconnected" /\ current' = c
    BY <1>6 DEF Callback, Established, Receive, Closed, Serving, Enter
  <2>2. c \in open /\ open' = open
    BY <2>1 DEF Closed
  <2>3. Left' = Left \union {c} /\ c \notin Left
    BY <1>2, <2>1, <2>2 DEF Left
  <2>4. Cardinality(Left') = Cardinality(Left) + 1
    BY <1>1, <2>3, LeftFinite, FS_AddElement
  <2>5. Ceiling' = Ceiling + 1
    BY <1>1, <2>4, LeftFinite, ChatAssumption DEF Ceiling
  <2>6. \A d \in Connection : Len(queue'[d]) <= Ceiling' /\ Len(queue'[d]) <= Ceiling' - 1
    BY <1>3, <1>4, <2>5
  <2> QED BY <1>2, <2>1, <2>6 DEF QueueInv
<1> QED BY <1>5, <1>6

LEMMA QueueStep == AppInv /\ [ChatNext]_chatAll => QueueInv'
<1> SUFFICES ASSUME AppInv, [ChatNext]_chatAll PROVE QueueInv'
  OBVIOUS
<1>1. IInv /\ QueueInv /\ AudienceInv
  BY DEF AppInv, PendingInv
<1>2. IInv' /\ AudienceInv'
  BY <1>1, ChatStep, NextIInv, AudienceStep DEF AppInv
<1>3. \A d \in Connection : Len(queue[d]) \in Nat /\ Len(queue'[d]) \in Nat
  BY <1>1, <1>2, QueueLengths DEF IInv, TypeOK
<1>4. Ceiling \in Nat /\ Ceiling' \in Nat
  <2>1. Left' \subseteq Connection
    BY <1>2 DEF Left, IInv, TypeOK
  <2>2. Cardinality(Left') \in Nat
    BY <2>1, FS_Subset, FS_CardinalityType, ChatAssumption
  <2> QED BY <1>1, <2>2, LeftFinite, ChatAssumption DEF Ceiling
<1>5. CASE onconnected \/ onnotify \/ ondisconnected
  <2>1. UNCHANGED vars /\ step = "begin" /\ step' = "posting"
    BY <1>5 DEF onconnected, onnotify, ondisconnected, Begins
  <2>2. Ceiling' = Ceiling /\ UNCHANGED <<queue, mode, handler>>
    BY <2>1 DEF vars, Ceiling, Left
  <2>3. audience' \subseteq Connection
    BY <1>2 DEF AudienceInv, IInv, TypeOK
  <2> QED BY <1>1, <1>3, <1>4, <2>1, <2>2, <2>3 DEF QueueInv
<1>6. CASE HandlerDone
  <2>1. /\ handler' = "none" /\ step' = "none" /\ audience' = {} /\ mode' = mode
        /\ HandlerReturn(current) /\ current \in open
    BY <1>1, <1>6 DEF HandlerDone, HandlerReturn, Enter, AudienceInv
  <2>2. Left' = Left
    <3>1. CASE mode # "destroy"
      BY <2>1, <3>1 DEF Left
    <3>2. CASE mode = "destroy"
      <4>1. handler = "disconnected"
        BY <1>1, <2>1, <3>2 DEF QueueInv, HandlerReturn
      <4>2. open' = open \ {current} /\ current \in Connection
        BY <1>1, <2>1, <4>1 DEF HandlerReturn, Cleanup, IInv, TypeOK
      <4> QED BY <2>1, <3>2, <4>1, <4>2 DEF Left
    <3> QED BY <3>1, <3>2
  <2>3. \A d \in Connection : queue'[d] = queue[d] \/ queue'[d] = <<>>
    BY <1>1, <2>1 DEF HandlerReturn, Cleanup, IInv, TypeOK
  <2>4. Len(<<>>) = 0
    OBVIOUS
  <2>5. \A d \in Connection : Len(queue'[d]) <= Ceiling'
    BY <1>1, <1>3, <1>4, <2>2, <2>3, <2>4 DEF QueueInv, Ceiling
  <2> QED BY <2>1, <2>5 DEF QueueInv
<1>7. ASSUME NEW c \in Connection, Writeable(c) \/ \E m \in ClientMessage : ClientSend(c, m),
             UNCHANGED chatVars
      PROVE  QueueInv'
  <2>1. UNCHANGED <<mode, handler, current, open, step, audience>>
    BY <1>7 DEF Writeable, ClientSend, control, chatVars
  <2>2. Ceiling' = Ceiling
    BY <2>1 DEF Ceiling, Left
  <2>3. \A d \in Connection : Len(queue'[d]) <= Len(queue[d])
    <3>1. CASE \E m \in ClientMessage : ClientSend(c, m)
      BY <1>3, <3>1 DEF ClientSend
    <3>2. CASE Writeable(c)
      <4>1. queue[c] # <<>> /\ queue' = [queue EXCEPT ![c] = Tail(queue[c])]
        BY <3>2 DEF Writeable
      <4>2. Len(Tail(queue[c])) <= Len(queue[c])
        BY <1>1, <4>1, QueueLengths
      <4> QED BY <1>1, <1>3, <4>1, <4>2 DEF IInv, TypeOK
    <3> QED BY <1>7, <3>1, <3>2
  <2>4. audience \subseteq Connection
    BY <1>1 DEF AudienceInv, IInv, TypeOK
  <2>5. \A d \in Connection, k \in Int : Len(queue[d]) <= k => Len(queue'[d]) <= k
    BY <1>3, <2>3
  <2>6. Ceiling - 1 \in Int /\ Ceiling - 2 \in Int
    BY <1>4
  <2>7. \A d \in Connection : Len(queue'[d]) <= Ceiling
    BY <1>1, <1>4, <2>5 DEF QueueInv
  <2>8. step = "begin" => \A d \in Connection : Len(queue'[d]) <= Ceiling - 1
    BY <1>1, <2>5, <2>6 DEF QueueInv
  <2>9. step = "begin" /\ handler = "method" => \A d \in Connection : Len(queue'[d]) <= Ceiling - 2
    BY <1>1, <2>5, <2>6 DEF QueueInv
  <2>10. \A d \in audience : Len(queue'[d]) <= Ceiling - 1
    BY <1>1, <2>4, <2>5, <2>6 DEF QueueInv
  <2> QED BY <1>1, <2>1, <2>2, <2>7, <2>8, <2>9, <2>10 DEF QueueInv
<1>8. CASE (Run \/ Return) /\ UNCHANGED chatVars
  <2>1. UNCHANGED <<handler, queue, step, audience>> /\ Left = {} /\ Left' = {} /\ mode' # "destroy"
    BY <1>8 DEF Run, Return, chatVars, Left
  <2> QED BY <1>1, <2>1 DEF QueueInv, Ceiling
<1>9. CASE (Dispose \/ Destroyed) /\ UNCHANGED chatVars
  <2>1. UNCHANGED <<queue, step, audience>> /\ handler = "none" /\ handler' = "none"
    BY <1>1, <1>9 DEF Dispose, Destroyed, chatVars, IInv, TypeOK
  <2>2. step' = "none" /\ audience' = {}
    BY <1>1, <2>1 DEF AudienceInv
  <2>3. CASE Dispose
    <3>1. Left = {} /\ Cardinality({}) = 0
      BY <2>3, FS_EmptySet DEF Dispose, Left
    <3>2. Cardinality(Left') \in Nat
      <4>1. Left' \subseteq Connection
        BY <1>2 DEF Left, IInv, TypeOK
      <4> QED BY <4>1, FS_Subset, FS_CardinalityType, ChatAssumption
    <3>3. Ceiling <= Ceiling'
      BY <3>1, <3>2, ChatAssumption DEF Ceiling
    <3>4. \A d \in Connection : Len(queue'[d]) <= Ceiling'
      BY <1>1, <1>3, <1>4, <2>1, <3>3 DEF QueueInv
    <3> QED BY <2>1, <2>2, <3>4 DEF QueueInv
  <2>4. CASE Destroyed
    <3>1. open = {}
      BY <2>4 DEF Destroyed
    <3>2. \A d \in Connection : Len(queue'[d]) = 0
      BY <1>1, <2>1, <3>1 DEF IInv, ClosedEmpty
    <3>3. \A d \in Connection : Len(queue'[d]) <= Ceiling'
      BY <1>4, <3>2
    <3> QED BY <2>1, <2>2, <3>3 DEF QueueInv
  <2> QED BY <1>9, <2>3, <2>4
<1>10. CASE UNCHANGED chatAll
  BY <1>1, <1>10 DEF chatAll, chatVars, vars, QueueInv, Ceiling, Left
<1>11. ASSUME NEW d \in Connection, Post(d) PROVE QueueInv'
  BY <1>11, PostQueue
<1>12. CASE onmethod
  BY <1>12, onmethodQueue
<1>13. ASSUME NEW c \in Connection, Callback(c) PROVE QueueInv'
  BY <1>13, CallbackQueue
<1> QED BY <1>5, <1>6, <1>7, <1>8, <1>9, <1>10, <1>11, <1>12, <1>13 DEF ChatNext, InHandler

LEMMA AppStep == AppInv /\ [ChatNext]_chatAll => AppInv'
  BY ChatStep, NextIInv, PendingStep, QueueStep DEF AppInv

(* The chat server is an application as JrpcProtocol takes it to be.        *)
THEOREM UsesRight == ChatSpec => UsesProtocolRight
<1> QED BY ChatInitRight, AppStep, ChatStep, PTL DEF ChatSpec, UsesProtocolRight

(* So what is proved of JrpcProtocol is true of the chat server: no client's *)
(* request is forgotten or answered twice, ...                              *)
THEOREM ChatKeepsCalls ==
  ASSUME WholeMessages
  PROVE  ChatSpec => [](NoCallForgotten /\ EachCallOnce)
<1>1. ChatSpec => Spec
  BY UsesRight DEF UsesProtocolRight, Spec
<1> QED BY <1>1, NoneForgotten, EachInOnePlace, PTL

(* ... and if ids fit an int, every response is the answer to a call that   *)
(* was not answered before, and has its id.                                 *)
THEOREM ChatAnswersRight ==
  ASSUME IdsFit
  PROVE  ChatSpec => AnswersMatchCalls
<1>1. ChatSpec => Spec
  BY UsesRight DEF UsesProtocolRight, Spec
<1> QED BY <1>1, CallsAnsweredRight, PTL

(* When a method handler of the chat server returns, it has responded.      *)
LEMMA ChatOwesNothing == AppInv /\ [ChatNext]_chatAll => OwesNothing
<1> SUFFICES ASSUME AppInv, [ChatNext]_chatAll, handler = "method",
                    NEW c \in Connection, HandlerReturn(c)
             PROVE  pending[c] = {}
  BY DEF OwesNothing
<1>1. PendingInv'
  BY PendingStep DEF AppInv
<1>2. handler' = "none" /\ pending' = pending
  BY DEF HandlerReturn, Enter
<1> QED BY <1>1, <1>2 DEF PendingInv

(* So the clients of the chat server are answered in the order in which     *)
(* they asked, none of them later than in the handler it was handed to.     *)
THEOREM ChatAnswersInOrder == ChatSpec => []AnswersInOrder
<1>1. ChatInit => AppInv /\ OInv
  BY ChatInitRight, InitOrder DEF ChatInit
<1>2. (AppInv /\ OInv) /\ [ChatNext]_chatAll => (AppInv /\ OInv)'
  BY AppStep, ChatStep, ChatOwesNothing, NextOrder
<1> QED BY <1>1, <1>2, OrderIsAnswers, PTL DEF ChatSpec
=============================================================================
