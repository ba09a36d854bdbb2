---------------------------- MODULE JrpcProtocol ----------------------------
(***************************************************************************)
(* The jrpc server at work: jrpc_protocol_callback (lib/jrpc/protocol.c),  *)
(* which libwebsockets calls for every event of a connection, the calls of *)
(* lib/jrpc/connection.c an application answers and notifies with, the     *)
(* application's handlers, and the clients.                                *)
(*                                                                         *)
(* One thread runs both the application and the callbacks.  It is in the   *)
(* application between two calls of jrpc_server_run, in libwebsockets      *)
(* while jrpc_server_run or jrpc_server_dispose last, and there, for the   *)
(* time of a handler, in the application again; so a handler is a stretch  *)
(* of several steps.  The message queues are the channels of FifoChannel,  *)
(* which JrpcQueue implements.                                             *)
(***************************************************************************)
EXTENDS Integers, Sequences

CONSTANTS
  Connection,     \* session memory libwebsockets may give to a connection
  ClientMessage,  \* the messages clients send
  Custom,         \* the handlers the application sets; others have defaults
  Failing,        \* which calls may fail: "malloc", "lws_write"
  IntLimit,       \* an int ranges over -IntLimit .. IntLimit - 1
  MaxCalls,       \* bound: requests on one connection
  MaxInbox,       \* bound: messages on their way to the server, per connection
  MaxQueue,       \* bound: queue length at which the application stops notifying
  NULL            \* no connection

Handler == {"method", "notify", "connected", "disconnected"}

(* A message as far as jrpc_protocol_process looks into it: whether it is a *)
(* JSON object, the types of its members, its id, and the number of         *)
(* LWS_CALLBACK_RECEIVE in which libwebsockets delivers it.                 *)
JsonType == {"absent", "string", "integer", "array", "object"}
JsonMessage == [json : BOOLEAN, method : JsonType, params : JsonType,
                idType : JsonType, id : Int, pieces : Nat \ {0}]

ASSUME ConstantsAssumption ==
  /\ ClientMessage \subseteq JsonMessage
  /\ Custom \subseteq Handler
  /\ Failing \subseteq {"malloc", "lws_write"}
  /\ IntLimit \in Nat \ {0}
  /\ MaxCalls \in Nat
  /\ NULL \notin Connection

VARIABLES
  mode,      \* where the thread is: "app", "service", "destroy", or "gone"
  handler,   \* the handler that is running, or "none"
  current,   \* the connection it was called for, or NULL
  open,      \* connections from ESTABLISHED to the end of CLOSED
  inbox,     \* inbox[c]: what libwebsockets has still to deliver from c
  pending,   \* pending[c]: calls handed to onmethod and not yet answered
  queue,     \* queue[c]: connection->messages
  armed,     \* armed[c]: lws_callback_on_writable has been called for c
  wire,      \* the last frame passed to lws_write, and its connection
  called,    \* history: the ids of the requests that c sent
  answered,  \* history: the responses that were written to c
  lost       \* history: the calls whose response was lost in a failed call

vars == <<mode, handler, current, open, inbox, pending, queue, armed, wire,
          called, answered, lost>>
control == <<mode, handler, current>>

(* What a client means for a request: the members of one, all well typed.  *)
IsRequest(m) == /\ m.json
                /\ m.method = "string"
                /\ m.params \in {"array", "object"}
                /\ m.idType = "integer"

(* A piece of a message from a client; requests are numbered.              *)
Piece == {p \in [message : ClientMessage, call : 0..MaxCalls] :
            p.call # 0 <=> IsRequest(p.message)}

(* A call as the application sees it, by its id; and its number.           *)
IntRange == -IntLimit..(IntLimit - 1)
CallRecord == [call : 1..MaxCalls, id : IntRange]

(* Mutant: the id is not put into the response. *)
ResponseWithoutId(r) == [type |-> "response", call |-> r.call, id |-> 0]

(* What jrpc_respond, jrpc_respond_error and jrpc_notify send.             *)
Response(r) == [type |-> "response", call |-> r.call, id |-> r.id]
Notification == [type |-> "notification", call |-> 0, id |-> 0]
Frame == {Response(r) : r \in CallRecord} \union {Notification}
NoFrame == <<>>

(* json_integer_value, a 64 bit number, assigned to an int. *)
ToInt(n) == ((n + IntLimit) % (2 * IntLimit)) - IntLimit

(* The conditions of jrpc_protocol_process. *)
WellFormed(m) == m.json /\ m.method = "string" /\ m.params \in {"array", "object"}
HasId(m) == m.idType = "integer"
-----------------------------------------------------------------------------
Init ==
  /\ mode = "app"
  /\ handler = "none"
  /\ current = NULL
  /\ open = {}
  /\ inbox = [c \in Connection |-> <<>>]
  /\ pending = [c \in Connection |-> {}]
  /\ queue = [c \in Connection |-> <<>>]
  /\ armed = [c \in Connection |-> FALSE]
  /\ wire = NoFrame
  /\ called = [c \in Connection |-> <<>>]
  /\ answered = [c \in Connection |-> <<>>]
  /\ lost = [c \in Connection |-> {}]

(* A client sends a message; requests are numbered. *)
ClientSend(c, m) ==
  /\ c \in open
  /\ Len(inbox[c]) < MaxInbox
  /\ LET number == IF IsRequest(m) THEN Len(called[c]) + 1 ELSE 0
     IN /\ number <= MaxCalls
        /\ called' = IF IsRequest(m) THEN [called EXCEPT ![c] = Append(@, m.id)] ELSE called
        /\ inbox' = [inbox EXCEPT ![c] =
                       @ \o [i \in 1..m.pieces |-> [message |-> m, call |-> number]]]
  /\ UNCHANGED <<control, open, pending, queue, armed, wire, answered, lost>>
-----------------------------------------------------------------------------
(* jrpc_server_run enters and leaves libwebsockets. *)
Run ==
  /\ mode = "app"
  /\ mode' = "service"
  /\ UNCHANGED <<handler, current, open, inbox, pending, queue, armed, wire, called, answered, lost>>

Return ==
  /\ mode = "service"
  /\ handler = "none"
  /\ mode' = "app"
  /\ UNCHANGED <<handler, current, open, inbox, pending, queue, armed, wire, called, answered, lost>>

(* jrpc_server_dispose: libwebsockets closes what is open, then all is gone. *)
Dispose ==
  /\ mode = "app"
  /\ mode' = "destroy"
  /\ UNCHANGED <<handler, current, open, inbox, pending, queue, armed, wire, called, answered, lost>>

Destroyed ==
  /\ mode = "destroy"
  /\ open = {}
  /\ mode' = "gone"
  /\ UNCHANGED <<handler, current, open, inbox, pending, queue, armed, wire, called, answered, lost>>
-----------------------------------------------------------------------------
(* libwebsockets is about to call jrpc_protocol_callback. *)
Serving == mode = "service" /\ handler = "none"

Enter(h, c) == handler' = h /\ current' = c

(* The end of jrpc_protocol_callback, with messages in the queue or not. *)
Rearm(c, messages) == armed' = [armed EXCEPT ![c] = @ \/ messages # <<>>]

(* LWS_CALLBACK_ESTABLISHED, up to onconnected. *)
Established(c) ==
  /\ Serving
  /\ c \notin open
  /\ open' = open \union {c}
  /\ queue' = [queue EXCEPT ![c] = <<>>]
  /\ Enter("connected", c)
  /\ UNCHANGED <<mode, inbox, pending, armed, wire, called, answered, lost>>

(* LWS_CALLBACK_RECEIVE: json_loadb understands a piece if it is a whole    *)
(* message.  Up to onmethod or onnotify, or to the end of the callback.     *)
Receive(c) ==
  /\ Serving
  /\ c \in open
  /\ inbox[c] # <<>>
  /\ LET m == Head(inbox[c]).message
         accepted == m.pieces = 1 /\ WellFormed(m)
     IN \/ /\ accepted /\ HasId(m)
           /\ pending' = [pending EXCEPT ![c] =
                            @ \union {[call |-> Head(inbox[c]).call, id |-> ToInt(m.id)]}]
           /\ Enter("method", c)
           /\ UNCHANGED armed
        \/ /\ accepted /\ ~HasId(m)
           /\ Enter("notify", c)
           /\ UNCHANGED <<pending, armed>>
        \/ /\ ~accepted
           /\ Rearm(c, queue[c])
           /\ UNCHANGED <<handler, current, pending>>
  /\ inbox' = [inbox EXCEPT ![c] = Tail(@)]
  /\ UNCHANGED <<mode, open, queue, wire, called, answered, lost>>

(* Mutant: libwebsockets is not asked to call back for the next message. *)
WriteableOnce(c) ==
  /\ Serving
  /\ c \in open
  /\ armed[c]
  /\ queue[c] # <<>>
  /\ LET frame == Head(queue[c])
     IN /\ wire' = <<c, frame>>
        /\ answered' = IF frame.type = "notification" THEN answered
                       ELSE [answered EXCEPT ![c] =
                               Append(@, [call |-> frame.call, id |-> frame.id])]
  /\ queue' = [queue EXCEPT ![c] = Tail(@)]
  /\ armed' = [armed EXCEPT ![c] = FALSE]
  /\ UNCHANGED <<control, open, inbox, pending, called, lost>>

(* Mutant: the message is written and stays in the queue. *)
WriteablePeeks(c) ==
  /\ Serving
  /\ c \in open
  /\ armed[c]
  /\ queue[c] # <<>>
  /\ LET frame == Head(queue[c])
     IN /\ Len(answered[c]) < 2 * MaxCalls
        /\ wire' = <<c, frame>>
        /\ answered' = IF frame.type = "notification" THEN answered
                       ELSE [answered EXCEPT ![c] =
                               Append(@, [call |-> frame.call, id |-> frame.id])]
  /\ UNCHANGED <<control, open, inbox, pending, queue, armed, called, lost>>

(* LWS_CALLBACK_SERVER_WRITEABLE: write one message.  Whether lws_write     *)
(* could write it is not looked at.                                         *)
Writeable(c) ==
  /\ Serving
  /\ c \in open
  /\ armed[c]
  /\ queue[c] # <<>>
  /\ LET frame == Head(queue[c])
     IN /\ wire' = <<c, frame>>
        /\ IF frame.type = "notification" THEN UNCHANGED <<answered, lost>>
           ELSE \/ /\ answered' = [answered EXCEPT ![c] =
                                     Append(@, [call |-> frame.call, id |-> frame.id])]
                   /\ UNCHANGED lost
                \/ /\ "lws_write" \in Failing
                   /\ lost' = [lost EXCEPT ![c] = @ \union {frame.call}]
                   /\ UNCHANGED answered
  /\ queue' = [queue EXCEPT ![c] = Tail(@)]
  /\ armed' = [armed EXCEPT ![c] = Tail(queue[c]) # <<>>]
  /\ UNCHANGED <<control, open, inbox, pending, called>>

(* Mutant: jrpc_connection_cleanup runs before ondisconnected. *)
ClosedCleansFirst(c) ==
  /\ mode \in {"service", "destroy"}
  /\ handler = "none"
  /\ c \in open
  /\ Enter("disconnected", c)
  /\ open' = open \ {c}
  /\ queue' = [queue EXCEPT ![c] = <<>>]
  /\ armed' = [armed EXCEPT ![c] = FALSE]
  /\ UNCHANGED <<mode, inbox, pending, wire, called, answered, lost>>

(* LWS_CALLBACK_CLOSED, up to ondisconnected. *)
Closed(c) ==
  /\ mode \in {"service", "destroy"}
  /\ handler = "none"
  /\ c \in open
  /\ Enter("disconnected", c)
  /\ UNCHANGED <<mode, open, inbox, pending, queue, armed, wire, called, answered, lost>>
-----------------------------------------------------------------------------
(* The application has control in its handlers and outside libwebsockets.  *)
InApplication == mode = "app" \/ handler \in Custom

(* Mutant: libwebsockets is not asked to call back. *)
SendUnarmed(c, frame) ==
  /\ queue' = [queue EXCEPT ![c] = Append(@, frame)]
  /\ UNCHANGED <<armed, lost>>

(* Mutant: a connection has room for one message only. *)
SendOverwrites(c, frame) ==
  /\ queue' = [queue EXCEPT ![c] = <<frame>>]
  /\ armed' = [armed EXCEPT ![c] = TRUE]
  /\ UNCHANGED lost

(* Mutant: the last message is the first one to be written. *)
SendInFront(c, frame) ==
  /\ queue' = [queue EXCEPT ![c] = <<frame>> \o @]
  /\ armed' = [armed EXCEPT ![c] = TRUE]
  /\ UNCHANGED lost

(* jrpc_connection_send: append the message and ask libwebsockets to call   *)
(* back, or drop it when there is no memory.                                *)
Send(c, frame) ==
  \/ /\ queue' = [queue EXCEPT ![c] = Append(@, frame)]
     /\ armed' = [armed EXCEPT ![c] = TRUE]
     /\ UNCHANGED lost
  \/ /\ "malloc" \in Failing
     /\ lost' = [lost EXCEPT ![c] = @ \union ({frame.call} \ {0})]
     /\ UNCHANGED <<queue, armed>>

(* jrpc_default_onmethod answers with an error at once; the other default   *)
(* handlers do nothing.                                                     *)
DefaultResponds(c) == handler = "method" /\ "method" \notin Custom /\ current = c

(* jrpc_respond or jrpc_respond_error.  A call is answered once, where it   *)
(* came from and with its id.                                               *)
Respond(c, r) ==
  /\ InApplication \/ DefaultResponds(c)
  /\ c \in open
  /\ r \in pending[c]
  /\ Send(c, Response(r))
  /\ pending' = [pending EXCEPT ![c] = @ \ {r}]
  /\ UNCHANGED <<control, open, inbox, wire, called, answered>>

(* jrpc_notify, to the connection whose handler runs, or to any one by an   *)
(* application that keeps track of the connections that are open.           *)
Notify(c) ==
  /\ InApplication
  /\ c = current \/ {"connected", "disconnected"} \subseteq Custom
  /\ c \in open
  /\ Len(queue[c]) < MaxQueue
  /\ Send(c, Notification)
  /\ UNCHANGED <<control, open, inbox, pending, wire, called, answered>>

(* An application that is told of closed connections may answer later; any *)
(* other one must answer before its method handler returns.                *)
MayDefer == {"method", "disconnected"} \subseteq Custom

(* jrpc_connection_cleanup; the end of the callback then finds an empty     *)
(* queue, and the connection, its memory and its calls are gone.            *)
Cleanup(c) ==
  /\ queue' = [queue EXCEPT ![c] = <<>>]
  /\ armed' = [armed EXCEPT ![c] = FALSE]
  /\ open' = open \ {c}
  /\ inbox' = [inbox EXCEPT ![c] = <<>>]
  /\ pending' = [pending EXCEPT ![c] = {}]
  /\ called' = [called EXCEPT ![c] = <<>>]
  /\ answered' = [answered EXCEPT ![c] = <<>>]
  /\ lost' = [lost EXCEPT ![c] = {}]

(* The handler returns, and the rest of the callback runs. *)
HandlerReturn(c) ==
  /\ handler # "none"
  /\ c = current
  /\ handler = "method" /\ ~MayDefer => pending[c] = {}
  /\ IF handler = "disconnected" THEN Cleanup(c)
     ELSE /\ Rearm(c, queue[c])
          /\ UNCHANGED <<open, inbox, pending, queue, called, answered, lost>>
  /\ Enter("none", NULL)
  /\ UNCHANGED <<mode, wire>>
-----------------------------------------------------------------------------
Next ==
  \/ Run \/ Return \/ Dispose \/ Destroyed
  \/ \E c \in Connection :
       \/ \E m \in ClientMessage : ClientSend(c, m)
       \/ Established(c)
       \/ Receive(c)
       \/ Writeable(c)
       \/ Closed(c)
       \/ \E r \in pending[c] : Respond(c, r)
       \/ Notify(c)
       \/ HandlerReturn(c)

(* A service call polls every connection and calls back for each one that   *)
(* is ready, so none is passed over for ever; it ends, and the application  *)
(* calls the next one or disposes the server, which closes everything.  The *)
(* application answers every call it was handed, and its handlers return.   *)
Fairness ==
  /\ WF_vars(Run) /\ SF_vars(Return) /\ WF_vars(Destroyed)
  /\ \A c \in Connection :
       /\ SF_vars(Receive(c))
       /\ SF_vars(Writeable(c))
       /\ WF_vars(HandlerReturn(c))
       /\ WF_vars(mode = "destroy" /\ Closed(c))
       /\ SF_vars(\E r \in pending[c] : Respond(c, r))

Spec == Init /\ [][Next]_vars
FairSpec == Spec /\ Fairness
-----------------------------------------------------------------------------
(* Every variable has its type; a handler runs for a connection that is     *)
(* open, and only while libwebsockets has control of the thread.            *)
TypeOK ==
  /\ mode \in {"app", "service", "destroy", "gone"}
  /\ handler \in Handler \union {"none"}
  /\ IF handler = "none" THEN current = NULL
     ELSE current \in open /\ mode \in {"service", "destroy"}
  /\ open \subseteq Connection
  /\ inbox \in [Connection -> Seq(Piece)]
  /\ pending \in [Connection -> SUBSET CallRecord]
  /\ queue \in [Connection -> Seq(Frame)]
  /\ armed \in [Connection -> BOOLEAN]
  /\ wire \in (Connection \X Frame) \union {NoFrame}
  /\ called \in [Connection -> Seq({m.id : m \in ClientMessage})]
  /\ answered \in [Connection -> Seq(CallRecord)]
  /\ lost \in [Connection -> SUBSET (1..MaxCalls)]

(* A connection has messages to write exactly if libwebsockets has been     *)
(* asked to call back: one message is written per callback, so without the  *)
(* request at the end of jrpc_protocol_callback, or the one of              *)
(* jrpc_connection_send, the others would wait for ever.                    *)
WritableArmed == \A c \in Connection : armed[c] <=> queue[c] # <<>>

CallsIn(s) == {s[i].call : i \in 1..Len(s)} \ {0}
CallsOf(S) == {r.call : r \in S}

(* No request of an open connection is forgotten: it is on its way, or the  *)
(* application was handed it and owes an answer, or the answer is in the    *)
(* queue, or written, or lost in a call that failed.                        *)
NoCallForgotten ==
  \A c \in open :
    1..Len(called[c]) = CallsIn(inbox[c]) \union CallsOf(pending[c]) \union CallsIn(queue[c])
                          \union CallsIn(answered[c]) \union lost[c]

(* No request is in two of these places or twice in one, so none is         *)
(* answered twice, whatever fails; and every answer has its request's id.   *)
Distinct(s) == \A i, j \in 1..Len(s) : s[i].call = s[j].call => i = j \/ s[i].call = 0
EachCallOnce ==
  \A c \in open :
    /\ Distinct(inbox[c]) /\ Distinct(queue[c]) /\ Distinct(answered[c])
    /\ CallsIn(inbox[c]) \intersect CallsOf(pending[c]) = {}
    /\ (CallsIn(inbox[c]) \union CallsOf(pending[c])) \intersect CallsIn(queue[c]) = {}
    /\ (CallsIn(answered[c]) \union lost[c]) \intersect
         (CallsIn(inbox[c]) \union CallsOf(pending[c]) \union CallsIn(queue[c])) = {}
    /\ CallsIn(answered[c]) \intersect lost[c] = {}

(* The id is "repeated in response" (README.md): a response that a client   *)
(* gets has the id of the request it answers.                               *)
IdRepeated ==
  \A c \in open : \A i \in 1..Len(answered[c]) :
    answered[c][i].id = called[c][answered[c][i].call]

(* Requests are answered in the order they came, and none is outstanding    *)
(* between two callbacks; if nothing fails the n-th response a client gets  *)
(* is the one to its n-th request.                                          *)
Ascending(s) == \A i, j \in 1..Len(s) : i < j /\ s[j].call # 0 => s[i].call < s[j].call
Below(S, T) == \A m \in S, n \in T : m < n
WholeMessages == \A m \in ClientMessage : m.pieces = 1
AnswersInOrder ==
  \A c \in open :
    LET coming == CallsIn(inbox[c])
        inHand == CallsOf(pending[c])
        going == CallsIn(queue[c])
    IN /\ pending[c] # {} => handler = "method" /\ current = c
       /\ \A r, s \in pending[c] : r = s
       /\ Ascending(answered[c]) /\ Ascending(queue[c])
       /\ Below(CallsIn(answered[c]), going \union inHand \union coming)
       /\ Below(going, inHand \union coming)
       /\ Below(inHand, coming)
       /\ Failing = {} /\ WholeMessages =>
            \A n \in 1..Len(answered[c]) : answered[c][n].call = n

(* That is so with the default method handler, and with any application     *)
(* that has to answer in its own one, having no ondisconnected.             *)
InOrderUnlessDeferred == ~MayDefer => AnswersInOrder

(* The frames written on a connection are the ones sent to it, in order.    *)
Fifo == INSTANCE FifoChannel WITH Data <- Frame, contents <- queue
FramesInOrder == Fifo!Spec

(* The server keeps what RpcService promises the clients: the safety part   *)
(* whatever fails, the liveness part if nothing does.                       *)
Rpc == INSTANCE RpcService WITH
  online <- open, Id <- {m.id : m \in ClientMessage}, Number <- 1..MaxCalls

AnswersMatchCalls == Rpc!Safety
EveryCallAnswered == Rpc!Spec
=============================================================================
