----------------------------- MODULE ChatOnJrpc -----------------------------
(***************************************************************************)
(* The chat server (example/chat-server/main.cc) as an application of      *)
(* JrpcProtocol: its handlers take the place of the ones that may do       *)
(* anything there, message by message.  ChatServer has the contents of the *)
(* messages; here it matters who is sent to, and when.                     *)
(***************************************************************************)
EXTENDS JrpcProtocol, FiniteSets

CONSTANT MaxWaiting  \* bound: messages in a queue when a client is served

(* main sets all handlers; and MaxQueue, up to which JrpcProtocol lets an   *)
(* application notify, is so large that it stops no handler of this one.    *)
ASSUME ChatAssumption ==
  /\ Custom = Handler
  /\ MaxWaiting \in Nat /\ MaxQueue \in Nat
  /\ IsFiniteSet(Connection)
  /\ MaxQueue >= MaxWaiting + 2 + Cardinality(Connection)

VARIABLES
  chatters,  \* the keys of the map of that name
  step,      \* of the handler that runs: "begin", "posting", or "none"
  audience   \* connections the running handler has still to send to

chatVars == <<chatters, step, audience>>
chatAll == <<vars, chatVars>>

ChatInit ==
  /\ Init
  /\ chatters = {}
  /\ step = "none"
  /\ audience = {}

Room == mode = "destroy" \/ \A c \in open : Len(queue[c]) < MaxWaiting

(* jrpc_protocol_callback, up to the handler. *)
Callback(c) ==
  /\ Room
  /\ Established(c) \/ Receive(c) \/ Closed(c)
  /\ step' = IF handler' = "none" THEN "none" ELSE "begin"
  /\ UNCHANGED <<chatters, audience>>

Begins(h) == handler = h /\ step = "begin" /\ step' = "posting"

onconnected ==
  /\ Begins("connected")
  /\ chatters' = chatters \union {current}
  /\ UNCHANGED <<vars, audience>>

(* Mutant: a name that is used is not answered. *)
onmethodSilent ==
  /\ Begins("method")
  /\ \/ \E r \in pending[current] : Respond(current, r) /\ audience' = chatters
     \/ audience' = {} /\ UNCHANGED vars
  /\ UNCHANGED chatters

(* set_name responds before it announces; anything else is an error.        *)
onmethod ==
  /\ Begins("method")
  /\ \E r \in pending[current] : Respond(current, r)
  /\ audience' \in IF current \in chatters THEN {{}, chatters} ELSE {{}}
  /\ UNCHANGED chatters

(* chat, if it has a text. *)
onnotify ==
  /\ Begins("notify")
  /\ audience' \in IF current \in chatters THEN {{}, chatters} ELSE {{}}
  /\ UNCHANGED <<vars, chatters>>

ondisconnected ==
  /\ Begins("disconnected")
  /\ audience' = chatters
  /\ UNCHANGED <<vars, chatters>>

(* The loops of announce and chat: jrpc_notify for each one of them. *)
Post(d) ==
  /\ d \in audience
  /\ audience' = audience \ {d}
  /\ Send(d, Notification)
  /\ UNCHANGED <<control, open, inbox, pending, wire, called, answered, chatters, step>>

(* Mutant: the connection stays in the map. *)
HandlerReturns ==
  /\ step = "posting" /\ audience = {}
  /\ HandlerReturn(current)
  /\ step' = "none"
  /\ UNCHANGED <<chatters, audience>>

(* At last ondisconnected erases the connection; then the handler returns.  *)
HandlerDone ==
  /\ step = "posting" /\ audience = {}
  /\ HandlerReturn(current)
  /\ chatters' = IF handler = "disconnected" THEN chatters \ {current} ELSE chatters
  /\ step' = "none"
  /\ UNCHANGED audience

InHandler == onconnected \/ onmethod \/ onnotify \/ ondisconnected
              \/ HandlerDone \/ \E d \in Connection : Post(d)

ChatNext ==
  \/ InHandler
  \/ /\ Run \/ Return \/ Dispose \/ Destroyed
     /\ UNCHANGED chatVars
  \/ \E c \in Connection :
       \/ Callback(c)
       \/ /\ Writeable(c) \/ \E m \in ClientMessage : ClientSend(c, m)
          /\ UNCHANGED chatVars

ChatSpec == ChatInit /\ [][ChatNext]_chatAll

(* As in JrpcProtocol, but nothing is assumed of the application except     *)
(* that its handlers run.                                                   *)
ChatFair ==
  /\ ChatSpec
  /\ WF_chatAll(InHandler)
  /\ WF_chatAll(Run /\ UNCHANGED chatVars)
  /\ SF_chatAll(Return /\ UNCHANGED chatVars)
  /\ WF_chatAll(Destroyed /\ UNCHANGED chatVars)
  /\ \A c \in Connection :
       /\ SF_chatAll(Callback(c) /\ inbox'[c] # inbox[c])
       /\ SF_chatAll(Writeable(c) /\ UNCHANGED chatVars)
       /\ WF_chatAll(mode = "destroy" /\ Callback(c))
-----------------------------------------------------------------------------
(* Nobody is sent to whose connection is closed: the map follows            *)
(* libwebsockets, and a handler that runs does not outlive a recipient.     *)
RecipientsOpen == audience \subseteq open /\ chatters \subseteq open

(* AnswersInOrder is another: though main sets ondisconnected, and could    *)
(* answer when it likes, no call is left for later, so that the application *)
(* never holds on to a connection, and all are answered in their order.     *)

(* The chat server is an application as JrpcProtocol takes it to be: it     *)
(* sends to open connections only, and answers calls it was handed, once.   *)
UsesProtocolRight == Init /\ [][Next]_vars
=============================================================================
