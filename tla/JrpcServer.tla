----------------------------- MODULE JrpcServer -----------------------------
(***************************************************************************)
(* The life of a server (lib/jrpc/server.c) and jrpc_server_wakeup, which  *)
(* other threads call to make jrpc_server_run return: a datagram written   *)
(* to one end of a socket pair makes the other end readable, which the     *)
(* libwebsockets context polls together with the connections.  What is     *)
(* done for the connections is JrpcProtocol's subject; here it is only an  *)
(* event that ends a poll.                                                 *)
(***************************************************************************)
EXTENDS Integers

CONSTANTS Thread,          \* threads that wake the server up
          Capacity,        \* datagrams the socket takes before a write blocks
          ContextMayFail   \* whether lws_create_context may return NULL

ASSUME ServerAssumption == Capacity \in Nat \ {0} /\ ContextMayFail \in BOOLEAN

VARIABLES
  pc,        \* where the server's thread is
  context,   \* whether server->context is not NULL
  adopted,   \* whether the context polls protocol->fd[0]
  datagrams, \* datagrams in the socket pair
  readable,  \* whether the last poll saw fd[0] readable, and it is yet to be served
  cause,     \* what ended the poll of this jrpc_server_run, or "none"
  waker      \* waker[t]: "idle", or "writing" inside jrpc_server_wakeup

vars == <<pc, context, adopted, datagrams, readable, cause, waker>>

(* jrpc_server_create: no context yet, but the socket pair is there.       *)
Init ==
  /\ pc = "app"
  /\ context = FALSE
  /\ adopted = FALSE
  /\ datagrams = 0
  /\ readable = FALSE
  /\ cause = "none"
  /\ waker = [t \in Thread |-> "idle"]

(* jrpc_server_run is called ... *)
Run ==
  /\ pc = "app"
  /\ pc' = IF context THEN "poll" ELSE "create"
  /\ cause' = "none"
  /\ UNCHANGED <<context, adopted, datagrams, readable, waker>>

(* Mutant: the read end of the socket pair is not given to libwebsockets. *)
CreateContextAlone ==
  /\ pc = "create"
  /\ context' = TRUE
  /\ pc' = "poll"
  /\ UNCHANGED <<adopted, datagrams, readable, cause, waker>>

(* Mutant: the call that creates the context does not use it yet. *)
CreateContextOnly ==
  /\ pc = "create"
  /\ context' = TRUE
  /\ adopted' = TRUE
  /\ pc' = "return"
  /\ UNCHANGED <<datagrams, readable, cause, waker>>

(* ... the first time to create the context, which calls back with          *)
(* LWS_CALLBACK_PROTOCOL_INIT.  Without a context there is nothing to run.  *)
CreateContext ==
  /\ pc = "create"
  /\ \/ /\ context' = TRUE
        /\ adopted' = TRUE
        /\ pc' = "poll"
     \/ /\ ContextMayFail
        /\ pc' = "return"
        /\ UNCHANGED <<context, adopted>>
  /\ UNCHANGED <<datagrams, readable, cause, waker>>

(* lws_service waits for a datagram ...                                     *)
PollWakeup ==
  /\ pc = "poll"
  /\ adopted
  /\ datagrams > 0
  /\ readable' = TRUE
  /\ cause' = "wakeup"
  /\ pc' = "serve"
  /\ UNCHANGED <<context, adopted, datagrams, waker>>

(* Mutant: the socket pair is read after every poll. *)
PollEventReads ==
  /\ pc = "poll"
  /\ readable' = adopted
  /\ cause' = "event"
  /\ pc' = "serve"
  /\ UNCHANGED <<context, adopted, datagrams, waker>>

(* ... or an event of a connection, or both ...                             *)
PollEvent ==
  /\ pc = "poll"
  /\ readable' = (adopted /\ datagrams > 0)
  /\ cause' = "event"
  /\ pc' = "serve"
  /\ UNCHANGED <<context, adopted, datagrams, waker>>

(* ... or the end of the timeout, which need not ever come.                 *)
PollTimeout ==
  /\ pc = "poll"
  /\ ~(adopted /\ datagrams > 0)
  /\ cause' = "timeout"
  /\ pc' = "serve"
  /\ UNCHANGED <<context, adopted, datagrams, readable, waker>>

(* Mutant: the datagram is looked at but not taken. *)
RawRxFilePeeks ==
  /\ pc = "serve"
  /\ readable
  /\ readable' = FALSE
  /\ UNCHANGED <<pc, context, adopted, datagrams, cause, waker>>

(* Mutant: two datagrams are read. *)
RawRxFileTwice ==
  /\ pc = "serve"
  /\ readable
  /\ datagrams' = datagrams - 2
  /\ readable' = FALSE
  /\ UNCHANGED <<pc, context, adopted, cause, waker>>

(* LWS_CALLBACK_RAW_RX_FILE takes one datagram by a blocking read.          *)
RawRxFile ==
  /\ pc = "serve"
  /\ readable
  /\ datagrams > 0
  /\ datagrams' = datagrams - 1
  /\ readable' = FALSE
  /\ UNCHANGED <<pc, context, adopted, cause, waker>>

Served ==
  /\ pc = "serve"
  /\ ~readable
  /\ pc' = "return"
  /\ UNCHANGED <<context, adopted, datagrams, readable, cause, waker>>

(* jrpc_server_run returns to its caller. *)
Return ==
  /\ pc = "return"
  /\ pc' = "app"
  /\ UNCHANGED <<context, adopted, datagrams, readable, cause, waker>>

(* jrpc_server_wakeup, by any thread at any time; the write blocks while the *)
(* socket is full.                                                           *)
Wakeup(t) ==
  /\ pc # "disposed"
  /\ waker[t] = "idle"
  /\ waker' = [waker EXCEPT ![t] = "writing"]
  /\ UNCHANGED <<pc, context, adopted, datagrams, readable, cause>>

Write(t) ==
  /\ waker[t] = "writing"
  /\ datagrams < Capacity
  /\ datagrams' = datagrams + 1
  /\ waker' = [waker EXCEPT ![t] = "idle"]
  /\ UNCHANGED <<pc, context, adopted, readable, cause>>

(* jrpc_server_dispose, once no other thread uses the server. *)
Dispose ==
  /\ pc = "app"
  /\ \A t \in Thread : waker[t] = "idle"
  /\ pc' = "disposed"
  /\ context' = FALSE
  /\ adopted' = FALSE
  /\ datagrams' = 0
  /\ UNCHANGED <<readable, cause, waker>>

Next ==
  \/ Run \/ CreateContext
  \/ PollWakeup \/ PollEvent \/ PollTimeout
  \/ RawRxFile \/ Served \/ Return \/ Dispose
  \/ \E t \in Thread : Wakeup(t) \/ Write(t)

Spec == Init /\ [][Next]_vars

(* The server's thread goes on, and calls jrpc_server_run until it disposes *)
(* the server; but a poll ends only if there is something to serve.  The    *)
(* kernel lets a blocked writer in when there is room again and again.      *)
Fairness ==
  /\ WF_vars(Run \/ CreateContext \/ PollWakeup \/ RawRxFile \/ Served \/ Return)
  /\ \A t \in Thread : SF_vars(Write(t))

FairSpec == Spec /\ Fairness
-----------------------------------------------------------------------------
(* Every variable has its type. *)
TypeOK ==
  /\ pc \in {"app", "create", "poll", "serve", "return", "disposed"}
  /\ context \in BOOLEAN /\ adopted \in BOOLEAN /\ readable \in BOOLEAN
  /\ datagrams \in 0..Capacity
  /\ cause \in {"none", "wakeup", "event", "timeout"}
  /\ waker \in [Thread -> {"idle", "writing"}]

(* The blocking read of LWS_CALLBACK_RAW_RX_FILE has something to read, so   *)
(* the thread that serves all connections never stops there.                 *)
ReadNeverBlocks == readable => datagrams > 0

(* "Runs the server until some event occurs or timeout" (server.h): when     *)
(* jrpc_server_run returns, one of them ended its poll.                      *)
RunsUntilEvent == pc = "return" => cause # "none"

(* A wakeup is never lost: whether it is written before the first            *)
(* jrpc_server_run, between two, or during one, and however many others are  *)
(* there, jrpc_server_run returns without an event or a timeout.             *)
WakeupInterrupts == datagrams > 0 ~> pc \in {"return", "disposed"}

(* A wakeup that finds the socket full returns in the end.                   *)
WakeupReturns == \A t \in Thread : waker[t] = "writing" ~> waker[t] = "idle"
=============================================================================
