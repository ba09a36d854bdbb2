----------------------------- MODULE JrpcQueue -----------------------------
(***************************************************************************)
(* The message queue of lib/jrpc/queue.c on the heap of                    *)
(* lib/jrpc/message.c: one intrusive, singly linked list per connection,   *)
(* whose nodes are the messages themselves.  The blocks malloc hands out   *)
(* are shared by all queues and are handed out again once freed.           *)
(*                                                                         *)
(* The operations are called by connection.c and protocol.c from the one   *)
(* thread that runs the server, so each is one action; only the loop of    *)
(* jrpc_queue_cleanup, which frees the list it walks, is taken a node at a *)
(* time.                                                                   *)
(***************************************************************************)
EXTENDS Naturals, Sequences

CONSTANTS Connection,  \* connection objects; each embeds a struct jrpc_queue
          Message,     \* addresses of the blocks jrpc_message_create may get
          Data,        \* what a message says
          NULL         \* the null pointer

ASSUME NullAssumption == NULL \notin Message \union Connection

VARIABLES
  live,       \* connections between jrpc_connection_init and the end of cleanup
  first,      \* queue->first, for each connection
  last,       \* queue->last, for each connection
  next,       \* message->next, for each block
  data,       \* message->data, for each block
  allocated,  \* blocks that malloc returned and free has not taken back
  cleaning,   \* connection whose jrpc_queue_cleanup is running, or NULL
  cursor,     \* the local variable message of jrpc_queue_cleanup
  wire,       \* the last frame passed to lws_write, and its connection
  items       \* history: the nodes appended to each queue and not yet removed

vars == <<live, first, last, next, data, allocated, cleaning, cursor, wire, items>>

queueVars == <<first, last, next>>
cleanupVars == <<cleaning, cursor>>

Pointer == Message \union {NULL}
NoFrame == <<>>
-----------------------------------------------------------------------------
(* The memory of a connection and of a fresh block holds anything.         *)
Init ==
  /\ live = {}
  /\ first \in [Connection -> Pointer]
  /\ last \in [Connection -> Pointer]
  /\ next \in [Message -> Pointer]
  /\ data \in [Message -> Data]
  /\ allocated = {}
  /\ cleaning = NULL
  /\ cursor = NULL
  /\ wire = NoFrame
  /\ items = [c \in Connection |-> <<>>]

(* A connection whose queue is in use: none is while a cleanup loop holds  *)
(* the thread.                                                             *)
Usable(c) == cleaning = NULL /\ c \in live

(* jrpc_queue_init on the queue of connection c, apart from its callers.   *)
QueueReset(c) ==
  /\ first' = [first EXCEPT ![c] = NULL]
  /\ last' = [last EXCEPT ![c] = NULL]

(* jrpc_connection_init. *)
QueueInit(c) ==
  /\ cleaning = NULL
  /\ c \notin live
  /\ live' = live \union {c}
  /\ QueueReset(c)
  /\ UNCHANGED <<next, data, allocated, cleanupVars, wire, items>>

(* What malloc returns to jrpc_message_create: a free block or NULL. *)
Malloc == (Message \ allocated) \union {NULL}

(* Mutant: last is not moved to a node linked behind others. *)
AppendKeepsLast(c, message) ==
  /\ last' = [last EXCEPT ![c] = IF @ = NULL THEN message ELSE @]
  /\ \/ /\ last[c] # NULL
        /\ next' = [next EXCEPT ![message] = NULL, ![last[c]] = message]
        /\ UNCHANGED first
     \/ /\ last[c] = NULL
        /\ next' = [next EXCEPT ![message] = NULL]
        /\ first' = [first EXCEPT ![c] = message]

(* Mutant: the new node is linked before the first one. *)
AppendAtFront(c, message) ==
  /\ first' = [first EXCEPT ![c] = message]
  /\ last' = [last EXCEPT ![c] = IF @ = NULL THEN message ELSE @]
  /\ next' = [next EXCEPT ![message] = first[c]]

(* jrpc_queue_append, for a message that jrpc_message_create has just      *)
(* made: the node is linked behind the last one, or it is the first.  Both *)
(* functions clear message->next.                                          *)
QueueAppend(c, message) ==
  /\ last' = [last EXCEPT ![c] = message]
  /\ \/ /\ last[c] # NULL
        /\ next' = [next EXCEPT ![message] = NULL, ![last[c]] = message]
        /\ UNCHANGED first
     \/ /\ last[c] = NULL
        /\ next' = [next EXCEPT ![message] = NULL]
        /\ first' = [first EXCEPT ![c] = message]

(* Mutant: the result of malloc is not compared with NULL. *)
SendUnchecked(c, d) ==
  /\ Usable(c)
  /\ \E message \in Malloc :
       /\ allocated' = allocated \union {message}
       /\ data' = [data EXCEPT ![message] = d]
       /\ QueueAppend(c, message)
       /\ items' = [items EXCEPT ![c] = Append(@, message)]
       /\ UNCHANGED <<live, cleanupVars, wire>>

(* jrpc_connection_send: create a message and append it, or drop it        *)
(* silently when there is no memory for it.                                *)
Send(c, d) ==
  /\ Usable(c)
  /\ \E message \in Malloc :
       \/ /\ message # NULL
          /\ allocated' = allocated \union {message}
          /\ data' = [data EXCEPT ![message] = d]
          /\ QueueAppend(c, message)
          /\ items' = [items EXCEPT ![c] = Append(@, message)]
          /\ UNCHANGED <<live, cleanupVars, wire>>
       \/ message = NULL /\ UNCHANGED vars

(* Mutant: last is not reset when the queue runs empty. *)
DequeueKeepsLast(c) ==
  /\ first' = [first EXCEPT ![c] = next[first[c]]]
  /\ UNCHANGED <<last, next>>

(* jrpc_queue_dequeue, for a queue that is not empty. *)
QueueDequeue(c) ==
  /\ first' = [first EXCEPT ![c] = next[first[c]]]
  /\ last' = [last EXCEPT ![c] = IF next[first[c]] = NULL THEN NULL ELSE @]
  /\ UNCHANGED next

(* LWS_CALLBACK_SERVER_WRITEABLE: write the oldest message and dispose it. *)
Transmit(c) ==
  /\ Usable(c)
  /\ first[c] # NULL
  /\ wire' = <<c, data[first[c]]>>
  /\ QueueDequeue(c)
  /\ allocated' = allocated \ {first[c]}
  /\ items' = [items EXCEPT ![c] = Tail(@)]
  /\ UNCHANGED <<live, data, cleanupVars>>

(* Mutant: closing a connection forgets the messages it has not written. *)
CleanupForgets(c) ==
  /\ Usable(c)
  /\ cleaning' = c
  /\ cursor' = NULL
  /\ UNCHANGED <<live, queueVars, data, allocated, wire, items>>

(* LWS_CALLBACK_CLOSED enters jrpc_queue_cleanup ... *)
CleanupBegin(c) ==
  /\ Usable(c)
  /\ cleaning' = c
  /\ cursor' = first[c]
  /\ UNCHANGED <<live, queueVars, data, allocated, wire, items>>

(* Mutant: the loop disposes the node it stands on and stays there. *)
CleanupStands ==
  /\ cleaning # NULL
  /\ cursor # NULL
  /\ allocated' = allocated \ {cursor}
  /\ UNCHANGED <<live, queueVars, data, cleanupVars, wire, items>>

(* ... whose loop reads next before it disposes the node ... *)
CleanupStep ==
  /\ cleaning # NULL
  /\ cursor # NULL
  /\ cursor' = next[cursor]
  /\ allocated' = allocated \ {cursor}
  /\ items' = [items EXCEPT ![cleaning] = Tail(@)]
  /\ UNCHANGED <<live, queueVars, data, cleaning, wire>>

(* ... and which leaves an empty queue behind.  libwebsockets then takes   *)
(* back the memory of the connection.                                      *)
CleanupEnd ==
  /\ cleaning # NULL
  /\ cursor = NULL
  /\ QueueReset(cleaning)
  /\ live' = live \ {cleaning}
  /\ cleaning' = NULL
  /\ UNCHANGED <<next, data, allocated, cursor, wire, items>>

Next ==
  \/ \E c \in Connection :
       \/ QueueInit(c)
       \/ \E d \in Data : Send(c, d)
       \/ Transmit(c)
       \/ CleanupBegin(c)
  \/ CleanupStep
  \/ CleanupEnd

(* The thread that entered the loop of jrpc_queue_cleanup keeps running it. *)
Spec == Init /\ [][Next]_vars /\ WF_vars(CleanupStep \/ CleanupEnd)
-----------------------------------------------------------------------------
(* Every variable has its type; wire holds a whole frame of some connection. *)
TypeOK ==
  /\ live \subseteq Connection
  /\ first \in [Connection -> Pointer]
  /\ last \in [Connection -> Pointer]
  /\ next \in [Message -> Pointer]
  /\ data \in [Message -> Data]
  /\ allocated \subseteq Message
  /\ cleaning \in live \union {NULL}
  /\ cursor \in Pointer
  /\ wire \in (Connection \X Data) \union {NoFrame}
  /\ items \in [Connection -> Seq(Message)]

(* The nodes s are linked in order by the pointers nxt, and end in NULL. *)
Chain(nxt, s) ==
  \A i \in 1..Len(s) : nxt[s[i]] = IF i = Len(s) THEN NULL ELSE s[i+1]

FirstOf(s) == IF s = <<>> THEN NULL ELSE s[1]
LastOf(s) == IF s = <<>> THEN NULL ELSE s[Len(s)]

(* The pointers of every live queue spell out exactly the nodes that were  *)
(* appended to it and not yet removed, in order: this is what append,      *)
(* dequeue and the cleanup loop keep up between them.  In particular first *)
(* is NULL exactly when last is, so append never writes through a stale    *)
(* last pointer.                                                           *)
ListShape ==
  \A c \in live :
    /\ Chain(next, items[c])
    /\ IF cleaning = c THEN cursor = FirstOf(items[c])
       ELSE first[c] = FirstOf(items[c]) /\ last[c] = LastOf(items[c])

(* No message is in two places, neither in two queues nor twice in one, so *)
(* no block is freed twice; and every block that malloc has handed out is  *)
(* in the queue of a live connection, so closing connections leaks nothing. *)
Ownership ==
  /\ \A c, d \in Connection : \A i \in 1..Len(items[c]), j \in 1..Len(items[d]) :
       items[c][i] = items[d][j] => c = d /\ i = j
  /\ \A m \in allocated : \E c \in live : \E i \in 1..Len(items[c]) : m = items[c][i]
  /\ \A c \in Connection : \A i \in 1..Len(items[c]) : items[c][i] \in allocated
  /\ \A c \in Connection \ live : items[c] = <<>>

(* Memory safety of queue.c: every pointer an operation may follow or free *)
(* is NULL or a block that is still allocated, whatever was freed before.  *)
NoDanglingPointers ==
  /\ \A c \in live \ {cleaning} : {first[c], last[c]} \subseteq allocated \union {NULL}
  /\ cleaning # NULL => cursor \in allocated \union {NULL}
  /\ \A m \in allocated : next[m] \in allocated \union {NULL}

(* The loop of jrpc_queue_cleanup ends: the list has no cycle. *)
CleanupEnds == cleaning # NULL ~> cleaning = NULL

(* The linked lists implement the first-in first-out channels of           *)
(* FifoChannel; a connection counts as closed from when its cleanup starts. *)
Fifo == INSTANCE FifoChannel WITH
  open <- live \ {cleaning},
  contents <- [c \in Connection |->
                 IF cleaning = c THEN <<>>
                 ELSE [i \in 1..Len(items[c]) |-> data[items[c][i]]]]

FifoSpec == Fifo!Spec
=============================================================================
