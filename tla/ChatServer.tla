----------------------------- MODULE ChatServer -----------------------------
(***************************************************************************)
(* The handlers of example/chat-server/main.cc.  They run one at a time,   *)
(* each to its end, in the thread that calls jrpc_server_run; between two  *)
(* of them jrpc writes messages to connections, in the order in which they *)
(* were sent (JrpcProtocol!FramesInOrder).                                 *)
(***************************************************************************)
EXTENDS Sequences, Integers

CONSTANTS
  Connection,
  String,      \* strings clients use, as names or as texts
  NoString,    \* a first parameter that is not a string, or is missing
  Failing,     \* {"malloc"} if a message may be dropped for lack of memory
  MaxFrames    \* bound: frames sent to a connection, apart from farewells

ASSUME ChatAssumption == "" \in String /\ NoString \notin String

VARIABLES
  chatters,  \* the map of that name, from connections to names
  open,      \* connections libwebsockets has open
  queue,     \* queue[c]: messages jrpc has yet to write to c
  received   \* history: what was written to c since it was opened

vars == <<chatters, open, queue, received>>

Result(n) == [kind |-> "result", who |-> n, text |-> ""]
Error(reason) == [kind |-> "error", who |-> "", text |-> reason]
Announcement(what, n) == [kind |-> what, who |-> n, text |-> ""]
Message(n, text) == [kind |-> "message", who |-> n, text |-> text]

Reason == {"name already used", "invalid params", "not implemented", "invalid connection"}
Frame == [kind : {"result", "error", "arrived", "gone", "message"}, who : String,
          text : String \union Reason]

Init ==
  /\ chatters = <<>>
  /\ open = {}
  /\ queue = [c \in Connection |-> <<>>]
  /\ received = [c \in Connection |-> <<>>]

Room == \A c \in open : Len(received[c]) + Len(queue[c]) < MaxFrames
-----------------------------------------------------------------------------
(* Mutant: the loop ends with the first name it looks at. *)
IsFirstName(n) == chatters # <<>> /\ chatters[CHOOSE d \in DOMAIN chatters : TRUE] = n

(* is_name_used, which looks at the caller's name too. *)
is_name_used(n) == \E d \in DOMAIN chatters : chatters[d] = n

(* Which of the messages to the connections in S are dropped. *)
Lost(S) == IF "malloc" \in Failing THEN SUBSET S ELSE {{}}

(* Mutant: a connection with messages waiting is left out. *)
PostToIdle(q, S, f) ==
  [c \in Connection |-> IF c \in S /\ q[c] = <<>> THEN Append(q[c], f) ELSE q[c]]

(* jrpc_notify, jrpc_respond: frame f is appended for the connections in S. *)
Post(q, S, f) == [c \in Connection |-> IF c \in S THEN Append(q[c], f) ELSE q[c]]

(* announce, chat: to all chatters. *)
ToAll(q, f) == {Post(q, DOMAIN chatters \ L, f) : L \in Lost(DOMAIN chatters)}

(* jrpc_respond, jrpc_respond_error *)
ToOne(q, c, f) == {Post(q, {c} \ L, f) : L \in Lost({c})}

Refuse(c, reason) ==
  /\ queue' \in ToOne(queue, c, Error(reason))
  /\ UNCHANGED <<chatters, open, received>>

(* Mutant: the arrival is announced before the name is set. *)
set_nameLate(c, n) ==
  /\ chatters' = [chatters EXCEPT ![c] = n]
  /\ \E q \in ToOne(queue, c, Result(n)) : queue' \in ToAll(q, Announcement("arrived", chatters[c]))
  /\ UNCHANGED <<open, received>>

(* Mutant: the reply is sent after the announcement. *)
set_nameReplyLast(c, n) ==
  /\ chatters' = [chatters EXCEPT ![c] = n]
  /\ \E q \in ToAll(queue, Announcement("arrived", n)) : queue' \in ToOne(q, c, Result(n))
  /\ UNCHANGED <<open, received>>

(* set_name: the reply is sent before the announcement. *)
set_name(c, n) ==
  /\ chatters' = [chatters EXCEPT ![c] = n]
  /\ \E q \in ToOne(queue, c, Result(n)) : queue' \in ToAll(q, Announcement("arrived", n))
  /\ UNCHANGED <<open, received>>

(* Mutant: the type of the parameter is not looked at. *)
onmethodUntyped(c, method, p) ==
  /\ c \in open /\ Room
  /\ IF c \in DOMAIN chatters /\ method = "set_name"
     THEN \/ is_name_used(p) /\ Refuse(c, "name already used")
          \/ ~is_name_used(p) /\ set_name(c, p)
     ELSE Refuse(c, IF c \in DOMAIN chatters THEN "not implemented" ELSE "invalid connection")

(* onmethod, for parameters whose first one is p *)
onmethod(c, method, p) ==
  /\ c \in open /\ Room
  /\ IF c \in DOMAIN chatters /\ method = "set_name"
     THEN \/ p = NoString /\ Refuse(c, "invalid params")
          \/ p # NoString /\ is_name_used(p) /\ Refuse(c, "name already used")
          \/ p # NoString /\ ~is_name_used(p) /\ set_name(c, p)
     ELSE Refuse(c, IF c \in DOMAIN chatters THEN "not implemented" ELSE "invalid connection")

(* onnotify: a chat with a text, and nothing for anything else *)
onnotify(c, method, p) ==
  /\ c \in open /\ Room
  /\ c \in DOMAIN chatters /\ method = "chat" /\ p # NoString
  /\ queue' \in ToAll(queue, Message(chatters[c], p))
  /\ UNCHANGED <<chatters, open, received>>

(* onconnected, with a queue that is new.  insert does not overwrite. *)
onconnected(c) ==
  /\ c \notin open /\ Room
  /\ open' = open \union {c}
  /\ chatters' = [d \in DOMAIN chatters \union {c} |->
                    IF d \in DOMAIN chatters THEN chatters[d] ELSE ""]
  /\ UNCHANGED <<queue, received>>

(* Mutant: the connection stays in the map. *)
ondisconnectedStays(c) ==
  /\ c \in open
  /\ \E q \in ToAll(queue, Announcement("gone", chatters[c])) :
       queue' = [q EXCEPT ![c] = <<>>]
  /\ open' = open \ {c}
  /\ received' = [received EXCEPT ![c] = <<>>]
  /\ UNCHANGED chatters

(* ondisconnected: the one who leaves is told too, but its queue is cleaned *)
(* up and the connection is gone.                                           *)
ondisconnected(c) ==
  /\ c \in open
  /\ IF c \in DOMAIN chatters
     THEN /\ \E q \in ToAll(queue, Announcement("gone", chatters[c])) :
               queue' = [q EXCEPT ![c] = <<>>]
          /\ chatters' = [d \in DOMAIN chatters \ {c} |-> chatters[d]]
     ELSE queue' = [queue EXCEPT ![c] = <<>>] /\ UNCHANGED chatters
  /\ open' = open \ {c}
  /\ received' = [received EXCEPT ![c] = <<>>]


(* LWS_CALLBACK_SERVER_WRITEABLE writes one message. *)
Writeable(c) ==
  /\ c \in open
  /\ queue[c] # <<>>
  /\ received' = [received EXCEPT ![c] = Append(@, Head(queue[c]))]
  /\ queue' = [queue EXCEPT ![c] = Tail(@)]
  /\ UNCHANGED <<chatters, open>>

Next == \E c \in Connection :
          \/ onconnected(c)
          \/ ondisconnected(c)
          \/ Writeable(c)
          \/ \E p \in String \union {NoString} :
               \/ \E method \in {"set_name", "unknown"} : onmethod(c, method, p)
               \/ onnotify(c, "chat", p)

Spec == Init /\ [][Next]_vars

(* jrpc writes what is queued (JrpcProtocol!Fairness). *)
FairSpec == Spec /\ \A c \in Connection : WF_vars(Writeable(c))
-----------------------------------------------------------------------------
(* Every variable has its type. *)
TypeOK ==
  /\ open \subseteq Connection
  /\ DOMAIN chatters \subseteq Connection
  /\ \A c \in DOMAIN chatters : chatters[c] \in String
  /\ queue \in [Connection -> Seq(Frame)]
  /\ received \in [Connection -> Seq(Frame)]

(* The map has the connections that are open: a connection that is closed   *)
(* is not sent to any more, and one that reuses its memory finds no name.   *)
ChattersOpen == DOMAIN chatters = open

(* No two chatters have the same name, over all renames and disconnects,    *)
(* but those who have none yet.                                             *)
NamesUnique ==
  \A c, d \in DOMAIN chatters : chatters[c] = chatters[d] => c = d \/ chatters[c] = ""

(* What c was sent since it was opened, and what of it went to everybody. *)
Sent(c) == received[c] \o queue[c]
Posted(f) == f.kind \in {"arrived", "gone", "message"}
PostsIn(s) ==
  LET posts[i \in 0..Len(s)] ==
        IF i = 0 THEN <<>>
        ELSE IF Posted(s[i]) THEN Append(posts[i - 1], s[i]) ELSE posts[i - 1]
  IN posts[Len(s)]
Posts(c) == PostsIn(Sent(c))
SuffixOf(s, t) == Len(s) <= Len(t) /\ SubSeq(t, Len(t) - Len(s) + 1, Len(t)) = s

(* All chatters see the same conversation, in one order, from where they    *)
(* entered it on.                                                           *)
OneOrder ==
  Failing = {} => \A c, d \in open : SuffixOf(Posts(c), Posts(d)) \/ SuffixOf(Posts(d), Posts(c))

(* A chatter never believes that somebody has left who is there: whoever    *)
(* was told that a name is gone, and has it or sees it taken again, was told *)
(* later that it arrived.                                                    *)
ToldGone(s, n) ==
  \E i \in DOMAIN s :
    /\ s[i] = Announcement("gone", n)
    /\ \A j \in DOMAIN s : j > i => s[j] # Announcement("arrived", n)

NobodyWronglyGone ==
  Failing = {} =>
    \A c, d \in DOMAIN chatters : chatters[d] # "" => ~ToldGone(Sent(c), chatters[d])

(* The chat server is a room as ChatRoom describes one; in it everybody is  *)
(* shown what they were sent, while they stay.                              *)
TheRoom == INSTANCE ChatRoom WITH
  Member <- Connection, Lossy <- "malloc" \in Failing, name <- chatters,
  transcript <- [c \in Connection |-> Sent(c)], shown <- received

ImplementsRoom == TheRoom!Safety
=============================================================================
