---------------------------- MODULE FifoChannel ----------------------------
(***************************************************************************)
(* What the outgoing path of a jrpc server promises, without lists, heap   *)
(* or libwebsockets: every open connection has one first-in first-out      *)
(* queue of frames; a frame leaves it for the wire only from its head, and *)
(* closing the connection discards what is left.  JrpcQueue implements     *)
(* this specification with an intrusive linked list.                       *)
(***************************************************************************)
EXTENDS Sequences

CONSTANTS Connection,  \* connections that may be open
          Data         \* contents of frames

VARIABLES open,        \* the connections that are open
          contents,    \* contents[c]: frames waiting on c, oldest first
          wire         \* the frame written last, and on which connection

fifoVars == <<open, contents, wire>>

NoFrame == <<>>

Init == /\ open = {}
        /\ contents = [c \in Connection |-> <<>>]
        /\ wire = NoFrame

Open(c) == /\ c \notin open
           /\ open' = open \union {c}
           /\ contents' = [contents EXCEPT ![c] = <<>>]
           /\ UNCHANGED wire

Enqueue(c, d) == /\ c \in open
                 /\ contents' = [contents EXCEPT ![c] = Append(@, d)]
                 /\ UNCHANGED <<open, wire>>

Deliver(c) == /\ c \in open
              /\ contents[c] # <<>>
              /\ wire' = <<c, Head(contents[c])>>
              /\ contents' = [contents EXCEPT ![c] = Tail(@)]
              /\ UNCHANGED open

Close(c) == /\ c \in open
            /\ open' = open \ {c}
            /\ contents' = [contents EXCEPT ![c] = <<>>]
            /\ UNCHANGED wire

Next == \E c \in Connection :
          \/ Open(c)
          \/ \E d \in Data : Enqueue(c, d)
          \/ Deliver(c)
          \/ Close(c)

Spec == Init /\ [][Next]_fifoVars
=============================================================================
