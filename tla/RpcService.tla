----------------------------- MODULE RpcService -----------------------------
(***************************************************************************)
(* What a client of a jrpc server is promised about its requests: each one *)
(* is answered at most once, on the connection it was sent on and with the *)
(* id it was sent with; and, unless the connection is closed first, each   *)
(* one is answered.  Answers may come in any order.                        *)
(***************************************************************************)
EXTENDS Integers, Sequences

CONSTANTS Connection,  \* connections a client may have
          Id,          \* the ids clients may use, each as often as they like
          Number       \* numbers of the calls on one connection, from 1 up

VARIABLES online,      \* connections that are open
          called,      \* called[c]: ids of the requests sent on c, in order
          answered     \* answered[c]: the responses received on c, in order

rpcVars == <<online, called, answered>>

(* A response, naming the request it is for by its place in called[c].     *)
Answered(c, n) == \E i \in 1..Len(answered[c]) : answered[c][i].call = n

Init == /\ online = {}
        /\ called = [c \in Connection |-> <<>>]
        /\ answered = [c \in Connection |-> <<>>]

Connect(c) == /\ c \notin online
              /\ online' = online \union {c}
              /\ UNCHANGED <<called, answered>>

Call(c, id) == /\ c \in online
               /\ Len(called[c]) + 1 \in Number
               /\ called' = [called EXCEPT ![c] = Append(@, id)]
               /\ UNCHANGED <<online, answered>>

Answer(c, n) ==
  /\ c \in online
  /\ n \in 1..Len(called[c])
  /\ ~Answered(c, n)
  /\ answered' = [answered EXCEPT ![c] = Append(@, [call |-> n, id |-> called[c][n]])]
  /\ UNCHANGED <<online, called>>

Hangup(c) == /\ c \in online
             /\ online' = online \ {c}
             /\ called' = [called EXCEPT ![c] = <<>>]
             /\ answered' = [answered EXCEPT ![c] = <<>>]

Next == \E c \in Connection :
          \/ Connect(c)
          \/ \E id \in Id : Call(c, id)
          \/ \E n \in 1..Len(called[c]) : Answer(c, n)
          \/ Hangup(c)

Safety == Init /\ [][Next]_rpcVars

(* A call that stays on an open connection is answered in the end. *)
Liveness == \A c \in Connection, n \in Number :
              n <= Len(called[c]) ~> n > Len(called[c]) \/ Answered(c, n)

Spec == Safety /\ Liveness
=============================================================================
