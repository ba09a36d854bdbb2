-------------------------- MODULE JrpcProtocolCalls --------------------------
(* What becomes of the clients' calls, proved for every set of connections  *)
(* and messages, every choice of handlers and of what may fail.             *)
EXTENDS JrpcProtocolProofs

(* What the theorems need to know of the clients, beside that libwebsockets *)
(* delivers every message in one piece: the ids fit an int.                 *)
IdsFit == \A m \in ClientMessage : m.id \in IntRange

(* A message that comes in one piece is the only one with its number.       *)
OncePerMessage(s) ==
  \A i, j \in 1..Len(s) :
    s[i].call = s[j].call => i = j \/ s[i].call = 0 \/ s[i].message.pieces # 1

(* Each id belongs to the call it goes with. *)
IdsOf(s, ids) == \A i \in 1..Len(s) : s[i].call # 0 => s[i].id = ids[s[i].call]
MessageIdsOf(s, ids) == \A i \in 1..Len(s) : s[i].call # 0 => s[i].message.id = ids[s[i].call]

(* What is on its way, pending, queued, answered and lost are known calls,  *)
(* and are not the same ones.                                               *)
CallsPartition(I, P, Q, A, L, known) ==
  /\ I \union P \union Q \union A \union L \subseteq known
  /\ I \intersect P = {}
  /\ (I \union P) \intersect Q = {}
  /\ (A \union L) \intersect (I \union P \union Q) = {}
  /\ A \intersect L = {}

(* The calls of a connection are in one place each,                         *)
Counted(c) ==
  /\ CallsPartition(CallsIn(inbox[c]), CallsOf(pending[c]), CallsIn(queue[c]),
                    CallsIn(answered[c]), lost[c], 1..Len(called[c]))
  /\ OncePerMessage(inbox[c]) /\ Distinct(queue[c]) /\ Distinct(answered[c])
  /\ \A r, s \in pending[c] : r.call = s.call => r = s

(* they are all there,                                                      *)
Complete(c) ==
  WholeMessages =>
    1..Len(called[c]) \subseteq CallsIn(inbox[c]) \union CallsOf(pending[c])
                       \union CallsIn(queue[c]) \union CallsIn(answered[c]) \union lost[c]

(* and each one has kept its id on the way.                                 *)
IdsKept(c) ==
  IdsFit => /\ MessageIdsOf(inbox[c], called[c])
            /\ \A r \in pending[c] : r.id = called[c][r.call]
            /\ IdsOf(queue[c], called[c])
            /\ IdsOf(answered[c], called[c])

CallsKept(c) == Counted(c) /\ Complete(c) /\ IdsKept(c)

CInv == IInv /\ \A c \in Connection : CallsKept(c)
-----------------------------------------------------------------------------
(* Sequences of pieces, of frames and of answers. *)
LEMMA CallsInAppend ==
  ASSUME NEW S, NEW s \in Seq(S), NEW e \in S
  PROVE  CallsIn(Append(s, e)) = CallsIn(s) \union ({e.call} \ {0})
<1>1. /\ Len(s) \in Nat /\ Len(Append(s, e)) = Len(s) + 1
      /\ \A i \in 1..Len(s) : Append(s, e)[i] = s[i]
      /\ Append(s, e)[Len(s) + 1] = e
  BY AppendProperties, LenProperties
<1>2. 1..(Len(s) + 1) = (1..Len(s)) \union {Len(s) + 1}
  BY <1>1
<1> QED BY <1>1, <1>2, Zenon DEF CallsIn

LEMMA TailElements ==
  ASSUME NEW S, NEW s \in Seq(S), s # <<>>
  PROVE  /\ Len(s) \in Nat \ {0} /\ Len(Tail(s)) = Len(s) - 1
         /\ Head(s) = s[1]
         /\ \A i \in 1..Len(Tail(s)) : i + 1 \in 2..Len(s) /\ Tail(s)[i] = s[i + 1]
         /\ \A i \in 2..Len(s) : i - 1 \in 1..Len(Tail(s)) /\ Tail(s)[i - 1] = s[i]
<1>1. /\ Len(s) \in Nat \ {0} /\ Len(Tail(s)) = Len(s) - 1 /\ Head(s) = s[1]
      /\ \A i \in 1..Len(Tail(s)) : Tail(s)[i] = s[i + 1]
  BY HeadTailProperties, LenProperties, EmptySeq
<1> QED BY <1>1

LEMMA CallsInTail ==
  ASSUME NEW S, NEW s \in Seq(S), s # <<>>
  PROVE  CallsIn(s) = ({Head(s).call} \ {0}) \union CallsIn(Tail(s))
<1>1. ASSUME NEW n \in CallsIn(s) PROVE n \in ({Head(s).call} \ {0}) \union CallsIn(Tail(s))
  <2>1. PICK i \in 1..Len(s) : n = s[i].call /\ n # 0
    BY DEF CallsIn
  <2>2. CASE i = 1
    BY <2>1, <2>2, TailElements
  <2>3. CASE i # 1
    <3>1. i \in 2..Len(s)
      BY <2>3, TailElements
    <3>2. i - 1 \in 1..Len(Tail(s)) /\ n = Tail(s)[i - 1].call
      BY <2>1, <3>1, TailElements
    <3> QED BY <2>1, <3>2 DEF CallsIn
  <2> QED BY <2>2, <2>3
<1>2. ASSUME NEW n \in CallsIn(Tail(s)) PROVE n \in CallsIn(s)
  <2>1. PICK i \in 1..Len(Tail(s)) : n = Tail(s)[i].call /\ n # 0
    BY DEF CallsIn
  <2>2. i + 1 \in 1..Len(s) /\ n = s[i + 1].call
    BY <2>1, TailElements
  <2> QED BY <2>1, <2>2 DEF CallsIn
<1>3. Head(s).call # 0 => Head(s).call \in CallsIn(s)
  <2>1. 1 \in 1..Len(s) /\ Head(s) = s[1]
    BY TailElements
  <2> QED BY <2>1 DEF CallsIn
<1> QED BY <1>1, <1>2, <1>3

LEMMA DistinctAppend ==
  ASSUME NEW S, NEW s \in Seq(S), NEW e \in S, Distinct(s), e.call \notin CallsIn(s)
  PROVE  Distinct(Append(s, e))
<1>1. /\ Len(s) \in Nat /\ Len(Append(s, e)) = Len(s) + 1
      /\ \A i \in 1..Len(s) : Append(s, e)[i] = s[i]
      /\ Append(s, e)[Len(s) + 1] = e
  BY AppendProperties, LenProperties
<1>2. \A i \in 1..Len(s) : s[i].call = e.call => s[i].call = 0
  BY DEF CallsIn
<1> QED BY <1>1, <1>2 DEF Distinct

LEMMA DistinctTail ==
  ASSUME NEW S, NEW s \in Seq(S), s # <<>>, Distinct(s)
  PROVE  Distinct(Tail(s)) /\ Head(s).call \notin CallsIn(Tail(s))
<1>1. Distinct(Tail(s))
  <2> SUFFICES ASSUME NEW i \in 1..Len(Tail(s)), NEW j \in 1..Len(Tail(s)),
                      Tail(s)[i].call = Tail(s)[j].call, Tail(s)[i].call # 0
               PROVE  i = j
    BY DEF Distinct
  <2>1. /\ i + 1 \in 1..Len(s) /\ j + 1 \in 1..Len(s)
        /\ s[i + 1].call = s[j + 1].call /\ s[i + 1].call # 0
    BY TailElements
  <2>2. i + 1 = j + 1
    BY <2>1 DEF Distinct
  <2> QED BY <2>2
<1>2. ASSUME Head(s).call \in CallsIn(Tail(s)) PROVE FALSE
  <2>1. PICK i \in 1..Len(Tail(s)) : Head(s).call = Tail(s)[i].call /\ Head(s).call # 0
    BY <1>2 DEF CallsIn
  <2>2. i + 1 \in 1..Len(s) /\ 1 \in 1..Len(s) /\ s[1].call = s[i + 1].call /\ s[1].call # 0
    BY <2>1, TailElements
  <2>3. 1 = i + 1
    BY <2>2 DEF Distinct
  <2> QED BY <2>3
<1> QED BY <1>1, <1>2

LEMMA OncePerMessageTail ==
  ASSUME NEW S, NEW s \in Seq(S), s # <<>>, OncePerMessage(s)
  PROVE  /\ OncePerMessage(Tail(s))
         /\ Head(s).message.pieces = 1 => Head(s).call \notin CallsIn(Tail(s))
<1>1. OncePerMessage(Tail(s))
  <2> SUFFICES ASSUME NEW i \in 1..Len(Tail(s)), NEW j \in 1..Len(Tail(s)),
                      Tail(s)[i].call = Tail(s)[j].call, Tail(s)[i].call # 0,
                      Tail(s)[i].message.pieces = 1
               PROVE  i = j
    BY DEF OncePerMessage
  <2>1. /\ i + 1 \in 1..Len(s) /\ j + 1 \in 1..Len(s) /\ s[i + 1].call = s[j + 1].call
        /\ s[i + 1].call # 0 /\ s[i + 1].message.pieces = 1
    BY TailElements
  <2>2. i + 1 = j + 1
    BY <2>1 DEF OncePerMessage
  <2> QED BY <2>2
<1>2. ASSUME Head(s).message.pieces = 1, Head(s).call \in CallsIn(Tail(s)) PROVE FALSE
  <2>1. PICK i \in 1..Len(Tail(s)) : Head(s).call = Tail(s)[i].call /\ Head(s).call # 0
    BY <1>2 DEF CallsIn
  <2>2. /\ i + 1 \in 1..Len(s) /\ 1 \in 1..Len(s) /\ s[1].call = s[i + 1].call /\ s[1].call # 0
        /\ s[1].message.pieces = 1
    BY <1>2, <2>1, TailElements
  <2>3. 1 = i + 1
    BY <2>2 DEF OncePerMessage
  <2> QED BY <2>3
<1> QED BY <1>1, <1>2

LEMMA IdsOfAppend ==
  ASSUME NEW S, NEW s \in Seq(S), NEW e \in S, NEW ids,
         IdsOf(s, ids), e.call # 0 => e.id = ids[e.call]
  PROVE  IdsOf(Append(s, e), ids)
<1>1. /\ Len(s) \in Nat /\ Len(Append(s, e)) = Len(s) + 1
      /\ \A i \in 1..Len(s) : Append(s, e)[i] = s[i]
      /\ Append(s, e)[Len(s) + 1] = e
  BY AppendProperties, LenProperties
<1>2. 1..(Len(s) + 1) = (1..Len(s)) \union {Len(s) + 1}
  BY <1>1
<1> QED BY <1>1, <1>2, Zenon DEF IdsOf

LEMMA IdsOfTail ==
  ASSUME NEW S, NEW s \in Seq(S), s # <<>>, NEW ids, IdsOf(s, ids)
  PROVE  IdsOf(Tail(s), ids) /\ (Head(s).call # 0 => Head(s).id = ids[Head(s).call])
<1>1. 1 \in 1..Len(s) /\ Head(s) = s[1]
  BY TailElements
<1>2. \A i \in 1..Len(Tail(s)) : i + 1 \in 1..Len(s) /\ Tail(s)[i] = s[i + 1]
  BY TailElements
<1> QED BY <1>1, <1>2, Zenon DEF IdsOf

LEMMA MessageIdsOfTail ==
  ASSUME NEW S, NEW s \in Seq(S), s # <<>>, NEW ids, MessageIdsOf(s, ids)
  PROVE  /\ MessageIdsOf(Tail(s), ids)
         /\ Head(s).call # 0 => Head(s).message.id = ids[Head(s).call]
<1>1. 1 \in 1..Len(s) /\ Head(s) = s[1]
  BY TailElements
<1>2. \A i \in 1..Len(Tail(s)) : i + 1 \in 1..Len(s) /\ Tail(s)[i] = s[i + 1]
  BY TailElements
<1> QED BY <1>1, <1>2, Zenon DEF MessageIdsOf

(* The calls that are known keep their ids when another one is made. *)
LEMMA KnownIds ==
  ASSUME NEW S, NEW ids \in Seq(S), NEW id \in S
  PROVE  \A n \in 1..Len(ids) : Append(ids, id)[n] = ids[n]
  BY AppendProperties

(* An id that fits an int is not changed by the assignment to one. *)
LEMMA ToIntKeeps ==
  ASSUME NEW n \in IntRange
  PROVE  ToInt(n) = n
<1>1. IntLimit \in Nat \ {0} /\ n + IntLimit \in 0..(2 * IntLimit - 1)
  BY ConstantsAssumption DEF IntRange
<1>2. (n + IntLimit) % (2 * IntLimit) = n + IntLimit
  BY <1>1
<1> QED BY <1>1, <1>2 DEF ToInt, IntRange

(* A message of some pieces behind the others. *)
LEMMA PiecesBehind ==
  ASSUME NEW s \in Seq(Piece), NEW u \in Seq(Piece)
  PROVE  /\ s \o u \in Seq(Piece) /\ Len(s \o u) = Len(s) + Len(u)
         /\ \A i \in 1..Len(s) : i \in 1..Len(s \o u) /\ (s \o u)[i] = s[i]
         /\ \A i \in (Len(s) + 1)..Len(s \o u) : \E j \in 1..Len(u) : (s \o u)[i] = u[j]
<1> DEFINE t == s \o u
<1>1. /\ t \in Seq(Piece) /\ Len(s) \in Nat /\ Len(u) \in Nat /\ Len(t) = Len(s) + Len(u)
      /\ \A i \in 1..Len(t) : t[i] = IF i <= Len(s) THEN s[i] ELSE u[i - Len(s)]
  BY ConcatProperties, LenProperties
<1> HIDE DEF t
<1>2. \A i \in 1..Len(s) : i \in 1..Len(t) /\ t[i] = s[i]
  BY <1>1
<1>3. \A i \in (Len(s) + 1)..Len(t) : i - Len(s) \in 1..Len(u) /\ t[i] = u[i - Len(s)]
  BY <1>1
<1> QED BY <1>1, <1>2, <1>3 DEF t
-----------------------------------------------------------------------------
(* A connection that a step leaves alone. *)
LEMMA Elsewhere ==
  ASSUME NEW d \in Connection, CallsKept(d),
         inbox'[d] = inbox[d], pending'[d] = pending[d], queue'[d] = queue[d],
         called'[d] = called[d], answered'[d] = answered[d], lost'[d] = lost[d]
  PROVE  CallsKept(d)'
  BY DEF CallsKept, Counted, CallsPartition, Complete, IdsKept

(* A connection that has nothing. *)
LEMMA NothingKept ==
  ASSUME NEW c \in Connection,
         inbox[c] = <<>>, pending[c] = {}, queue[c] = <<>>,
         called[c] = <<>>, answered[c] = <<>>, lost[c] = {}
  PROVE  CallsKept(c)
<1>1. Len(<<>>) = 0 /\ 1..0 = {}
  OBVIOUS
<1> QED BY <1>1 DEF CallsKept, Counted, CallsPartition, Complete, IdsKept,
                    CallsIn, CallsOf, OncePerMessage, Distinct, IdsOf, MessageIdsOf

LEMMA InitCalls == Init => CInv
<1> SUFFICES ASSUME Init PROVE CInv
  OBVIOUS
<1>1. IInv
  BY InitIInv
<1>2. \A c \in Connection : CallsKept(c)
  BY NothingKept DEF Init
<1> QED BY <1>1, <1>2 DEF CInv

(* The types of what belongs to one connection. *)
LEMMA TypesOf ==
  ASSUME IInv, NEW c \in Connection
  PROVE  /\ inbox[c] \in Seq(Piece) /\ pending[c] \subseteq CallRecord
         /\ queue[c] \in Seq(Frame) /\ answered[c] \in Seq(CallRecord)
         /\ lost[c] \subseteq 1..MaxCalls
         /\ called[c] \in Seq({m.id : m \in ClientMessage})
         /\ Len(called[c]) \in Nat
<1>1. called[c] \in Seq({m.id : m \in ClientMessage})
  BY DEF IInv, TypeOK
<1> QED BY <1>1, LenProperties DEF IInv, TypeOK

(* What ClientSend adds to an inbox. *)
LEMMA SentPieces ==
  ASSUME IInv, NEW c \in Connection, NEW m \in ClientMessage, ClientSend(c, m),
         NEW number, number = IF IsRequest(m) THEN Len(called[c]) + 1 ELSE 0
  PROVE  /\ Len(inbox[c]) \in Nat /\ m.pieces \in Nat \ {0}
         /\ Len(inbox'[c]) = Len(inbox[c]) + m.pieces
         /\ \A i \in 1..Len(inbox[c]) : i \in 1..Len(inbox'[c]) /\ inbox'[c][i] = inbox[c][i]
         /\ \A i \in (Len(inbox[c]) + 1)..Len(inbox'[c]) :
              inbox'[c][i] = [message |-> m, call |-> number]
<1> DEFINE p == [message |-> m, call |-> number]
           old == inbox[c]
           new == inbox'[c]
<1>1. /\ number <= MaxCalls
      /\ inbox' = [inbox EXCEPT ![c] = @ \o [i \in 1..m.pieces |-> p]]
  BY DEF ClientSend
<1>2. Len(called[c]) \in Nat /\ old \in Seq(Piece)
  BY TypesOf
<1>3. p \in Piece
  BY <1>1, <1>2, ConstantsAssumption DEF Piece
<1>4. m.pieces \in Nat \ {0}
  BY ConstantsAssumption DEF JsonMessage
<1> HIDE DEF p
<1> DEFINE u == [i \in 1..m.pieces |-> p]
<1>5. new = old \o u
  BY <1>1 DEF IInv, TypeOK
<1> HIDE DEF new, old
<1>6. u \in [1..m.pieces -> Piece]
  BY <1>3
<1>7. u \in Seq(Piece) /\ Len(u) = m.pieces /\ \A j \in 1..Len(u) : u[j] = p
  BY <1>4, <1>6
<1> HIDE DEF u
<1>8. /\ Len(old \o u) = Len(old) + Len(u)
      /\ \A i \in 1..Len(old) : i \in 1..Len(old \o u) /\ (old \o u)[i] = old[i]
      /\ \A i \in (Len(old) + 1)..Len(old \o u) :
           \E j \in 1..Len(u) : (old \o u)[i] = u[j]
  BY <1>2, <1>7, PiecesBehind, Zenon
<1>9. Len(old) \in Nat
  BY <1>2, LenProperties
<1>10. /\ Len(new) = Len(old) + m.pieces
       /\ \A i \in 1..Len(old) : i \in 1..Len(new) /\ new[i] = old[i]
       /\ \A i \in (Len(old) + 1)..Len(new) : new[i] = p
  BY <1>5, <1>7, <1>8, <1>9
<1> QED BY <1>4, <1>9, <1>10 DEF new, old, p

LEMMA ClientSendCalls ==
  ASSUME CInv, NEW c \in Connection, NEW m \in ClientMessage, ClientSend(c, m)
  PROVE  CallsKept(c)'
<1> DEFINE number == IF IsRequest(m) THEN Len(called[c]) + 1 ELSE 0
           p == [message |-> m, call |-> number]
           old == inbox[c]
           new == inbox'[c]
           N == Len(called[c])
<1>1. IInv /\ CallsKept(c)
  BY DEF CInv
<1>2. /\ number <= MaxCalls
      /\ called' = IF IsRequest(m) THEN [called EXCEPT ![c] = Append(@, m.id)] ELSE called
      /\ UNCHANGED <<pending, queue, answered, lost>>
  BY DEF ClientSend
<1>3. N \in Nat /\ called[c] \in Seq({x.id : x \in ClientMessage})
  BY <1>1, TypesOf
<1>4. /\ Len(old) \in Nat /\ m.pieces \in Nat \ {0} /\ Len(new) = Len(old) + m.pieces
      /\ \A i \in 1..Len(old) : i \in 1..Len(new) /\ new[i] = old[i]
      /\ \A i \in (Len(old) + 1)..Len(new) : new[i] = p
  BY <1>1, SentPieces
<1>5. p.message = m /\ p.call = number
  OBVIOUS
<1> HIDE DEF new, old, number, p
<1>6. \A i \in 1..Len(new) : i \in 1..Len(old) \/ new[i] = p
  BY <1>4
<1>7. Len(new) \in 1..Len(new) /\ new[Len(new)] = p
  BY <1>4
<1>8. CallsIn(new) = CallsIn(old) \union ({number} \ {0})
  <2>1. CallsIn(new) \subseteq CallsIn(old) \union ({number} \ {0})
    BY <1>5, <1>4, <1>6, Zenon DEF CallsIn
  <2>2. CallsIn(old) \subseteq CallsIn(new)
    BY <1>4, Zenon DEF CallsIn
  <2>3. {number} \ {0} \subseteq CallsIn(new)
    BY <1>5, <1>7 DEF CallsIn
  <2> QED BY <2>1, <2>2, <2>3
<1>9. number \notin CallsIn(old) /\ number \in {0, N + 1}
  <2>1. CallsIn(old) \subseteq 1..N
    BY <1>1 DEF CallsKept, Counted, CallsPartition, old
  <2> QED BY <1>3, <2>1 DEF number
<1>10. OncePerMessage(new)
  <2> SUFFICES ASSUME NEW i \in 1..Len(new), NEW j \in 1..Len(new),
                      new[i].call = new[j].call, new[i].call # 0, new[i].message.pieces = 1
               PROVE  i = j
    BY DEF OncePerMessage
  <2>1. CASE i \in 1..Len(old) /\ j \in 1..Len(old)
    <3>1. OncePerMessage(old)
      BY <1>1 DEF CallsKept, Counted, CallsPartition, old
    <3> QED BY <1>4, <2>1, <3>1 DEF OncePerMessage
  <2>2. CASE i \in 1..Len(old) /\ j \notin 1..Len(old)
    <3>1. old[i].call = number
      BY <1>5, <1>4, <1>6, <2>2
    <3>2. number \in CallsIn(old)
      BY <1>4, <2>2, <3>1 DEF CallsIn
    <3> QED BY <1>9, <3>2
  <2>3. CASE i \notin 1..Len(old) /\ j \in 1..Len(old)
    <3>1. old[j].call = number
      BY <1>5, <1>4, <1>6, <2>3
    <3>2. number \in CallsIn(old)
      BY <1>4, <2>3, <3>1 DEF CallsIn
    <3> QED BY <1>9, <3>2
  <2>4. CASE i \notin 1..Len(old) /\ j \notin 1..Len(old)
    <3>1. m.pieces = 1
      BY <1>5, <1>6, <2>4
    <3> QED BY <1>4, <2>4, <3>1
  <2> QED BY <2>1, <2>2, <2>3, <2>4
<1>11. UNCHANGED <<pending[c], queue[c], answered[c], lost[c]>>
  BY <1>2
<1>12. CASE ~IsRequest(m)
  <2>1. number = 0 /\ called'[c] = called[c]
    BY <1>2, <1>12 DEF number
  <2>2. CallsIn(new) = CallsIn(old)
    BY <1>8, <2>1
  <2>3. MessageIdsOf(old, called[c]) => MessageIdsOf(new, called[c])
    BY <1>5, <1>4, <1>6, <2>1, Zenon DEF MessageIdsOf
  <2>4. Counted(c)'
    BY <1>1, <1>10, <1>11, <2>1, <2>2 DEF CallsKept, Counted, CallsPartition, old, new
  <2>5. Complete(c)'
    BY <1>1, <1>11, <2>1, <2>2 DEF CallsKept, Complete, old, new
  <2>6. IdsKept(c)'
    BY <1>1, <1>11, <2>1, <2>3 DEF CallsKept, IdsKept, old, new
  <2> QED BY <2>4, <2>5, <2>6 DEF CallsKept
<1>13. CASE IsRequest(m)
  <2>1. number = N + 1 /\ called'[c] = Append(called[c], m.id)
    BY <1>1, <1>2, <1>13 DEF number, IInv, TypeOK
  <2>2. /\ Len(called'[c]) = N + 1 /\ called'[c][N + 1] = m.id
        /\ \A n \in 1..N : called'[c][n] = called[c][n]
    BY <1>3, <2>1, AppendProperties
  <2>3. CallsIn(new) = CallsIn(old) \union {N + 1}
    BY <1>3, <1>8, <2>1
  <2>4. 1..(N + 1) = (1..N) \union {N + 1} /\ N + 1 \notin 1..N
    BY <1>3
  <2> HIDE DEF N
  <2>5. Counted(c)'
    BY <1>1, <1>10, <1>11, <2>2, <2>3, <2>4 DEF CallsKept, Counted, CallsPartition, old, new, N
  <2>6. Complete(c)'
    BY <1>1, <1>11, <2>2, <2>3, <2>4 DEF CallsKept, Complete, old, new, N
  <2>7. ASSUME IdsFit PROVE IdsKept(c)'
    <3>1. /\ CallsIn(old) \subseteq 1..N /\ CallsIn(queue[c]) \subseteq 1..N
          /\ CallsIn(answered[c]) \subseteq 1..N /\ CallsOf(pending[c]) \subseteq 1..N
      BY <1>1 DEF CallsKept, Counted, CallsPartition, old, N
    <3>2. /\ MessageIdsOf(old, called[c]) /\ IdsOf(queue[c], called[c])
          /\ IdsOf(answered[c], called[c]) /\ \A r \in pending[c] : r.id = called[c][r.call]
      BY <1>1, <2>7 DEF CallsKept, IdsKept, old
    <3>3. MessageIdsOf(new, called'[c])
      <4>1. \A i \in 1..Len(old) : old[i].call # 0 => old[i].call \in 1..N
        BY <3>1 DEF CallsIn
      <4>2. p.message.id = called'[c][p.call]
        BY <1>5, <2>1, <2>2
      <4>3. ASSUME NEW i \in 1..Len(new), new[i].call # 0
            PROVE  new[i].message.id = called'[c][new[i].call]
        <5>1. CASE i \in 1..Len(old)
          <6>1. new[i] = old[i] /\ old[i].call \in 1..N
            BY <1>4, <4>1, <4>3, <5>1
          <6>2. old[i].message.id = called[c][old[i].call]
            BY <3>2, <4>3, <5>1, <6>1 DEF MessageIdsOf
          <6> QED BY <2>2, <6>1, <6>2
        <5>2. CASE new[i] = p
          BY <4>2, <5>2
        <5> QED BY <1>6, <5>1, <5>2
      <4> QED BY <4>3 DEF MessageIdsOf
    <3>4. IdsOf(queue[c], called'[c]) /\ IdsOf(answered[c], called'[c])
      BY <2>2, <3>1, <3>2, Zenon DEF IdsOf, CallsIn
    <3>5. \A r \in pending[c] : r.id = called'[c][r.call]
      BY <2>2, <3>1, <3>2, Zenon DEF CallsOf
    <3> QED BY <1>11, <3>3, <3>4, <3>5 DEF IdsKept, new
  <2>8. IdsKept(c)'
    BY <2>7 DEF IdsKept
  <2> QED BY <2>5, <2>6, <2>8 DEF CallsKept
<1> QED BY <1>12, <1>13

LEMMA ReceiveCalls ==
  ASSUME CInv, NEW c \in Connection, Receive(c)
  PROVE  CallsKept(c)'
<1> DEFINE p == Head(inbox[c])
           r == [call |-> p.call, id |-> ToInt(p.message.id)]
           rest == Tail(inbox[c])
<1>1. IInv /\ CallsKept(c)
  BY DEF CInv
<1>2. /\ inbox[c] # <<>> /\ inbox'[c] = rest
      /\ UNCHANGED <<queue[c], called[c], answered[c], lost[c]>>
  BY <1>1 DEF Receive, IInv, TypeOK
<1>3. \/ /\ p.message.pieces = 1 /\ WellFormed(p.message) /\ HasId(p.message)
         /\ pending' = [pending EXCEPT ![c] = @ \union {r}]
      \/ /\ p.message.pieces # 1 \/ ~WellFormed(p.message) \/ ~HasId(p.message)
         /\ pending' = pending
  BY DEF Receive
<1>4. inbox[c] \in Seq(Piece) /\ p \in Piece
  BY <1>1, <1>2, TypesOf, HeadTailProperties
<1>5. /\ CallsIn(inbox[c]) = ({p.call} \ {0}) \union CallsIn(rest)
      /\ OncePerMessage(rest)
      /\ p.message.pieces = 1 => p.call \notin CallsIn(rest)
  <2>1. OncePerMessage(inbox[c])
    BY <1>1 DEF CallsKept, Counted, CallsPartition
  <2>2. CallsIn(inbox[c]) = ({p.call} \ {0}) \union CallsIn(rest)
    BY <1>2, <1>4, CallsInTail
  <2> QED BY <1>2, <1>4, <2>1, <2>2, OncePerMessageTail
<1>6. ASSUME IdsFit
      PROVE  /\ MessageIdsOf(rest, called[c])
             /\ p.call # 0 => p.message.id = called[c][p.call]
  <2>1. MessageIdsOf(inbox[c], called[c])
    BY <1>1, <1>6 DEF CallsKept, IdsKept
  <2> QED BY <1>2, <1>4, <2>1, MessageIdsOfTail
<1>7. WellFormed(p.message) /\ HasId(p.message) <=> p.call # 0
  BY <1>4 DEF Piece, IsRequest, WellFormed, HasId
<1>8. CASE p.message.pieces = 1 /\ WellFormed(p.message) /\ HasId(p.message)
  <2>1. pending'[c] = pending[c] \union {r}
    BY <1>1, <1>3, <1>8 DEF IInv, TypeOK
  <2>2. r.call = p.call /\ r.id = ToInt(p.message.id)
    OBVIOUS
  <2>3. p.call # 0 /\ p.call \notin CallsIn(rest)
    BY <1>5, <1>7, <1>8
  <2> HIDE DEF r, rest, p
  <2>4. CallsOf(pending'[c]) = CallsOf(pending[c]) \union {p.call}
    BY <2>1, <2>2, Zenon DEF CallsOf
  <2>5. p.call \notin CallsOf(pending[c])
    BY <1>1, <1>5, <2>3 DEF CallsKept, Counted, CallsPartition
  <2>6. \A x, y \in pending'[c] : x.call = y.call => x = y
    <3>1. \A x \in pending[c] : x.call # p.call
      BY <2>5 DEF CallsOf
    <3>2. \A x, y \in pending[c] : x.call = y.call => x = y
      BY <1>1 DEF CallsKept, Counted, CallsPartition
    <3> QED BY <2>1, <2>2, <3>1, <3>2
  <2>7. Counted(c)'
    BY <1>1, <1>2, <1>5, <2>3, <2>4, <2>6 DEF CallsKept, Counted, CallsPartition
  <2>8. Complete(c)'
    BY <1>1, <1>2, <1>5, <2>4 DEF CallsKept, Complete
  <2>9. ASSUME IdsFit PROVE IdsKept(c)'
    <3>1. p.message.id \in IntRange
      BY <1>4, <2>9, PieceFacts DEF IdsFit
    <3>2. r.id = called[c][r.call]
      BY <1>6, <2>2, <2>3, <2>9, <3>1, ToIntKeeps
    <3> QED BY <1>1, <1>2, <1>6, <2>1, <2>9, <3>2 DEF CallsKept, IdsKept
  <2>10. IdsKept(c)'
    BY <2>9 DEF IdsKept
  <2> QED BY <2>7, <2>8, <2>10 DEF CallsKept
<1>9. CASE p.message.pieces # 1 \/ ~WellFormed(p.message) \/ ~HasId(p.message)
  <2>1. pending' = pending
    BY <1>3, <1>9
  <2>2. CallsIn(rest) \subseteq CallsIn(inbox[c])
    BY <1>5
  <2>3. WholeMessages => CallsIn(rest) = CallsIn(inbox[c])
    <3>1. WholeMessages => p.message.pieces = 1
      BY <1>4, PieceFacts DEF WholeMessages
    <3> QED BY <1>5, <1>7, <1>9, <3>1
  <2> HIDE DEF r, rest, p
  <2>4. Counted(c)'
    BY <1>1, <1>2, <1>5, <2>1, <2>2 DEF CallsKept, Counted, CallsPartition
  <2>5. Complete(c)'
    BY <1>1, <1>2, <2>1, <2>3 DEF CallsKept, Complete
  <2>6. IdsKept(c)'
    BY <1>1, <1>2, <1>6, <2>1 DEF CallsKept, IdsKept
  <2> QED BY <2>4, <2>5, <2>6 DEF CallsKept
<1> QED BY <1>8, <1>9

LEMMA WriteableCalls ==
  ASSUME CInv, NEW c \in Connection, Writeable(c)
  PROVE  CallsKept(c)'
<1> DEFINE f == Head(queue[c])
           r == [call |-> f.call, id |-> f.id]
           rest == Tail(queue[c])
<1>1. IInv /\ CallsKept(c)
  BY DEF CInv
<1>2. /\ queue[c] # <<>> /\ queue'[c] = rest
      /\ UNCHANGED <<inbox[c], pending[c], called[c]>>
  BY <1>1 DEF Writeable, IInv, TypeOK
<1>3. \/ f.type = "notification" /\ UNCHANGED <<answered, lost>>
      \/ /\ f.type # "notification" /\ UNCHANGED lost
         /\ answered' = [answered EXCEPT ![c] = Append(@, r)]
      \/ /\ f.type # "notification" /\ UNCHANGED answered
         /\ lost' = [lost EXCEPT ![c] = @ \union {f.call}]
  BY DEF Writeable
<1>4. queue[c] \in Seq(Frame) /\ f \in Frame
  BY <1>1, <1>2, TypesOf, HeadTailProperties
<1>5. /\ CallsIn(queue[c]) = ({f.call} \ {0}) \union CallsIn(rest)
      /\ Distinct(rest)
      /\ f.call \notin CallsIn(rest)
  <2>1. Distinct(queue[c])
    BY <1>1 DEF CallsKept, Counted, CallsPartition
  <2>2. CallsIn(queue[c]) = ({f.call} \ {0}) \union CallsIn(rest)
    BY <1>2, <1>4, CallsInTail
  <2> QED BY <1>2, <1>4, <2>1, <2>2, DistinctTail
<1>6. ASSUME IdsFit
      PROVE  IdsOf(rest, called[c]) /\ (f.call # 0 => f.id = called[c][f.call])
  <2>1. IdsOf(queue[c], called[c])
    BY <1>1, <1>6 DEF CallsKept, IdsKept
  <2> QED BY <1>2, <1>4, <2>1, IdsOfTail
<1>7. f.type = "notification" <=> f.call = 0
  BY <1>4 DEF Frame, Response, Notification, CallRecord
<1>8. CASE f.call = 0
  <2>1. UNCHANGED <<answered, lost>> /\ CallsIn(rest) = CallsIn(queue[c])
    BY <1>3, <1>5, <1>7, <1>8
  <2> HIDE DEF r, rest, f
  <2>2. Counted(c)'
    BY <1>1, <1>2, <1>5, <2>1 DEF CallsKept, Counted, CallsPartition
  <2>3. Complete(c)'
    BY <1>1, <1>2, <2>1 DEF CallsKept, Complete
  <2>4. IdsKept(c)'
    BY <1>1, <1>2, <1>6, <2>1 DEF CallsKept, IdsKept
  <2> QED BY <2>2, <2>3, <2>4 DEF CallsKept
<1>9. CASE f.call # 0 /\ answered' = [answered EXCEPT ![c] = Append(@, r)] /\ UNCHANGED lost
  <2>1. answered[c] \in Seq(CallRecord) /\ r \in CallRecord
    BY <1>1, <1>4, <1>7, <1>9, TypesOf, FrameFacts
  <2>2. answered'[c] = Append(answered[c], r)
    BY <1>1, <1>9 DEF IInv, TypeOK
  <2>3. r.call = f.call /\ r.id = f.id
    OBVIOUS
  <2> HIDE DEF r, rest, f
  <2>4. CallsIn(answered'[c]) = CallsIn(answered[c]) \union {f.call}
    BY <1>9, <2>1, <2>2, <2>3, CallsInAppend
  <2>5. Distinct(answered'[c])
    <3>1. Distinct(answered[c]) /\ f.call \notin CallsIn(answered[c])
      BY <1>1, <1>5, <1>9 DEF CallsKept, Counted, CallsPartition
    <3> QED BY <2>1, <2>2, <2>3, <3>1, DistinctAppend
  <2>6. Counted(c)'
    BY <1>1, <1>2, <1>5, <1>9, <2>4, <2>5 DEF CallsKept, Counted, CallsPartition
  <2>7. Complete(c)'
    BY <1>1, <1>2, <1>5, <1>9, <2>4 DEF CallsKept, Complete
  <2>8. ASSUME IdsFit PROVE IdsKept(c)'
    <3>1. IdsOf(answered[c], called[c])
      BY <1>1, <2>8 DEF CallsKept, IdsKept
    <3>2. IdsOf(answered'[c], called[c])
      BY <1>6, <2>1, <2>2, <2>3, <2>8, <3>1, IdsOfAppend
    <3> QED BY <1>1, <1>2, <1>6, <2>8, <3>2 DEF CallsKept, IdsKept
  <2>9. IdsKept(c)'
    BY <2>8 DEF IdsKept
  <2> QED BY <2>6, <2>7, <2>9 DEF CallsKept
<1>10. CASE f.call # 0 /\ UNCHANGED answered /\ lost' = [lost EXCEPT ![c] = @ \union {f.call}]
  <2>1. lost'[c] = lost[c] \union {f.call}
    BY <1>1, <1>10 DEF IInv, TypeOK
  <2> HIDE DEF r, rest, f
  <2>2. Counted(c)'
    BY <1>1, <1>2, <1>5, <1>10, <2>1 DEF CallsKept, Counted, CallsPartition
  <2>3. Complete(c)'
    BY <1>1, <1>2, <1>5, <1>10, <2>1 DEF CallsKept, Complete
  <2>4. IdsKept(c)'
    BY <1>1, <1>2, <1>6, <1>10 DEF CallsKept, IdsKept
  <2> QED BY <2>2, <2>3, <2>4 DEF CallsKept
<1> QED BY <1>3, <1>7, <1>8, <1>9, <1>10

LEMMA RespondCalls ==
  ASSUME CInv, NEW c \in Connection, NEW r \in pending[c], Respond(c, r)
  PROVE  CallsKept(c)'
<1> DEFINE f == Response(r)
<1>1. IInv /\ CallsKept(c)
  BY DEF CInv
<1>2. r \in CallRecord /\ f \in Frame /\ queue[c] \in Seq(Frame)
  BY <1>1, TypesOf, SentFrames
<1>3. f.call = r.call /\ f.id = r.id /\ r.call # 0
  BY <1>2 DEF Response, CallRecord
<1> HIDE DEF f
<1>4. /\ pending'[c] = pending[c] \ {r}
      /\ UNCHANGED <<inbox[c], called[c], answered[c]>>
      /\ Send(c, f)
  BY <1>1 DEF Respond, f, IInv, TypeOK
<1>5. /\ CallsOf(pending[c]) = CallsOf(pending'[c]) \union {r.call}
      /\ r.call \notin CallsOf(pending'[c])
  <2>1. \A x, y \in pending[c] : x.call = y.call => x = y
    BY <1>1 DEF CallsKept, Counted, CallsPartition
  <2>2. pending[c] = pending'[c] \union {r} /\ r \notin pending'[c]
    BY <1>4
  <2>3. CallsOf(pending[c]) = CallsOf(pending'[c]) \union {r.call}
    BY <2>2, Zenon DEF CallsOf
  <2>4. r.call \notin CallsOf(pending'[c])
    BY <2>1, <2>2 DEF CallsOf
  <2> QED BY <2>3, <2>4
<1>6. \A x, y \in pending'[c] : x.call = y.call => x = y
  BY <1>1, <1>4 DEF CallsKept, Counted, CallsPartition
<1>7. CallsPartition(CallsIn(inbox[c]), CallsOf(pending[c]), CallsIn(queue[c]),
                     CallsIn(answered[c]), lost[c], 1..Len(called[c]))
  BY <1>1 DEF CallsKept, Counted
<1>8. CASE queue' = [queue EXCEPT ![c] = Append(@, f)] /\ UNCHANGED lost
  <2>1. queue'[c] = Append(queue[c], f)
    BY <1>1, <1>8 DEF IInv, TypeOK
  <2>2. CallsIn(queue'[c]) = CallsIn(queue[c]) \union {r.call}
    BY <1>2, <1>3, <2>1, CallsInAppend
  <2>3. Distinct(queue'[c])
    <3>1. Distinct(queue[c]) /\ f.call \notin CallsIn(queue[c])
      BY <1>1, <1>3, <1>5 DEF CallsKept, Counted, CallsPartition
    <3> QED BY <1>2, <2>1, <3>1, DistinctAppend
  <2>4. Counted(c)'
    <3>1. CallsPartition(CallsIn(inbox[c]), CallsOf(pending'[c]), CallsIn(queue'[c]),
                         CallsIn(answered[c]), lost[c], 1..Len(called[c]))
      BY <1>5, <1>7, <2>2 DEF CallsPartition
    <3>2. OncePerMessage(inbox[c]) /\ Distinct(answered[c])
      BY <1>1 DEF CallsKept, Counted, CallsPartition
    <3> QED BY <1>4, <1>6, <1>8, <2>3, <3>1, <3>2 DEF Counted
  <2>5. Complete(c)'
    BY <1>1, <1>4, <1>5, <1>8, <2>2 DEF CallsKept, Complete
  <2>6. ASSUME IdsFit PROVE IdsKept(c)'
    <3>1. IdsOf(queue[c], called[c]) /\ f.id = called[c][f.call]
      BY <1>1, <1>3, <2>6 DEF CallsKept, IdsKept
    <3>2. IdsOf(queue'[c], called[c])
      BY <1>2, <2>1, <3>1, IdsOfAppend
    <3> QED BY <1>1, <1>4, <2>6, <3>2 DEF CallsKept, IdsKept
  <2>7. IdsKept(c)'
    BY <2>6 DEF IdsKept
  <2> QED BY <2>4, <2>5, <2>7 DEF CallsKept
<1>9. CASE lost' = [lost EXCEPT ![c] = @ \union ({f.call} \ {0})] /\ UNCHANGED queue
  <2>1. lost'[c] = lost[c] \union {r.call}
    BY <1>1, <1>3, <1>9 DEF IInv, TypeOK
  <2>2. Counted(c)'
    <3>1. CallsPartition(CallsIn(inbox[c]), CallsOf(pending'[c]), CallsIn(queue[c]),
                         CallsIn(answered[c]), lost'[c], 1..Len(called[c]))
      BY <1>5, <1>7, <2>1 DEF CallsPartition
    <3>2. OncePerMessage(inbox[c]) /\ Distinct(queue[c]) /\ Distinct(answered[c])
      BY <1>1 DEF CallsKept, Counted, CallsPartition
    <3> QED BY <1>4, <1>6, <1>9, <3>1, <3>2 DEF Counted
  <2>3. Complete(c)'
    BY <1>1, <1>4, <1>5, <1>9, <2>1 DEF CallsKept, Complete
  <2>4. IdsKept(c)'
    BY <1>1, <1>4, <1>9 DEF CallsKept, IdsKept
  <2> QED BY <2>2, <2>3, <2>4 DEF CallsKept
<1> QED BY <1>4, <1>8, <1>9 DEF Send

LEMMA NotifyCalls ==
  ASSUME CInv, NEW c \in Connection, Notify(c)
  PROVE  CallsKept(c)'
<1> DEFINE f == Notification
<1>1. IInv /\ CallsKept(c)
  BY DEF CInv
<1>2. f \in Frame /\ queue[c] \in Seq(Frame) /\ f.call = 0
  BY <1>1, TypesOf, SentFrames DEF Notification
<1>3. UNCHANGED <<inbox, pending, called, answered>> /\ Send(c, f)
  BY DEF Notify
<1> HIDE DEF f
<1>4. CASE queue' = [queue EXCEPT ![c] = Append(@, f)] /\ UNCHANGED lost
  <2>1. queue'[c] = Append(queue[c], f)
    BY <1>1, <1>4 DEF IInv, TypeOK
  <2>2. CallsIn(queue'[c]) = CallsIn(queue[c])
    <3>1. CallsIn(Append(queue[c], f)) = CallsIn(queue[c]) \union ({f.call} \ {0})
      BY <1>2, CallsInAppend
    <3> QED BY <1>2, <2>1, <3>1
  <2>3. Distinct(queue'[c])
    <3>1. Distinct(queue[c]) /\ f.call \notin CallsIn(queue[c])
      BY <1>1, <1>2 DEF CallsKept, Counted, CallsPartition, CallsIn
    <3> QED BY <1>2, <2>1, <3>1, DistinctAppend
  <2>4. Counted(c)'
    BY <1>1, <1>3, <1>4, <2>2, <2>3 DEF CallsKept, Counted, CallsPartition
  <2>5. Complete(c)'
    BY <1>1, <1>3, <1>4, <2>2 DEF CallsKept, Complete
  <2>6. ASSUME IdsFit PROVE IdsKept(c)'
    <3>1. IdsOf(queue[c], called[c])
      BY <1>1, <2>6 DEF CallsKept, IdsKept
    <3>2. IdsOf(queue'[c], called[c])
      BY <1>2, <2>1, <3>1, IdsOfAppend
    <3> QED BY <1>1, <1>3, <2>6, <3>2 DEF CallsKept, IdsKept
  <2>7. IdsKept(c)'
    BY <2>6 DEF IdsKept
  <2> QED BY <2>4, <2>5, <2>7 DEF CallsKept
<1>5. CASE lost' = [lost EXCEPT ![c] = @ \union ({f.call} \ {0})] /\ UNCHANGED queue
  <2>1. lost'[c] = lost[c]
    BY <1>1, <1>2, <1>5 DEF IInv, TypeOK
  <2> QED BY <1>1, <1>3, <1>5, <2>1, Elsewhere
<1> QED BY <1>3, <1>4, <1>5 DEF Send

LEMMA HandlerReturnCalls ==
  ASSUME CInv, NEW c \in Connection, HandlerReturn(c)
  PROVE  CallsKept(c)'
<1>1. IInv /\ CallsKept(c)
  BY DEF CInv
<1>2. CASE handler = "disconnected"
  <2>1. /\ inbox'[c] = <<>> /\ pending'[c] = {} /\ queue'[c] = <<>>
        /\ called'[c] = <<>> /\ answered'[c] = <<>> /\ lost'[c] = {}
    BY <1>1, <1>2 DEF HandlerReturn, Cleanup, IInv, TypeOK
  <2>2. Len(<<>>) = 0 /\ 1..0 = {}
    OBVIOUS
  <2> QED BY <2>1, <2>2 DEF CallsKept, Counted, CallsPartition, Complete, IdsKept, CallsIn, CallsOf,
                            OncePerMessage, Distinct, IdsOf, MessageIdsOf
<1>3. CASE handler # "disconnected"
  BY <1>1, <1>3, Elsewhere DEF HandlerReturn
<1> QED BY <1>2, <1>3

(* The steps of one connection leave the calls of the others alone. *)
LEMMA OthersUntouched ==
  ASSUME IInv, NEW c \in Connection, NEW d \in Connection \ {c},
         \/ \E m \in ClientMessage : ClientSend(c, m)
         \/ Receive(c) \/ Writeable(c) \/ Notify(c) \/ HandlerReturn(c)
         \/ \E r \in pending[c] : Respond(c, r)
  PROVE  /\ inbox'[d] = inbox[d] /\ pending'[d] = pending[d] /\ queue'[d] = queue[d]
         /\ called'[d] = called[d] /\ answered'[d] = answered[d] /\ lost'[d] = lost[d]
<1> USE DEF IInv, TypeOK
<1>1. ASSUME NEW m \in ClientMessage, ClientSend(c, m)
      PROVE  /\ UNCHANGED <<pending, queue, answered, lost>>
             /\ inbox'[d] = inbox[d] /\ called'[d] = called[d]
  BY <1>1 DEF ClientSend
<1>2. CASE Receive(c)
  <2>1. UNCHANGED <<queue, called, answered, lost>> /\ inbox'[d] = inbox[d]
    BY <1>2 DEF Receive
  <2>2. pending'[d] = pending[d]
    BY <1>2 DEF Receive
  <2> QED BY <2>1, <2>2
<1>3. CASE Writeable(c)
  <2>1. UNCHANGED <<inbox, pending, called>> /\ queue'[d] = queue[d]
    BY <1>3 DEF Writeable
  <2>2. answered'[d] = answered[d] /\ lost'[d] = lost[d]
    BY <1>3 DEF Writeable
  <2> QED BY <2>1, <2>2
<1>4. ASSUME NEW f, Send(c, f) PROVE queue'[d] = queue[d] /\ lost'[d] = lost[d]
  BY <1>4 DEF Send
<1>5. CASE Notify(c)
  BY <1>4, <1>5 DEF Notify
<1>6. ASSUME NEW r \in pending[c], Respond(c, r)
      PROVE  /\ UNCHANGED <<inbox, called, answered>> /\ pending'[d] = pending[d]
             /\ queue'[d] = queue[d] /\ lost'[d] = lost[d]
  BY <1>4, <1>6 DEF Respond
<1>7. CASE HandlerReturn(c)
  BY <1>7 DEF HandlerReturn, Cleanup
<1> QED BY <1>1, <1>2, <1>3, <1>5, <1>6, <1>7

LEMMA NextCalls == CInv /\ [Next]_vars => CInv'
<1> SUFFICES ASSUME CInv, [Next]_vars PROVE \A d \in Connection : CallsKept(d)'
  BY NextIInv DEF CInv
<1> SUFFICES ASSUME NEW d \in Connection PROVE CallsKept(d)'
  OBVIOUS
<1>1. IInv /\ CallsKept(d)
  BY DEF CInv
<1>2. CASE Run \/ Return \/ Dispose \/ Destroyed \/ UNCHANGED vars
  BY <1>1, <1>2, Elsewhere DEF Run, Return, Dispose, Destroyed, vars
<1>3. ASSUME NEW c \in Connection, Established(c) PROVE CallsKept(d)'
  <2>1. queue'[d] = queue[d]
    BY <1>1, <1>3 DEF Established, IInv, TypeOK, ClosedEmpty
  <2> QED BY <1>1, <1>3, <2>1, Elsewhere DEF Established
<1>4. ASSUME NEW c \in Connection, Closed(c) PROVE CallsKept(d)'
  BY <1>1, <1>4, Elsewhere DEF Closed
<1>5. ASSUME NEW c \in Connection,
             \/ \E m \in ClientMessage : ClientSend(c, m)
             \/ Receive(c) \/ Writeable(c) \/ Notify(c) \/ HandlerReturn(c)
             \/ \E r \in pending[c] : Respond(c, r)
      PROVE  CallsKept(d)'
  <2>1. CASE d = c
    BY <1>5, <2>1, ClientSendCalls, ReceiveCalls, WriteableCalls, NotifyCalls,
       HandlerReturnCalls, RespondCalls
  <2>2. CASE d # c
    <3>1. d \in Connection \ {c}
      BY <2>2
    <3>2. /\ inbox'[d] = inbox[d] /\ pending'[d] = pending[d] /\ queue'[d] = queue[d]
          /\ called'[d] = called[d] /\ answered'[d] = answered[d] /\ lost'[d] = lost[d]
      BY <1>1, <1>5, <3>1, OthersUntouched, Zenon
    <3> QED BY <1>1, <3>2, Elsewhere
  <2> QED BY <2>1, <2>2
<1> QED BY <1>2, <1>3, <1>4, <1>5, Zenon DEF Next

(* CInv holds in every state.                                               *)
THEOREM CallsInductive == Spec => []CInv
<1> QED BY InitCalls, NextCalls, PTL DEF Spec

(* If libwebsockets delivers each message in one piece, no request of an    *)
(* open connection is forgotten by the server: what is not answered is on   *)
(* its way, owed by the application, queued, or lost in a failed call.      *)
THEOREM NoneForgotten ==
  ASSUME WholeMessages
  PROVE  Spec => []NoCallForgotten
<1>1. CInv => NoCallForgotten
  BY DEF CInv, IInv, TypeOK, CallsKept, Counted, CallsPartition, Complete, NoCallForgotten
<1> QED BY <1>1, CallsInductive, PTL

(* Then, too, every request is in one of these places only, and there once. *)
THEOREM EachInOnePlace ==
  ASSUME WholeMessages
  PROVE  Spec => []EachCallOnce
<1>1. ASSUME CInv, NEW c \in open PROVE Distinct(inbox[c])
  <2>1. IInv /\ c \in Connection /\ OncePerMessage(inbox[c]) /\ inbox[c] \in Seq(Piece)
    BY <1>1, TypesOf DEF CInv, IInv, TypeOK, CallsKept, Counted
  <2>2. \A i \in 1..Len(inbox[c]) : inbox[c][i] \in Piece
    BY <2>1, ElementOfSeq
  <2>3. \A i \in 1..Len(inbox[c]) : inbox[c][i].message.pieces = 1
    BY <2>2, PieceFacts DEF WholeMessages
  <2> QED BY <2>1, <2>3 DEF OncePerMessage, Distinct
<1>2. CInv => EachCallOnce
  BY <1>1 DEF CInv, IInv, TypeOK, CallsKept, Counted, CallsPartition, EachCallOnce
<1> QED BY <1>2, CallsInductive, PTL

(* If the ids that clients use fit an int, every response has the id of the *)
(* request it answers.                                                      *)
THEOREM IdsRepeated ==
  ASSUME IdsFit
  PROVE  Spec => []IdRepeated
<1>1. ASSUME CInv, NEW c \in open, NEW i \in 1..Len(answered[c])
      PROVE  answered[c][i].id = called[c][answered[c][i].call]
  <2>1. IInv /\ c \in Connection /\ IdsOf(answered[c], called[c]) /\ answered[c] \in Seq(CallRecord)
    BY <1>1, TypesOf DEF CInv, IInv, TypeOK, CallsKept, IdsKept
  <2>2. answered[c][i] \in CallRecord
    BY <2>1, ElementOfSeq
  <2>3. answered[c][i].call # 0
    BY <2>2 DEF CallRecord
  <2> QED BY <2>1, <2>3 DEF IdsOf
<1>2. CInv => IdRepeated
  BY <1>1 DEF IdRepeated
<1> QED BY <1>2, CallsInductive, PTL
-----------------------------------------------------------------------------
(* The order of the calls of a connection, if the method handler answers    *)
(* them before it returns: first those that are answered, then those in the queue,    *)
(* the one it has in hand, and those that are coming.                       *)
NotDescending(s) == \A i, j \in 1..Len(s) : i < j /\ s[j].call # 0 => s[i].call <= s[j].call

InThisOrder(A, Q, P, I) == Below(A, Q \union P \union I) /\ Below(Q, P \union I) /\ Below(P, I)

InTurn(c) ==
  /\ pending[c] # {} => handler = "method" /\ current = c
  /\ \A r, s \in pending[c] : r = s
  /\ Ascending(answered[c]) /\ Ascending(queue[c]) /\ NotDescending(inbox[c])
  /\ InThisOrder(CallsIn(answered[c]), CallsIn(queue[c]), CallsOf(pending[c]), CallsIn(inbox[c]))

(* Nothing is lost if nothing fails, and then no number is left out.        *)
NoneLeftOut(c) ==
  Failing = {} /\ WholeMessages =>
    lost[c] = {} /\ \A n \in 1..Len(answered[c]) : answered[c][n].call = n

OInv == CInv /\ \A c \in Connection : InTurn(c) /\ NoneLeftOut(c)

LEMMA AscendingAppend ==
  ASSUME NEW S, NEW s \in Seq(S), NEW e \in S, e.call \in Nat,
         Ascending(s), \A i \in 1..Len(s) : s[i].call \in Nat,
         e.call # 0 => Below(CallsIn(s), {e.call})
  PROVE  Ascending(Append(s, e))
<1>1. /\ Len(s) \in Nat /\ Len(Append(s, e)) = Len(s) + 1
      /\ \A i \in 1..Len(s) : Append(s, e)[i] = s[i]
      /\ Append(s, e)[Len(s) + 1] = e
  BY AppendProperties, LenProperties
<1>2. \A i \in 1..Len(s) : e.call # 0 => s[i].call < e.call
  <2> SUFFICES ASSUME NEW i \in 1..Len(s), e.call # 0 PROVE s[i].call < e.call
    OBVIOUS
  <2>1. CASE s[i].call = 0
    BY <2>1
  <2>2. CASE s[i].call # 0
    <3>1. s[i].call \in CallsIn(s)
      BY <2>2 DEF CallsIn
    <3> QED BY <3>1 DEF Below
  <2> QED BY <2>1, <2>2
<1> QED BY <1>1, <1>2 DEF Ascending

LEMMA AscendingTail ==
  ASSUME NEW S, NEW s \in Seq(S), s # <<>>
  PROVE  /\ Ascending(s) => Ascending(Tail(s)) /\ Below({Head(s).call}, CallsIn(Tail(s)))
         /\ NotDescending(s) =>
              /\ NotDescending(Tail(s))
              /\ \A n \in CallsIn(Tail(s)) : Head(s).call <= n
<1>1. /\ Len(s) \in Nat \ {0} /\ 1 \in 1..Len(s) /\ Head(s) = s[1]
      /\ \A i \in 1..Len(Tail(s)) : i + 1 \in 1..Len(s) /\ 1 < i + 1 /\ Tail(s)[i] = s[i + 1]
  BY TailElements
<1>2. \A i, j \in 1..Len(Tail(s)) : i < j => i + 1 < j + 1
  BY <1>1, TailElements
<1>3. \A n \in CallsIn(Tail(s)) : \E i \in 1..Len(Tail(s)) : n = s[i + 1].call /\ s[i + 1].call # 0
  BY <1>1 DEF CallsIn
<1>4. ASSUME Ascending(s) PROVE Ascending(Tail(s)) /\ Below({Head(s).call}, CallsIn(Tail(s)))
  <2>1. Ascending(Tail(s))
    BY <1>1, <1>2, <1>4 DEF Ascending
  <2>2. \A n \in CallsIn(Tail(s)) : Head(s).call < n
    BY <1>1, <1>3, <1>4 DEF Ascending
  <2> QED BY <2>1, <2>2 DEF Below
<1>5. ASSUME NotDescending(s)
      PROVE  NotDescending(Tail(s)) /\ \A n \in CallsIn(Tail(s)) : Head(s).call <= n
  <2>1. NotDescending(Tail(s))
    BY <1>1, <1>2, <1>5 DEF NotDescending
  <2>2. \A n \in CallsIn(Tail(s)) : Head(s).call <= n
    BY <1>1, <1>3, <1>5 DEF NotDescending
  <2> QED BY <2>1, <2>2
<1> QED BY <1>4, <1>5

(* What is in the sequences of a connection are numbers. *)
LEMMA CallNumbers ==
  ASSUME IInv, NEW c \in Connection
  PROVE  /\ \A i \in 1..Len(inbox[c]) : inbox[c][i].call \in Nat
         /\ \A i \in 1..Len(queue[c]) : queue[c][i].call \in Nat
         /\ \A i \in 1..Len(answered[c]) : answered[c][i].call \in Nat \ {0}
         /\ CallsIn(inbox[c]) \subseteq Nat /\ CallsIn(queue[c]) \subseteq Nat
         /\ CallsIn(answered[c]) \subseteq Nat /\ CallsOf(pending[c]) \subseteq Nat
<1>1. \A p \in Piece : p.call \in Nat
  BY ConstantsAssumption DEF Piece
<1>2. \A r \in CallRecord : r.call \in Nat \ {0}
  BY ConstantsAssumption DEF CallRecord
<1>3. \A f \in Frame : f.call \in Nat
  BY <1>2 DEF Frame, Response, Notification
<1>4. /\ \A i \in 1..Len(inbox[c]) : inbox[c][i] \in Piece
      /\ \A i \in 1..Len(queue[c]) : queue[c][i] \in Frame
      /\ \A i \in 1..Len(answered[c]) : answered[c][i] \in CallRecord
  BY TypesOf, ElementOfSeq
<1>5. /\ \A i \in 1..Len(inbox[c]) : inbox[c][i].call \in Nat
      /\ \A i \in 1..Len(queue[c]) : queue[c][i].call \in Nat
      /\ \A i \in 1..Len(answered[c]) : answered[c][i].call \in Nat \ {0}
  BY <1>1, <1>2, <1>3, <1>4
<1>6. CallsOf(pending[c]) \subseteq Nat
  BY <1>2, TypesOf DEF CallsOf
<1> QED BY <1>5, <1>6 DEF CallsIn

(* A connection that a step leaves alone stays as it is, if the step is not *)
(* the return of a handler that has its call in hand.                       *)
LEMMA SameTurn ==
  ASSUME NEW d \in Connection, InTurn(d), NoneLeftOut(d),
         inbox'[d] = inbox[d], pending'[d] = pending[d], queue'[d] = queue[d],
         answered'[d] = answered[d], lost'[d] = lost[d],
         pending[d] = {} \/ UNCHANGED <<handler, current>>
  PROVE  InTurn(d)' /\ NoneLeftOut(d)'
<1>1. pending'[d] # {} => handler' = "method" /\ current' = d
  BY DEF InTurn
<1> QED BY <1>1 DEF InTurn, NoneLeftOut

LEMMA EmptyTurn ==
  ASSUME NEW d \in Connection, inbox[d] = <<>>, pending[d] = {}, queue[d] = <<>>,
         answered[d] = <<>>, lost[d] = {}
  PROVE  InTurn(d) /\ NoneLeftOut(d)
<1>1. Len(<<>>) = 0 /\ 1..0 = {}
  OBVIOUS
<1> QED BY <1>1 DEF InTurn, NoneLeftOut, InThisOrder, Below, Ascending, NotDescending, CallsIn, CallsOf

LEMMA InitOrder == Init => OInv
<1> SUFFICES ASSUME Init PROVE OInv
  OBVIOUS
<1>1. \A c \in Connection : InTurn(c) /\ NoneLeftOut(c)
  BY EmptyTurn DEF Init
<1> QED BY <1>1, InitCalls DEF OInv

LEMMA ClientSendOrder ==
  ASSUME OInv, NEW c \in Connection, NEW m \in ClientMessage, ClientSend(c, m)
  PROVE  InTurn(c)' /\ NoneLeftOut(c)'
<1> DEFINE number == IF IsRequest(m) THEN Len(called[c]) + 1 ELSE 0
           old == inbox[c]
           new == inbox'[c]
           known == 1..Len(called[c])
<1>1. IInv /\ CallsKept(c) /\ InTurn(c) /\ NoneLeftOut(c)
  BY DEF OInv, CInv
<1>2. /\ UNCHANGED <<handler, current>>
      /\ pending'[c] = pending[c] /\ queue'[c] = queue[c]
      /\ answered'[c] = answered[c] /\ lost'[c] = lost[c]
  BY DEF ClientSend, control
<1>3. /\ Len(old) \in Nat /\ Len(new) \in Nat
      /\ \A i \in 1..Len(old) : i \in 1..Len(new) /\ new[i] = old[i]
      /\ \A i \in 1..Len(new) : i \in 1..Len(old) \/ (i > Len(old) /\ new[i].call = number)
  <2>1. /\ Len(old) \in Nat /\ m.pieces \in Nat /\ Len(new) = Len(old) + m.pieces
        /\ \A i \in 1..Len(old) : i \in 1..Len(new) /\ new[i] = old[i]
        /\ \A i \in (Len(old) + 1)..Len(new) : new[i] = [message |-> m, call |-> number]
    BY <1>1, SentPieces
  <2> HIDE DEF old, new, number
  <2>2. \A i \in (Len(old) + 1)..Len(new) : new[i].call = number
    BY <2>1
  <2>3. Len(new) \in Nat
    BY <2>1
  <2>4. \A i \in 1..Len(new) : i \in 1..Len(old) \/ (i > Len(old) /\ i \in (Len(old) + 1)..Len(new))
    BY <2>1, <2>3
  <2> QED BY <2>1, <2>2, <2>3, <2>4
<1>4. /\ CallsIn(old) \subseteq known /\ CallsIn(answered[c]) \subseteq known
      /\ CallsIn(queue[c]) \subseteq known /\ CallsOf(pending[c]) \subseteq known
  BY <1>1 DEF CallsKept, Counted, CallsPartition
<1>5. known \subseteq Nat /\ number \in Nat /\ (number # 0 => \A n \in known : n < number)
  BY <1>1, TypesOf
<1>6. \A i \in 1..Len(old) : old[i].call = 0 \/ old[i].call \in known
  BY <1>4, Zenon DEF CallsIn
<1> HIDE DEF old, new, number, known
<1>7. NotDescending(new)
  <2> SUFFICES ASSUME NEW i \in 1..Len(new), NEW j \in 1..Len(new), i < j, new[j].call # 0
               PROVE  new[i].call <= new[j].call
    BY DEF NotDescending
  <2>1. CASE j \in 1..Len(old)
    <3>1. i \in 1..Len(old)
      BY <1>3, <2>1
    <3>2. NotDescending(old)
      BY <1>1 DEF InTurn, old
    <3>3. new[i] = old[i] /\ new[j] = old[j]
      BY <1>3, <2>1, <3>1
    <3> QED BY <2>1, <3>1, <3>2, <3>3 DEF NotDescending
  <2>2. CASE new[j].call = number /\ i \in 1..Len(old)
    <3>1. new[i].call = 0 \/ new[i].call \in known
      BY <1>3, <1>6, <2>2
    <3>2. number # 0 /\ number \in Nat
      BY <1>5, <2>2
    <3>3. \A n \in known : n \in Nat /\ n < number
      BY <1>5, <3>2
    <3>4. new[i].call \in Nat /\ new[i].call < number
      BY <3>1, <3>2, <3>3
    <3> QED BY <2>2, <3>2, <3>4
  <2>3. CASE new[j].call = number /\ new[i].call = number
    BY <1>5, <2>3
  <2> QED BY <1>3, <2>1, <2>2, <2>3
<1>8. CallsIn(new) \subseteq CallsIn(old) \union ({number} \ {0})
  BY <1>3, Zenon DEF CallsIn
<1>9. InThisOrder(CallsIn(answered[c]), CallsIn(queue[c]), CallsOf(pending[c]), CallsIn(new))
  <2>1. InThisOrder(CallsIn(answered[c]), CallsIn(queue[c]), CallsOf(pending[c]), CallsIn(old))
    BY <1>1 DEF InTurn, old
  <2>2. \A n \in CallsIn(new) : n \in CallsIn(old) \/ \A k \in known : k < n
    BY <1>5, <1>8
  <2> QED BY <1>4, <2>1, <2>2 DEF InThisOrder, Below
<1> QED BY <1>1, <1>2, <1>7, <1>9 DEF InTurn, NoneLeftOut, new

LEMMA ReceiveOrder ==
  ASSUME OInv, NEW c \in Connection, Receive(c)
  PROVE  InTurn(c)' /\ NoneLeftOut(c)'
<1> DEFINE p == Head(inbox[c])
           r == [call |-> p.call, id |-> ToInt(p.message.id)]
           rest == Tail(inbox[c])
<1>1. IInv /\ CallsKept(c) /\ InTurn(c) /\ NoneLeftOut(c)
  BY DEF OInv, CInv
<1>2. /\ inbox[c] # <<>> /\ inbox'[c] = rest /\ handler = "none"
      /\ UNCHANGED <<queue[c], answered[c], lost[c]>>
  BY <1>1 DEF Receive, Serving, IInv, TypeOK
<1>3. pending[c] = {}
  BY <1>1, <1>2 DEF InTurn
<1>4. \/ /\ p.message.pieces = 1 /\ WellFormed(p.message) /\ HasId(p.message)
         /\ pending'[c] = {r} /\ handler' = "method" /\ current' = c
      \/ pending'[c] = {}
  BY <1>1, <1>3 DEF Receive, Enter, IInv, TypeOK
<1>5. inbox[c] \in Seq(Piece) /\ p \in Piece
  BY <1>1, <1>2, TypesOf, HeadTailProperties
<1>6. /\ CallsIn(inbox[c]) = ({p.call} \ {0}) \union CallsIn(rest)
      /\ p.message.pieces = 1 => p.call \notin CallsIn(rest)
      /\ NotDescending(rest) /\ \A n \in CallsIn(rest) : p.call <= n
  <2>1. OncePerMessage(inbox[c]) /\ NotDescending(inbox[c])
    BY <1>1 DEF CallsKept, Counted, InTurn
  <2>2. CallsIn(inbox[c]) = ({p.call} \ {0}) \union CallsIn(rest)
    BY <1>2, <1>5, CallsInTail
  <2>3. p.message.pieces = 1 => p.call \notin CallsIn(rest)
    BY <1>2, <1>5, <2>1, OncePerMessageTail
  <2> QED BY <1>2, <1>5, <2>1, <2>2, <2>3, AscendingTail
<1>7. InThisOrder(CallsIn(answered[c]), CallsIn(queue[c]), {}, CallsIn(inbox[c]))
  BY <1>1, <1>3 DEF InTurn, CallsOf
<1>8. CASE /\ p.message.pieces = 1 /\ WellFormed(p.message) /\ HasId(p.message)
           /\ pending'[c] = {r} /\ handler' = "method" /\ current' = c
  <2>1. p.call # 0 /\ p.call \in CallsIn(inbox[c]) /\ p.call \notin CallsIn(rest)
    BY <1>5, <1>6, <1>8 DEF Piece, IsRequest, WellFormed, HasId
  <2>2. CallsOf(pending'[c]) = {p.call}
    BY <1>8 DEF CallsOf
  <2>3. CallsIn(inbox[c]) \subseteq Nat
    BY <1>1, CallNumbers
  <2> HIDE DEF p, r, rest
  <2>4. \A n \in CallsIn(rest) : p.call < n
    BY <1>6, <2>1, <2>3
  <2>5. InThisOrder(CallsIn(answered[c]), CallsIn(queue[c]), {p.call}, CallsIn(rest))
    BY <1>6, <1>7, <2>1, <2>4 DEF InThisOrder, Below
  <2> QED BY <1>1, <1>2, <1>6, <1>8, <2>2, <2>5 DEF InTurn, NoneLeftOut
<1>9. CASE pending'[c] = {}
  <2>1. InThisOrder(CallsIn(answered[c]), CallsIn(queue[c]), {}, CallsIn(rest))
    BY <1>6, <1>7 DEF InThisOrder, Below
  <2>2. CallsOf(pending'[c]) = {}
    BY <1>9 DEF CallsOf
  <2> HIDE DEF p, r, rest
  <2> QED BY <1>1, <1>2, <1>6, <1>9, <2>1, <2>2 DEF InTurn, NoneLeftOut
<1> QED BY <1>4, <1>8, <1>9

LEMMA WriteableOrder ==
  ASSUME OInv, NEW c \in Connection, Writeable(c)
  PROVE  InTurn(c)' /\ NoneLeftOut(c)'
<1> DEFINE f == Head(queue[c])
           r == [call |-> f.call, id |-> f.id]
           rest == Tail(queue[c])
           A == CallsIn(answered[c])
           P == CallsOf(pending[c])
           I == CallsIn(inbox[c])
<1>1. IInv /\ CallsKept(c) /\ InTurn(c) /\ NoneLeftOut(c)
  BY DEF OInv, CInv
<1>2. /\ queue[c] # <<>> /\ queue'[c] = rest
      /\ UNCHANGED <<inbox[c], pending[c], handler, current>>
  BY <1>1 DEF Writeable, control, IInv, TypeOK
<1>3. \/ f.type = "notification" /\ answered' = answered /\ lost' = lost
      \/ /\ f.type # "notification" /\ lost' = lost
         /\ answered' = [answered EXCEPT ![c] = Append(@, r)]
      \/ f.type # "notification" /\ answered' = answered /\ "lws_write" \in Failing
  BY DEF Writeable
<1>4. queue[c] \in Seq(Frame) /\ f \in Frame
  BY <1>1, <1>2, TypesOf, HeadTailProperties
<1>5. f.type = "notification" <=> f.call = 0
  BY <1>4 DEF Frame, Response, Notification, CallRecord
<1>6. /\ CallsIn(queue[c]) = ({f.call} \ {0}) \union CallsIn(rest)
      /\ Ascending(rest) /\ Below({f.call}, CallsIn(rest))
  <2>1. Ascending(queue[c])
    BY <1>1 DEF InTurn
  <2>2. CallsIn(queue[c]) = ({f.call} \ {0}) \union CallsIn(rest)
    BY <1>2, <1>4, CallsInTail
  <2> QED BY <1>2, <1>4, <2>1, <2>2, AscendingTail
<1>7. InThisOrder(A, CallsIn(queue[c]), P, I)
  BY <1>1 DEF InTurn
<1>8. InThisOrder(A, CallsIn(rest), P, I)
  BY <1>6, <1>7 DEF InThisOrder, Below
<1>9. CASE answered' = answered
  <2>1. InTurn(c)'
    BY <1>1, <1>2, <1>6, <1>8, <1>9 DEF InTurn
  <2>2. NoneLeftOut(c)'
    <3>1. Failing = {} => lost' = lost
      BY <1>3, <1>9
    <3> QED BY <1>1, <1>9, <3>1 DEF NoneLeftOut
  <2> QED BY <2>1, <2>2
<1>10. CASE f.call # 0 /\ lost' = lost /\ answered' = [answered EXCEPT ![c] = Append(@, r)]
  <2>1. answered[c] \in Seq(CallRecord) /\ r \in CallRecord /\ r.call = f.call
    BY <1>1, <1>4, <1>5, <1>10, TypesOf, FrameFacts
  <2>2. answered'[c] = Append(answered[c], r)
    BY <1>1, <1>10 DEF IInv, TypeOK
  <2>3. /\ f.call \in CallsIn(queue[c]) /\ f.call \in Nat
        /\ \A i \in 1..Len(answered[c]) : answered[c][i].call \in Nat
        /\ A \subseteq Nat
    BY <1>1, <1>6, <1>10, CallNumbers
  <2>4. Below(A, {f.call})
    BY <1>7, <2>3 DEF InThisOrder, Below
  <2> HIDE DEF f, r, rest
  <2>5. CallsIn(answered'[c]) = A \union {f.call}
    BY <1>10, <2>1, <2>2, CallsInAppend
  <2>6. Ascending(answered'[c])
    <3>1. Ascending(answered[c])
      BY <1>1 DEF InTurn
    <3> QED BY <2>1, <2>2, <2>3, <2>4, <3>1, AscendingAppend
  <2>7. InThisOrder(A \union {f.call}, CallsIn(rest), P, I)
    BY <1>6, <1>7, <1>8, <2>3 DEF InThisOrder, Below
  <2>8. InTurn(c)'
    BY <1>1, <1>2, <1>6, <2>5, <2>6, <2>7 DEF InTurn
  <2>9. ASSUME Failing = {}, WholeMessages
        PROVE  lost'[c] = {} /\ \A n \in 1..Len(answered'[c]) : answered'[c][n].call = n
    <3> DEFINE N == Len(answered[c])
    <3>1. lost[c] = {} /\ N \in Nat /\ \A n \in 1..N : answered[c][n].call = n
      BY <1>1, <2>1, <2>9, LenProperties DEF NoneLeftOut
    <3>2. A = 1..N
      BY <3>1 DEF CallsIn
    <3>3. /\ 1..Len(called[c]) \subseteq I \union P \union CallsIn(queue[c]) \union A
          /\ f.call \in 1..Len(called[c]) /\ Len(called[c]) \in Nat
      BY <1>1, <2>3, <2>9, <3>1, TypesOf
         DEF CallsKept, Complete, Counted, CallsPartition
    <3>4. \A n \in CallsIn(queue[c]) \union P \union I : f.call <= n
      <4>1. CallsIn(queue[c]) \subseteq {f.call} \union CallsIn(rest) /\ CallsIn(rest) \subseteq Nat
            /\ P \subseteq Nat /\ I \subseteq Nat
        BY <1>1, <1>6, CallNumbers
      <4>2. \A n \in CallsIn(rest) \union P \union I : f.call < n
        BY <1>6, <1>7, <2>3 DEF InThisOrder, Below
      <4> HIDE DEF P, I
      <4>3. ASSUME NEW n \in CallsIn(rest) \union P \union I PROVE f.call <= n
        <5>1. n \in Nat /\ f.call < n
          BY <4>1, <4>2
        <5> QED BY <2>3, <5>1
      <4>4. f.call <= f.call
        BY <2>3
      <4>5. \A n \in CallsIn(queue[c]) : n = f.call \/ n \in CallsIn(rest)
        BY <4>1
      <4> QED BY <4>3, <4>4, <4>5
    <3>5. \A n \in 1..N : n < f.call
      BY <2>4, <3>2 DEF Below
    <3>6. \A n \in 1..Len(called[c]) : n < f.call => n \in 1..N
      BY <2>3, <3>2, <3>3, <3>4
    <3>7. f.call = N + 1
      <4>1. ~(f.call <= N)
        BY <2>3, <1>10, <3>1, <3>5
      <4>2. ~(f.call > N + 1)
        BY <2>3, <3>1, <3>3, <3>6
      <4> QED BY <2>3, <3>1, <4>1, <4>2
    <3>8. /\ Len(answered'[c]) = N + 1 /\ answered'[c][N + 1] = r
          /\ \A n \in 1..N : answered'[c][n] = answered[c][n]
      BY <2>1, <2>2, AppendProperties
    <3> QED BY <1>10, <2>1, <3>1, <3>7, <3>8
  <2> QED BY <2>8, <2>9 DEF NoneLeftOut
<1> QED BY <1>3, <1>5, <1>9, <1>10

(* What Send does to one connection. *)
LEMMA SendOrder ==
  ASSUME OInv, NEW c \in Connection, NEW f \in Frame, Send(c, f),
         UNCHANGED <<handler, current>>,
         UNCHANGED <<inbox[c], answered[c]>>,
         CallsOf(pending'[c]) \subseteq CallsOf(pending[c]),
         pending'[c] \subseteq pending[c],
         f.call # 0 => f.call \in CallsOf(pending[c]) /\ CallsOf(pending'[c]) = {}
  PROVE  InTurn(c)' /\ NoneLeftOut(c)'
<1> DEFINE A == CallsIn(answered[c])
           Q == CallsIn(queue[c])
           P == CallsOf(pending[c])
           I == CallsIn(inbox[c])
<1>1. IInv /\ InTurn(c) /\ NoneLeftOut(c)
  BY DEF OInv, CInv
<1>2. InThisOrder(A, Q, P, I)
  BY <1>1 DEF InTurn
<1>3. CASE queue' = [queue EXCEPT ![c] = Append(@, f)] /\ UNCHANGED lost
  <2>1. queue'[c] = Append(queue[c], f) /\ queue[c] \in Seq(Frame)
    BY <1>1, <1>3, TypesOf DEF IInv, TypeOK
  <2>2. /\ \A i \in 1..Len(queue[c]) : queue[c][i].call \in Nat
        /\ f.call \in Nat
    <3>1. f.call \in Nat
      BY ConstantsAssumption DEF Frame, Response, Notification, CallRecord
    <3> QED BY <1>1, <3>1, CallNumbers
  <2>3. CallsIn(queue'[c]) = Q \union ({f.call} \ {0})
    BY <2>1, CallsInAppend
  <2>4. f.call # 0 => Below(Q, {f.call})
    BY <1>2 DEF InThisOrder, Below
  <2>5. Ascending(queue'[c])
    <3>1. Ascending(queue[c])
      BY <1>1 DEF InTurn
    <3> QED BY <2>1, <2>2, <2>4, <3>1, AscendingAppend
  <2>6. InThisOrder(A, Q \union ({f.call} \ {0}), CallsOf(pending'[c]), I)
    BY <1>2 DEF InThisOrder, Below
  <2> QED BY <1>1, <1>3, <2>3, <2>5, <2>6 DEF InTurn, NoneLeftOut
<1>4. CASE UNCHANGED queue /\ "malloc" \in Failing
  <2>1. InThisOrder(A, Q, CallsOf(pending'[c]), I)
    BY <1>2 DEF InThisOrder, Below
  <2> QED BY <1>1, <1>4, <2>1 DEF InTurn, NoneLeftOut
<1> QED BY <1>3, <1>4 DEF Send

LEMMA RespondOrder ==
  ASSUME OInv, NEW c \in Connection, NEW r \in pending[c], Respond(c, r)
  PROVE  InTurn(c)' /\ NoneLeftOut(c)'
<1>1. IInv /\ CallsKept(c) /\ InTurn(c)
  BY DEF OInv, CInv
<1>2. r \in CallRecord /\ Response(r) \in Frame /\ Response(r).call = r.call
  BY <1>1, TypesOf, SentFrames DEF Response
<1>3. pending[c] = {r}
  BY <1>1 DEF InTurn
<1>4. pending'[c] = {}
  BY <1>1, <1>3 DEF Respond, IInv, TypeOK
<1>5. CallsOf(pending'[c]) = {} /\ r.call \in CallsOf(pending[c])
  BY <1>3, <1>4 DEF CallsOf
<1>6. /\ Send(c, Response(r)) /\ UNCHANGED <<handler, current>>
      /\ UNCHANGED <<inbox[c], answered[c]>>
  BY DEF Respond, control
<1> QED BY <1>2, <1>4, <1>5, <1>6, SendOrder

LEMMA NotifyOrder ==
  ASSUME OInv, NEW c \in Connection, Notify(c)
  PROVE  InTurn(c)' /\ NoneLeftOut(c)'
<1>1. Notification \in Frame /\ Notification.call = 0
  BY SentFrames DEF Notification
<1>2. /\ Send(c, Notification) /\ UNCHANGED <<handler, current>>
      /\ UNCHANGED <<inbox[c], answered[c]>> /\ pending'[c] = pending[c]
  BY DEF Notify, control
<1>3. CallsOf(pending'[c]) = CallsOf(pending[c])
  BY <1>2 DEF CallsOf
<1> QED BY <1>1, <1>2, <1>3, SendOrder

(* A method handler that returns owes no answer, in the applications which  *)
(* answer in order.                                                         *)
OwesNothing == handler = "method" => \A c \in Connection : HandlerReturn(c) => pending[c] = {}

LEMMA HandlerReturnOrder ==
  ASSUME OwesNothing, OInv, NEW c \in Connection, HandlerReturn(c), NEW d \in Connection
  PROVE  InTurn(d)' /\ NoneLeftOut(d)'
<1>1. IInv /\ \A e \in Connection : InTurn(e) /\ NoneLeftOut(e)
  BY DEF OInv, CInv
<1>2. handler = "method" => pending[c] = {}
  BY DEF OwesNothing
<1>3. pending[d] = {}
  BY <1>1, <1>2 DEF InTurn, HandlerReturn
<1>4. CASE handler = "disconnected" /\ d = c
  <2>1. /\ inbox'[d] = <<>> /\ pending'[d] = {} /\ queue'[d] = <<>>
        /\ answered'[d] = <<>> /\ lost'[d] = {}
    BY <1>1, <1>4 DEF HandlerReturn, Cleanup, IInv, TypeOK
  <2>2. Len(<<>>) = 0 /\ 1..0 = {}
    OBVIOUS
  <2> QED BY <2>1, <2>2 DEF InTurn, NoneLeftOut, InThisOrder, Below, Ascending, NotDescending,
                            CallsIn, CallsOf
<1>5. CASE handler # "disconnected"
  BY <1>1, <1>3, <1>5, SameTurn DEF HandlerReturn
<1>6. CASE d # c
  <2>1. d \in Connection \ {c}
    BY <1>6
  <2> QED BY <1>1, <1>3, <2>1, OthersUntouched, SameTurn
<1> QED BY <1>4, <1>5, <1>6

LEMMA NextOrder == OwesNothing /\ OInv /\ [Next]_vars => OInv'
<1> SUFFICES ASSUME OwesNothing, OInv, [Next]_vars,
                    NEW d \in Connection
             PROVE  InTurn(d)' /\ NoneLeftOut(d)'
  BY NextCalls DEF OInv
<1>1. IInv /\ InTurn(d) /\ NoneLeftOut(d)
  BY DEF OInv, CInv
<1>2. handler = "none" => pending[d] = {}
  BY <1>1 DEF InTurn
<1>3. CASE Run \/ Return \/ Dispose \/ Destroyed \/ UNCHANGED vars
  BY <1>1, <1>3, SameTurn DEF Run, Return, Dispose, Destroyed, vars
<1>4. ASSUME NEW c \in Connection, Established(c) PROVE InTurn(d)' /\ NoneLeftOut(d)'
  <2>1. queue'[d] = queue[d]
    BY <1>1, <1>4 DEF Established, IInv, TypeOK, ClosedEmpty
  <2> QED BY <1>1, <1>2, <1>4, <2>1, SameTurn DEF Established, Serving
<1>5. ASSUME NEW c \in Connection, Closed(c) PROVE InTurn(d)' /\ NoneLeftOut(d)'
  BY <1>1, <1>2, <1>5, SameTurn DEF Closed
<1>6. ASSUME NEW c \in Connection,
             \/ \E m \in ClientMessage : ClientSend(c, m)
             \/ Receive(c) \/ Writeable(c) \/ Notify(c)
             \/ \E r \in pending[c] : Respond(c, r)
      PROVE  InTurn(d)' /\ NoneLeftOut(d)'
  <2>1. CASE d = c
    BY <1>6, <2>1, ClientSendOrder, ReceiveOrder, WriteableOrder, NotifyOrder, RespondOrder
  <2>2. CASE d # c
    <3>1. d \in Connection \ {c}
      BY <2>2
    <3>2. /\ inbox'[d] = inbox[d] /\ pending'[d] = pending[d] /\ queue'[d] = queue[d]
          /\ called'[d] = called[d] /\ answered'[d] = answered[d] /\ lost'[d] = lost[d]
      BY <1>1, <1>6, <3>1, OthersUntouched, Zenon
    <3>3. pending[d] = {} \/ UNCHANGED <<handler, current>>
      BY <1>2, <1>6 DEF ClientSend, Receive, Writeable, Notify, Respond, Serving, control
    <3> QED BY <1>1, <3>2, <3>3, SameTurn
  <2> QED BY <2>1, <2>2
<1>7. ASSUME NEW c \in Connection, HandlerReturn(c) PROVE InTurn(d)' /\ NoneLeftOut(d)'
  BY <1>7, HandlerReturnOrder
<1> QED BY <1>3, <1>4, <1>5, <1>6, <1>7, Zenon DEF Next

LEMMA OrderIsAnswers == OInv => AnswersInOrder
  BY DEF OInv, CInv, IInv, TypeOK, InTurn, NoneLeftOut, InThisOrder, AnswersInOrder

(* With the default method handler, and with any other one that may not     *)
(* answer later, requests are answered in the order in which they came,     *)
(* whatever the clients send and whatever fails; and if nothing fails and   *)
(* each message comes in one piece, the n-th response answers the n-th      *)
(* request.                                                                 *)
THEOREM AnsweredInOrder == Spec => []InOrderUnlessDeferred
<1>1. CASE ~MayDefer
  <2>1. OwesNothing
    BY <1>1 DEF OwesNothing, HandlerReturn
  <2>2. OInv /\ [Next]_vars => OInv'
    BY <2>1, NextOrder
  <2>3. AnswersInOrder => InOrderUnlessDeferred
    BY DEF InOrderUnlessDeferred
  <2> QED BY <2>2, <2>3, OrderIsAnswers, InitOrder, PTL DEF Spec
<1>2. CASE MayDefer
  <2>1. InOrderUnlessDeferred
    BY <1>2 DEF InOrderUnlessDeferred
  <2> QED BY <2>1, PTL
<1> QED BY <1>1, <1>2
-----------------------------------------------------------------------------
LEMMA InitRpc == Init => Rpc!Init
  BY DEF Init, Rpc!Init

LEMMA NextRpc ==
  ASSUME IdsFit
  PROVE  CInv /\ [Next]_vars => [Rpc!Next]_(Rpc!rpcVars)
<1> SUFFICES ASSUME CInv, [Next]_vars
             PROVE  Rpc!Next \/ UNCHANGED <<open, called, answered>>
  BY DEF Rpc!rpcVars
<1> USE DEF CInv
<1>1. CASE Run \/ Return \/ Dispose \/ Destroyed \/ UNCHANGED vars
  BY <1>1 DEF Run, Return, Dispose, Destroyed, vars
<1>2. ASSUME NEW c \in Connection, NEW m \in ClientMessage, ClientSend(c, m)
      PROVE  Rpc!Next \/ UNCHANGED <<open, called, answered>>
  <2>1. CASE IsRequest(m)
    <3>1. Len(called[c]) \in Nat
      BY TypesOf
    <3>2. Rpc!Call(c, m.id)
      BY <1>2, <2>1, <3>1, ConstantsAssumption DEF ClientSend, Rpc!Call
    <3> QED BY <3>2 DEF Rpc!Next
  <2>2. CASE ~IsRequest(m)
    BY <1>2, <2>2 DEF ClientSend
  <2> QED BY <2>1, <2>2
<1>3. ASSUME NEW c \in Connection, Established(c) PROVE Rpc!Next
  BY <1>3 DEF Established, Rpc!Next, Rpc!Connect
<1>4. ASSUME NEW c \in Connection, Receive(c) PROVE UNCHANGED <<open, called, answered>>
  BY <1>4 DEF Receive
<1>5. ASSUME NEW c \in Connection, Writeable(c)
      PROVE  Rpc!Next \/ UNCHANGED <<open, called, answered>>
  <2> DEFINE f == Head(queue[c])
  <2>1. CASE answered' = answered
    BY <1>5, <2>1 DEF Writeable
  <2>2. CASE answered' # answered
    <3>1. /\ c \in open /\ queue[c] # <<>> /\ f.type # "notification"
          /\ answered' = [answered EXCEPT ![c] = Append(@, [call |-> f.call, id |-> f.id])]
          /\ UNCHANGED <<open, called>>
      BY <1>5, <2>2 DEF Writeable, control
    <3>2. queue[c] \in Seq(Frame) /\ f \in Frame
      BY <3>1, TypesOf, HeadTailProperties
    <3>3. f.call \in 1..MaxCalls
      BY <3>1, <3>2, FrameFacts
    <3>4. f.call \in CallsIn(queue[c])
      BY <3>1, <3>2, <3>3, CallsInTail
    <3>5. f.call \in 1..Len(called[c]) /\ f.call \notin CallsIn(answered[c])
      BY <3>4 DEF CallsKept, Counted, CallsPartition
    <3>6. ~Rpc!Answered(c, f.call)
      BY <3>3, <3>5 DEF Rpc!Answered, CallsIn
    <3>7. f.id = called[c][f.call]
      <4>1. IdsOf(queue[c], called[c])
        BY DEF CallsKept, IdsKept
      <4> QED BY <3>1, <3>2, <3>3, <4>1, IdsOfTail
    <3>8. Rpc!Answer(c, f.call)
      BY <3>1, <3>5, <3>6, <3>7 DEF Rpc!Answer
    <3> QED BY <3>5, <3>8 DEF Rpc!Next
  <2> QED BY <2>1, <2>2
<1>6. ASSUME NEW c \in Connection, Closed(c) PROVE UNCHANGED <<open, called, answered>>
  BY <1>6 DEF Closed
<1>7. ASSUME NEW c \in Connection, NEW r \in pending[c], Respond(c, r)
      PROVE  UNCHANGED <<open, called, answered>>
  BY <1>7 DEF Respond
<1>8. ASSUME NEW c \in Connection, Notify(c) PROVE UNCHANGED <<open, called, answered>>
  BY <1>8 DEF Notify
<1>9. ASSUME NEW c \in Connection, HandlerReturn(c)
      PROVE  Rpc!Next \/ UNCHANGED <<open, called, answered>>
  <2>1. CASE handler = "disconnected"
    <3>1. c \in open
      BY <1>9 DEF HandlerReturn, IInv, TypeOK
    <3>2. Rpc!Hangup(c)
      BY <1>9, <2>1, <3>1 DEF HandlerReturn, Cleanup, Rpc!Hangup
    <3> QED BY <3>2 DEF Rpc!Next
  <2>2. CASE handler # "disconnected"
    BY <1>9, <2>2 DEF HandlerReturn
  <2> QED BY <2>1, <2>2
<1> QED BY <1>1, <1>2, <1>3, <1>4, <1>5, <1>6, <1>7, <1>8, <1>9 DEF Next

(* If the ids that clients use fit an int, the server keeps the safety part *)
(* of what RpcService promises: every response answers a call of the same   *)
(* connection that was not answered before, with the id of that call.       *)
THEOREM CallsAnsweredRight ==
  ASSUME IdsFit
  PROVE  Spec => AnswersMatchCalls
<1>1. CInv /\ [Next]_vars => [Rpc!Next]_(Rpc!rpcVars)
  BY NextRpc
<1> QED BY <1>1, InitRpc, CallsInductive, PTL DEF Spec, AnswersMatchCalls, Rpc!Safety
=============================================================================
