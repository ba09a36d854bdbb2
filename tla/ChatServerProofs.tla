-------------------------- MODULE ChatServerProofs --------------------------
(***************************************************************************)
(* The handlers of the chat server, for any number of people, any names    *)
(* and texts, and whether or not messages are dropped for lack of memory.  *)
(***************************************************************************)
EXTENDS ChatServer, WellFoundedInduction, TLAPS

Filled == ChattersOpen /\ TypeOK
IInv == Filled /\ NamesUnique

LEMMA PostType ==
  ASSUME NEW q \in [Connection -> Seq(Frame)], NEW S, NEW f \in Frame
  PROVE  Post(q, S, f) \in [Connection -> Seq(Frame)]
BY DEF Post

LEMMA ToAllType ==
  ASSUME NEW q \in [Connection -> Seq(Frame)], NEW f \in Frame, NEW r \in ToAll(q, f)
  PROVE  r \in [Connection -> Seq(Frame)]
<1>1. PICK L : r = Post(q, DOMAIN chatters \ L, f)
  BY DEF ToAll
<1> QED BY <1>1, PostType

LEMMA ToOneType ==
  ASSUME NEW q \in [Connection -> Seq(Frame)], NEW c, NEW f \in Frame, NEW r \in ToOne(q, c, f)
  PROVE  r \in [Connection -> Seq(Frame)]
<1>1. PICK L : r = Post(q, {c} \ L, f)
  BY DEF ToOne
<1> QED BY <1>1, PostType

LEMMA InitIInv == Init => IInv
<1>1. Init => DOMAIN chatters = {}
  BY DEF Init
<1>2. Init => queue \in [Connection -> Seq(Frame)] /\ received \in [Connection -> Seq(Frame)]
  BY DEF Init
<1> QED BY <1>1, <1>2 DEF Init, IInv, Filled, ChattersOpen, TypeOK, NamesUnique

LEMMA RefuseIInv ==
  ASSUME IInv, NEW c \in Connection, NEW reason \in Reason, Refuse(c, reason)
  PROVE  IInv'
<1>1. Error(reason) \in Frame
  BY ChatAssumption DEF Error, Frame
<1>2. queue' \in [Connection -> Seq(Frame)]
  BY <1>1, ToOneType DEF Refuse, IInv, Filled, TypeOK
<1> QED BY <1>2 DEF Refuse, IInv, Filled, TypeOK, ChattersOpen, NamesUnique

LEMMA set_nameIInv ==
  ASSUME IInv, NEW c \in DOMAIN chatters, NEW n \in String, ~is_name_used(n), set_name(c, n)
  PROVE  IInv'
<1>1. /\ chatters' = [chatters EXCEPT ![c] = n] /\ UNCHANGED <<open, received>>
      /\ DOMAIN chatters \subseteq Connection /\ DOMAIN chatters = open
      /\ \A d \in DOMAIN chatters : chatters[d] \in String /\ chatters[d] # n
  BY DEF set_name, is_name_used, IInv, Filled, TypeOK, ChattersOpen
<1>2. PICK q \in ToOne(queue, c, Result(n)) : queue' \in ToAll(q, Announcement("arrived", n))
  BY DEF set_name
<1>3. Result(n) \in Frame /\ Announcement("arrived", n) \in Frame
  BY ChatAssumption DEF Result, Announcement, Frame
<1>4. q \in [Connection -> Seq(Frame)]
  BY <1>1, <1>2, <1>3, ToOneType DEF IInv, Filled, TypeOK
<1>5. queue' \in [Connection -> Seq(Frame)]
  BY <1>2, <1>3, <1>4, ToAllType
<1>6. NamesUnique'
  BY <1>1 DEF NamesUnique, IInv
<1> QED BY <1>1, <1>5, <1>6 DEF IInv, Filled, TypeOK, ChattersOpen

LEMMA ondisconnectedIInv ==
  ASSUME IInv, NEW c \in Connection, ondisconnected(c)
  PROVE  IInv'
<1>1. c \in DOMAIN chatters /\ chatters[c] \in String
  BY DEF ondisconnected, IInv, Filled, ChattersOpen, TypeOK
<1>2. PICK q \in ToAll(queue, Announcement("gone", chatters[c])) : queue' = [q EXCEPT ![c] = <<>>]
  BY <1>1 DEF ondisconnected
<1>3. Announcement("gone", chatters[c]) \in Frame
  BY <1>1, ChatAssumption DEF Announcement, Frame
<1>4. q \in [Connection -> Seq(Frame)]
  BY <1>2, <1>3, ToAllType DEF IInv, Filled, TypeOK
<1>5. queue' \in [Connection -> Seq(Frame)]
  BY <1>2, <1>4
<1>6. received' \in [Connection -> Seq(Frame)]
  BY DEF ondisconnected, IInv, Filled, TypeOK
<1>7. chatters' = [d \in DOMAIN chatters \ {c} |-> chatters[d]] /\ open' = open \ {c}
  BY <1>1 DEF ondisconnected
<1> QED BY <1>5, <1>6, <1>7 DEF IInv, Filled, TypeOK, ChattersOpen, NamesUnique

LEMMA NextIInv == IInv /\ [Next]_vars => IInv'
<1> SUFFICES ASSUME IInv, [Next]_vars PROVE IInv'
  OBVIOUS
<1>1. ASSUME NEW c \in Connection, onconnected(c) PROVE IInv'
  <2>1. chatters' = [d \in DOMAIN chatters \union {c} |->
                       IF d \in DOMAIN chatters THEN chatters[d] ELSE ""]
    BY <1>1 DEF onconnected
  <2>2. open' = open \union {c} /\ UNCHANGED <<queue, received>>
    BY <1>1 DEF onconnected
  <2> QED BY <2>1, <2>2, ChatAssumption DEF IInv, Filled, TypeOK, ChattersOpen, NamesUnique
<1>2. ASSUME NEW c \in Connection, ondisconnected(c) PROVE IInv'
  BY <1>2, ondisconnectedIInv
<1>3. ASSUME NEW c \in Connection, Writeable(c) PROVE IInv'
  <2>1. queue[c] \in Seq(Frame) /\ queue[c] # <<>>
    BY <1>3 DEF Writeable, IInv, Filled, TypeOK
  <2>2. Head(queue[c]) \in Frame /\ Tail(queue[c]) \in Seq(Frame)
    BY <2>1
  <2>3. queue' \in [Connection -> Seq(Frame)] /\ received' \in [Connection -> Seq(Frame)]
    BY <1>3, <2>2 DEF Writeable, IInv, Filled, TypeOK
  <2> QED BY <1>3, <2>3 DEF Writeable, IInv, Filled, TypeOK, ChattersOpen, NamesUnique
<1>4. ASSUME NEW c \in Connection, NEW p \in String \union {NoString}, NEW method, onmethod(c, method, p)
      PROVE  IInv'
  <2>1. CASE \E reason \in Reason : Refuse(c, reason)
    BY <2>1, RefuseIInv
  <2>2. CASE c \in DOMAIN chatters /\ p # NoString /\ ~is_name_used(p) /\ set_name(c, p)
    BY <2>2, set_nameIInv
  <2> QED BY <1>4, <2>1, <2>2 DEF onmethod, Reason
<1>5. ASSUME NEW c \in Connection, NEW p \in String \union {NoString}, onnotify(c, "chat", p)
      PROVE  IInv'
  <2>1. Message(chatters[c], p) \in Frame
    BY <1>5 DEF onnotify, IInv, Filled, TypeOK, Message, Frame
  <2>2. queue' \in [Connection -> Seq(Frame)]
    BY <1>5, <2>1, ToAllType DEF onnotify, IInv, Filled, TypeOK
  <2> QED BY <1>5, <2>2 DEF onnotify, IInv, Filled, TypeOK, ChattersOpen, NamesUnique
<1>6. CASE UNCHANGED vars
  BY <1>6 DEF vars, IInv, Filled, TypeOK, ChattersOpen, NamesUnique
<1> QED BY <1>1, <1>2, <1>3, <1>4, <1>5, <1>6 DEF Next

(* No two chatters have the same name.                                      *)
THEOREM NamesAreUnique == Spec => []NamesUnique
<1>1. IInv => NamesUnique
  BY DEF IInv
<1> QED BY <1>1, InitIInv, NextIInv, PTL DEF Spec

(* The chatters are the open connections, so nobody is sent to or greeted   *)
(* by a name who is gone.                                                   *)
THEOREM ChattersAreOpen == Spec => []ChattersOpen
<1>1. IInv => ChattersOpen
  BY DEF IInv, Filled
<1> QED BY <1>1, InitIInv, NextIInv, PTL DEF Spec
-----------------------------------------------------------------------------
(* What is sent is what was written and what is queued, so a post to queues *)
(* is a post to transcripts, ...                                            *)
SentOf(q) == [c \in Connection |-> received[c] \o q[c]]

LEMMA PostSent ==
  ASSUME received \in [Connection -> Seq(Frame)], NEW q \in [Connection -> Seq(Frame)],
         NEW S, NEW f \in Frame
  PROVE  SentOf(Post(q, S, f)) = TheRoom!Push(SentOf(q), S, f)
<1>1. ASSUME NEW c \in Connection
      PROVE  SentOf(Post(q, S, f))[c] = TheRoom!Push(SentOf(q), S, f)[c]
  <2>1. received[c] \in Seq(Frame) /\ q[c] \in Seq(Frame)
    OBVIOUS
  <2>2. received[c] \o Append(q[c], f) = Append(received[c] \o q[c], f)
    BY <2>1
  <2> QED BY <2>2 DEF SentOf, Post, TheRoom!Push
<1> QED BY <1>1 DEF SentOf, TheRoom!Push

(* ... and what is written moves from the one to the other.                 *)
LEMMA WrittenSent ==
  ASSUME NEW r \in Seq(Frame), NEW q \in Seq(Frame), q # <<>>
  PROVE  /\ Append(r, Head(q)) \o Tail(q) = r \o q
         /\ Len(r) < Len(r \o q)
         /\ (r \o q)[Len(r) + 1] = Head(q)
OBVIOUS

(* The frames of both modules are the same.                                 *)
LEMMA SameFrames ==
  /\ \A n : Result(n) = TheRoom!Result(n)
  /\ \A n : Announcement("arrived", n) = TheRoom!Arrived(n)
  /\ \A n : Announcement("gone", n) = TheRoom!Gone(n)
  /\ \A n, text : Message(n, text) = TheRoom!Message(n, text)
  /\ \A reason : Error(reason) = TheRoom!Refusal(reason)
BY DEF Result, Announcement, Message, Error, TheRoom!Result, TheRoom!Arrived, TheRoom!Gone,
       TheRoom!Message, TheRoom!Refusal

(* A loop over the chatters is a post that may miss some.                   *)
LEMMA ToAllSent ==
  ASSUME received \in [Connection -> Seq(Frame)], NEW q \in [Connection -> Seq(Frame)],
         NEW f \in Frame, NEW r \in ToAll(q, f), DOMAIN chatters \subseteq Connection
  PROVE  \E deaf \in TheRoom!Missed :
           SentOf(r) = TheRoom!Push(SentOf(q), DOMAIN chatters \ deaf, f)
<1>1. PICK L \in Lost(DOMAIN chatters) : r = Post(q, DOMAIN chatters \ L, f)
  BY DEF ToAll
<1>2. L \in TheRoom!Missed
  BY DEF Lost, TheRoom!Missed
<1> QED BY <1>1, <1>2, PostSent

LEMMA ToOneSent ==
  ASSUME received \in [Connection -> Seq(Frame)], NEW q \in [Connection -> Seq(Frame)],
         NEW c \in Connection, NEW f \in Frame, NEW r \in ToOne(q, c, f)
  PROVE  \E mute \in TheRoom!Missed : SentOf(r) = TheRoom!Push(SentOf(q), {c} \ mute, f)
<1>1. PICK L \in Lost({c}) : r = Post(q, {c} \ L, f)
  BY DEF ToOne
<1>2. L \in TheRoom!Missed
  BY DEF Lost, TheRoom!Missed
<1> QED BY <1>1, <1>2, PostSent

Transcript == [c \in Connection |-> Sent(c)]

LEMMA TranscriptSent ==
  /\ Transcript = SentOf(queue)
  /\ received' = received => Transcript' = SentOf(queue')
BY DEF Transcript, Sent, SentOf

LEMMA RefuseRoom ==
  ASSUME IInv, NEW c \in DOMAIN chatters, NEW reason \in TheRoom!Reason, Refuse(c, reason)
  PROVE  TheRoom!Refuse(c, reason)
<1>1. /\ queue \in [Connection -> Seq(Frame)] /\ received \in [Connection -> Seq(Frame)]
      /\ c \in Connection
  BY DEF IInv, Filled, TypeOK
<1>2. queue' \in ToOne(queue, c, Error(reason)) /\ UNCHANGED <<chatters, received>>
  BY DEF Refuse
<1>3. Error(reason) \in Frame
  BY ChatAssumption DEF Error, Frame, TheRoom!Reason, Reason
<1>4. \E mute \in TheRoom!Missed :
        SentOf(queue') = TheRoom!Push(SentOf(queue), {c} \ mute, Error(reason))
  BY <1>1, <1>2, <1>3, ToOneSent
<1>5. \E mute \in TheRoom!Missed :
        Transcript' = TheRoom!Push(Transcript, {c} \ mute, TheRoom!Refusal(reason))
  BY <1>2, <1>4, TranscriptSent, SameFrames
<1> QED BY <1>2, <1>5 DEF TheRoom!Refuse, Transcript

LEMMA set_nameRoom ==
  ASSUME IInv, NEW c \in DOMAIN chatters, NEW n \in String, ~is_name_used(n), set_name(c, n)
  PROVE  TheRoom!TakeName(c, n)
<1>1. /\ queue \in [Connection -> Seq(Frame)] /\ received \in [Connection -> Seq(Frame)]
      /\ c \in Connection /\ DOMAIN chatters \subseteq Connection
  BY DEF IInv, Filled, TypeOK
<1>2. /\ chatters' = [chatters EXCEPT ![c] = n] /\ UNCHANGED received
      /\ n \notin {chatters[d] : d \in DOMAIN chatters}
  BY DEF set_name, is_name_used
<1>3. PICK q \in ToOne(queue, c, Result(n)) : queue' \in ToAll(q, Announcement("arrived", n))
  BY DEF set_name
<1>4. Result(n) \in Frame /\ Announcement("arrived", n) \in Frame
  BY ChatAssumption DEF Result, Announcement, Frame
<1>5. q \in [Connection -> Seq(Frame)]
  BY <1>1, <1>3, <1>4, ToOneType
<1>6. PICK mute \in TheRoom!Missed :
        SentOf(q) = TheRoom!Push(SentOf(queue), {c} \ mute, Result(n))
  BY <1>1, <1>3, <1>4, ToOneSent
<1>7. PICK deaf \in TheRoom!Missed :
        SentOf(queue') = TheRoom!Push(SentOf(q), DOMAIN chatters \ deaf, Announcement("arrived", n))
  BY <1>1, <1>3, <1>4, <1>5, ToAllSent
<1>8. Transcript' = TheRoom!Push(TheRoom!Push(Transcript, {c} \ mute, TheRoom!Result(n)),
                                 DOMAIN chatters \ deaf, TheRoom!Arrived(n))
  BY <1>2, <1>6, <1>7, TranscriptSent, SameFrames
<1> QED BY <1>2, <1>8 DEF TheRoom!TakeName, Transcript

LEMMA onnotifyRoom ==
  ASSUME IInv, NEW c \in Connection, NEW p \in String \union {NoString}, onnotify(c, "chat", p)
  PROVE  p \in String /\ TheRoom!Say(c, p)
<1>1. /\ queue \in [Connection -> Seq(Frame)] /\ received \in [Connection -> Seq(Frame)]
      /\ DOMAIN chatters \subseteq Connection
  BY DEF IInv, Filled, TypeOK
<1>2. /\ c \in DOMAIN chatters /\ p \in String /\ UNCHANGED <<chatters, received>>
      /\ queue' \in ToAll(queue, Message(chatters[c], p))
  BY DEF onnotify
<1>3. Message(chatters[c], p) \in Frame
  BY <1>2 DEF IInv, Filled, TypeOK, Message, Frame
<1>4. \E deaf \in TheRoom!Missed :
        SentOf(queue') = TheRoom!Push(SentOf(queue), DOMAIN chatters \ deaf, Message(chatters[c], p))
  BY <1>1, <1>2, <1>3, ToAllSent
<1>5. \E deaf \in TheRoom!Missed :
        Transcript' = TheRoom!Push(Transcript, DOMAIN chatters \ deaf,
                                   TheRoom!Message(chatters[c], p))
  BY <1>2, <1>4, TranscriptSent, SameFrames
<1> QED BY <1>2, <1>5 DEF TheRoom!Say, Transcript

LEMMA WriteableRoom ==
  ASSUME IInv, NEW c \in Connection, Writeable(c)
  PROVE  TheRoom!Show(c)
<1>1. /\ queue \in [Connection -> Seq(Frame)] /\ received \in [Connection -> Seq(Frame)]
  BY DEF IInv, Filled, TypeOK
<1>2. /\ queue[c] # <<>> /\ UNCHANGED chatters
      /\ received' = [received EXCEPT ![c] = Append(received[c], Head(queue[c]))]
      /\ queue' = [queue EXCEPT ![c] = Tail(queue[c])]
  BY DEF Writeable
<1>3. /\ Append(received[c], Head(queue[c])) \o Tail(queue[c]) = received[c] \o queue[c]
      /\ Len(received[c]) < Len(received[c] \o queue[c])
      /\ (received[c] \o queue[c])[Len(received[c]) + 1] = Head(queue[c])
  BY <1>1, <1>2, WrittenSent
<1>4. \A d \in Connection : received'[d] \o queue'[d] = received[d] \o queue[d]
  BY <1>1, <1>2, <1>3
<1>5. Transcript' = Transcript
  BY <1>4 DEF Transcript, Sent
<1>6. Transcript[c] = received[c] \o queue[c]
  BY DEF Transcript, Sent
<1>7. /\ Len(received[c]) < Len(Transcript[c])
      /\ received' = [received EXCEPT ![c] = Append(received[c], Transcript[c][Len(received[c]) + 1])]
  BY <1>2, <1>3, <1>6
<1> QED BY <1>2, <1>5, <1>7 DEF TheRoom!Show, Transcript

LEMMA ondisconnectedRoom ==
  ASSUME IInv, NEW c \in Connection, ondisconnected(c)
  PROVE  TheRoom!Leave(c)
<1>1. /\ queue \in [Connection -> Seq(Frame)] /\ received \in [Connection -> Seq(Frame)]
      /\ DOMAIN chatters \subseteq Connection /\ c \in DOMAIN chatters
      /\ chatters[c] \in String
  BY DEF IInv, Filled, TypeOK, ChattersOpen, ondisconnected
<1>2. /\ chatters' = [d \in DOMAIN chatters \ {c} |-> chatters[d]]
      /\ received' = [received EXCEPT ![c] = <<>>]
  BY <1>1 DEF ondisconnected
<1>3. PICK q \in ToAll(queue, Announcement("gone", chatters[c])) : queue' = [q EXCEPT ![c] = <<>>]
  BY <1>1 DEF ondisconnected
<1>4. Announcement("gone", chatters[c]) \in Frame
  BY <1>1, ChatAssumption DEF Announcement, Frame
<1>5. q \in [Connection -> Seq(Frame)]
  BY <1>1, <1>3, <1>4, ToAllType
<1>6. PICK deaf \in TheRoom!Missed :
        SentOf(q) = TheRoom!Push(SentOf(queue), DOMAIN chatters \ deaf,
                                 Announcement("gone", chatters[c]))
  BY <1>1, <1>3, <1>4, ToAllSent
<1>7. Transcript' = [SentOf(q) EXCEPT ![c] = <<>>]
  <2>1. ASSUME NEW d \in Connection PROVE Transcript'[d] = [SentOf(q) EXCEPT ![c] = <<>>][d]
    <3>1. CASE d = c
      BY <1>1, <1>2, <1>3, <1>5, <3>1 DEF Transcript, Sent, SentOf
    <3>2. CASE d # c
      BY <1>1, <1>2, <1>3, <1>5, <3>2 DEF Transcript, Sent, SentOf
    <3> QED BY <3>1, <3>2
  <2> QED BY <2>1 DEF Transcript, SentOf
<1>8. Transcript' = [TheRoom!Push(Transcript, DOMAIN chatters \ deaf, TheRoom!Gone(chatters[c]))
                       EXCEPT ![c] = <<>>]
  BY <1>6, <1>7, TranscriptSent, SameFrames
<1> QED BY <1>1, <1>2, <1>8 DEF TheRoom!Leave, Transcript

LEMMA EmptyJoin == <<>> \o <<>> = <<>>
OBVIOUS

LEMMA InitRoom == Init => TheRoom!Init
<1> SUFFICES ASSUME Init PROVE TheRoom!Init
  OBVIOUS
<1>1. \A c \in Connection : received[c] = <<>> /\ queue[c] = <<>>
  BY DEF Init
<1>2. \A c \in Connection : Sent(c) = <<>>
  BY <1>1, EmptyJoin DEF Sent
<1>3. Transcript = [c \in Connection |-> <<>>]
  BY <1>2 DEF Transcript
<1> QED BY <1>3 DEF Init, TheRoom!Init, Transcript

LEMMA NextRoom == IInv /\ [Next]_vars => [TheRoom!Next]_TheRoom!roomVars
<1> SUFFICES ASSUME IInv, [Next]_vars PROVE [TheRoom!Next]_TheRoom!roomVars
  OBVIOUS
<1>1. ASSUME NEW c \in Connection, onconnected(c) PROVE TheRoom!Enter(c)
  <2>1. c \notin DOMAIN chatters /\ UNCHANGED <<queue, received>>
    BY <1>1 DEF onconnected, IInv, Filled, ChattersOpen
  <2>2. chatters' = [d \in DOMAIN chatters \union {c} |-> IF d = c THEN "" ELSE chatters[d]]
    BY <1>1, <2>1 DEF onconnected
  <2> QED BY <2>1, <2>2 DEF TheRoom!Enter, Sent
<1>2. ASSUME NEW c \in Connection, NEW p \in String \union {NoString}, NEW method,
             onmethod(c, method, p)
      PROVE  \/ \E n \in String : TheRoom!TakeName(c, n)
             \/ \E reason \in TheRoom!Reason : TheRoom!Refuse(c, reason)
  <2>1. c \in DOMAIN chatters
    BY <1>2 DEF onmethod, IInv, Filled, ChattersOpen
  <2>2. CASE \E reason \in TheRoom!Reason : Refuse(c, reason)
    BY <2>1, <2>2, RefuseRoom
  <2>3. CASE p # NoString /\ ~is_name_used(p) /\ set_name(c, p)
    BY <2>1, <2>3, set_nameRoom
  <2> QED BY <1>2, <2>1, <2>2, <2>3 DEF onmethod, TheRoom!Reason
<1>3. CASE UNCHANGED vars
  BY <1>3 DEF vars, TheRoom!roomVars, Sent
<1> QED BY <1>1, <1>2, <1>3, onnotifyRoom, WriteableRoom, ondisconnectedRoom
        DEF Next, TheRoom!Next

(* The chat server is a room, lossy if messages may be dropped.             *)
THEOREM ServerIsRoom == Spec => ImplementsRoom
<1> QED BY InitIInv, NextIInv, InitRoom, NextRoom, PTL DEF Spec, ImplementsRoom, TheRoom!Safety
-----------------------------------------------------------------------------
(* Induction over the natural numbers, for sets of them: what is not in the *)
(* set has no least element.                                                *)
Less == OpToRel(<, Nat)

LEMMA LessIsLess == \A m, n \in Nat : <<m, n>> \in Less <=> m < n
BY DEF Less, OpToRel

LEMMA LeastElement ==
  ASSUME NEW T, T \subseteq Nat, T # {}
  PROVE  \E x \in T : \A y \in T : ~ (<<y, x>> \in Less)
BY NatLessThanWellFounded, WFMin DEF Less

LEMMA Induction ==
  ASSUME NEW S, 0 \in S, \A n \in Nat : n \in S => n + 1 \in S
  PROVE  \A n \in Nat : n \in S
<1> SUFFICES ASSUME Nat \ S # {} PROVE FALSE
  OBVIOUS
<1>1. PICK x \in Nat \ S : \A y \in Nat \ S : ~ (<<y, x>> \in Less)
  BY LeastElement
<1>2. x # 0 /\ x - 1 \in Nat /\ (x - 1) + 1 = x /\ x - 1 < x
  BY SMT
<1>3. <<x - 1, x>> \in Less
  BY <1>2, LessIsLess
<1> QED BY <1>1, <1>2, <1>3

(* The posts of a sequence: f[i] are those of its first i frames.           *)
IsPosts(f, s, n) ==
  f = [i \in 0..n |->
         IF i = 0 THEN <<>> ELSE IF Posted(s[i]) THEN Append(f[i - 1], s[i]) ELSE f[i - 1]]

LEMMA PostsExist ==
  ASSUME NEW s
  PROVE  \A n \in Nat : \E f : IsPosts(f, s, n)
<1> DEFINE S == {n \in Nat : \E f : IsPosts(f, s, n)}
<1>1. 0 \in S
  <2>1. IsPosts([i \in 0..0 |-> <<>>], s, 0)
    BY DEF IsPosts
  <2> QED BY <2>1
<1>2. ASSUME NEW n \in Nat, n \in S PROVE n + 1 \in S
  <2>1. PICK f : IsPosts(f, s, n)
    BY <1>2
  <2> DEFINE g == [i \in 0..(n + 1) |->
                     IF i <= n THEN f[i]
                     ELSE IF Posted(s[i]) THEN Append(f[n], s[i]) ELSE f[n]]
             h == [i \in 0..(n + 1) |->
                     IF i = 0 THEN <<>>
                     ELSE IF Posted(s[i]) THEN Append(g[i - 1], s[i]) ELSE g[i - 1]]
  <2>2. ASSUME NEW i \in 0..(n + 1) PROVE g[i] = h[i]
    <3>1. CASE i = 0
      BY <2>1, <3>1 DEF IsPosts
    <3>2. CASE i \in 1..n
      <4>1. i # 0 /\ i - 1 \in 0..n /\ i \in 0..n /\ i - 1 \in 0..(n + 1)
        BY <3>2
      <4>2. g[i] = f[i] /\ g[i - 1] = f[i - 1]
        BY <4>1
      <4>3. f[i] = IF Posted(s[i]) THEN Append(f[i - 1], s[i]) ELSE f[i - 1]
        BY <2>1, <4>1 DEF IsPosts
      <4> QED BY <4>1, <4>2, <4>3
    <3>3. CASE i = n + 1
      <4>1. i # 0 /\ i - 1 = n /\ n \in 0..(n + 1) /\ ~(i <= n)
        BY <3>3
      <4>2. g[n] = f[n]
        BY <4>1
      <4> QED BY <4>1, <4>2
    <3> QED BY <3>1, <3>2, <3>3
  <2>3. g = h
    BY <2>2
  <2>4. IsPosts(g, s, n + 1)
    BY <2>3 DEF IsPosts
  <2>5. \E e : IsPosts(e, s, n + 1)
    BY <2>4
  <2> QED BY <2>5
<1> HIDE DEF S
<1>3. \A n \in Nat : n \in S
  BY <1>1, <1>2, Induction
<1> QED BY <1>3 DEF S

LEMMA PostsAgree ==
  ASSUME NEW s, NEW t, NEW m \in Nat, NEW n \in Nat, m <= n,
         \A i \in 1..m : s[i] = t[i],
         NEW f, IsPosts(f, s, m), NEW g, IsPosts(g, t, n)
  PROVE  f[m] = g[m]
<1> DEFINE S == {i \in Nat : i <= m => f[i] = g[i]}
<1>1. 0 \in S
  BY DEF IsPosts
<1>2. ASSUME NEW i \in Nat, i \in S PROVE i + 1 \in S
  <2> SUFFICES ASSUME i + 1 <= m PROVE f[i + 1] = g[i + 1]
    OBVIOUS
  <2>1. /\ i + 1 \in 0..m /\ i + 1 \in 0..n /\ i + 1 # 0 /\ (i + 1) - 1 = i
        /\ i + 1 \in 1..m /\ i <= m
    OBVIOUS
  <2>2. f[i] = g[i] /\ s[i + 1] = t[i + 1]
    BY <1>2, <2>1
  <2>3. f[i + 1] = IF Posted(s[i + 1]) THEN Append(f[i], s[i + 1]) ELSE f[i]
    BY <2>1 DEF IsPosts
  <2>4. g[i + 1] = IF Posted(t[i + 1]) THEN Append(g[i], t[i + 1]) ELSE g[i]
    BY <2>1 DEF IsPosts
  <2> QED BY <2>2, <2>3, <2>4
<1> HIDE DEF S
<1>3. \A i \in Nat : i \in S
  BY <1>1, <1>2, Induction
<1> QED BY <1>3 DEF S

LEMMA PostsInIsPosts ==
  ASSUME NEW s, Len(s) \in Nat
  PROVE  \E f : IsPosts(f, s, Len(s)) /\ PostsIn(s) = f[Len(s)]
<1> DEFINE f == CHOOSE e : IsPosts(e, s, Len(s))
<1>1. IsPosts(f, s, Len(s))
  BY PostsExist
<1>2. PostsIn(s) = f[Len(s)]
  BY DEF PostsIn, IsPosts
<1> QED BY <1>1, <1>2

LEMMA PostsInEmpty == PostsIn(<<>>) = <<>>
<1>1. PICK f : IsPosts(f, <<>>, Len(<<>>)) /\ PostsIn(<<>>) = f[Len(<<>>)]
  BY PostsInIsPosts
<1> QED BY <1>1 DEF IsPosts

(* A frame more is a post more, or none.                                    *)
LEMMA PostsInAppend ==
  ASSUME NEW s \in Seq(Frame), NEW x \in Frame
  PROVE  PostsIn(Append(s, x)) = IF Posted(x) THEN Append(PostsIn(s), x) ELSE PostsIn(s)
<1> DEFINE t == Append(s, x)
           n == Len(s)
<1>1. /\ n \in Nat /\ Len(t) = n + 1 /\ Len(t) \in Nat
      /\ t[n + 1] = x /\ \A i \in 1..n : s[i] = t[i]
  OBVIOUS
<1>2. PICK f : IsPosts(f, s, n) /\ PostsIn(s) = f[n]
  BY <1>1, PostsInIsPosts
<1> HIDE DEF t, n
<1>3. PICK g : IsPosts(g, t, Len(t)) /\ PostsIn(t) = g[Len(t)]
  BY <1>1, PostsInIsPosts
<1>4. IsPosts(g, t, n + 1)
  BY <1>1, <1>3
<1>5. f[n] = g[n]
  <2>1. n <= n + 1 /\ n + 1 \in Nat
    BY <1>1
  <2> QED BY <1>1, <1>2, <1>4, <2>1, PostsAgree
<1>6. g[n + 1] = IF Posted(t[n + 1]) THEN Append(g[n], t[n + 1]) ELSE g[n]
  <2>1. n + 1 \in 0..(n + 1) /\ n + 1 # 0 /\ (n + 1) - 1 = n
    BY <1>1
  <2> QED BY <1>4, <2>1 DEF IsPosts
<1>7. PostsIn(t) = IF Posted(x) THEN Append(PostsIn(s), x) ELSE PostsIn(s)
  BY <1>1, <1>2, <1>3, <1>5, <1>6
<1> QED BY <1>7 DEF t

LEMMA PostsInType ==
  ASSUME NEW s \in Seq(Frame)
  PROVE  PostsIn(s) \in Seq(Frame)
<1> DEFINE n == Len(s)
<1>1. n \in Nat /\ \A i \in 1..n : s[i] \in Frame
  OBVIOUS
<1>2. PICK f : IsPosts(f, s, n) /\ PostsIn(s) = f[n]
  BY <1>1, PostsInIsPosts
<1> HIDE DEF n
<1> DEFINE S == {i \in Nat : i <= n => f[i] \in Seq(Frame)}
<1>3. 0 \in S
  BY <1>1, <1>2 DEF IsPosts
<1>4. ASSUME NEW i \in Nat, i \in S PROVE i + 1 \in S
  <2> SUFFICES ASSUME i + 1 <= n PROVE f[i + 1] \in Seq(Frame)
    OBVIOUS
  <2>1. i + 1 \in 0..n /\ i + 1 # 0 /\ (i + 1) - 1 = i /\ i + 1 \in 1..n /\ i <= n
    BY <1>1
  <2>2. f[i + 1] = IF Posted(s[i + 1]) THEN Append(f[i], s[i + 1]) ELSE f[i]
    BY <1>2, <2>1 DEF IsPosts
  <2> QED BY <1>1, <1>4, <2>1, <2>2
<1> HIDE DEF S
<1>5. \A i \in Nat : i \in S
  BY <1>3, <1>4, Induction
<1>6. n <= n
  BY <1>1
<1> QED BY <1>1, <1>2, <1>5, <1>6 DEF S

(* Suffixes, element by element; of an empty and of longer sequences.       *)
LEMMA SuffixMeans ==
  ASSUME NEW s \in Seq(Frame), NEW t \in Seq(Frame)
  PROVE  SuffixOf(s, t) <=> /\ Len(s) <= Len(t)
                            /\ \A i \in 1..Len(s) : s[i] = t[Len(t) - Len(s) + i]
<1> SUFFICES ASSUME Len(s) <= Len(t)
             PROVE  SubSeq(t, Len(t) - Len(s) + 1, Len(t)) = s
                      <=> \A i \in 1..Len(s) : s[i] = t[Len(t) - Len(s) + i]
  BY DEF SuffixOf
<1> DEFINE u == SubSeq(t, Len(t) - Len(s) + 1, Len(t))
<1>1. u \in Seq(Frame) /\ Len(u) = Len(s)
  OBVIOUS
<1>2. \A i \in 1..Len(s) : u[i] = t[Len(t) - Len(s) + i]
  OBVIOUS
<1>3. u = s <=> \A i \in 1..Len(s) : u[i] = s[i]
  <2> HIDE DEF u
  <2> QED BY <1>1
<1> QED BY <1>2, <1>3

LEMMA SuffixEmpty ==
  ASSUME NEW t \in Seq(Frame)
  PROVE  SuffixOf(<<>>, t)
<1>1. /\ <<>> \in Seq(Frame) /\ Len(<<>>) = 0 /\ Len(<<>>) <= Len(t)
      /\ 1..Len(<<>>) = {}
  OBVIOUS
<1> QED BY <1>1, SuffixMeans

LEMMA SuffixAppend ==
  ASSUME NEW s \in Seq(Frame), NEW t \in Seq(Frame), SuffixOf(s, t), NEW x \in Frame
  PROVE  SuffixOf(Append(s, x), Append(t, x))
<1> DEFINE sx == Append(s, x)
           tx == Append(t, x)
<1>1. /\ sx \in Seq(Frame) /\ Len(sx) = Len(s) + 1 /\ sx[Len(s) + 1] = x
      /\ \A i \in 1..Len(s) : sx[i] = s[i]
  OBVIOUS
<1>2. /\ tx \in Seq(Frame) /\ Len(tx) = Len(t) + 1 /\ tx[Len(t) + 1] = x
      /\ \A i \in 1..Len(t) : tx[i] = t[i]
  OBVIOUS
<1>3. Len(s) <= Len(t) /\ \A i \in 1..Len(s) : s[i] = t[Len(t) - Len(s) + i]
  BY SuffixMeans
<1>4. Len(s) \in Nat /\ Len(t) \in Nat
  OBVIOUS
<1> HIDE DEF sx, tx
<1>5. ASSUME NEW i \in 1..Len(sx) PROVE sx[i] = tx[Len(tx) - Len(sx) + i]
  <2>1. CASE i = Len(s) + 1
    <3>1. Len(tx) - Len(sx) + i = Len(t) + 1
      BY <1>1, <1>2, <1>4, <2>1
    <3> QED BY <1>1, <1>2, <2>1, <3>1
  <2>2. CASE i \in 1..Len(s)
    <3>1. Len(tx) - Len(sx) + i = Len(t) - Len(s) + i /\ Len(t) - Len(s) + i \in 1..Len(t)
      BY <1>1, <1>2, <1>3, <1>4, <2>2
    <3> QED BY <1>1, <1>2, <1>3, <2>2, <3>1
  <2> QED BY <1>1, <1>4, <2>1, <2>2
<1>6. Len(sx) <= Len(tx)
  BY <1>1, <1>2, <1>3, <1>4
<1>7. SuffixOf(sx, tx)
  BY <1>1, <1>2, <1>5, <1>6, SuffixMeans
<1> QED BY <1>7 DEF sx, tx

(* What somebody is told is gone, a frame later.                            *)
LEMMA ToldGoneAppend ==
  ASSUME NEW s \in Seq(Frame), NEW x \in Frame, NEW n
  PROVE  ToldGone(Append(s, x), n) =>
           \/ x = Announcement("gone", n)
           \/ ToldGone(s, n) /\ x # Announcement("arrived", n)
<1> DEFINE sx == Append(s, x)
<1>1. /\ Len(s) \in Nat /\ Len(sx) = Len(s) + 1 /\ DOMAIN sx = 1..(Len(s) + 1)
      /\ DOMAIN s = 1..Len(s) /\ sx[Len(s) + 1] = x
      /\ \A i \in 1..Len(s) : sx[i] = s[i]
  OBVIOUS
<1> HIDE DEF sx
<1> SUFFICES ASSUME ToldGone(sx, n), x # Announcement("gone", n)
             PROVE  ToldGone(s, n) /\ x # Announcement("arrived", n)
  BY DEF sx
<1>2. PICK i \in 1..(Len(s) + 1) :
        /\ sx[i] = Announcement("gone", n)
        /\ \A j \in 1..(Len(s) + 1) : j > i => sx[j] # Announcement("arrived", n)
  BY <1>1 DEF ToldGone
<1>3. i \in 1..Len(s) /\ Len(s) + 1 > i /\ Len(s) + 1 \in 1..(Len(s) + 1)
  BY <1>1, <1>2
<1>4. x # Announcement("arrived", n)
  BY <1>1, <1>2, <1>3
<1>5. s[i] = Announcement("gone", n) /\ \A j \in 1..Len(s) : j > i => s[j] # Announcement("arrived", n)
  BY <1>1, <1>2, <1>3
<1> QED BY <1>1, <1>3, <1>4, <1>5 DEF ToldGone

-----------------------------------------------------------------------------
(* What the transcripts t are like in a room that loses nothing: those of   *)
(* the members S show one conversation, ...                                 *)
Ordered(S, t) ==
  \A c, d \in S : \/ SuffixOf(PostsIn(t[c]), PostsIn(t[d]))
                  \/ SuffixOf(PostsIn(t[d]), PostsIn(t[c]))

(* ... and none of them shows that somebody of these names has gone.        *)
NoneGone(names, t) ==
  \A c, d \in DOMAIN names : names[d] # "" => ~ToldGone(t[c], names[d])

RoomInv ==
  /\ \A c \in Connection \ DOMAIN chatters : Transcript[c] = <<>>
  /\ Ordered(DOMAIN chatters, Transcript)
  /\ NoneGone(chatters, Transcript)

LEMMA PushType ==
  ASSUME NEW t \in [Connection -> Seq(Frame)], NEW S, NEW f \in Frame
  PROVE  TheRoom!Push(t, S, f) \in [Connection -> Seq(Frame)]
BY DEF TheRoom!Push

(* What is not a post changes no order, and what everybody is sent neither. *)
LEMMA PushOrdered ==
  ASSUME NEW t \in [Connection -> Seq(Frame)], NEW S \in SUBSET Connection, Ordered(S, t),
         NEW M, NEW f \in Frame, Posted(f) => S \subseteq M
  PROVE  Ordered(S, TheRoom!Push(t, M, f))
<1> SUFFICES ASSUME NEW c \in S, NEW d \in S, SuffixOf(PostsIn(t[c]), PostsIn(t[d]))
             PROVE  SuffixOf(PostsIn(TheRoom!Push(t, M, f)[c]), PostsIn(TheRoom!Push(t, M, f)[d]))
  BY DEF Ordered
<1>1. /\ t[c] \in Seq(Frame) /\ t[d] \in Seq(Frame)
      /\ PostsIn(t[c]) \in Seq(Frame) /\ PostsIn(t[d]) \in Seq(Frame)
  BY PostsInType
<1>2. /\ TheRoom!Push(t, M, f)[c] = IF c \in M THEN Append(t[c], f) ELSE t[c]
      /\ TheRoom!Push(t, M, f)[d] = IF d \in M THEN Append(t[d], f) ELSE t[d]
  BY DEF TheRoom!Push
<1>3. CASE Posted(f)
  <2>1. /\ PostsIn(TheRoom!Push(t, M, f)[c]) = Append(PostsIn(t[c]), f)
        /\ PostsIn(TheRoom!Push(t, M, f)[d]) = Append(PostsIn(t[d]), f)
    BY <1>1, <1>2, <1>3, PostsInAppend
  <2> QED BY <1>1, <2>1, SuffixAppend
<1>4. CASE ~Posted(f)
  <2>1. /\ PostsIn(TheRoom!Push(t, M, f)[c]) = PostsIn(t[c])
        /\ PostsIn(TheRoom!Push(t, M, f)[d]) = PostsIn(t[d])
    BY <1>1, <1>2, <1>4, PostsInAppend
  <2> QED BY <2>1
<1> QED BY <1>3, <1>4

LEMMA PushNoneGone ==
  ASSUME NEW t \in [Connection -> Seq(Frame)], NEW names, DOMAIN names \subseteq Connection,
         NoneGone(names, t), NEW M, NEW f \in Frame,
         \A d \in DOMAIN names : names[d] # "" => f # Announcement("gone", names[d])
  PROVE  NoneGone(names, TheRoom!Push(t, M, f))
<1> SUFFICES ASSUME NEW c \in DOMAIN names, NEW d \in DOMAIN names, names[d] # "",
                    ToldGone(TheRoom!Push(t, M, f)[c], names[d])
             PROVE  FALSE
  BY DEF NoneGone
<1>1. t[c] \in Seq(Frame) /\ ~ToldGone(t[c], names[d])
  BY DEF NoneGone
<1>2. TheRoom!Push(t, M, f)[c] = IF c \in M THEN Append(t[c], f) ELSE t[c]
  BY DEF TheRoom!Push
<1> QED BY <1>1, <1>2, ToldGoneAppend

LEMMA EmptyOrGone == \A n : ~ToldGone(<<>>, n)
BY DEF ToldGone

LEMMA Kinds ==
  /\ \A n : ~Posted(TheRoom!Result(n)) /\ Posted(TheRoom!Arrived(n)) /\ Posted(TheRoom!Gone(n))
  /\ \A reason : ~Posted(TheRoom!Refusal(reason))
  /\ \A n, text : Posted(TheRoom!Message(n, text))
  /\ \A n, m : /\ TheRoom!Result(n) # Announcement("gone", m)
               /\ TheRoom!Arrived(n) # Announcement("gone", m)
               /\ TheRoom!Gone(n) = Announcement("gone", m) => n = m
  /\ \A n, text, m : TheRoom!Message(n, text) # Announcement("gone", m)
  /\ \A reason, m : TheRoom!Refusal(reason) # Announcement("gone", m)
BY DEF Posted, Announcement, TheRoom!Result, TheRoom!Arrived, TheRoom!Gone, TheRoom!Refusal,
       TheRoom!Message

LEMMA RoomFrames ==
  /\ \A n \in String : /\ TheRoom!Result(n) \in Frame /\ TheRoom!Arrived(n) \in Frame
                       /\ TheRoom!Gone(n) \in Frame
                       /\ \A text \in String : TheRoom!Message(n, text) \in Frame
  /\ \A reason \in TheRoom!Reason : TheRoom!Refusal(reason) \in Frame
BY ChatAssumption DEF Frame, Reason, TheRoom!Result, TheRoom!Arrived, TheRoom!Gone,
       TheRoom!Refusal, TheRoom!Message, TheRoom!Reason

LEMMA TranscriptType ==
  ASSUME IInv
  PROVE  Transcript \in [Connection -> Seq(Frame)] /\ DOMAIN chatters \subseteq Connection
<1>1. ASSUME NEW c \in Connection PROVE Sent(c) \in Seq(Frame)
  BY DEF Sent, IInv, Filled, TypeOK
<1> QED BY <1>1 DEF Transcript, IInv, Filled, TypeOK

LEMMA InitRoomInv == Init => RoomInv
<1> SUFFICES ASSUME Init PROVE RoomInv
  OBVIOUS
<1>1. DOMAIN chatters = {}
  BY DEF Init
<1>2. Transcript = [c \in Connection |-> <<>>]
  BY InitRoom DEF TheRoom!Init, Transcript
<1> QED BY <1>1, <1>2 DEF RoomInv, Ordered, NoneGone

(* A post to members of the room, while the names stay.                     *)
LEMMA PushRoomInv ==
  ASSUME IInv, RoomInv, UNCHANGED chatters, NEW M \in SUBSET DOMAIN chatters, NEW f \in Frame,
         Posted(f) => M = DOMAIN chatters, \A n : f # Announcement("gone", n),
         Transcript' = TheRoom!Push(Transcript, M, f)
  PROVE  RoomInv'
<1>1. Transcript \in [Connection -> Seq(Frame)] /\ DOMAIN chatters \subseteq Connection
  BY TranscriptType
<1>2. \A c \in Connection \ DOMAIN chatters : Transcript'[c] = <<>>
  BY DEF RoomInv, TheRoom!Push
<1>3. Ordered(DOMAIN chatters, Transcript')
  BY <1>1, PushOrdered DEF RoomInv
<1>4. NoneGone(chatters, Transcript')
  BY <1>1, PushNoneGone DEF RoomInv
<1> QED BY <1>2, <1>3, <1>4 DEF RoomInv

LEMMA EnterRoomInv ==
  ASSUME IInv, RoomInv, NEW m \in Connection, TheRoom!Enter(m)
  PROVE  RoomInv'
<1>1. Transcript \in [Connection -> Seq(Frame)] /\ DOMAIN chatters \subseteq Connection
  BY TranscriptType
<1>2. /\ m \notin DOMAIN chatters /\ Transcript' = Transcript
      /\ chatters' = [d \in DOMAIN chatters \union {m} |-> IF d = m THEN "" ELSE chatters[d]]
  BY DEF TheRoom!Enter, Transcript
<1>3. Transcript[m] = <<>>
  BY <1>2 DEF RoomInv
<1>4. ASSUME NEW c \in DOMAIN chatters'
      PROVE  /\ SuffixOf(PostsIn(Transcript[m]), PostsIn(Transcript[c]))
             /\ \A d \in DOMAIN chatters' : chatters'[d] # "" => ~ToldGone(Transcript[c], chatters'[d])
  <2>1. SuffixOf(PostsIn(Transcript[m]), PostsIn(Transcript[c]))
    BY <1>1, <1>2, <1>3, PostsInType, PostsInEmpty, SuffixEmpty
  <2>2. ASSUME NEW d \in DOMAIN chatters', chatters'[d] # "" PROVE ~ToldGone(Transcript[c], chatters'[d])
    <3>1. d \in DOMAIN chatters /\ chatters'[d] = chatters[d]
      BY <1>2, <2>2
    <3>2. CASE c = m
      BY <1>3, <3>2, EmptyOrGone
    <3>3. CASE c # m
      BY <1>2, <2>2, <3>1, <3>3 DEF RoomInv, NoneGone
    <3> QED BY <3>2, <3>3
  <2> QED BY <2>1, <2>2
<1>5. Ordered(DOMAIN chatters', Transcript')
  BY <1>2, <1>4 DEF RoomInv, Ordered
<1>6. NoneGone(chatters', Transcript')
  BY <1>2, <1>4 DEF NoneGone
<1>7. \A c \in Connection \ DOMAIN chatters' : Transcript'[c] = <<>>
  BY <1>2 DEF RoomInv
<1> QED BY <1>5, <1>6, <1>7 DEF RoomInv

LEMMA TakeNameRoomInv ==
  ASSUME IInv, RoomInv, "malloc" \notin Failing,
         NEW m \in Connection, NEW n \in String, TheRoom!TakeName(m, n)
  PROVE  RoomInv'
<1> DEFINE replied == TheRoom!Push(Transcript, {m}, TheRoom!Result(n))
<1>1. Transcript \in [Connection -> Seq(Frame)] /\ DOMAIN chatters \subseteq Connection
  BY TranscriptType
<1>2. /\ m \in DOMAIN chatters /\ \A d \in DOMAIN chatters : chatters[d] # n
      /\ chatters' = [chatters EXCEPT ![m] = n]
  BY DEF TheRoom!TakeName
<1>3. Transcript' = TheRoom!Push(replied, DOMAIN chatters, TheRoom!Arrived(n))
  <2>1. \A S : S \ {} = S
    OBVIOUS
  <2> QED BY <2>1 DEF TheRoom!TakeName, TheRoom!Missed, Transcript
<1>4. TheRoom!Result(n) \in Frame /\ TheRoom!Arrived(n) \in Frame
  BY RoomFrames
<1>5. replied \in [Connection -> Seq(Frame)]
  BY <1>1, <1>4, PushType
<1>6. Ordered(DOMAIN chatters, replied) /\ NoneGone(chatters, replied)
  BY <1>1, <1>2, <1>4, Kinds, PushOrdered, PushNoneGone DEF RoomInv
<1> HIDE DEF replied
<1>7. Ordered(DOMAIN chatters, Transcript')
  BY <1>1, <1>3, <1>4, <1>5, <1>6, Kinds, PushOrdered
<1>8. NoneGone(chatters, Transcript')
  BY <1>1, <1>3, <1>4, <1>5, <1>6, Kinds, PushNoneGone
<1>9. ASSUME NEW c \in DOMAIN chatters PROVE ~ToldGone(Transcript'[c], n)
  <2>1. replied[c] \in Seq(Frame) /\ Transcript'[c] = Append(replied[c], TheRoom!Arrived(n))
    BY <1>1, <1>3, <1>5 DEF TheRoom!Push
  <2>2. TheRoom!Arrived(n) = Announcement("arrived", n)
    BY SameFrames
  <2> QED BY <1>4, <2>1, <2>2, Kinds, ToldGoneAppend
<1>10. NoneGone(chatters', Transcript')
  BY <1>2, <1>8, <1>9 DEF NoneGone
<1>11. ASSUME NEW c \in Connection \ DOMAIN chatters PROVE Transcript'[c] = <<>>
  BY <1>2, <1>3 DEF RoomInv, TheRoom!Push, replied
<1> QED BY <1>2, <1>7, <1>10, <1>11 DEF RoomInv

LEMMA LeaveRoomInv ==
  ASSUME IInv, RoomInv, "malloc" \notin Failing, NEW m \in Connection, TheRoom!Leave(m)
  PROVE  RoomInv'
<1> DEFINE told == TheRoom!Push(Transcript, DOMAIN chatters, TheRoom!Gone(chatters[m]))
           rest == [d \in DOMAIN chatters \ {m} |-> chatters[d]]
<1>1. Transcript \in [Connection -> Seq(Frame)] /\ DOMAIN chatters \subseteq Connection
  BY TranscriptType
<1>2. m \in DOMAIN chatters /\ chatters' = rest /\ chatters[m] \in String
  BY DEF TheRoom!Leave, IInv, Filled, TypeOK
<1>3. Transcript' = [told EXCEPT ![m] = <<>>]
  <2>1. \A S : S \ {} = S
    OBVIOUS
  <2> QED BY <2>1 DEF TheRoom!Leave, TheRoom!Missed, Transcript
<1>4. TheRoom!Gone(chatters[m]) \in Frame
  BY <1>2, RoomFrames
<1>5. told \in [Connection -> Seq(Frame)]
  BY <1>1, <1>4, PushType
<1>6. Ordered(DOMAIN chatters, told)
  BY <1>1, <1>4, PushOrdered DEF RoomInv
<1>7. NoneGone(rest, told)
  <2>1. NoneGone(rest, Transcript)
    BY DEF RoomInv, NoneGone
  <2>2. ASSUME NEW d \in DOMAIN rest, rest[d] # ""
        PROVE  TheRoom!Gone(chatters[m]) # Announcement("gone", rest[d])
    <3>1. d \in DOMAIN chatters /\ d # m /\ chatters[d] = rest[d]
      OBVIOUS
    <3>2. chatters[d] # chatters[m]
      BY <1>2, <2>2, <3>1 DEF IInv, NamesUnique
    <3> QED BY <3>1, <3>2, Kinds
  <2>3. DOMAIN rest \subseteq Connection
    BY <1>1
  <2> HIDE DEF rest
  <2> QED BY <1>1, <1>4, <2>1, <2>2, <2>3, PushNoneGone
<1>8. ASSUME NEW c \in DOMAIN rest PROVE Transcript'[c] = told[c]
  BY <1>1, <1>3, <1>5
<1>9. Ordered(DOMAIN chatters', Transcript')
  BY <1>2, <1>6, <1>8 DEF Ordered
<1>10. NoneGone(chatters', Transcript')
  BY <1>2, <1>7, <1>8 DEF NoneGone
<1>11. ASSUME NEW c \in Connection \ DOMAIN chatters' PROVE Transcript'[c] = <<>>
  <2>1. CASE c = m
    BY <1>3, <1>5, <2>1
  <2>2. CASE c # m
    BY <1>2, <1>3, <1>5, <2>2 DEF RoomInv, TheRoom!Push
  <2> QED BY <2>1, <2>2
<1> QED BY <1>9, <1>10, <1>11 DEF RoomInv

LEMMA NextRoomInv == "malloc" \notin Failing /\ IInv /\ RoomInv /\ [Next]_vars => RoomInv'
<1> SUFFICES ASSUME "malloc" \notin Failing, IInv, RoomInv, [Next]_vars
             PROVE  RoomInv'
  OBVIOUS
<1>1. TheRoom!Missed = {{}} /\ \A S : S \ {} = S
  BY DEF TheRoom!Missed
<1>2. CASE UNCHANGED TheRoom!roomVars
  BY <1>2 DEF TheRoom!roomVars, RoomInv, Transcript
<1>3. ASSUME NEW m \in Connection, NEW reason \in TheRoom!Reason, TheRoom!Refuse(m, reason)
      PROVE  RoomInv'
  <2>1. /\ m \in DOMAIN chatters /\ UNCHANGED chatters
        /\ Transcript' = TheRoom!Push(Transcript, {m}, TheRoom!Refusal(reason))
    BY <1>1, <1>3 DEF TheRoom!Refuse, Transcript
  <2>2. TheRoom!Refusal(reason) \in Frame /\ ~Posted(TheRoom!Refusal(reason))
    BY RoomFrames, Kinds
  <2>3. \A n : TheRoom!Refusal(reason) # Announcement("gone", n)
    BY Kinds
  <2> QED BY <2>1, <2>2, <2>3, PushRoomInv
<1>4. ASSUME NEW m \in Connection, NEW text \in String, TheRoom!Say(m, text)
      PROVE  RoomInv'
  <2>1. /\ m \in DOMAIN chatters /\ UNCHANGED chatters
        /\ Transcript' = TheRoom!Push(Transcript, DOMAIN chatters,
                                      TheRoom!Message(chatters[m], text))
    BY <1>1, <1>4 DEF TheRoom!Say, Transcript
  <2>2. TheRoom!Message(chatters[m], text) \in Frame
    BY <2>1, RoomFrames DEF IInv, Filled, TypeOK
  <2>3. \A n : TheRoom!Message(chatters[m], text) # Announcement("gone", n)
    BY Kinds
  <2> QED BY <2>1, <2>2, <2>3, PushRoomInv
<1>5. ASSUME NEW m \in Connection, TheRoom!Show(m) PROVE RoomInv'
  BY <1>5 DEF TheRoom!Show, RoomInv, Transcript
<1> QED BY <1>2, <1>3, <1>4, <1>5, NextRoom, EnterRoomInv, TakeNameRoomInv, LeaveRoomInv
        DEF TheRoom!Next

(* All chatters see one conversation, however many join, leave and write,   *)
(* if no message is dropped.                                                *)
THEOREM OneConversation == Spec => []OneOrder
<1>1. RoomInv /\ IInv => OneOrder
  BY DEF RoomInv, IInv, Filled, ChattersOpen, Ordered, OneOrder, Posts, Transcript, TypeOK
<1>2. CASE Failing = {}
  <2>1. "malloc" \notin Failing
    BY <1>2
  <2> QED BY <1>1, <2>1, InitIInv, NextIInv, InitRoomInv, NextRoomInv, PTL DEF Spec
<1>3. CASE Failing # {}
  <2>1. OneOrder
    BY <1>3 DEF OneOrder
  <2> QED BY <2>1, PTL
<1> QED BY <1>2, <1>3

(* Nobody who is there has been declared gone to anybody since arriving.    *)
THEOREM NobodyIsWronglyGone == Spec => []NobodyWronglyGone
<1>1. RoomInv /\ IInv => NobodyWronglyGone
  BY DEF RoomInv, IInv, Filled, NoneGone, NobodyWronglyGone, Transcript, TypeOK
<1>2. CASE Failing = {}
  <2>1. "malloc" \notin Failing
    BY <1>2
  <2> QED BY <1>1, <2>1, InitIInv, NextIInv, InitRoomInv, NextRoomInv, PTL DEF Spec
<1>3. CASE Failing # {}
  <2>1. NobodyWronglyGone
    BY <1>3 DEF NobodyWronglyGone
  <2> QED BY <2>1, PTL
<1> QED BY <1>2, <1>3

(* Every queue and every transcript has frames of the server's, and every   *)
(* name is a string.                                                        *)
THEOREM TypeCorrect == Spec => []TypeOK
<1>1. IInv => TypeOK
  BY DEF IInv, Filled
<1> QED BY <1>1, InitIInv, NextIInv, PTL DEF Spec
=============================================================================
