-------------------------- MODULE JrpcQueueProofs --------------------------
(* Proofs about JrpcQueue, for every set of connections, blocks and data. *)
EXTENDS JrpcQueue, TLAPS, SequenceTheorems

(* The inductive invariant: what the pointers spell out, and who owns what. *)
IInv == TypeOK /\ ListShape /\ Ownership

LEMMA TailFacts ==
  ASSUME NEW S, NEW s \in Seq(S), s # <<>>
  PROVE  /\ Tail(s) \in Seq(S)
         /\ Len(Tail(s)) = Len(s) - 1
         /\ \A i \in 1..Len(Tail(s)) : Tail(s)[i] = s[i+1]
         /\ Len(s) \in Nat \ {0}
         /\ s[1] \in S
  BY HeadTailProperties, EmptySeq, ElementOfSeq

(* Without its head, a chain is a chain, and next of the head points to it. *)
LEMMA TailChain ==
  ASSUME NEW s \in Seq(Message), s # <<>>, Chain(next, s)
  PROVE  /\ Chain(next, Tail(s))
         /\ next[s[1]] = FirstOf(Tail(s))
         /\ LastOf(Tail(s)) = IF next[s[1]] = NULL THEN NULL ELSE LastOf(s)
<1> DEFINE t == Tail(s)
<1>1. /\ t \in Seq(Message)
      /\ Len(t) = Len(s) - 1
      /\ \A i \in 1..Len(t) : t[i] = s[i+1]
      /\ Len(s) \in Nat \ {0}
      /\ t = <<>> <=> Len(t) = 0
  BY TailFacts, EmptySeq
<1> HIDE DEF t
<1>2. \A i \in 1..Len(s) : next[s[i]] = IF i = Len(s) THEN NULL ELSE s[i+1]
  BY DEF Chain
<1>3. Chain(next, t)
  <2> SUFFICES ASSUME NEW i \in 1..Len(t)
               PROVE  next[t[i]] = IF i = Len(t) THEN NULL ELSE t[i+1]
    BY DEF Chain
  <2>1. i + 1 \in 1..Len(s) /\ t[i] = s[i+1]
    BY <1>1
  <2>2. next[s[i+1]] = IF i + 1 = Len(s) THEN NULL ELSE s[(i+1)+1]
    BY <1>2, <2>1
  <2>3. i # Len(t) => i + 1 \in 1..Len(t) /\ t[i+1] = s[(i+1)+1]
    BY <1>1
  <2>4. i = Len(t) <=> i + 1 = Len(s)
    BY <1>1
  <2> QED BY <2>1, <2>2, <2>3, <2>4
<1>4. next[s[1]] = FirstOf(t)
  <2>1. 1 \in 1..Len(s)
    BY <1>1
  <2>2. CASE Len(s) = 1
    BY <1>1, <1>2, <2>1, <2>2 DEF FirstOf
  <2>3. CASE Len(s) # 1
    <3>1. t # <<>> /\ 1 \in 1..Len(t) /\ t[1] = s[1+1]
      BY <1>1, <2>3
    <3>2. next[s[1]] = s[1+1]
      BY <1>2, <2>1, <2>3
    <3> QED BY <3>1, <3>2 DEF FirstOf
  <2> QED BY <2>2, <2>3
<1>5. LastOf(t) = IF next[s[1]] = NULL THEN NULL ELSE LastOf(s)
  <2>1. CASE t = <<>>
    BY <1>4, <2>1 DEF FirstOf, LastOf
  <2>2. CASE t # <<>>
    <3>1. t[1] \in Message /\ t[1] # NULL /\ FirstOf(t) = t[1]
      BY <1>1, <2>2, NullAssumption, ElementOfSeq DEF FirstOf
    <3>2. Len(t) \in 1..Len(t) /\ Len(t) + 1 = Len(s)
      BY <1>1, <2>2
    <3>3. t[Len(t)] = s[Len(s)]
      BY <1>1, <3>2
    <3> QED BY <1>4, <2>2, <3>1, <3>3 DEF LastOf
  <2> QED BY <2>1, <2>2
<1> QED BY <1>3, <1>4, <1>5 DEF t

(* Ownership survives taking the head of a queue away and freeing it. *)
LEMMA RemovedHead ==
  ASSUME TypeOK, Ownership, NEW c \in live, items[c] # <<>>,
         items' = [items EXCEPT ![c] = Tail(@)],
         allocated' = allocated \ {items[c][1]}, live' = live
  PROVE  Ownership'
<1> DEFINE s == items[c]
<1>1. /\ s \in Seq(Message) /\ s # <<>> /\ c \in Connection
  BY DEF TypeOK
<1>2. /\ Tail(s) \in Seq(Message)
      /\ Len(Tail(s)) = Len(s) - 1
      /\ \A i \in 1..Len(Tail(s)) : Tail(s)[i] = s[i+1]
      /\ Len(s) \in Nat \ {0}
  BY <1>1, TailFacts
<1>3. /\ items'[c] = Tail(s)
      /\ \A d \in Connection : d # c => items'[d] = items[d]
  BY <1>1 DEF TypeOK
<1> DEFINE old(d, i) == IF d = c THEN i + 1 ELSE i
<1>4. ASSUME NEW d \in Connection, NEW i \in 1..Len(items'[d])
      PROVE  /\ old(d, i) \in 1..Len(items[d])
             /\ items'[d][i] = items[d][old(d, i)]
             /\ items'[d][i] # s[1]
  <2>0. /\ old(d, i) \in 1..Len(items[d])
        /\ items'[d][i] = items[d][old(d, i)]
        /\ d = c => old(d, i) # 1
    <3>1. CASE d = c
      <4>1. i \in 1..Len(Tail(s))
        BY <1>3, <3>1
      <4>2. i + 1 \in 1..Len(s) /\ Tail(s)[i] = s[i+1] /\ i + 1 # 1
        BY <1>2, <4>1
      <4> QED BY <1>3, <3>1, <4>2
    <3>2. CASE d # c
      BY <1>3, <3>2
    <3> QED BY <3>1, <3>2
  <2>1. 1 \in 1..Len(s)
    BY <1>2
  <2> QED BY <1>1, <2>0, <2>1 DEF Ownership
<1>5. \A d, e \in Connection : \A i \in 1..Len(items'[d]), j \in 1..Len(items'[e]) :
         items'[d][i] = items'[e][j] => d = e /\ i = j
  <2> SUFFICES ASSUME NEW d \in Connection, NEW e \in Connection,
                      NEW i \in 1..Len(items'[d]), NEW j \in 1..Len(items'[e]),
                      items'[d][i] = items'[e][j]
               PROVE  d = e /\ i = j
    OBVIOUS
  <2>1. d = e /\ old(d, i) = old(e, j)
    BY <1>4 DEF Ownership
  <2>2. i \in Int /\ j \in Int
    BY <1>1, <1>2, <1>3, LenProperties DEF TypeOK
  <2> QED BY <2>1, <2>2
<1>6. \A m \in allocated' : \E d \in live : \E i \in 1..Len(items'[d]) : m = items'[d][i]
  <2> SUFFICES ASSUME NEW m \in allocated, m # s[1]
               PROVE  \E d \in live : \E i \in 1..Len(items'[d]) : m = items'[d][i]
    OBVIOUS
  <2>1. PICK d \in live : \E i \in 1..Len(items[d]) : m = items[d][i]
    BY DEF Ownership
  <2>2. PICK i \in 1..Len(items[d]) : m = items[d][i]
    BY <2>1
  <2>3. CASE d = c
    <3>1. i # 1 /\ i - 1 \in 1..Len(Tail(s)) /\ Tail(s)[i-1] = s[(i-1)+1]
      BY <1>2, <2>2, <2>3
    <3>2. i - 1 \in 1..Len(items'[c]) /\ m = items'[c][i-1]
      <4>1. (i - 1) + 1 = i
        BY <1>2, <2>2, <2>3
      <4> QED BY <1>3, <2>2, <2>3, <3>1, <4>1
    <3> QED BY <3>2
  <2>4. CASE d # c
    BY <1>3, <2>2, <2>4 DEF TypeOK
  <2> QED BY <2>3, <2>4
<1>7. \A d \in Connection : \A i \in 1..Len(items'[d]) : items'[d][i] \in allocated'
  BY <1>4 DEF Ownership
<1>8. \A d \in Connection \ live' : items'[d] = <<>>
  BY <1>3 DEF Ownership
<1> QED BY <1>5, <1>6, <1>7, <1>8 DEF Ownership

LEMMA InitIInv == Init => IInv
  BY NullAssumption DEF Init, IInv, TypeOK, ListShape, Ownership, Pointer, NoFrame

LEMMA QueueInitIInv ==
  ASSUME IInv, NEW c \in Connection, QueueInit(c)
  PROVE  IInv'
<1> USE DEF IInv, QueueInit, QueueReset, cleanupVars
<1>1. TypeOK'
  BY DEF TypeOK, Pointer
<1>2. ListShape'
  <2>1. items[c] = <<>>
    BY DEF Ownership
  <2>2. Chain(next', <<>>) /\ FirstOf(<<>>) = NULL /\ LastOf(<<>>) = NULL
    BY DEF Chain, FirstOf, LastOf
  <2> QED BY <2>1, <2>2, NullAssumption DEF TypeOK, ListShape, Chain
<1>3. Ownership'
  BY DEF TypeOK, Ownership
<1> QED BY <1>1, <1>2, <1>3

(* A node that is in no queue, appended behind the last node of a chain. *)
LEMMA AppendChain ==
  ASSUME TypeOK, Ownership, NEW c \in live, Chain(next, items[c]),
         NEW m \in Message \ allocated,
         last[c] = LastOf(items[c]), first[c] = FirstOf(items[c]), QueueAppend(c, m)
  PROVE  /\ Chain(next', Append(items[c], m))
         /\ first'[c] = FirstOf(Append(items[c], m))
         /\ next' \in [Message -> Pointer] /\ first' \in [Connection -> Pointer]
         /\ \A d \in Connection : d # c /\ Chain(next, items[d]) => Chain(next', items[d])
<1> DEFINE s == items[c]
           t == Append(items[c], m)
<1>1. /\ c \in Connection /\ s \in Seq(Message) /\ m \in Message
      /\ Len(s) \in Nat /\ Len(t) = Len(s) + 1
      /\ \A i \in 1..Len(s) : t[i] = s[i] /\ s[i] \in Message /\ s[i] # m
      /\ t[Len(s) + 1] = m /\ t # <<>>
      /\ s = <<>> <=> Len(s) = 0
  BY AppendProperties, LenProperties, EmptySeq, ElementOfSeq DEF TypeOK, Ownership
<1>2. \A d \in Connection : \A i \in 1..Len(items[d]) :
        items[d][i] \in Message /\ items[d][i] # m
  BY ElementOfSeq DEF TypeOK, Ownership
<1>3. \A i, j \in 1..Len(s) : s[i] = s[j] => i = j
  BY <1>1 DEF Ownership
<1>4. \A d \in Connection : d # c => \A i \in 1..Len(items[d]), j \in 1..Len(s) :
        items[d][i] # s[j]
  BY <1>1 DEF Ownership
<1>5. CASE s = <<>>
  <2>1. /\ next' = [next EXCEPT ![m] = NULL]
        /\ first' = [first EXCEPT ![c] = m]
    BY <1>5 DEF QueueAppend, LastOf
  <2>2. next'[m] = NULL /\ \A n \in Message : n # m => next'[n] = next[n]
    BY <2>1, <1>1 DEF TypeOK
  <2>3. Chain(next', t)
    BY <1>1, <1>5, <2>2 DEF Chain
  <2>4. first'[c] = FirstOf(t)
    BY <1>1, <1>5, <2>1 DEF FirstOf, TypeOK
  <2>5. \A d \in Connection : Chain(next, items[d]) => Chain(next', items[d])
    BY <1>2, <2>2 DEF Chain
  <2> QED BY <2>1, <2>3, <2>4, <2>5 DEF TypeOK, Pointer
<1>6. CASE s # <<>>
  <2>1. /\ next' = [next EXCEPT ![m] = NULL, ![s[Len(s)]] = m]
        /\ first' = first
        /\ s[Len(s)] \in Message /\ s[Len(s)] # m
    BY <1>1, <1>6, NullAssumption DEF QueueAppend, LastOf
  <2>2. /\ next'[m] = NULL /\ next'[s[Len(s)]] = m
        /\ \A n \in Message : n # m /\ n # s[Len(s)] => next'[n] = next[n]
    BY <2>1, <1>1 DEF TypeOK
  <2>3. Chain(next', t)
    <3> SUFFICES ASSUME NEW i \in 1..Len(t)
                 PROVE  next'[t[i]] = IF i = Len(t) THEN NULL ELSE t[i+1]
      BY DEF Chain
    <3>1. CASE i = Len(s) + 1
      BY <1>1, <2>2, <3>1
    <3>2. CASE i = Len(s)
      BY <1>1, <2>2, <3>2
    <3>3. CASE i \in 1..Len(s) /\ i # Len(s)
      <4>1. i + 1 \in 1..Len(s) /\ t[i] = s[i] /\ t[i+1] = s[i+1] /\ i # Len(t)
        BY <1>1, <3>3
      <4>2. s[i] \in Message /\ s[i] # m /\ s[i] # s[Len(s)]
        BY <1>1, <1>3, <3>3
      <4>3. next[s[i]] = s[i+1]
        BY <3>3 DEF Chain
      <4> QED BY <2>2, <4>1, <4>2, <4>3
    <3> QED BY <1>1, <3>1, <3>2, <3>3
  <2>4. first'[c] = FirstOf(t)
    <3>1. t[1] = s[1]
      BY <1>1, <1>6
    <3> QED BY <1>1, <1>6, <2>1, <3>1 DEF FirstOf
  <2>5. \A d \in Connection : d # c /\ Chain(next, items[d]) => Chain(next', items[d])
    <3> SUFFICES ASSUME NEW d \in Connection, d # c, Chain(next, items[d])
                 PROVE  Chain(next', items[d])
      OBVIOUS
    <3>1. Len(s) \in 1..Len(s)
      BY <1>1, <1>6
    <3>2. \A i \in 1..Len(items[d]) : next'[items[d][i]] = next[items[d][i]]
      BY <1>2, <1>4, <2>2, <3>1
    <3> QED BY <3>2 DEF Chain
  <2> QED BY <2>1, <2>3, <2>4, <2>5 DEF TypeOK, Pointer
<1> QED BY <1>5, <1>6

(* Ownership survives appending a block that was free. *)
LEMMA AddedNode ==
  ASSUME TypeOK, Ownership, NEW c \in live, NEW m \in Message \ allocated,
         items' = [items EXCEPT ![c] = Append(@, m)],
         allocated' = allocated \union {m}, live' = live
  PROVE  Ownership'
<1> DEFINE s == items[c]
<1>1. /\ c \in Connection /\ s \in Seq(Message)
      /\ Len(s) \in Nat /\ Len(Append(s, m)) = Len(s) + 1
      /\ \A i \in 1..Len(s) : Append(s, m)[i] = s[i]
      /\ Append(s, m)[Len(s) + 1] = m
  BY AppendProperties, LenProperties DEF TypeOK
<1>2. /\ items'[c] = Append(s, m)
      /\ \A d \in Connection : d # c => items'[d] = items[d]
  BY <1>1 DEF TypeOK
<1>3. ASSUME NEW d \in Connection, NEW i \in 1..Len(items'[d])
      PROVE  \/ i \in 1..Len(items[d]) /\ items'[d][i] = items[d][i] /\ items[d][i] \in allocated
             \/ d = c /\ i = Len(s) + 1 /\ items'[d][i] = m
  <2>1. CASE d = c
    <3>1. i \in 1..Len(s) \/ i = Len(s) + 1
      BY <1>1, <1>2, <2>1
    <3> QED BY <1>1, <1>2, <2>1, <3>1 DEF Ownership
  <2>2. CASE d # c
    BY <1>2, <2>2 DEF Ownership
  <2> QED BY <2>1, <2>2
<1>4. \A d, e \in Connection : \A i \in 1..Len(items'[d]), j \in 1..Len(items'[e]) :
         items'[d][i] = items'[e][j] => d = e /\ i = j
  BY <1>3 DEF Ownership
<1>5. \A n \in allocated' : \E d \in live : \E i \in 1..Len(items'[d]) : n = items'[d][i]
  <2> SUFFICES ASSUME NEW n \in allocated \union {m}
               PROVE  \E d \in live : \E i \in 1..Len(items'[d]) : n = items'[d][i]
    OBVIOUS
  <2>1. CASE n = m
    <3>1. Len(s) + 1 \in 1..Len(items'[c]) /\ items'[c][Len(s) + 1] = m
      BY <1>1, <1>2
    <3> QED BY <2>1, <3>1
  <2>2. CASE n \in allocated
    <3>1. PICK d \in live : \E i \in 1..Len(items[d]) : n = items[d][i]
      BY <2>2 DEF Ownership
    <3>2. PICK i \in 1..Len(items[d]) : n = items[d][i]
      BY <3>1
    <3>3. CASE d = c
      <4>1. i \in 1..Len(items'[c]) /\ items'[c][i] = n
        BY <1>1, <1>2, <3>2, <3>3
      <4> QED BY <4>1
    <3>4. CASE d # c
      BY <1>2, <3>2, <3>4 DEF TypeOK
    <3> QED BY <3>3, <3>4
  <2> QED BY <2>1, <2>2
<1>6. \A d \in Connection : \A i \in 1..Len(items'[d]) : items'[d][i] \in allocated'
  BY <1>3
<1>7. \A d \in Connection \ live' : items'[d] = <<>>
  BY <1>2 DEF Ownership
<1> QED BY <1>4, <1>5, <1>6, <1>7 DEF Ownership

LEMMA SendIInv ==
  ASSUME IInv, NEW c \in Connection, NEW d \in Data, Send(c, d)
  PROVE  IInv'
<1>1. PICK m \in Malloc :
        \/ /\ m # NULL
           /\ allocated' = allocated \union {m}
           /\ data' = [data EXCEPT ![m] = d]
           /\ QueueAppend(c, m)
           /\ items' = [items EXCEPT ![c] = Append(@, m)]
           /\ UNCHANGED <<live, cleanupVars, wire>>
        \/ m = NULL /\ UNCHANGED vars
  BY Zenon DEF Send
<1>2. CASE UNCHANGED vars
  BY <1>2 DEF IInv, TypeOK, ListShape, Ownership, vars
<1>3. CASE /\ m # NULL
           /\ allocated' = allocated \union {m}
           /\ data' = [data EXCEPT ![m] = d]
           /\ QueueAppend(c, m)
           /\ items' = [items EXCEPT ![c] = Append(@, m)]
           /\ UNCHANGED <<live, cleanupVars, wire>>
  <2> USE <1>3 DEF cleanupVars
  <2>1. /\ c \in live /\ cleaning = NULL /\ c # NULL
        /\ m \in Message \ allocated
        /\ items[c] \in Seq(Message)
        /\ Chain(next, items[c])
        /\ first[c] = FirstOf(items[c]) /\ last[c] = LastOf(items[c])
    BY NullAssumption DEF IInv, Send, Usable, Malloc, ListShape, TypeOK
  <2>2. /\ Chain(next', Append(items[c], m))
        /\ first'[c] = FirstOf(Append(items[c], m))
        /\ next' \in [Message -> Pointer] /\ first' \in [Connection -> Pointer]
        /\ \A e \in Connection : e # c /\ Chain(next, items[e]) => Chain(next', items[e])
    BY <2>1, AppendChain DEF IInv
  <2>3. /\ Append(items[c], m) \in Seq(Message)
        /\ LastOf(Append(items[c], m)) = m
    BY <2>1, AppendProperties, LenProperties DEF LastOf
  <2>4. last' = [last EXCEPT ![c] = m]
    BY DEF QueueAppend
  <2>5. \A e \in Connection : e # c => first'[e] = first[e] /\ last'[e] = last[e]
    BY <2>4 DEF QueueAppend, IInv, TypeOK
  <2>6. TypeOK'
    BY <2>1, <2>2, <2>3, <2>4 DEF IInv, TypeOK, Pointer
  <2>7. ListShape'
    <3> SUFFICES ASSUME NEW e \in live
                 PROVE  /\ Chain(next', items'[e])
                        /\ first'[e] = FirstOf(items'[e]) /\ last'[e] = LastOf(items'[e])
      BY <2>1, NullAssumption DEF ListShape, IInv, TypeOK
    <3>1. CASE e = c
      BY <2>1, <2>2, <2>3, <2>4, <3>1 DEF IInv, TypeOK
    <3>2. CASE e # c
      <4>1. items'[e] = items[e] /\ e \in Connection
        BY <3>2 DEF IInv, TypeOK
      <4>2. Chain(next, items[e]) /\ first[e] = FirstOf(items[e]) /\ last[e] = LastOf(items[e])
        BY <2>1, NullAssumption DEF IInv, ListShape, TypeOK
      <4> QED BY <2>2, <2>5, <3>2, <4>1, <4>2
    <3> QED BY <3>1, <3>2
  <2>8. Ownership'
    BY <2>1, AddedNode DEF IInv
  <2> QED BY <2>6, <2>7, <2>8 DEF IInv
<1> QED BY <1>1, <1>2, <1>3

LEMMA TransmitIInv ==
  ASSUME IInv, NEW c \in Connection, Transmit(c)
  PROVE  IInv'
<1> USE DEF IInv, Transmit, Usable, QueueDequeue, cleanupVars
<1> DEFINE s == items[c]
<1>1. /\ c \in live /\ cleaning = NULL /\ c # NULL
      /\ s \in Seq(Message)
      /\ Chain(next, s)
      /\ s # <<>>
      /\ first[c] = s[1] /\ last[c] = LastOf(s)
  BY NullAssumption DEF TypeOK, ListShape, FirstOf
<1>2. /\ s[1] \in Message
      /\ Tail(s) \in Seq(Message)
      /\ Chain(next, Tail(s))
      /\ next[s[1]] = FirstOf(Tail(s))
      /\ LastOf(Tail(s)) = IF next[s[1]] = NULL THEN NULL ELSE LastOf(s)
  BY <1>1, TailFacts, TailChain
<1>3. TypeOK'
  BY <1>1, <1>2 DEF TypeOK, Pointer
<1>4. ListShape'
  <2> SUFFICES ASSUME NEW d \in live
               PROVE  /\ Chain(next', items'[d])
                      /\ first'[d] = FirstOf(items'[d]) /\ last'[d] = LastOf(items'[d])
    BY <1>1, NullAssumption DEF ListShape, Chain, TypeOK
  <2>1. CASE d = c
    BY <1>1, <1>2, <2>1 DEF TypeOK
  <2>2. CASE d # c
    BY <1>1, <2>2, NullAssumption DEF TypeOK, ListShape
  <2> QED BY <2>1, <2>2
<1>5. Ownership'
  BY <1>1, RemovedHead
<1> QED BY <1>3, <1>4, <1>5

LEMMA CleanupBeginIInv ==
  ASSUME IInv, NEW c \in Connection, CleanupBegin(c)
  PROVE  IInv'
<1> USE DEF IInv, CleanupBegin, Usable, queueVars
<1>1. TypeOK'
  BY DEF TypeOK
<1>2. ListShape'
  BY NullAssumption DEF TypeOK, ListShape, Chain
<1>3. Ownership'
  BY DEF TypeOK, Ownership
<1> QED BY <1>1, <1>2, <1>3

LEMMA CleanupStepIInv ==
  ASSUME IInv, CleanupStep
  PROVE  IInv'
<1> USE DEF IInv, CleanupStep, queueVars
<1> DEFINE s == items[cleaning]
<1>1. /\ cleaning \in live /\ cleaning \in Connection
      /\ s \in Seq(Message)
      /\ Chain(next, s)
      /\ s # <<>>
      /\ cursor = s[1]
  BY DEF TypeOK, ListShape, FirstOf
<1>2. /\ Tail(s) \in Seq(Message)
      /\ Chain(next, Tail(s))
      /\ next[s[1]] = FirstOf(Tail(s))
  BY <1>1, TailFacts, TailChain
<1>3. TypeOK'
  BY <1>1, <1>2 DEF TypeOK, Pointer
<1>4. ListShape'
  <2> SUFFICES ASSUME NEW d \in live
               PROVE  /\ Chain(next', items'[d])
                      /\ IF cleaning = d THEN cursor' = FirstOf(items'[d])
                         ELSE first[d] = FirstOf(items'[d]) /\ last[d] = LastOf(items'[d])
    BY DEF ListShape, Chain
  <2>1. items'[d] = IF d = cleaning THEN Tail(s) ELSE items[d]
    BY DEF TypeOK
  <2> QED BY <1>1, <1>2, <2>1 DEF ListShape
<1>5. Ownership'
  BY <1>1, RemovedHead
<1> QED BY <1>3, <1>4, <1>5

LEMMA CleanupEndIInv ==
  ASSUME IInv, CleanupEnd
  PROVE  IInv'
<1> USE DEF IInv, CleanupEnd, QueueReset
<1>1. items[cleaning] = <<>> /\ cleaning \in Connection
  BY NullAssumption, ElementOfSeq, EmptySeq DEF TypeOK, ListShape, FirstOf
<1>2. TypeOK'
  BY DEF TypeOK, Pointer
<1>3. ListShape'
  <2> SUFFICES ASSUME NEW d \in live \ {cleaning}
               PROVE  /\ Chain(next, items[d])
                      /\ first'[d] = FirstOf(items[d]) /\ last'[d] = LastOf(items[d])
    BY <1>2, NullAssumption DEF ListShape, Chain, TypeOK
  <2>1. first'[d] = first[d] /\ last'[d] = last[d]
    BY <1>1 DEF TypeOK
  <2> QED BY <2>1 DEF ListShape
<1>4. Ownership'
  <2>1. 1..Len(items[cleaning]) = {}
    BY <1>1
  <2>2. \A m \in allocated : \E c \in live \ {cleaning} :
          \E i \in 1..Len(items[c]) : m = items[c][i]
    BY <2>1 DEF Ownership
  <2> QED BY <1>1, <2>2 DEF Ownership
<1> QED BY <1>2, <1>3, <1>4
-----------------------------------------------------------------------------
LEMMA NextIInv == IInv /\ [Next]_vars => IInv'
<1> SUFFICES ASSUME IInv, [Next]_vars PROVE IInv'
  OBVIOUS
<1>1. ASSUME NEW c \in Connection, QueueInit(c) PROVE IInv'
  BY <1>1, QueueInitIInv
<1>2. ASSUME NEW c \in Connection, NEW d \in Data, Send(c, d) PROVE IInv'
  BY <1>2, SendIInv
<1>3. ASSUME NEW c \in Connection, Transmit(c) PROVE IInv'
  BY <1>3, TransmitIInv
<1>4. ASSUME NEW c \in Connection, CleanupBegin(c) PROVE IInv'
  BY <1>4, CleanupBeginIInv
<1>5. CASE CleanupStep
  BY <1>5, CleanupStepIInv
<1>6. CASE CleanupEnd
  BY <1>6, CleanupEndIInv
<1>7. CASE UNCHANGED vars
  BY <1>7 DEF vars, queueVars, cleanupVars, IInv, TypeOK, ListShape, Chain, Ownership
<1> QED BY <1>1, <1>2, <1>3, <1>4, <1>5, <1>6, <1>7 DEF Next

(* IInv holds in every state: the heap and the lists of queue.c are always  *)
(* in the state that the code of the next operation takes for granted.      *)
THEOREM Inductive == Spec => []IInv
<1>1. Init => IInv
  BY InitIInv
<1>2. IInv /\ [Next]_vars => IInv'
  BY NextIInv
<1> QED BY <1>1, <1>2, PTL DEF Spec

(* Every variable keeps its type, for any number of connections and blocks. *)
THEOREM TypeCorrect == Spec => []TypeOK
<1>1. IInv => TypeOK
  BY DEF IInv
<1> QED BY <1>1, Inductive, PTL

(* The pointers of every live queue always spell out what was appended and  *)
(* not yet removed, in order, whatever malloc returned.                     *)
THEOREM ListsWellFormed == Spec => []ListShape
<1>1. IInv => ListShape
  BY DEF IInv
<1> QED BY <1>1, Inductive, PTL

(* No message is in two places, so none is freed twice, and none is leaked  *)
(* by closing its connection.                                               *)
THEOREM EachBlockOwnedOnce == Spec => []Ownership
<1>1. IInv => Ownership
  BY DEF IInv
<1> QED BY <1>1, Inductive, PTL

LEMMA ShapeIsSafe ==
  ASSUME IInv
  PROVE  NoDanglingPointers
<1> USE DEF IInv
<1>1. ASSUME NEW c \in Connection
      PROVE  /\ items[c] \in Seq(Message)
             /\ Len(items[c]) \in Nat
             /\ items[c] # <<>> => 1 \in 1..Len(items[c]) /\ Len(items[c]) \in 1..Len(items[c])
             /\ \A i \in 1..Len(items[c]) : items[c][i] \in allocated
  BY <1>1, EmptySeq, LenProperties DEF TypeOK, Ownership
<1>2. ASSUME NEW c \in Connection
      PROVE  {FirstOf(items[c]), LastOf(items[c])} \subseteq allocated \union {NULL}
  BY <1>1, <1>2 DEF FirstOf, LastOf
<1>3. \A c \in live \ {cleaning} : {first[c], last[c]} \subseteq allocated \union {NULL}
  BY <1>2 DEF TypeOK, ListShape
<1>4. cleaning # NULL => cursor \in allocated \union {NULL}
  BY <1>2 DEF TypeOK, ListShape
<1>5. \A m \in allocated : next[m] \in allocated \union {NULL}
  <2> SUFFICES ASSUME NEW m \in allocated
               PROVE  next[m] \in allocated \union {NULL}
    OBVIOUS
  <2>1. PICK c \in live : \E i \in 1..Len(items[c]) : m = items[c][i]
    BY DEF Ownership
  <2>2. PICK i \in 1..Len(items[c]) : m = items[c][i]
    BY <2>1
  <2>3. c \in Connection
    BY DEF TypeOK
  <2>4. i # Len(items[c]) => i + 1 \in 1..Len(items[c])
    BY <1>1, <2>3
  <2>5. next[m] = IF i = Len(items[c]) THEN NULL ELSE items[c][i+1]
    BY <2>2 DEF ListShape, Chain
  <2> QED BY <1>1, <2>3, <2>4, <2>5
<1> QED BY <1>3, <1>4, <1>5 DEF NoDanglingPointers

(* queue.c never follows or frees a pointer to memory that is not allocated. *)
THEOREM MemorySafe == Spec => []NoDanglingPointers
<1>1. IInv => NoDanglingPointers
  BY ShapeIsSafe
<1> QED BY <1>1, Inductive, PTL
-----------------------------------------------------------------------------
(* The frames that the nodes s hold, g being the data of all blocks.         *)
Frames(s, g) == [i \in 1..Len(s) |-> g[s[i]]]

LEMMA FunctionIsSeq ==
  ASSUME NEW S, NEW n \in Nat, NEW f \in [1..n -> S]
  PROVE  f \in Seq(S) /\ Len(f) = n /\ DOMAIN f = 1..n
  OBVIOUS

LEMMA FramesIsSeq ==
  ASSUME NEW s \in Seq(Message), NEW g \in [Message -> Data]
  PROVE  /\ Frames(s, g) \in Seq(Data)
         /\ Len(Frames(s, g)) = Len(s)
         /\ \A i \in 1..Len(s) : Frames(s, g)[i] = g[s[i]]
<1>1. Len(s) \in Nat /\ \A i \in 1..Len(s) : s[i] \in Message
  BY LenProperties, ElementOfSeq
<1>2. Frames(s, g) \in [1..Len(s) -> Data]
  BY <1>1 DEF Frames
<1> QED BY <1>1, <1>2, FunctionIsSeq DEF Frames

LEMMA FramesAppend ==
  ASSUME NEW s \in Seq(Message), NEW g \in [Message -> Data], NEW m \in Message
  PROVE  Frames(Append(s, m), g) = Append(Frames(s, g), g[m])
<1> DEFINE l == Frames(Append(s, m), g)
           r == Append(Frames(s, g), g[m])
<1>1. /\ Append(s, m) \in Seq(Message)
      /\ Len(s) \in Nat
      /\ Len(Append(s, m)) = Len(s) + 1
      /\ \A i \in 1..Len(s) : Append(s, m)[i] = s[i]
      /\ Append(s, m)[Len(s) + 1] = m
  BY AppendProperties, LenProperties
<1>2. /\ Frames(s, g) \in Seq(Data)
      /\ Len(Frames(s, g)) = Len(s)
      /\ \A i \in 1..Len(s) : Frames(s, g)[i] = g[s[i]]
  BY FramesIsSeq
<1>3. /\ r \in Seq(Data)
      /\ Len(r) = Len(s) + 1
      /\ \A i \in 1..Len(s) : r[i] = Frames(s, g)[i]
      /\ r[Len(s) + 1] = g[m]
  BY <1>2, AppendProperties
<1>4. /\ l \in Seq(Data)
      /\ Len(l) = Len(s) + 1
      /\ \A i \in 1..(Len(s) + 1) : l[i] = g[Append(s, m)[i]]
  BY <1>1, FramesIsSeq
<1>5. \A i \in 1..Len(l) : l[i] = r[i]
  <2> SUFFICES ASSUME NEW i \in 1..(Len(s) + 1) PROVE l[i] = r[i]
    BY <1>4
  <2> HIDE DEF l, r
  <2>1. i \in 1..Len(s) \/ i = Len(s) + 1
    BY <1>1
  <2> QED BY <1>1, <1>2, <1>3, <1>4, <2>1
<1> HIDE DEF l, r
<1>6. l = r
  BY <1>3, <1>4, <1>5, SeqEqual
<1> QED BY <1>6 DEF l, r

LEMMA FramesTail ==
  ASSUME NEW s \in Seq(Message), s # <<>>, NEW g \in [Message -> Data]
  PROVE  /\ Frames(s, g) # <<>>
         /\ Head(Frames(s, g)) = g[s[1]]
         /\ Frames(Tail(s), g) = Tail(Frames(s, g))
<1> DEFINE f == Frames(s, g)
           l == Frames(Tail(s), g)
           r == Tail(Frames(s, g))
<1>1. /\ Tail(s) \in Seq(Message)
      /\ Len(Tail(s)) = Len(s) - 1
      /\ \A i \in 1..Len(Tail(s)) : Tail(s)[i] = s[i+1]
      /\ Len(s) \in Nat \ {0}
  BY TailFacts
<1>2. /\ f \in Seq(Data)
      /\ Len(f) = Len(s)
      /\ \A i \in 1..Len(s) : f[i] = g[s[i]]
  BY FramesIsSeq
<1>3. f # <<>>
  BY <1>1, <1>2, EmptySeq
<1>4. /\ r \in Seq(Data)
      /\ Len(r) = Len(s) - 1
      /\ \A i \in 1..Len(r) : r[i] = f[i+1]
  BY <1>2, <1>3, TailFacts
<1>5. /\ l \in Seq(Data)
      /\ Len(l) = Len(s) - 1
      /\ \A i \in 1..Len(Tail(s)) : l[i] = g[Tail(s)[i]]
  BY <1>1, FramesIsSeq
<1>6. Head(f) = f[1]
  BY <1>2, <1>3
<1> HIDE DEF f, l, r
<1>7. \A i \in 1..Len(l) : l[i] = r[i]
  BY <1>1, <1>2, <1>4, <1>5
<1>8. l = r
  BY <1>4, <1>5, <1>7, SeqEqual
<1>9. Head(f) = g[s[1]]
  BY <1>1, <1>2, <1>6
<1> QED BY <1>3, <1>8, <1>9 DEF f, l, r
-----------------------------------------------------------------------------
(* The abstract contents of the queue of connection c. *)
Contents(c) == IF cleaning = c THEN <<>> ELSE Frames(items[c], data)

LEMMA InitRefines == Init => Fifo!Init
<1> SUFFICES ASSUME Init PROVE Fifo!Init
  OBVIOUS
<1>1. ASSUME NEW c \in Connection
      PROVE  (IF cleaning = c THEN <<>>
              ELSE [i \in 1..Len(items[c]) |-> data[items[c][i]]]) = <<>>
  BY <1>1 DEF Init
<1>2. live \ {cleaning} = {} /\ wire = Fifo!NoFrame
  BY DEF Init, NoFrame, Fifo!NoFrame
<1> QED BY <1>1, <1>2 DEF Fifo!Init

(* A free block that is filled changes no frame of a queue; so only the     *)
(* queue that is sent to changes, by one frame at its end.                  *)
LEMMA SendRefines ==
  ASSUME IInv, NEW c \in Connection, NEW d \in Data, Send(c, d)
  PROVE  Fifo!Enqueue(c, d) \/ UNCHANGED Fifo!fifoVars
<1> USE DEF IInv
<1>0. cleaning = NULL /\ c \in live /\ \A e \in Connection : e # NULL
  BY NullAssumption DEF Send, Usable
<1>1. PICK message \in Malloc :
       \/ /\ message # NULL
          /\ data' = [data EXCEPT ![message] = d]
          /\ items' = [items EXCEPT ![c] = Append(@, message)]
          /\ UNCHANGED <<live, cleaning, wire>>
       \/ UNCHANGED vars
  BY DEF Send, cleanupVars
<1>2. CASE UNCHANGED vars
  BY <1>2 DEF vars, cleanupVars, queueVars, Fifo!fifoVars
<1>3. CASE /\ message # NULL
           /\ data' = [data EXCEPT ![message] = d]
           /\ items' = [items EXCEPT ![c] = Append(@, message)]
           /\ UNCHANGED <<live, cleaning, wire>>
  <2>1. message \in Message /\ message \notin allocated
    BY <1>3 DEF Malloc
  <2>2. data' \in [Message -> Data] /\ data'[message] = d
    BY <1>3, <2>1 DEF TypeOK
  <2>3. ASSUME NEW e \in Connection
        PROVE  Frames(items[e], data') = Frames(items[e], data)
    BY <1>3, <2>1, <2>3, ElementOfSeq DEF Frames, TypeOK, Ownership
  <2>4. Frames(items'[c], data') = Append(Frames(items[c], data), d)
    <3>1. items[c] \in Seq(Message) /\ items'[c] = Append(items[c], message)
      BY <1>3 DEF TypeOK
    <3>2. Frames(Append(items[c], message), data') = Append(Frames(items[c], data'), d)
      BY <2>1, <2>2, <3>1, FramesAppend
    <3> QED BY <2>3, <3>1, <3>2
  <2>5. \A e \in Connection : e # c => items'[e] = items[e]
    BY <1>3 DEF TypeOK
  <2>6. [e \in Connection |-> IF cleaning' = e THEN <<>> ELSE Frames(items'[e], data')]
        = [[e \in Connection |-> Contents(e)] EXCEPT ![c] = Append(@, d)]
    BY <1>0, <1>3, <2>3, <2>4, <2>5 DEF Contents
  <2>7. live' \ {cleaning'} = live \ {cleaning} /\ c \in live \ {cleaning}
    BY <1>0, <1>3
  <2> QED BY <1>3, <2>6, <2>7 DEF Contents, Frames, Fifo!Enqueue
<1> QED BY <1>1, <1>2, <1>3

LEMMA QueueInitRefines ==
  ASSUME IInv, NEW c \in Connection, QueueInit(c)
  PROVE  Fifo!Open(c)
<1> USE DEF IInv
<1>1. cleaning = NULL /\ c \notin live /\ \A e \in Connection : e # NULL
  BY NullAssumption DEF QueueInit
<1>2. items[c] = <<>>
  BY <1>1 DEF Ownership
<1>3. Contents(c) = <<>>
  BY <1>1, <1>2 DEF Contents, Frames
<1>4. /\ live' = live \union {c} /\ cleaning' = NULL
      /\ items' = items /\ data' = data /\ wire' = wire
  BY <1>1 DEF QueueInit, cleanupVars
<1>5. [e \in Connection |-> IF cleaning' = e THEN <<>> ELSE Frames(items'[e], data')]
      = [[e \in Connection |-> Contents(e)] EXCEPT ![c] = <<>>]
  BY <1>1, <1>3, <1>4 DEF Contents
<1>6. /\ live' \ {cleaning'} = (live \ {cleaning}) \union {c}
      /\ c \notin live \ {cleaning}
  BY <1>1, <1>4
<1> QED BY <1>4, <1>5, <1>6 DEF Contents, Frames, Fifo!Open

LEMMA TransmitRefines ==
  ASSUME IInv, NEW c \in Connection, Transmit(c)
  PROVE  Fifo!Deliver(c)
<1> USE DEF IInv
<1>1. cleaning = NULL /\ c \in live /\ \A e \in Connection : e # NULL
  BY NullAssumption DEF Transmit, Usable
<1>2. /\ live' = live /\ cleaning' = NULL /\ data' = data
      /\ items' = [items EXCEPT ![c] = Tail(@)]
      /\ wire' = <<c, data[first[c]]>>
  BY <1>1 DEF Transmit, cleanupVars
<1>3. items[c] \in Seq(Message) /\ data \in [Message -> Data]
  BY DEF TypeOK
<1>4. items[c] # <<>> /\ first[c] = items[c][1]
  BY <1>1 DEF Transmit, ListShape, FirstOf
<1>5. /\ Contents(c) # <<>>
      /\ Head(Contents(c)) = data[first[c]]
      /\ Frames(Tail(items[c]), data) = Tail(Contents(c))
  BY <1>1, <1>3, <1>4, FramesTail DEF Contents
<1>6. [e \in Connection |-> IF cleaning' = e THEN <<>> ELSE Frames(items'[e], data')]
      = [[e \in Connection |-> Contents(e)] EXCEPT ![c] = Tail(@)]
  <2>1. items'[c] = Tail(items[c]) /\ \A e \in Connection : e # c => items'[e] = items[e]
    BY <1>2 DEF TypeOK
  <2>2. Frames(items'[c], data') = Tail(Contents(c))
    BY <1>2, <1>5, <2>1
  <2>3. \A e \in Connection : cleaning' # e /\ cleaning # e
    BY <1>1, <1>2
  <2>4. \A e \in Connection : e # c => Frames(items'[e], data') = Contents(e)
    BY <1>2, <2>1, <2>3 DEF Contents
  <2> QED BY <2>2, <2>3, <2>4
<1>7. live' \ {cleaning'} = live \ {cleaning} /\ c \in live \ {cleaning}
  BY <1>1, <1>2
<1> QED BY <1>2, <1>5, <1>6, <1>7 DEF Contents, Frames, Fifo!Deliver

LEMMA CleanupBeginRefines ==
  ASSUME IInv, NEW c \in Connection, CleanupBegin(c)
  PROVE  Fifo!Close(c)
<1> USE DEF IInv
<1>1. cleaning = NULL /\ c \in live /\ \A e \in Connection : e # NULL
  BY NullAssumption DEF CleanupBegin, Usable
<1>2. /\ live' = live /\ cleaning' = c /\ data' = data /\ items' = items /\ wire' = wire
  BY DEF CleanupBegin
<1>3. [e \in Connection |-> IF cleaning' = e THEN <<>> ELSE Frames(items'[e], data')]
      = [[e \in Connection |-> Contents(e)] EXCEPT ![c] = <<>>]
  BY <1>1, <1>2 DEF Contents
<1>4. /\ live' \ {cleaning'} = (live \ {cleaning}) \ {c}
      /\ c \in live \ {cleaning}
  BY <1>1, <1>2, NullAssumption DEF TypeOK
<1> QED BY <1>2, <1>3, <1>4 DEF Contents, Frames, Fifo!Close

LEMMA CleanupStepRefines ==
  ASSUME IInv, CleanupStep
  PROVE  UNCHANGED Fifo!fifoVars
<1> USE DEF IInv
<1>1. /\ live' = live /\ cleaning' = cleaning /\ data' = data /\ wire' = wire
      /\ items' = [items EXCEPT ![cleaning] = Tail(@)]
  BY DEF CleanupStep
<1>2. [e \in Connection |-> IF cleaning' = e THEN <<>> ELSE Frames(items'[e], data')]
      = [e \in Connection |-> Contents(e)]
  BY <1>1 DEF Contents, TypeOK
<1> QED BY <1>1, <1>2 DEF Contents, Frames, Fifo!fifoVars

LEMMA CleanupEndRefines ==
  ASSUME IInv, CleanupEnd
  PROVE  UNCHANGED Fifo!fifoVars
<1> USE DEF IInv
<1>1. /\ cleaning # NULL /\ cleaning' = NULL /\ live' = live \ {cleaning}
      /\ data' = data /\ wire' = wire /\ items' = items
  BY DEF CleanupEnd
<1>2. items[cleaning] = <<>> /\ \A e \in Connection : e # NULL
  BY NullAssumption, ElementOfSeq, EmptySeq DEF CleanupEnd, TypeOK, ListShape, FirstOf
<1>3. Frames(items[cleaning], data) = <<>>
  BY <1>2 DEF Frames
<1>4. [e \in Connection |-> IF cleaning' = e THEN <<>> ELSE Frames(items'[e], data')]
      = [e \in Connection |-> Contents(e)]
  BY <1>1, <1>2, <1>3 DEF Contents
<1>5. live' \ {cleaning'} = live \ {cleaning}
  BY <1>1, NullAssumption DEF TypeOK
<1> QED BY <1>1, <1>4, <1>5 DEF Contents, Frames, Fifo!fifoVars

LEMMA NextRefines ==
  ASSUME IInv, [Next]_vars
  PROVE  [Fifo!Next]_(Fifo!fifoVars)
<1>1. ASSUME NEW c \in Connection, QueueInit(c) PROVE Fifo!Next
  BY <1>1, QueueInitRefines DEF Fifo!Next
<1>2. ASSUME NEW c \in Connection, NEW d \in Data, Send(c, d)
      PROVE  Fifo!Next \/ UNCHANGED Fifo!fifoVars
  BY <1>2, SendRefines DEF Fifo!Next
<1>3. ASSUME NEW c \in Connection, Transmit(c) PROVE Fifo!Next
  BY <1>3, TransmitRefines DEF Fifo!Next
<1>4. ASSUME NEW c \in Connection, CleanupBegin(c) PROVE Fifo!Next
  BY <1>4, CleanupBeginRefines DEF Fifo!Next
<1>5. CASE CleanupStep
  BY <1>5, CleanupStepRefines
<1>6. CASE CleanupEnd
  BY <1>6, CleanupEndRefines
<1>7. CASE UNCHANGED vars
  BY <1>7 DEF vars, queueVars, cleanupVars, Fifo!fifoVars
<1> QED BY <1>1, <1>2, <1>3, <1>4, <1>5, <1>6, <1>7 DEF Next

(* queue.c and message.c implement one first-in first-out channel for each  *)
(* connection: whatever malloc returns and whichever connections open and   *)
(* close, the frames written on a connection are the oldest ones sent to it *)
(* and not yet written, and a block that is used again disturbs no frame.   *)
THEOREM ImplementsFifo == Spec => FifoSpec
<1>1. Init => Fifo!Init
  BY InitRefines
<1>2. IInv /\ [Next]_vars => [Fifo!Next]_(Fifo!fifoVars)
  BY NextRefines
<1> QED BY <1>1, <1>2, Inductive, PTL DEF Spec, FifoSpec, Fifo!Spec
=============================================================================
