-------------------------- MODULE JrpcMessageProofs --------------------------
(***************************************************************************)
(* The frames that jrpc_respond, jrpc_respond_error and jrpc_notify make,  *)
(* whatever the arguments are and whichever calls fail.                    *)
(***************************************************************************)
EXTENDS JrpcMessage, Integers, TLAPS

Operation ==
  [into : {"frame", "error_holder"},
   key : {"", "result", "id", "code", "message", "error", "method", "params"},
   from : {"json_object", "integer", "string", "param", "error_holder"}]

Calls == DOMAIN Code
Members(c) == {i \in DOMAIN c : c[i].from # "json_object"}

(* What the functions have in common.                                       *)
LEMMA CodeType ==
  \A f \in Calls : /\ Code[f] \in Seq(Operation)
                   /\ DOMAIN Code[f] = 1..Len(Code[f])
<1>1. Calls = {"jrpc_respond", "jrpc_respond_error", "jrpc_notify"}
  BY DEF Calls, Code
<1>2. RespondCalls \in Seq(Operation) /\ NotifyCalls \in Seq(Operation)
  BY DEF RespondCalls, NotifyCalls, Operation, JsonObject, SetNew
<1>3. ErrorCalls \in Seq(Operation)
  BY DEF ErrorCalls, Operation, JsonObject, SetNew
<1> QED BY <1>1, <1>2, <1>3 DEF Code

(* What an object is made for is given to another one later, but for the    *)
(* frame, and is complete by then.                                          *)
HandsOver(c) ==
  /\ \A i \in DOMAIN c :
       c[i].from = "json_object" /\ c[i].into # "frame" =>
         \E j \in DOMAIN c : i < j /\ c[j].from = c[i].into
  /\ \A i, j \in DOMAIN c : c[i].from = "error_holder" /\ i <= j => c[j].into = "frame"

(* An object is made before it is used, and each of its members set once.   *)
SetsOnce(c) ==
  /\ \A i, j \in DOMAIN c : c[i].from = "json_object" /\ j < i => c[j].into # c[i].into
  /\ \A i, j \in Members(c) : c[i].key = c[j].key => i = j

LEMMA CodeShape ==
  \A f \in Calls :
    /\ HandsOver(Code[f]) /\ SetsOnce(Code[f])
    /\ f # "jrpc_respond_error" => \E i \in DOMAIN Code[f] : Code[f][i].from = "param"
<1>1. Calls = {"jrpc_respond", "jrpc_respond_error", "jrpc_notify"}
  BY DEF Calls, Code
<1>2. /\ HandsOver(RespondCalls) /\ SetsOnce(RespondCalls)
      /\ \E i \in DOMAIN RespondCalls : RespondCalls[i].from = "param"
  <2> DEFINE c == RespondCalls
  <2>1. DOMAIN c = 1..3
    BY DEF RespondCalls
  <2>2. c[1].into = "frame" /\ c[1].key = "" /\ c[1].from = "json_object"
    BY DEF RespondCalls, JsonObject, SetNew
  <2>3. c[2].into = "frame" /\ c[2].key = "result" /\ c[2].from = "param"
    BY DEF RespondCalls, JsonObject, SetNew
  <2>4. c[3].into = "frame" /\ c[3].key = "id" /\ c[3].from = "integer"
    BY DEF RespondCalls, JsonObject, SetNew
  <2> HIDE DEF c
  <2>8. \A i \in 1..3 : i = 1 \/ i = 2 \/ i = 3
    OBVIOUS
  <2>9. \A i \in 1..3 : /\ c[i].from = "json_object" => i = 1
                        /\ c[i].from # "error_holder" /\ c[i].into = "frame"
    BY <2>2, <2>3, <2>4, <2>8
  <2>10. HandsOver(c)
    BY <2>1, <2>9 DEF HandsOver
  <2>11. \A i, j \in 1..3 : c[i].key = c[j].key => i = j \/ c[i].from = "json_object"
    BY <2>2, <2>3, <2>4, <2>8
  <2>12. SetsOnce(c)
    BY <2>1, <2>9, <2>11 DEF SetsOnce, Members
  <2>13. \E i \in DOMAIN c : c[i].from = "param"
    BY <2>1, <2>3
  <2> QED BY <2>10, <2>12, <2>13 DEF c
<1>3. /\ HandsOver(NotifyCalls) /\ SetsOnce(NotifyCalls)
      /\ \E i \in DOMAIN NotifyCalls : NotifyCalls[i].from = "param"
  <2> DEFINE c == NotifyCalls
  <2>1. DOMAIN c = 1..3
    BY DEF NotifyCalls
  <2>2. c[1].into = "frame" /\ c[1].key = "" /\ c[1].from = "json_object"
    BY DEF NotifyCalls, JsonObject, SetNew
  <2>3. c[2].into = "frame" /\ c[2].key = "method" /\ c[2].from = "string"
    BY DEF NotifyCalls, JsonObject, SetNew
  <2>4. c[3].into = "frame" /\ c[3].key = "params" /\ c[3].from = "param"
    BY DEF NotifyCalls, JsonObject, SetNew
  <2> HIDE DEF c
  <2>8. \A i \in 1..3 : i = 1 \/ i = 2 \/ i = 3
    OBVIOUS
  <2>9. \A i \in 1..3 : /\ c[i].from = "json_object" => i = 1
                        /\ c[i].from # "error_holder" /\ c[i].into = "frame"
    BY <2>2, <2>3, <2>4, <2>8
  <2>10. HandsOver(c)
    BY <2>1, <2>9 DEF HandsOver
  <2>11. \A i, j \in 1..3 : c[i].key = c[j].key => i = j \/ c[i].from = "json_object"
    BY <2>2, <2>3, <2>4, <2>8
  <2>12. SetsOnce(c)
    BY <2>1, <2>9, <2>11 DEF SetsOnce, Members
  <2>13. \E i \in DOMAIN c : c[i].from = "param"
    BY <2>1, <2>4
  <2> QED BY <2>10, <2>12, <2>13 DEF c
<1>4. /\ HandsOver(ErrorCalls) /\ SetsOnce(ErrorCalls)
  <2> DEFINE c == ErrorCalls
  <2>1. DOMAIN c = 1..6
    BY DEF ErrorCalls
  <2>2. c[1].into = "error_holder" /\ c[1].key = "" /\ c[1].from = "json_object"
    BY DEF ErrorCalls, JsonObject, SetNew
  <2>3. c[2].into = "error_holder" /\ c[2].key = "code" /\ c[2].from = "integer"
    BY DEF ErrorCalls, JsonObject, SetNew
  <2>4. c[3].into = "error_holder" /\ c[3].key = "message" /\ c[3].from = "string"
    BY DEF ErrorCalls, JsonObject, SetNew
  <2>5. c[4].into = "frame" /\ c[4].key = "" /\ c[4].from = "json_object"
    BY DEF ErrorCalls, JsonObject, SetNew
  <2>6. c[5].into = "frame" /\ c[5].key = "error" /\ c[5].from = "error_holder"
    BY DEF ErrorCalls, JsonObject, SetNew
  <2>7. c[6].into = "frame" /\ c[6].key = "id" /\ c[6].from = "integer"
    BY DEF ErrorCalls, JsonObject, SetNew
  <2> HIDE DEF c
  <2>8. \A i \in 1..6 : i = 1 \/ i = 2 \/ i = 3 \/ i = 4 \/ i = 5 \/ i = 6
    OBVIOUS
  <2>9. \A i \in 1..6 : /\ c[i].from = "json_object" => i = 1 \/ i = 4
                        /\ c[i].from = "error_holder" => i = 5
                        /\ i < 4 => c[i].into = "error_holder"
                        /\ i >= 4 => c[i].into = "frame"
    <3>1. \A i \in 1..6 : c[i].from = "json_object" => i = 1 \/ i = 4
      BY <2>3, <2>4, <2>6, <2>7, <2>8
    <3>2. \A i \in 1..6 : c[i].from = "error_holder" => i = 5
      BY <2>2, <2>3, <2>4, <2>5, <2>7, <2>8
    <3>3. \A i \in 1..6 : i < 4 => i = 1 \/ i = 2 \/ i = 3
      OBVIOUS
    <3>4. \A i \in 1..6 : i < 4 => c[i].into = "error_holder"
      BY <2>2, <2>3, <2>4, <3>3
    <3>5. \A i \in 1..6 : i >= 4 => i = 4 \/ i = 5 \/ i = 6
      OBVIOUS
    <3>6. \A i \in 1..6 : i >= 4 => c[i].into = "frame"
      BY <2>5, <2>6, <2>7, <3>5
    <3> QED BY <3>1, <3>2, <3>4, <3>6
  <2>10. HandsOver(c)
    <3>1. ASSUME NEW i \in 1..6, c[i].from = "json_object", c[i].into # "frame"
          PROVE  \E j \in 1..6 : i < j /\ c[j].from = c[i].into
      <4>1. i = 1
        BY <2>5, <2>9, <3>1
      <4>2. c[5].from = c[i].into
        BY <2>2, <2>6, <4>1, Zenon
      <4>3. 5 \in 1..6 /\ i < 5
        BY <4>1
      <4> QED BY <4>2, <4>3
    <3>2. ASSUME NEW i \in 1..6, NEW j \in 1..6, c[i].from = "error_holder", i <= j
          PROVE  c[j].into = "frame"
      <4>1. i = 5
        BY <2>9, <3>2
      <4>2. j >= 4
        BY <3>2, <4>1
      <4> QED BY <2>9, <4>2
    <3> QED BY <2>1, <3>1, <3>2 DEF HandsOver
  <2>11. \A i, j \in 1..6 : c[i].key = c[j].key => i = j \/ c[i].from = "json_object"
    <3>1. \A i \in 1..6 : /\ c[i].key = "code" => i = 2
                         /\ c[i].key = "message" => i = 3
      BY <2>2, <2>3, <2>4, <2>5, <2>6, <2>7, <2>8
    <3>2. \A i \in 1..6 : /\ c[i].key = "error" => i = 5
                         /\ c[i].key = "id" => i = 6
      BY <2>2, <2>3, <2>4, <2>5, <2>6, <2>7, <2>8
    <3> QED BY <2>2, <2>3, <2>4, <2>5, <2>6, <2>7, <2>8, <3>1, <3>2
  <2>12. SetsOnce(c)
    <3>1. ASSUME NEW i \in 1..6, NEW j \in 1..6, c[i].from = "json_object", j < i
          PROVE  c[j].into # c[i].into
      <4>1. i = 1 \/ i = 4
        BY <2>9, <3>1
      <4>2. i = 4 /\ j < 4
        BY <3>1, <4>1
      <4> QED BY <2>5, <2>9, <4>2
    <3> QED BY <2>1, <2>11, <3>1 DEF SetsOnce, Members
  <2> QED BY <2>10, <2>12 DEF c
<1> QED BY <1>1, <1>2, <1>3, <1>4 DEF Code
-----------------------------------------------------------------------------
At == Len(Code[call]) - Len(rest)

(* The calls that have still to be made are the last ones of the function.  *)
RestInv ==
  /\ call \in Calls \union {"none"}
  /\ rest \in Seq(Operation)
  /\ call = "none" => rest = <<>>
  /\ call # "none" => /\ Len(rest) <= Len(Code[call])
                      /\ \A i \in 1..Len(rest) : rest[i] = Code[call][At + i]

(* Of each reference the function has, but for that to the frame, there is  *)
(* a call yet to come that takes it over.                                   *)
LiveInv ==
  /\ live \subseteq {"param", "frame", "error_holder"}
  /\ call = "none" => live = {}
  /\ \A r \in live \ {"frame"} : \E i \in 1..Len(rest) : rest[i].from = r

Argument ==
  /\ param \in Params \union {NULL}
  /\ string \in Strings \union {"utf8"}

RefsInv == RestInv /\ LiveInv /\ Argument

(* The next call, and the rest after it.                                    *)
LEMMA HeadAndTail ==
  ASSUME RestInv, rest # <<>>, rest' = Tail(rest), call' = call
  PROVE  /\ At \in Nat /\ At' = At + 1 /\ At' \in DOMAIN Code[call] /\ call \in Calls
         /\ Head(rest) = Code[call][At'] /\ Head(rest) \in Operation
         /\ Len(rest') = Len(rest) - 1
         /\ \A i \in 1..Len(rest') : rest'[i] = rest[i + 1]
         /\ RestInv'
<1>1. /\ call \in Calls /\ Code[call] \in Seq(Operation) /\ DOMAIN Code[call] = 1..Len(Code[call])
      /\ Len(Code[call]) \in Nat
  BY CodeType DEF RestInv
<1>2. /\ rest \in Seq(Operation) /\ Len(rest) \in Nat \ {0}
      /\ Head(rest) = rest[1] /\ Head(rest) \in Operation
      /\ rest' \in Seq(Operation)
      /\ Len(rest') = Len(rest) - 1
      /\ \A i \in 1..Len(rest') : rest'[i] = rest[i + 1]
  BY DEF RestInv
<1>3. /\ Len(rest) <= Len(Code[call])
      /\ \A i \in 1..Len(rest) : rest[i] = Code[call][At + i]
  BY <1>1, <1>2 DEF RestInv
<1>4. /\ At \in Nat /\ At' = At + 1 /\ At' \in DOMAIN Code[call]
  BY <1>1, <1>2, <1>3 DEF At
<1>5. Head(rest) = Code[call][At']
  BY <1>2, <1>3, <1>4
<1>6. \A i \in 1..Len(rest') : rest'[i] = Code[call][At' + i]
  <2>1. ASSUME NEW i \in 1..Len(rest') PROVE rest'[i] = Code[call][At' + i]
    <3>1. i \in Int /\ i + 1 \in 1..Len(rest) /\ At + (i + 1) = At' + i
      BY <1>2, <1>4
    <3> QED BY <3>1, <1>2, <1>3
  <2> QED BY <2>1
<1>7. RestInv'
  BY <1>1, <1>2, <1>3, <1>6 DEF RestInv
<1> QED BY <1>1, <1>2, <1>4, <1>5, <1>7

LEMMA RefsInit == Init => RefsInv
BY DEF Init, RefsInv, RestInv, LiveInv, Argument

LEMMA RefsStep == RefsInv /\ [Next]_vars => RefsInv'
<1> SUFFICES ASSUME RefsInv, [Next]_vars PROVE RefsInv'
  OBVIOUS
<1>0. RestInv /\ LiveInv /\ Argument
  BY DEF RefsInv
<1>1. ASSUME NEW f \in Calls, NEW p \in Params, NEW s \in Strings, Call(f, p, s) PROVE RefsInv'
  <2>1. call' = f /\ f # "none" /\ rest' = Code[f] /\ Argument'
    BY <1>1 DEF Call, Argument, Calls, Code
  <2>2. RestInv'
    <3>1. Code[f] \in Seq(Operation) /\ Len(Code[f]) \in Nat
      BY CodeType
    <3>2. At' = 0
      BY <2>1, <3>1 DEF At
    <3> QED BY <2>1, <3>1, <3>2 DEF RestInv
  <2>3. LiveInv'
    <3>1. live' = {} \/ (live' = {"param"} /\ f # "jrpc_respond_error")
      BY <1>1 DEF Call
    <3> QED BY <2>1, <3>1, CodeType, CodeShape DEF LiveInv
  <2> QED BY <2>1, <2>2, <2>3 DEF RefsInv
<1>2. CASE Create
  <2>1. rest # <<>> /\ rest' = Tail(rest) /\ call' = call /\ Head(rest).from = "json_object"
        /\ Argument'
    BY <1>0, <1>2 DEF Create, arguments, Argument
  <2> DEFINE x == Head(rest).into
  <2>2. live' \subseteq live \union {x}
    BY <1>2 DEF Create
  <2>3. RestInv' /\ call # "none"
    BY <1>0, <2>1, HeadAndTail DEF Calls, Code
  <2>4. ASSUME NEW r \in live' \ {"frame"} PROVE \E i \in 1..Len(rest') : rest'[i].from = r
    <3>1. CASE r \in live
      <4>1. PICK i \in 1..Len(rest) : rest[i].from = r
        BY <1>0, <2>4, <3>1 DEF LiveInv
      <4>2. r # "json_object"
        BY <1>0, <3>1 DEF LiveInv
      <4>3. i # 1 /\ Len(rest) \in Nat
        BY <1>0, <2>1, <4>1, <4>2 DEF RestInv
      <4>4. i - 1 \in 1..Len(rest') /\ (i - 1) + 1 = i
        BY <1>0, <2>1, <4>3, HeadAndTail
      <4> QED BY <1>0, <2>1, <4>1, <4>4, HeadAndTail
    <3>2. CASE r = x
      <4>1. PICK j \in DOMAIN Code[call] : At' < j /\ Code[call][j].from = r
        BY <1>0, <2>1, <2>4, <3>2, HeadAndTail, CodeShape DEF HandsOver
      <4>2. j \in 1..Len(Code[call]) /\ Len(Code[call]) \in Nat /\ At \in Nat /\ At' = At + 1
        BY <1>0, <2>1, CodeType, HeadAndTail
      <4>3. Len(rest') = Len(Code[call]) - At' /\ Len(rest') \in Nat
        BY <1>0, <2>1, <2>3, <4>2, HeadAndTail DEF At, RestInv
      <4>4. j - At' \in 1..Len(rest') /\ At' + (j - At') = j
        BY <4>1, <4>2, <4>3
      <4>5. rest'[j - At'] = Code[call][j]
        BY <2>1, <2>3, <4>4 DEF RestInv
      <4> QED BY <4>1, <4>4, <4>5
    <3> QED BY <2>2, <2>4, <3>1, <3>2
  <2>5. live' \subseteq {"param", "frame", "error_holder"}
    BY <1>0, <2>1, <2>2, HeadAndTail DEF LiveInv, Operation
  <2> QED BY <2>1, <2>3, <2>4, <2>5 DEF RefsInv, LiveInv
<1>3. CASE Set
  <2>1. /\ rest # <<>> /\ rest' = Tail(rest) /\ call' = call /\ live' = live \ {Head(rest).from}
        /\ Argument'
    BY <1>0, <1>3 DEF Set, arguments, Argument
  <2>2. RestInv' /\ call # "none"
    BY <1>0, <2>1, HeadAndTail DEF Calls, Code
  <2>3. ASSUME NEW r \in live' \ {"frame"} PROVE \E i \in 1..Len(rest') : rest'[i].from = r
    <3>1. PICK i \in 1..Len(rest) : rest[i].from = r
      BY <1>0, <2>1, <2>3 DEF LiveInv
    <3>2. i # 1 /\ Len(rest) \in Nat
      BY <1>0, <2>1, <2>3, <3>1 DEF RestInv
    <3>3. i - 1 \in 1..Len(rest') /\ (i - 1) + 1 = i
      BY <1>0, <2>1, <3>2, HeadAndTail
    <3> QED BY <1>0, <2>1, <3>1, <3>3, HeadAndTail
  <2> QED BY <1>0, <2>1, <2>2, <2>3 DEF RefsInv, LiveInv
<1>4. CASE Send
  <2>1. /\ call' = "none" /\ rest = <<>> /\ rest' = rest /\ live' = live \ {"frame"}
        /\ UNCHANGED <<param, string>>
    BY <1>4 DEF Send
  <2>2. live' = {}
    BY <1>0, <2>1 DEF LiveInv
  <2> QED BY <1>0, <2>1, <2>2 DEF RefsInv, RestInv, LiveInv, Argument
<1>5. CASE UNCHANGED vars
  BY <1>0, <1>5 DEF vars, RefsInv, RestInv, LiveInv, Argument, At
<1> QED BY <1>1, <1>2, <1>3, <1>4, <1>5 DEF Next, Calls

(* No reference to a JSON value is leaked, whatever calls fail.             *)
THEOREM NoReferenceLeaks == Spec => []NothingLeaks
<1>1. RefsInv => NothingLeaks
  BY DEF RefsInv, LiveInv, NothingLeaks
<1> QED BY <1>1, RefsInit, RefsStep, PTL DEF Spec
-----------------------------------------------------------------------------
(* The calls that were made, and what each has done if nothing has failed.  *)
Past == {Code[call][i] : i \in 1..At}

Done(c) ==
  /\ c.into \in DOMAIN object
  /\ c.from # "json_object" =>
       /\ c.key \in DOMAIN object[c.into]
       /\ object[c.into][c.key] = Value(c.from, TRUE)
       /\ Value(c.from, TRUE) # NULL

(* As long as nothing has failed, the objects have the members that were    *)
(* set so far, and no others.                                               *)
MadeInv ==
  /\ \A c \in Past : Done(c)
  /\ \A x \in DOMAIN object :
       /\ object[x] = [k \in DOMAIN object[x] |-> object[x][k]]
       /\ \A k \in DOMAIN object[x] :
            \E c \in Past : c.from # "json_object" /\ c.into = x /\ c.key = k

FrameInv == RefsInv /\ (call # "none" /\ ~failed => MadeInv)

LEMMA FrameInit == Init => FrameInv
  BY RefsInit DEF FrameInv, Init

LEMMA ValueMade ==
  ASSUME NEW ok \in BOOLEAN, NEW c \in Operation, Value(c.from, ok) # NULL,
         c.from # "json_object"
  PROVE  Value(c.from, ok) = Value(c.from, TRUE)
BY DEF Value, Operation

LEMMA MemoryBoolean == Memory \subseteq BOOLEAN
BY DEF Memory

(* How the next call relates to those before it.                            *)
LEMMA NextCall ==
  ASSUME RestInv, rest # <<>>, rest' = Tail(rest), call' = call
  PROVE  /\ Past' = Past \union {Head(rest)} /\ Past \subseteq Operation
         /\ Head(rest) \in Operation
         /\ \A d \in Past :
              /\ Head(rest).from = "json_object" => d.into # Head(rest).into
              /\ d.from = "error_holder" => Head(rest).into = "frame"
              /\ d.from # "json_object" /\ Head(rest).from # "json_object" =>
                   d.key # Head(rest).key
         /\ Head(rest).from = "error_holder" => Head(rest).into = "frame"
<1> DEFINE c == Head(rest)
           n == At'
<1>1. /\ At \in Nat /\ n = At + 1 /\ n \in DOMAIN Code[call] /\ call \in Calls
      /\ c = Code[call][n] /\ c \in Operation
      /\ Code[call] \in Seq(Operation) /\ DOMAIN Code[call] = 1..Len(Code[call])
      /\ HandsOver(Code[call]) /\ SetsOnce(Code[call])
  BY HeadAndTail, CodeType, CodeShape
<1>2. Past' = {Code[call][i] : i \in 1..n}
  BY DEF Past
<1> HIDE DEF c, n
<1>3. 1..n = 1..At \union {n}
  BY <1>1
<1>4. Past' = Past \union {c}
  BY <1>1, <1>2, <1>3 DEF Past
<1>5. \A i \in 1..At : i \in DOMAIN Code[call] /\ i < n
  BY <1>1
<1>6. Past \subseteq Operation
  BY <1>1, <1>5 DEF Past
<1>7. ASSUME NEW d \in Past
      PROVE  /\ c.from = "json_object" => d.into # c.into
             /\ d.from = "error_holder" => c.into = "frame"
             /\ d.from # "json_object" /\ c.from # "json_object" => d.key # c.key
  <2>1. PICK i \in 1..At : d = Code[call][i]
    BY DEF Past
  <2>2. i \in DOMAIN Code[call] /\ i < n /\ i <= n /\ i # n
    BY <1>1, <1>5, <2>1
  <2>3. c.from = "json_object" => d.into # c.into
    BY <1>1, <2>1, <2>2 DEF SetsOnce
  <2>4. d.from = "error_holder" => c.into = "frame"
    BY <1>1, <2>1, <2>2 DEF HandsOver
  <2>5. d.from # "json_object" /\ c.from # "json_object" => d.key # c.key
    BY <1>1, <2>1, <2>2 DEF SetsOnce, Members
  <2> QED BY <2>3, <2>4, <2>5
<1>8. c.from = "error_holder" => c.into = "frame"
  <2>1. n <= n
    BY <1>1
  <2> QED BY <1>1, <2>1 DEF HandsOver
<1> QED BY <1>1, <1>4, <1>6, <1>7, <1>8 DEF c

LEMMA CallMakes ==
  ASSUME RefsInv, NEW f \in Calls, NEW p \in Params, NEW s \in Strings, Call(f, p, s)
  PROVE  MadeInv'
<1>1. call' = f /\ rest' = Code[f] /\ object' = <<>> /\ Len(Code[f]) \in Nat
  BY CodeType DEF Call
<1>2. At' = 0 /\ DOMAIN object' = {}
  BY <1>1 DEF At
<1>3. Past' = {}
  BY <1>2 DEF Past
<1> QED BY <1>2, <1>3 DEF MadeInv

(* What is not touched stays done.                                          *)
LEMMA StaysDone ==
  ASSUME NEW d \in Operation, Done(d), UNCHANGED <<param, string>>,
         DOMAIN object \subseteq DOMAIN object',
         d.from # "json_object" =>
           /\ d.key \in DOMAIN object'[d.into]
           /\ object'[d.into][d.key] = object[d.into][d.key],
         d.from = "error_holder" =>
           /\ object'["error_holder"] = object["error_holder"]
           /\ "error_holder" \in DOMAIN object' => "error_holder" \in DOMAIN object
  PROVE  Done(d)'
<1>1. CASE d.from = "json_object"
  BY <1>1 DEF Done
<1>2. CASE d.from = "integer"
  BY <1>2 DEF Done, Value
<1>3. CASE d.from = "string"
  BY <1>3 DEF Done, Value
<1>4. CASE d.from = "param"
  BY <1>4 DEF Done, Value
<1>5. CASE d.from = "error_holder"
  BY <1>5 DEF Done, Value
<1> QED BY <1>1, <1>2, <1>3, <1>4, <1>5 DEF Operation

LEMMA CreateMakes ==
  ASSUME RefsInv, MadeInv, Create, ~failed'
  PROVE  MadeInv'
<1> DEFINE c == Head(rest)
<1>1. /\ rest # <<>> /\ rest' = Tail(rest) /\ call' = call /\ c.from = "json_object"
      /\ param' = param /\ string' = string
      /\ object' = With(object, c.into, <<>>)
  BY MemoryBoolean DEF Create, arguments
<1>2. /\ Past' = Past \union {c} /\ Past \subseteq Operation
      /\ \A d \in Past : d.into # c.into /\ (d.from = "error_holder" => c.into = "frame")
  BY <1>1, NextCall DEF RefsInv
<1> HIDE DEF c
<1>3. /\ DOMAIN object' = DOMAIN object \union {c.into}
      /\ object'[c.into] = <<>> /\ DOMAIN <<>> = {}
      /\ \A x \in DOMAIN object \ {c.into} : object'[x] = object[x]
  BY <1>1 DEF With
<1>4. ASSUME NEW d \in Past PROVE Done(d)'
  <2>1. Done(d) /\ d \in Operation /\ d.into # c.into /\ d.into \in DOMAIN object
    BY <1>2 DEF MadeInv, Done
  <2>2. d.from = "error_holder" =>
           "error_holder" \in DOMAIN object /\ c.into # "error_holder"
    BY <1>2, <2>1 DEF Done, Value
  <2> QED BY <1>1, <1>3, <2>1, <2>2, StaysDone DEF Done
<1>5. ASSUME NEW d, d = c PROVE Done(d)'
  BY <1>1, <1>3, <1>5 DEF Done
<1>6. ASSUME NEW x \in DOMAIN object'
      PROVE  /\ object'[x] = [k \in DOMAIN object'[x] |-> object'[x][k]]
             /\ \A k \in DOMAIN object'[x] :
                  \E d \in Past' : d.from # "json_object" /\ d.into = x /\ d.key = k
  <2>1. CASE x = c.into
    BY <1>3, <2>1
  <2>2. CASE x # c.into
    <3>1. x \in DOMAIN object /\ object'[x] = object[x]
      BY <1>3, <1>6, <2>2
    <3> QED BY <1>2, <3>1 DEF MadeInv
  <2> QED BY <2>1, <2>2
<1> QED BY <1>2, <1>4, <1>5, <1>6 DEF MadeInv

LEMMA SetMakes ==
  ASSUME RefsInv, MadeInv, Set, ~failed'
  PROVE  MadeInv'
<1> DEFINE c == Head(rest)
           v == Value(c.from, TRUE)
<1>1. /\ rest # <<>> /\ rest' = Tail(rest) /\ call' = call /\ c.from # "json_object"
      /\ param' = param /\ string' = string
  BY DEF Set, arguments
<1>2. /\ Past' = Past \union {c} /\ Past \subseteq Operation /\ c \in Operation
      /\ \A d \in Past : /\ d.from = "error_holder" => c.into = "frame"
                         /\ d.from # "json_object" => d.key # c.key
      /\ c.from = "error_holder" => c.into = "frame"
  BY <1>1, NextCall DEF RefsInv
<1>3. /\ v # NULL /\ c.into \in DOMAIN object
      /\ object' = [object EXCEPT ![c.into] = With(@, c.key, v)]
  <2>1. PICK ok \in BOOLEAN :
          /\ Value(c.from, ok) # NULL /\ c.into \in DOMAIN object
          /\ object' = [object EXCEPT ![c.into] = With(@, c.key, Value(c.from, ok))]
    BY MemoryBoolean DEF Set
  <2>2. Value(c.from, ok) = v
    BY <1>1, <1>2, <2>1, ValueMade
  <2> QED BY <2>1, <2>2
<1> HIDE DEF c, v
<1>4. /\ DOMAIN object' = DOMAIN object
      /\ \A x \in DOMAIN object \ {c.into} : object'[x] = object[x]
      /\ object'[c.into] = With(object[c.into], c.key, v)
  BY <1>3
<1>5. /\ DOMAIN object'[c.into] = DOMAIN object[c.into] \union {c.key}
      /\ object'[c.into][c.key] = v
      /\ \A k \in DOMAIN object[c.into] \ {c.key} : object'[c.into][k] = object[c.into][k]
      /\ object'[c.into] = [k \in DOMAIN object'[c.into] |-> object'[c.into][k]]
  BY <1>4 DEF With
<1>6. ASSUME NEW d \in Past PROVE Done(d)'
  <2>1. Done(d) /\ d \in Operation /\ d.into \in DOMAIN object
    BY <1>2 DEF MadeInv, Done
  <2>2. d.from # "json_object" =>
           /\ d.key \in DOMAIN object'[d.into]
           /\ object'[d.into][d.key] = object[d.into][d.key]
    <3>1. CASE d.into = c.into
      BY <1>2, <1>5, <2>1, <3>1 DEF Done
    <3>2. CASE d.into # c.into
      BY <1>4, <2>1, <3>2 DEF Done
    <3> QED BY <3>1, <3>2
  <2>3. ASSUME d.from = "error_holder"
        PROVE  "error_holder" \in DOMAIN object /\ object'["error_holder"] = object["error_holder"]
    <3>1. c.into = "frame"
      BY <1>2, <2>3
    <3>2. "error_holder" \in DOMAIN object
      BY <2>1, <2>3 DEF Done, Value
    <3> QED BY <1>4, <3>1, <3>2
  <2> QED BY <1>1, <1>4, <2>1, <2>2, <2>3, StaysDone
<1>7. ASSUME NEW d, d = c PROVE Done(d)'
  <2>1. Value(d.from, TRUE)' = v
    <3>1. CASE d.from = "error_holder"
      <4>1. c.into = "frame"
        BY <1>2, <1>7, <3>1
      <4>2. "error_holder" \in DOMAIN object
        BY <1>3, <1>7, <3>1 DEF Value, v
      <4>3. "error_holder" \in DOMAIN object' /\ object'["error_holder"] = object["error_holder"]
        BY <1>4, <4>1, <4>2
      <4> QED BY <1>7, <3>1, <4>2, <4>3 DEF Value, v
    <3>2. CASE d.from = "integer"
      BY <1>7, <3>2 DEF Value, v
    <3>3. CASE d.from = "string"
      BY <1>1, <1>7, <3>3 DEF Value, v
    <3>4. CASE d.from = "param"
      BY <1>1, <1>7, <3>4 DEF Value, v
    <3> QED BY <1>1, <1>2, <1>7, <3>1, <3>2, <3>3, <3>4 DEF Operation
  <2> QED BY <1>3, <1>4, <1>5, <1>7, <2>1 DEF Done
<1>8. ASSUME NEW x \in DOMAIN object'
      PROVE  /\ object'[x] = [k \in DOMAIN object'[x] |-> object'[x][k]]
             /\ \A k \in DOMAIN object'[x] :
                  \E d \in Past' : d.from # "json_object" /\ d.into = x /\ d.key = k
  <2>1. CASE x = c.into
    <3>1. \A k \in DOMAIN object[x] :
             \E d \in Past : d.from # "json_object" /\ d.into = x /\ d.key = k
      BY <1>3, <2>1 DEF MadeInv
    <3>2. \A k \in DOMAIN object'[x] : k \in DOMAIN object[x] \/ k = c.key
      BY <1>5, <2>1
    <3>3. c \in Past' /\ c.from # "json_object" /\ c.into = x
      BY <1>1, <1>2, <2>1
    <3> QED BY <1>2, <1>5, <2>1, <3>1, <3>2, <3>3
  <2>2. CASE x # c.into
    <3>1. x \in DOMAIN object /\ object'[x] = object[x]
      BY <1>4, <1>8, <2>2
    <3> QED BY <1>2, <3>1 DEF MadeInv
  <2> QED BY <2>1, <2>2
<1> QED BY <1>2, <1>6, <1>7, <1>8 DEF MadeInv

LEMMA FrameStep == FrameInv /\ [Next]_vars => FrameInv'
<1> SUFFICES ASSUME FrameInv, [Next]_vars PROVE call' # "none" /\ ~failed' => MadeInv'
  BY RefsStep DEF FrameInv
<1>1. CASE \E f \in Calls, p \in Params, s \in Strings : Call(f, p, s)
  BY <1>1, CallMakes DEF FrameInv
<1>2. CASE Create
  <2>1. (~failed' => ~failed) /\ call' = call
    BY <1>2 DEF Create, arguments
  <2> QED BY <1>2, <2>1, CreateMakes DEF FrameInv
<1>3. CASE Set
  <2>1. (~failed' => ~failed) /\ call' = call
    BY <1>3 DEF Set, arguments
  <2> QED BY <1>3, <2>1, SetMakes DEF FrameInv
<1>4. CASE Send
  BY <1>4 DEF Send
<1>5. CASE UNCHANGED vars
  <2>1. Past' = Past /\ UNCHANGED <<call, object, failed, param, string>>
    BY <1>5 DEF vars, Past, At
  <2>2. ASSUME NEW c PROVE Done(c)' <=> Done(c)
    BY <2>1 DEF Done, Value
  <2> QED BY <2>1, <2>2 DEF FrameInv, MadeInv
<1> QED BY <1>1, <1>2, <1>3, <1>4, <1>5 DEF Next, Calls

LEMMA CallFields ==
  /\ \A x : JsonObject(x).into = x /\ JsonObject(x).from = "json_object"
  /\ \A x, k, v : /\ SetNew(x, k, v).into = x /\ SetNew(x, k, v).key = k
                  /\ SetNew(x, k, v).from = v
BY DEF JsonObject, SetNew

(* A frame all of whose members could be set.                               *)
LEMMA WholeFrame ==
  ASSUME FrameInv, call # "none", rest = <<>>, ~failed
  PROVE  /\ "frame" \in DOMAIN object
         /\ call = "jrpc_respond" =>
              param # NULL /\ object["frame"] = [result |-> param, id |-> "integer"]
         /\ call = "jrpc_notify" =>
              param # NULL /\ object["frame"] = [method |-> "string", params |-> param]
         /\ call = "jrpc_respond_error" => object["frame"] = Error
<1>1. MadeInv /\ call \in Calls
  BY DEF FrameInv, RefsInv, RestInv
<1>2. Past = {Code[call][i] : i \in 1..Len(Code[call])}
  <2>1. Len(Code[call]) \in Nat /\ Len(rest) = 0
    BY <1>1, CodeType
  <2>2. At = Len(Code[call])
    BY <2>1 DEF At
  <2> QED BY <2>2 DEF Past
<1> DEFINE F == object["frame"]
           H == object["error_holder"]
<1>3. CASE call = "jrpc_respond"
  <2>1. Past = {JsonObject("frame"), SetNew("frame", "result", "param"),
                SetNew("frame", "id", "integer")}
    <3>1. Len(Code[call]) = 3 /\ Code[call] = RespondCalls
      BY <1>3 DEF Code, RespondCalls
    <3>2. 1..3 = {1, 2, 3}
      OBVIOUS
    <3> QED BY <1>2, <3>1, <3>2 DEF RespondCalls
  <2>2. "frame" \in DOMAIN object
    BY <1>1, <2>1 DEF MadeInv, Done, JsonObject
  <2>3. F["result"] = param /\ param # NULL /\ "result" \in DOMAIN F
    BY <1>1, <2>1 DEF MadeInv, Done, SetNew, Value
  <2>4. F["id"] = "integer" /\ "id" \in DOMAIN F
    BY <1>1, <2>1 DEF MadeInv, Done, SetNew, Value
  <2>5. \A k \in DOMAIN F : k \in {"result", "id"}
    <3>1. \A k \in DOMAIN F :
             \E c \in Past : c.from # "json_object" /\ c.into = "frame" /\ c.key = k
      BY <1>1, <2>2 DEF MadeInv
    <3>2. \A c \in Past : c.from # "json_object" /\ c.into = "frame" => c.key \in {"result", "id"}
      BY <2>1, CallFields
    <3> QED BY <3>1, <3>2
  <2>6. DOMAIN F = {"result", "id"}
    BY <2>3, <2>4, <2>5
  <2>7. F = [k \in DOMAIN F |-> F[k]]
    BY <1>1, <2>2 DEF MadeInv
  <2>8. F = [result |-> param, id |-> "integer"]
    BY <2>3, <2>4, <2>6, <2>7
  <2> QED BY <1>3, <2>2, <2>3, <2>8
<1>4. CASE call = "jrpc_notify"
  <2>1. Past = {JsonObject("frame"), SetNew("frame", "method", "string"),
                SetNew("frame", "params", "param")}
    <3>1. Len(Code[call]) = 3 /\ Code[call] = NotifyCalls
      BY <1>4 DEF Code, NotifyCalls
    <3>2. 1..3 = {1, 2, 3}
      OBVIOUS
    <3> QED BY <1>2, <3>1, <3>2 DEF NotifyCalls
  <2>2. "frame" \in DOMAIN object
    BY <1>1, <2>1 DEF MadeInv, Done, JsonObject
  <2>3. F["params"] = param /\ param # NULL /\ "params" \in DOMAIN F
    BY <1>1, <2>1 DEF MadeInv, Done, SetNew, Value
  <2>4. F["method"] = "string" /\ "method" \in DOMAIN F
    BY <1>1, <2>1 DEF MadeInv, Done, SetNew, Value
  <2>5. \A k \in DOMAIN F : k \in {"method", "params"}
    <3>1. \A k \in DOMAIN F :
             \E c \in Past : c.from # "json_object" /\ c.into = "frame" /\ c.key = k
      BY <1>1, <2>2 DEF MadeInv
    <3>2. \A c \in Past : c.from # "json_object" /\ c.into = "frame" => c.key \in {"method", "params"}
      BY <2>1, CallFields
    <3> QED BY <3>1, <3>2
  <2>6. DOMAIN F = {"method", "params"}
    BY <2>3, <2>4, <2>5
  <2>7. F = [k \in DOMAIN F |-> F[k]]
    BY <1>1, <2>2 DEF MadeInv
  <2>8. F = [method |-> "string", params |-> param]
    BY <2>3, <2>4, <2>6, <2>7
  <2> QED BY <1>4, <2>2, <2>3, <2>8
<1>5. CASE call = "jrpc_respond_error"
  <2>1. Past = {JsonObject("error_holder"), SetNew("error_holder", "code", "integer"),
                SetNew("error_holder", "message", "string"), JsonObject("frame"),
                SetNew("frame", "error", "error_holder"), SetNew("frame", "id", "integer")}
    <3>1. Len(Code[call]) = 6 /\ Code[call] = ErrorCalls
      BY <1>5 DEF Code, ErrorCalls
    <3>2. 1..6 = {1, 2, 3, 4, 5, 6}
      OBVIOUS
    <3> QED BY <1>2, <3>1, <3>2 DEF ErrorCalls
  <2>2. "frame" \in DOMAIN object /\ "error_holder" \in DOMAIN object
    BY <1>1, <2>1 DEF MadeInv, Done, JsonObject
  <2>3. H["code"] = "integer" /\ "code" \in DOMAIN H
    BY <1>1, <2>1 DEF MadeInv, Done, SetNew, Value
  <2>4. H["message"] = "string" /\ "message" \in DOMAIN H
    BY <1>1, <2>1 DEF MadeInv, Done, SetNew, Value
  <2>5. \A k \in DOMAIN H : k \in {"code", "message"}
    <3>1. \A k \in DOMAIN H :
             \E c \in Past : c.from # "json_object" /\ c.into = "error_holder" /\ c.key = k
      BY <1>1, <2>2 DEF MadeInv
    <3>2. \A c \in Past : c.from # "json_object" /\ c.into = "error_holder" => c.key \in {"code", "message"}
      BY <2>1, CallFields
    <3> QED BY <3>1, <3>2
  <2>6. H = [code |-> "integer", message |-> "string"]
    <3>1. DOMAIN H = {"code", "message"}
      BY <2>3, <2>4, <2>5
    <3>2. H = [k \in DOMAIN H |-> H[k]]
      BY <1>1, <2>2 DEF MadeInv
    <3> QED BY <2>3, <2>4, <3>1, <3>2
  <2>7. F["error"] = H /\ "error" \in DOMAIN F
    BY <1>1, <2>1, <2>2 DEF MadeInv, Done, SetNew, Value
  <2>8. F["id"] = "integer" /\ "id" \in DOMAIN F
    BY <1>1, <2>1 DEF MadeInv, Done, SetNew, Value
  <2>9. \A k \in DOMAIN F : k \in {"error", "id"}
    <3>1. \A k \in DOMAIN F :
             \E c \in Past : c.from # "json_object" /\ c.into = "frame" /\ c.key = k
      BY <1>1, <2>2 DEF MadeInv
    <3>2. \A c \in Past : c.from # "json_object" /\ c.into = "frame" => c.key \in {"error", "id"}
      BY <2>1, CallFields
    <3> QED BY <3>1, <3>2
  <2>10. F = Error
    <3>1. DOMAIN F = {"error", "id"}
      BY <2>7, <2>8, <2>9
    <3>2. F = [k \in DOMAIN F |-> F[k]]
      BY <1>1, <2>2 DEF MadeInv
    <3> QED BY <2>6, <2>7, <2>8, <3>1, <3>2 DEF Error
  <2> QED BY <1>5, <2>2, <2>10
<1> QED BY <1>1, <1>3, <1>4, <1>5 DEF Calls, Code

LEMMA SendsWhole ==
  ASSUME FrameInv, Send, ~failed'
  PROVE  sent' = IF param = "circular" /\ call # "jrpc_respond_error" THEN <<"empty">>
                 ELSE Documented[call]
<1>1. call # "none" /\ rest = <<>> /\ ~failed
      /\ sent' = IF CanDump(TRUE) THEN object["frame"] ELSE <<"empty">>
  <2>1. PICK measured, memory, written \in BOOLEAN :
          /\ sent' = IF ~memory THEN <<"nothing">>
                     ELSE IF ~CanDump(measured) THEN <<"empty">>
                     ELSE IF ~CanDump(written) THEN <<"uninitialised">>
                     ELSE object["frame"]
          /\ failed' = (failed \/ ~memory \/ ~measured \/ ~written)
    BY MemoryBoolean DEF Send
  <2>2. measured = TRUE /\ memory = TRUE /\ written = TRUE /\ ~failed
    BY <2>1
  <2> QED BY <2>1, <2>2 DEF Send
<1>2. /\ call \in Calls /\ param \in {"value", "circular", NULL}
  BY <1>1, MessageAssumption DEF FrameInv, RefsInv, RestInv, Argument
<1>3. /\ Documented["jrpc_respond"] = Result
      /\ Documented["jrpc_notify"] = Notification
      /\ Documented["jrpc_respond_error"] = Error
  BY DEF Documented
<1>4. CASE call = "jrpc_respond"
  <2>1. /\ param # NULL /\ object["frame"] = [result |-> param, id |-> "integer"]
        /\ "frame" \in DOMAIN object
    BY <1>1, <1>4, WholeFrame
  <2>2. Circular(object["frame"]) <=> param = "circular"
    BY <2>1 DEF Circular
  <2> QED BY <1>1, <1>2, <1>3, <1>4, <2>1, <2>2 DEF CanDump, Result
<1>5. CASE call = "jrpc_notify"
  <2>1. /\ param # NULL /\ object["frame"] = [method |-> "string", params |-> param]
        /\ "frame" \in DOMAIN object
    BY <1>1, <1>5, WholeFrame
  <2>2. Circular(object["frame"]) <=> param = "circular"
    BY <2>1 DEF Circular
  <2> QED BY <1>1, <1>2, <1>3, <1>5, <2>1, <2>2 DEF CanDump, Notification
<1>6. CASE call = "jrpc_respond_error"
  <2>1. object["frame"] = Error /\ "frame" \in DOMAIN object
    BY <1>1, <1>6, WholeFrame
  <2>2. ~Circular(object["frame"])
    BY <2>1 DEF Circular, Error
  <2> QED BY <1>1, <1>3, <1>6, <2>1, <2>2 DEF CanDump
<1> QED BY <1>2, <1>4, <1>5, <1>6 DEF Calls, Code

(* A frame is whole if nothing fails: it has the members README.md lists,   *)
(* with the values of the arguments, and no others; or it is empty, if      *)
(* jansson cannot dump the result or the params.                            *)
THEOREM FramesComplete == Spec => FrameComplete
<1>1. FrameInv /\ [Next]_vars =>
        [call # "none" /\ call' = "none" /\ ~failed' =>
           sent' = IF param = "circular" /\ call # "jrpc_respond_error" THEN <<"empty">>
                   ELSE Documented[call]]_vars
  <2> SUFFICES ASSUME FrameInv, [Next]_vars, call # "none", call' = "none", ~failed'
               PROVE  sent' = IF param = "circular" /\ call # "jrpc_respond_error"
                              THEN <<"empty">> ELSE Documented[call]
    OBVIOUS
  <2>1. ~UNCHANGED vars
    BY DEF vars
  <2>2. ~Create /\ ~Set
    BY DEF Create, Set, arguments
  <2>3. \A f, p, s : ~Call(f, p, s)
    BY DEF Call
  <2>4. Send
    BY <2>1, <2>2, <2>3 DEF Next
  <2> QED BY <2>4, SendsWhole
<1> QED BY <1>1, FrameInit, FrameStep, PTL DEF Spec, FrameComplete
=============================================================================
