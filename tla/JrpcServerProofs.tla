-------------------------- MODULE JrpcServerProofs --------------------------
(***************************************************************************)
(* Proofs about JrpcServer, for any threads and any size of the socket,    *)
(* and about JrpcConfig: the strings of a server's configuration, for any  *)
(* texts and any failures of strdup and lws_create_context, with the       *)
(* setters called in any order and jrpc_server_dispose at any time between *)
(* two runs.                                                               *)
(***************************************************************************)
EXTENDS JrpcConfig, TLAPS

(* Only the read of the server's thread takes datagrams, so what its poll   *)
(* saw is still there; and the cause is known once the poll has ended.      *)
IInv ==
  /\ TypeOK
  /\ ReadNeverBlocks
  /\ readable => pc = "serve"
  /\ pc = "serve" => cause # "none"
  /\ ~ContextMayFail => RunsUntilEvent

LEMMA InitIInv == Init => IInv
<1>1. 0 \in 0..Capacity
  BY ServerAssumption
<1> QED BY <1>1, Zenon DEF Init, IInv, TypeOK, ReadNeverBlocks, RunsUntilEvent

LEMMA NextIInv == IInv /\ [Next]_vars => IInv'
<1> SUFFICES ASSUME IInv, [Next]_vars PROVE IInv'
  OBVIOUS
<1> USE ServerAssumption DEF IInv, TypeOK, ReadNeverBlocks, RunsUntilEvent
<1>1. CASE Run
  BY <1>1 DEF Run
<1>2. CASE CreateContext
  BY <1>2 DEF CreateContext
<1>3. CASE PollWakeup
  BY <1>3 DEF PollWakeup
<1>4. CASE PollEvent
  BY <1>4 DEF PollEvent
<1>5. CASE PollTimeout
  BY <1>5 DEF PollTimeout
<1>6. CASE RawRxFile
  <2>1. datagrams - 1 \in 0..Capacity
    BY <1>6 DEF RawRxFile
  <2> QED BY <1>6, <2>1, Zenon DEF RawRxFile
<1>7. CASE Served
  BY <1>7 DEF Served
<1>8. CASE Return
  BY <1>8 DEF Return
<1>9. CASE Dispose
  <2>1. 0 \in 0..Capacity
    OBVIOUS
  <2> QED BY <1>9, <2>1, Zenon DEF Dispose
<1>10. ASSUME NEW t \in Thread, Wakeup(t) PROVE IInv'
  BY <1>10 DEF Wakeup
<1>11. ASSUME NEW t \in Thread, Write(t) PROVE IInv'
  BY <1>11 DEF Write
<1>12. CASE UNCHANGED vars
  BY <1>12 DEF vars
<1> QED
  BY <1>1, <1>2, <1>3, <1>4, <1>5, <1>6, <1>7, <1>8, <1>9, <1>10, <1>11, <1>12 DEF Next

THEOREM Inductive == Spec => []IInv
<1> QED BY InitIInv, NextIInv, PTL DEF Spec

(* The server's variables keep their types: among them that the socket pair *)
(* never holds more than it has room for.                                   *)
THEOREM TypeCorrect == Spec => []TypeOK
<1>1. IInv => TypeOK
  BY DEF IInv
<1> QED BY <1>1, Inductive, PTL

(* The thread that serves all connections is never stuck in the read of     *)
(* LWS_CALLBACK_RAW_RX_FILE, however many threads call jrpc_server_wakeup.  *)
THEOREM ServerNeverStuck == Spec => []ReadNeverBlocks
<1>1. IInv => ReadNeverBlocks
  BY DEF IInv
<1> QED BY <1>1, Inductive, PTL

(* As long as a context can be created, jrpc_server_run returns only        *)
(* because of an event, a wakeup or the timeout.                            *)
THEOREM RunsAsDocumented ==
  ASSUME ~ContextMayFail
  PROVE  Spec => []RunsUntilEvent
<1>1. IInv => RunsUntilEvent
  BY DEF IInv
<1> QED BY <1>1, Inductive, PTL
-----------------------------------------------------------------------------

(* What libwebsockets refers to is a subset of what the server points to,   *)
(* and there is nothing while there is no context.                          *)
HeldInv ==
  /\ held \subseteq {pointer[f] : f \in Field} \ {NULL}
  /\ held # {} => context
  /\ pc = "disposed" => held = {}

(* A pointer is for the string that was set last.                           *)
WantedInv == pc # "disposed" => \A f \in Field : wanted[f] = Deref(pointer[f])

(* The context was told all strings at once, and none is set after that.    *)
ServingInv == context => serving = Service(wanted["protocol_name"], wanted["document_root"],
                                           wanted["cert_path"], wanted["key_path"])

ConfigInv ==
  /\ ConfigTypeOK
  /\ context \in BOOLEAN
  /\ pc = "disposed" => ~context
  /\ StringsOwned
  /\ HeldInv
  /\ WantedInv
  /\ ServingInv

(* Of all the states the properties speak of, only these variables count.   *)
LEMMA SameConfig ==
  ASSUME ConfigInv, UNCHANGED <<configVars, context>>, pc # "disposed", pc' # "disposed"
  PROVE  ConfigInv'
BY DEF ConfigInv, ConfigTypeOK, StringsOwned, HeldInv, WantedInv, ServingInv, configVars, Deref,
       Service

LEMMA ConfigInitInv == ConfigInit => ConfigInv
<1> SUFFICES ASSUME ConfigInit PROVE ConfigInv
  OBVIOUS
<1> USE ConfigAssumption DEF Field
<1>0. /\ pc = "app" /\ context = FALSE /\ held = {}
      /\ wanted = [f \in Field |-> IF pointer[f] = NULL THEN NULL ELSE DefaultName]
  BY DEF ConfigInit, Init
<1>1. CASE \E a \in Address :
             /\ heap = [b \in {a} |-> DefaultName]
             /\ pointer = [f \in Field |-> IF f = "protocol_name" THEN a ELSE NULL]
  <2>1. PICK a \in Address :
             /\ heap = [b \in {a} |-> DefaultName]
             /\ pointer = [f \in Field |-> IF f = "protocol_name" THEN a ELSE NULL]
    BY <1>1
  <2>2. DOMAIN heap = {a} /\ heap[a] = DefaultName
    BY <2>1
  <2>3. {pointer[f] : f \in Field} \ {NULL} = {a} /\ a # NULL
    BY <2>1
  <2>4. ConfigTypeOK
    BY <1>0, <2>1, <2>2 DEF ConfigTypeOK
  <2>5. StringsOwned
    BY <1>0, <2>1, <2>2, <2>3 DEF StringsOwned
  <2>6. WantedInv
    BY <1>0, <2>1, <2>2, <2>3 DEF WantedInv, Deref
  <2> QED BY <1>0, <2>4, <2>5, <2>6 DEF ConfigInv, HeldInv, ServingInv
<1>2. CASE heap = <<>> /\ pointer = [f \in Field |-> NULL]
  <2>1. DOMAIN heap = {} /\ {pointer[f] : f \in Field} \ {NULL} = {}
    BY <1>2
  <2>2. ConfigTypeOK /\ StringsOwned /\ WantedInv
    BY <1>0, <1>2, <2>1 DEF ConfigTypeOK, StringsOwned, WantedInv, Deref
  <2> QED BY <1>0, <2>2 DEF ConfigInv, HeldInv, ServingInv
<1> QED BY <1>1, <1>2 DEF ConfigInit

(* The heap after a block is freed and another one allocated.               *)
LEMMA HeapAfter ==
  ASSUME NEW h, NEW p, NEW a, a \notin DOMAIN h, NEW text
  PROVE  LET g == Alloc(Free(h, p), a, text)
         IN /\ DOMAIN g = (DOMAIN h \ {p}) \union {a}
            /\ g[a] = text
            /\ \A b \in DOMAIN h \ {p} : g[b] = h[b]
BY DEF Free, Alloc

LEMMA SetInv ==
  ASSUME ConfigInv, NEW f \in Field, NEW text \in Text \union {DefaultName}, Set(f, text)
  PROVE  ConfigInv'
<1> USE ConfigAssumption
<1>0. /\ pc = "app" /\ pc' = "app" /\ context = FALSE /\ context' = FALSE
      /\ held = {} /\ held' = {}
      /\ pointer \in [Field -> Address \union {NULL}]
      /\ DOMAIN heap = {pointer[g] : g \in Field} \ {NULL}
      /\ \A g, e \in Field : pointer[g] = pointer[e] => g = e \/ pointer[g] = NULL
      /\ \A g \in Field : wanted[g] = Deref(pointer[g])
      /\ DOMAIN heap \subseteq Address
      /\ \A a \in DOMAIN heap : heap[a] \in Text \union {DefaultName}
      /\ wanted \in [Field -> Text \union {DefaultName, NULL}]
  BY DEF Set, ConfigInv, ConfigTypeOK, StringsOwned, HeldInv, WantedInv, vars
<1>w. wanted' = [wanted EXCEPT ![f] = IF pointer'[f] = NULL THEN NULL ELSE text]
  BY DEF Set
<1> DEFINE old == Free(heap, pointer[f])
<1>1. /\ DOMAIN old = {pointer[g] : g \in Field \ {f}} \ {NULL}
      /\ \A b \in DOMAIN old : b \in DOMAIN heap /\ old[b] = heap[b] /\ b # pointer[f]
  BY <1>0 DEF Free
<1>2. CASE \E a \in Address \ DOMAIN old :
             heap' = Alloc(old, a, text) /\ pointer' = [pointer EXCEPT ![f] = a]
  <2>1. PICK a \in Address \ DOMAIN old :
             heap' = Alloc(old, a, text) /\ pointer' = [pointer EXCEPT ![f] = a]
    BY <1>2
  <2>2. /\ DOMAIN heap' = (DOMAIN heap \ {pointer[f]}) \union {a}
        /\ heap'[a] = text
        /\ \A b \in DOMAIN old : heap'[b] = heap[b]
    BY <2>1, HeapAfter, <1>1 DEF Free, Alloc
  <2>3. /\ pointer'[f] = a
        /\ \A g \in Field \ {f} : pointer'[g] = pointer[g] /\ pointer'[g] # a
    BY <2>1, <1>0, <1>1
  <2>4. DOMAIN heap' = {pointer'[g] : g \in Field} \ {NULL}
    BY <2>2, <2>3, <1>1, <1>0 DEF Free
  <2>5. \A g, e \in Field : pointer'[g] = pointer'[e] => g = e \/ pointer'[g] = NULL
    BY <2>3, <1>0
  <2>6. \A g \in Field : wanted'[g] = Deref(pointer[g])'
    <3>1. CASE TRUE /\ \A g \in Field \ {f} : wanted'[g] = Deref(pointer[g])'
      BY <3>1, <1>0, <1>w, <2>2, <2>3 DEF Deref
    <3>2. ASSUME NEW g \in Field \ {f} PROVE wanted'[g] = Deref(pointer[g])'
      BY <1>0, <1>1, <1>w, <2>2, <2>3 DEF Deref
    <3> QED BY <3>1, <3>2
  <2>7. ConfigTypeOK'
    BY <1>0, <1>1, <1>w, <2>1, <2>2 DEF ConfigTypeOK
  <2> QED BY <1>0, <2>4, <2>5, <2>6, <2>7
          DEF ConfigInv, StringsOwned, HeldInv, WantedInv, ServingInv
<1>3. CASE heap' = old /\ pointer' = [pointer EXCEPT ![f] = NULL]
  <2>1. /\ pointer'[f] = NULL
        /\ \A g \in Field \ {f} : pointer'[g] = pointer[g]
    BY <1>3, <1>0
  <2>2. DOMAIN heap' = {pointer'[g] : g \in Field} \ {NULL}
    BY <1>1, <1>3, <2>1
  <2>3. \A g, e \in Field : pointer'[g] = pointer'[e] => g = e \/ pointer'[g] = NULL
    BY <2>1, <1>0
  <2>4. \A g \in Field : wanted'[g] = Deref(pointer[g])'
    BY <1>0, <1>1, <1>w, <1>3, <2>1 DEF Deref
  <2>5. ConfigTypeOK'
    BY <1>0, <1>1, <1>w, <1>3 DEF ConfigTypeOK
  <2> QED BY <1>0, <2>2, <2>3, <2>4, <2>5
          DEF ConfigInv, StringsOwned, HeldInv, WantedInv, ServingInv
<1> QED BY <1>2, <1>3 DEF Set, Strdup

LEMMA CreateInv == ConfigInv /\ CreateConfigured => ConfigInv'
<1> SUFFICES ASSUME ConfigInv, CreateConfigured PROVE ConfigInv'
  OBVIOUS
<1>1. pc = "create" /\ pc' # "disposed" /\ UNCHANGED <<pointer, heap, wanted>>
  BY DEF CreateConfigured, CreateContext
<1>2. context' \in BOOLEAN /\ (~context' => ~context)
  <2>1. context' = TRUE \/ context' = context
    BY Zenon DEF CreateConfigured, CreateContext
  <2> QED BY <2>1 DEF ConfigInv
<1>3. ConfigTypeOK /\ StringsOwned /\ HeldInv /\ WantedInv /\ ServingInv
  BY DEF ConfigInv
<1>4. StringsOwned' /\ WantedInv'
  BY <1>1, <1>3 DEF StringsOwned, WantedInv, Deref
<1>5. CASE context'
  <2>1. held' = {pointer["protocol_name"], pointer["document_root"]} \ {NULL}
    BY <1>5 DEF CreateConfigured
  <2>2. HeldInv' /\ ConfigTypeOK'
    BY <1>1, <1>3, <1>5, <2>1 DEF HeldInv, ConfigTypeOK, Field
  <2>3. ServingInv'
    BY <1>1, <1>3, <1>5 DEF ServingInv, CreateConfigured, WantedInv, Field
  <2> QED BY <1>1, <1>2, <1>4, <2>2, <2>3 DEF ConfigInv
<1>6. CASE ~context'
  <2>1. UNCHANGED <<serving, held>>
    BY <1>6 DEF CreateConfigured
  <2> QED BY <1>1, <1>2, <1>3, <1>4, <1>6, <2>1 DEF ConfigInv, HeldInv, ConfigTypeOK, ServingInv
<1> QED BY <1>5, <1>6

LEMMA DisposeInv == ConfigInv /\ DisposeAll => ConfigInv'
<1> SUFFICES ASSUME ConfigInv, DisposeAll PROVE ConfigInv'
  OBVIOUS
<1>1. /\ pc = "app" /\ pc' = "disposed" /\ context' = FALSE /\ held' = {}
      /\ heap' = [a \in DOMAIN heap \ {pointer[f] : f \in Field} |-> heap[a]]
      /\ UNCHANGED <<pointer, wanted>>
  BY DEF DisposeAll, Dispose
<1>2. DOMAIN heap' = {}
  BY <1>1 DEF ConfigInv, StringsOwned
<1> QED BY <1>1, <1>2 DEF ConfigInv, ConfigTypeOK, StringsOwned, HeldInv, WantedInv, ServingInv

LEMMA ServeInv == ConfigInv /\ Serve => ConfigInv'
<1> SUFFICES ASSUME ConfigInv, Serve PROVE ConfigInv'
  OBVIOUS
<1>1. UNCHANGED configVars
  BY DEF Serve
<1>2. CASE Run \/ PollWakeup \/ PollEvent \/ PollTimeout \/ RawRxFile \/ Served \/ Return
  <2>1. pc # "disposed" /\ pc' # "disposed" /\ context' = context
    BY <1>2 DEF Run, PollWakeup, PollEvent, PollTimeout, RawRxFile, Served, Return
  <2> QED BY <1>1, <2>1, SameConfig
<1>3. ASSUME NEW t \in Thread, Wakeup(t) \/ Write(t) PROVE ConfigInv'
  <2>1. pc' = pc /\ context' = context
    BY <1>3 DEF Wakeup, Write
  <2> QED BY <1>1, <2>1 DEF ConfigInv, ConfigTypeOK, StringsOwned, HeldInv, WantedInv, ServingInv,
          configVars, Deref
<1> QED BY <1>2, <1>3 DEF Serve

LEMMA ConfigNextInv == ConfigInv /\ [ConfigNext]_configAll => ConfigInv'
<1> SUFFICES ASSUME ConfigInv, [ConfigNext]_configAll PROVE ConfigInv'
  OBVIOUS
<1>1. ASSUME NEW f \in Field, NEW text \in Text, Set(f, text) PROVE ConfigInv'
  BY <1>1, SetInv
<1>2. CASE UNCHANGED configAll
  BY <1>2 DEF configAll, configVars, vars, ConfigInv, ConfigTypeOK, StringsOwned, HeldInv, WantedInv,
              ServingInv, Deref
<1> QED BY <1>1, <1>2, CreateInv, DisposeInv, ServeInv DEF ConfigNext

(* No string of the configuration leaks, is freed twice or is shared.       *)
THEOREM NoStringLost == ConfigSpec => []StringsOwned
<1>1. ConfigInv => StringsOwned
  BY DEF ConfigInv
<1> QED BY <1>1, ConfigInitInv, ConfigNextInv, PTL DEF ConfigSpec

(* The protocol's name and the document root outlive the context.           *)
THEOREM HeldOutlivesContext == ConfigSpec => []HeldNotFreed
<1>1. ConfigInv => HeldNotFreed
  BY DEF ConfigInv, HeldInv, StringsOwned, HeldNotFreed
<1> QED BY <1>1, ConfigInitInv, ConfigNextInv, PTL DEF ConfigSpec

(* The server serves what was set last.                                     *)
THEOREM ServesSettings == ConfigSpec => []ServedAsSet
<1>1. ConfigInv => ServedAsSet
  BY DEF ConfigInv, ServingInv, ServedAsSet, WantsTls, Service
<1> QED BY <1>1, ConfigInitInv, ConfigNextInv, PTL DEF ConfigSpec
=============================================================================
