----------------------------- MODULE JrpcConfig -----------------------------
(***************************************************************************)
(* The configuration of a JrpcServer (lib/jrpc/server.c): four strings the *)
(* server keeps copies of, from which it tells libwebsockets what to       *)
(* serve when the context is created.  libwebsockets keeps the pointers to *)
(* some of them for as long as the context lives.                          *)
(***************************************************************************)
EXTENDS JrpcServer

CONSTANTS
  Address,        \* of blocks on the heap
  Text,           \* what strings may be set to
  DefaultName,    \* JRPC_SERVER_DEFAULT_PROTOCOL_NAME
  StrdupMayFail,
  NULL

Field == {"protocol_name", "document_root", "cert_path", "key_path"}

ASSUME ConfigAssumption ==
  /\ StrdupMayFail \in BOOLEAN
  /\ NULL \notin Address /\ NULL \notin Text \union {DefaultName}

VARIABLES
  pointer,  \* pointer[f]: server->f
  heap,     \* the strings that are allocated, by their addresses
  held,     \* addresses libwebsockets refers to
  serving,  \* what the context was told to serve
  wanted    \* history: what was set last, or NULL if it could not be stored

configVars == <<pointer, heap, held, serving, wanted>>
configAll == <<vars, configVars>>

(* The string a pointer is for, if any. *)
Deref(a) == IF a = NULL THEN NULL ELSE heap[a]

(* Mutant: TLS does not need the key. *)
ServiceWithoutKey(name, root, cert, key) ==
  [protocol |-> name, http |-> root, tls |-> IF cert # NULL THEN <<cert, key>> ELSE NULL]

(* The protocol by its name; HTTP if there is a document root; TLS if there *)
(* are both a certificate and a key.                                        *)
Service(name, root, cert, key) ==
  [protocol |-> name, http |-> root,
   tls |-> IF cert # NULL /\ key # NULL THEN <<cert, key>> ELSE NULL]
Nothing == Service(NULL, NULL, NULL, NULL)

Free(h, a) == [b \in DOMAIN h \ {a} |-> h[b]]
Alloc(h, a, text) == [b \in DOMAIN h \union {a} |-> IF b = a THEN text ELSE h[b]]

(* server->f = strdup(text), with the heap h as it is before. *)
Strdup(f, text, h) ==
  \/ \E a \in Address \ DOMAIN h :
       heap' = Alloc(h, a, text) /\ pointer' = [pointer EXCEPT ![f] = a]
  \/ StrdupMayFail /\ heap' = h /\ pointer' = [pointer EXCEPT ![f] = NULL]

(* jrpc_server_create *)
ConfigInit ==
  /\ Init
  /\ \/ \E a \in Address :
          /\ heap = [b \in {a} |-> DefaultName]
          /\ pointer = [f \in Field |-> IF f = "protocol_name" THEN a ELSE NULL]
     \/ StrdupMayFail /\ heap = <<>> /\ pointer = [f \in Field |-> NULL]
  /\ held = {}
  /\ serving = Nothing
  /\ wanted = [f \in Field |-> IF pointer[f] = NULL THEN NULL ELSE DefaultName]

(* Mutant: the string that was set before is not freed. *)
SetLeaks(f, text) ==
  /\ pc = "app" /\ ~context
  /\ Strdup(f, text, heap)
  /\ wanted' = [wanted EXCEPT ![f] = IF pointer'[f] = NULL THEN NULL ELSE text]
  /\ UNCHANGED <<vars, held, serving>>

(* jrpc_server_set_protocolname, _documentroot, _certpath and _keypath.  An *)
(* application does not call them any more when there is a context.         *)
Set(f, text) ==
  /\ pc = "app" /\ ~context
  /\ Strdup(f, text, Free(heap, pointer[f]))
  /\ wanted' = [wanted EXCEPT ![f] = IF pointer'[f] = NULL THEN NULL ELSE text]
  /\ UNCHANGED <<vars, held, serving>>

(* jrpc_server_create_context, from the strings as they are then. *)
CreateConfigured ==
  /\ CreateContext
  /\ IF context'
     THEN /\ serving' = Service(Deref(pointer["protocol_name"]), Deref(pointer["document_root"]),
                                Deref(pointer["cert_path"]), Deref(pointer["key_path"]))
          /\ held' = {pointer["protocol_name"], pointer["document_root"]} \ {NULL}
     ELSE UNCHANGED <<serving, held>>
  /\ UNCHANGED <<pointer, heap, wanted>>

(* Mutant: the strings are freed, the context is not destroyed. *)
DisposeStringsOnly ==
  /\ Dispose
  /\ heap' = [a \in DOMAIN heap \ {pointer[f] : f \in Field} |-> heap[a]]
  /\ UNCHANGED <<pointer, held, serving, wanted>>

(* jrpc_server_dispose *)
DisposeAll ==
  /\ Dispose
  /\ held' = {}
  /\ serving' = Nothing
  /\ heap' = [a \in DOMAIN heap \ {pointer[f] : f \in Field} |-> heap[a]]
  /\ UNCHANGED <<pointer, wanted>>

(* All the rest of JrpcServer leaves the configuration alone. *)
Serve ==
  /\ \/ Run \/ PollWakeup \/ PollEvent \/ PollTimeout \/ RawRxFile \/ Served \/ Return
     \/ \E t \in Thread : Wakeup(t) \/ Write(t)
  /\ UNCHANGED configVars

ConfigNext ==
  \/ \E f \in Field, text \in Text : Set(f, text)
  \/ CreateConfigured \/ Serve \/ DisposeAll

ConfigSpec == ConfigInit /\ [][ConfigNext]_configAll
-----------------------------------------------------------------------------
(* Every variable has its type. *)
ConfigTypeOK ==
  /\ pointer \in [Field -> Address \union {NULL}]
  /\ DOMAIN heap \subseteq Address
  /\ \A a \in DOMAIN heap : heap[a] \in Text \union {DefaultName}
  /\ held \subseteq Address
  /\ wanted \in [Field -> Text \union {DefaultName, NULL}]

(* The strings that are allocated are the ones the server points to, each   *)
(* for one field: none leaks and none is freed twice.  After                *)
(* jrpc_server_dispose none is left.                                        *)
StringsOwned ==
  IF pc = "disposed" THEN DOMAIN heap = {}
  ELSE /\ DOMAIN heap = {pointer[f] : f \in Field} \ {NULL}
       /\ \A f, g \in Field : pointer[f] = pointer[g] => f = g \/ pointer[f] = NULL

(* What libwebsockets refers to is not freed while the context lives.       *)
HeldNotFreed == held \subseteq DOMAIN heap

(* The server serves what was set last, also if the context was created     *)
(* only after some attempts: HTTP if there is a document root, TLS if there *)
(* are a certificate and a key.  A setter that fails for lack of memory     *)
(* takes away what was set before, but nothing else is served for it.       *)
WantsTls == wanted["cert_path"] # NULL /\ wanted["key_path"] # NULL
ServedAsSet ==
  context =>
    /\ serving.protocol = wanted["protocol_name"]
    /\ serving.http = wanted["document_root"]
    /\ IF WantsTls THEN serving.tls = <<wanted["cert_path"], wanted["key_path"]>>
       ELSE serving.tls = NULL
=============================================================================
