----------------------------- MODULE JrpcMessage -----------------------------
(***************************************************************************)
(* How jrpc_respond, jrpc_respond_error and jrpc_notify                    *)
(* (lib/jrpc/connection.c) make a frame: JSON objects put together by      *)
(* calls of jansson, each of which may fail and none of whose results is   *)
(* looked at, and then dumped by jrpc_message_create (lib/jrpc/message.c)  *)
(* twice, to measure it and to write it.                                   *)
(***************************************************************************)
EXTENDS Sequences

CONSTANTS Params,   \* what may be passed as result or params: "value", "circular", NULL
          Strings,  \* what may be passed as a string: "utf8", "other"
          Failing,  \* {"malloc"} if calls may fail for lack of memory
          NULL

ASSUME MessageAssumption ==
  /\ Params \subseteq {"value", "circular", NULL}
  /\ Strings \subseteq {"utf8", "other"}

VARIABLES
  call,    \* the function that runs, or "none"
  rest,    \* the calls of jansson it has still to make
  param,   \* its argument: a result, or params
  string,  \* its argument: an error message, or the name of a method
  object,  \* object[x]: the members of the JSON object variable x points to, if any
  live,    \* variables whose reference has yet to be given away or released
  failed,  \* history: something failed in this call
  sent     \* the frame that was queued: its members, or <<what went wrong>>

vars == <<call, rest, param, string, object, live, failed, sent>>
arguments == <<call, param, string>>

JsonObject(x) == [into |-> x, key |-> "", from |-> "json_object"]
SetNew(x, k, v) == [into |-> x, key |-> k, from |-> v]

(* The calls that make a frame, in their order. *)
RespondCalls == <<JsonObject("frame"), SetNew("frame", "result", "param"),
                  SetNew("frame", "id", "integer")>>

(* Mutant: an error goes without the id. *)
ErrorWithoutId == <<JsonObject("error_holder"), SetNew("error_holder", "code", "integer"),
                    SetNew("error_holder", "message", "string"),
                    JsonObject("frame"), SetNew("frame", "error", "error_holder")>>

ErrorCalls == <<JsonObject("error_holder"), SetNew("error_holder", "code", "integer"),
                SetNew("error_holder", "message", "string"),
                JsonObject("frame"), SetNew("frame", "error", "error_holder"),
                SetNew("frame", "id", "integer")>>

NotifyCalls == <<JsonObject("frame"), SetNew("frame", "method", "string"),
                 SetNew("frame", "params", "param")>>

Code == [jrpc_respond |-> RespondCalls, jrpc_respond_error |-> ErrorCalls,
         jrpc_notify |-> NotifyCalls]

Init ==
  /\ call = "none"
  /\ rest = <<>>
  /\ param = NULL
  /\ string = "utf8"
  /\ object = <<>>
  /\ live = {}
  /\ failed = FALSE
  /\ sent = <<>>

(* The application gives its reference to the result or the params away.    *)
Call(f, p, s) ==
  /\ call = "none"
  /\ call' = f /\ param' = p /\ string' = s
  /\ rest' = Code[f]
  /\ object' = <<>>
  /\ live' = IF f = "jrpc_respond_error" \/ p = NULL THEN {} ELSE {"param"}
  /\ failed' = FALSE
  /\ UNCHANGED sent

(* The function f with a value of k. *)
With(f, k, v) == [x \in DOMAIN f \union {k} |-> IF x = k THEN v ELSE f[x]]

Memory == {TRUE} \union (IF "malloc" \in Failing THEN {FALSE} ELSE {})

(* json_object *)
Create ==
  /\ rest # <<>> /\ Head(rest).from = "json_object"
  /\ \E ok \in Memory :
       /\ object' = IF ok THEN With(object, Head(rest).into, <<>>) ELSE object
       /\ live' = IF ok THEN live \union {Head(rest).into} ELSE live
       /\ failed' = (failed \/ ~ok)
  /\ rest' = Tail(rest)
  /\ UNCHANGED <<arguments, sent>>

(* json_integer, json_string, which refuses what is not UTF-8, and values   *)
(* that exist already.                                                      *)
Value(from, ok) ==
  CASE from = "integer" -> IF ok THEN "integer" ELSE NULL
    [] from = "string" -> IF ok /\ string = "utf8" THEN "string" ELSE NULL
    [] from = "param" -> param
    [] from = "error_holder" ->
         IF "error_holder" \in DOMAIN object THEN object["error_holder"] ELSE NULL

(* json_object_set_new takes the value over, also if it cannot set it.      *)
Set ==
  /\ rest # <<>> /\ Head(rest).from # "json_object"
  /\ \E ok, room \in Memory :
       LET x == Head(rest).into
           v == Value(Head(rest).from, ok)
           done == room /\ v # NULL /\ x \in DOMAIN object
       IN /\ object' = IF done THEN [object EXCEPT ![x] = With(@, Head(rest).key, v)] ELSE object
          /\ failed' = (failed \/ ~done)
  /\ live' = live \ {Head(rest).from}
  /\ rest' = Tail(rest)
  /\ UNCHANGED <<arguments, sent>>

Circular(members) == \E k \in DOMAIN members : k \in {"result", "params"} /\ members[k] = "circular"

(* json_dumpb returns 0 for what it cannot dump. *)
CanDump(ok) == ok /\ "frame" \in DOMAIN object /\ ~Circular(object["frame"])

(* Mutant: an object that cannot be dumped is not sent, and not released. *)
SendChecked ==
  /\ call # "none" /\ rest = <<>>
  /\ \E measured, memory, written \in Memory :
       /\ sent' = IF ~memory \/ ~CanDump(measured) \/ ~CanDump(written) THEN <<"nothing">>
                  ELSE object["frame"]
       /\ live' = IF CanDump(measured) THEN live \ {"frame"} ELSE live
       /\ failed' = (failed \/ ~memory \/ ~measured \/ ~written)
  /\ call' = "none"
  /\ UNCHANGED <<rest, param, string, object>>

(* jrpc_connection_send: the message has the length that was measured, and  *)
(* as its data what was written, if anything was.                           *)
Send ==
  /\ call # "none" /\ rest = <<>>
  /\ \E measured, memory, written \in Memory :
       /\ sent' = IF ~memory THEN <<"nothing">>
                  ELSE IF ~CanDump(measured) THEN <<"empty">>
                  ELSE IF ~CanDump(written) THEN <<"uninitialised">>
                  ELSE object["frame"]
       /\ failed' = (failed \/ ~memory \/ ~measured \/ ~written)
  /\ live' = live \ {"frame"}
  /\ call' = "none"
  /\ UNCHANGED <<rest, param, string, object>>

Next ==
  \/ \E f \in DOMAIN Code, p \in Params, s \in Strings : Call(f, p, s)
  \/ Create \/ Set \/ Send

Spec == Init /\ [][Next]_vars
-----------------------------------------------------------------------------
(* The messages of README.md. *)
Result == [result |-> "value", id |-> "integer"]
Error == [error |-> [code |-> "integer", message |-> "string"], id |-> "integer"]
Notification == [method |-> "string", params |-> "value"]
Documented ==
  [jrpc_respond |-> Result, jrpc_respond_error |-> Error, jrpc_notify |-> Notification]

(* Every reference is given away or released once the call is over, at      *)
(* whichever of its steps it failed: none is leaked.                        *)
NothingLeaks == call = "none" => live = {}

(* If nothing fails, the frame has the members README.md lists for it, and  *)
(* no others.  With parameters that jansson cannot dump it is empty.        *)
FrameComplete ==
  [][call # "none" /\ call' = "none" /\ ~failed' =>
       sent' = IF param = "circular" /\ call # "jrpc_respond_error" THEN <<"empty">>
               ELSE Documented[call]]_vars
=============================================================================
