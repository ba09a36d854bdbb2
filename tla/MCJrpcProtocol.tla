--------------------------- MODULE MCJrpcProtocol ---------------------------
(* Instances of JrpcProtocol for TLC: what the clients may send. *)
EXTENDS JrpcProtocol

Message(idType, id) == [json |-> TRUE, method |-> "string", params |-> "object",
                        idType |-> idType, id |-> id, pieces |-> 1]

Request(id) == Message("integer", id)
NoId == Message("absent", 0)
StringId == Message("string", 0)
Garbage == [Request(0) EXCEPT !.json = FALSE]
NoParams == [Request(1) EXCEPT !.params = "absent"]
ScalarParams == [Request(1) EXCEPT !.params = "integer"]
NoMethod == [Request(1) EXCEPT !.method = "absent"]
Fragmented(id) == [Request(id) EXCEPT !.pieces = 2]

OneRequest == {Request(1)}
RequestsAndNotifications == {Request(1), NoId}
AllKinds == {Request(0), Request(1), NoId, StringId, Garbage, NoParams,
             [Request(1) EXCEPT !.params = "array"], ScalarParams, NoMethod}
WideIds == {Request(1), Request(2)}
LongMessages == {Request(1), Fragmented(1)}
=============================================================================
