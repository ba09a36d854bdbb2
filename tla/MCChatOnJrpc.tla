---------------------------- MODULE MCChatOnJrpc ----------------------------
(* Instances of ChatOnJrpc for TLC; MCJrpcProtocol has the messages. *)
EXTENDS ChatOnJrpc, MCJrpcProtocol
=============================================================================
