---------------------------- MODULE MCChatBridge ----------------------------
(* Instances of ChatBridge for TLC. *)
EXTENDS ChatBridge
=============================================================================
