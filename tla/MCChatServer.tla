---------------------------- MODULE MCChatServer ----------------------------
(* Instance of ChatServer for TLC; the bounds are in the cfg files. *)
EXTENDS ChatServer
=============================================================================
