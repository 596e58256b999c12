----------------------------- MODULE MCChatServer -----------------------------
(***************************************************************************)
(* ChatServer for TLC.                                                     *)
(***************************************************************************)
EXTENDS ChatServer

=============================================================================
