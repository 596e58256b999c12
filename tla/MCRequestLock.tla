---------------------------- MODULE MCRequestLock ----------------------------
(***************************************************************************)
(* RequestLock for TLC.                                                    *)
(***************************************************************************)
EXTENDS RequestLock

=============================================================================
