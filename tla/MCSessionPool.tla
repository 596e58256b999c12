---------------------------- MODULE MCSessionPool ----------------------------
(***************************************************************************)
(* SessionPool for TLC.                                                    *)
(***************************************************************************)
EXTENDS SessionPool

=============================================================================
