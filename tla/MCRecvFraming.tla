--------------------------- MODULE MCRecvFraming ----------------------------
(***************************************************************************)
(* RecvFraming for TLC: the sequences and numbers a connection of MaxSent  *)
(* packets can need.                                                       *)
(***************************************************************************)
EXTENDS RecvFraming

=============================================================================
