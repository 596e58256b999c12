--------------------------- MODULE MCClientNetwork ---------------------------
(* Instance of ClientNetwork for TLC. *)
EXTENDS ClientNetwork

MCBodySizes == {1, 2}
=============================================================================
