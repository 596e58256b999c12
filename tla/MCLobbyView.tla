----------------------------- MODULE MCLobbyView -----------------------------
(* Instance of LobbyView for TLC. *)
EXTENDS LobbyView

CONSTANTS u1, u2

MCOthers == {u1, u2}
=============================================================================
