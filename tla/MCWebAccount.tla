---------------------------- MODULE MCWebAccount -----------------------------
(***************************************************************************)
(* WebAccount for TLC: two clients of the person who owns the ID and one   *)
(* of somebody who would like to have the same ID.                         *)
(***************************************************************************)
EXTENDS WebAccount

CONSTANTS c1, c2, c3, own, other

MCClients == {c1, c2, c3}
MCPasswords == {own, other}
MCPW == [c \in MCClients |-> IF c = c3 THEN other ELSE own]

=============================================================================
