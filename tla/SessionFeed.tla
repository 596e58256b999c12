----------------------------- MODULE SessionFeed -----------------------------
(***************************************************************************)
(* What the network promises the logic layer: each session index belongs   *)
(* to one connection from the moment it is accepted until the logic has    *)
(* handled the packet that reports its end; every packet handled in        *)
(* between came from that connection.  TcpNetwork, with the loop of        *)
(* Main::Run, implements this specification.                               *)
(***************************************************************************)
CONSTANTS Sessions, Conns, NoConn

VARIABLES
    owner,      \* the connection each session index stands for
    handled     \* the packet the logic took last

Nothing       == [kind |-> "nothing"]
Request(s, c) == [kind |-> "request", session |-> s, conn |-> c]
Close(s, c)   == [kind |-> "close", session |-> s, conn |-> c]

Init ==
    /\ owner = [s \in Sessions |-> NoConn]
    /\ handled = Nothing

\* A connection takes a session index that stands for nobody.
Connect(s, c) ==
    /\ owner[s] = NoConn
    /\ owner' = [owner EXCEPT ![s] = c]
    /\ UNCHANGED handled

\* The logic handles a packet that the connection sent.
TakeRequest(s) ==
    /\ owner[s] # NoConn
    /\ handled' = Request(s, owner[s])
    /\ UNCHANGED owner

\* The logic handles the end of the connection: nothing of it comes after.
TakeClose(s) ==
    /\ owner[s] # NoConn
    /\ handled' = Close(s, owner[s])
    /\ owner' = [owner EXCEPT ![s] = NoConn]

Pause ==
    /\ handled' = Nothing
    /\ UNCHANGED owner

Next ==
    \/ \E s \in Sessions, c \in Conns : Connect(s, c)
    \/ \E s \in Sessions : TakeRequest(s) \/ TakeClose(s)
    \/ Pause

Spec == Init /\ [][Next]_<<owner, handled>>

=============================================================================
