----------------------------- MODULE ChatPresence -----------------------------
(***************************************************************************)
(* What the chat server promises its users, without pools, dictionaries,   *)
(* slots or indices: where each session is.  A session logs in, enters a   *)
(* lobby, opens or joins a room of that lobby, and comes back the same way *)
(* or is cut off from anywhere.  A room exists while somebody is in it.    *)
(* ChatServer implements this specification.                               *)
(***************************************************************************)
EXTENDS Integers, FiniteSets

CONSTANTS Sessions, Lobbies, Rooms, MaxUserCount, MaxLobbyUserCount, MaxRoomUserCount

VARIABLE place    \* where each session is

Away           == [at |-> "away"]
LoggedIn       == [at |-> "login"]
InLobby(l)     == [at |-> "lobby", lobby |-> l]
InRoom(l, r)   == [at |-> "room", lobby |-> l, room |-> r]

Places == {Away, LoggedIn} \union {InLobby(l) : l \in Lobbies}
            \union {InRoom(l, r) : l \in Lobbies, r \in Rooms}

PresenceTypeOK == place \in [Sessions -> Places]

Members(l, r) == {s \in Sessions : place[s] = InRoom(l, r)}

\* The sessions a lobby counts: those in it and those in its rooms.
Guests(l) == {s \in Sessions : place[s] = InLobby(l)}
               \union UNION {Members(l, r) : r \in Rooms}

Move(s, from, to) == place[s] = from /\ place' = [place EXCEPT ![s] = to]

Login(s) ==
    /\ Cardinality({t \in Sessions : place[t] # Away}) < MaxUserCount
    /\ Move(s, Away, LoggedIn)

EnterLobby(s, l) ==
    /\ Cardinality(Guests(l)) < MaxLobbyUserCount
    /\ Move(s, LoggedIn, InLobby(l))

LeaveLobby(s, l) == Move(s, InLobby(l), LoggedIn)

OpenRoom(s, l, r) ==
    /\ Members(l, r) = {}
    /\ Move(s, InLobby(l), InRoom(l, r))

JoinRoom(s, l, r) ==
    /\ Cardinality(Members(l, r)) \in 1 .. MaxRoomUserCount - 1
    /\ Move(s, InLobby(l), InRoom(l, r))

LeaveRoom(s, l, r) == Move(s, InRoom(l, r), InLobby(l))

CutOff(s) == place' = [place EXCEPT ![s] = Away]

Init == place = [s \in Sessions |-> Away]

Next ==
    \E s \in Sessions :
        \/ Login(s)
        \/ CutOff(s)
        \/ \E l \in Lobbies :
             \/ EnterLobby(s, l)
             \/ LeaveLobby(s, l)
             \/ \E r \in Rooms :
                  \/ OpenRoom(s, l, r)
                  \/ JoinRoom(s, l, r)
                  \/ LeaveRoom(s, l, r)

Spec == Init /\ [][Next]_place

===============================================================================
