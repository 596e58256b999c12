------------------------------ MODULE LobbyView ------------------------------
(***************************************************************************)
(* What a chat client shows of its lobby: the composition of the lobby of  *)
(* the server (Lobby.cpp and the handlers of the lobby and the rooms) with *)
(* the lobby scene of one client (ClientSceneLobby.cpp), over a connection *)
(* that keeps the order.  The client enters, fetches the list of rooms and *)
(* then the list of users page by page, and meanwhile hears of everybody   *)
(* who comes and goes.                                                     *)
(*                                                                         *)
(* The server's state is cut down to what this client is told of: one      *)
(* lobby, the other users in it or in its rooms, its slots, which are      *)
(* never freed.  ChatServer has the rest, and the proof that a lobby and   *)
(* its rooms hold exactly the users whose state says so.  An ID belongs to *)
(* one User object.                                                        *)
(***************************************************************************)
EXTENDS Integers, FiniteSets, SequencesExt

CONSTANTS
    Others,        \* the other users
    Viewer,        \* the user of the client
    SlotCount,     \* user slots of the lobby (MaxLobbyUserCount)
    RoomCount,     \* rooms of the lobby (MaxRoomCountByLobby)
    RoomLimit,     \* members a room can hold
    MaxRoomList,   \* MAX_NTF_LOBBY_ROOM_LIST_COUNT
    MaxUserList,   \* MAX_SEND_LOBBY_USER_LIST_COUNT
    MaxDown        \* packets to the client that fit between the two sides

ASSUME ViewerAssumption == Viewer \notin Others /\ IsFiniteSet(Others)
ASSUME LimitAssumption ==
    {SlotCount, RoomCount, RoomLimit, MaxRoomList, MaxUserList, MaxDown} \subseteq Nat \ {0}

VARIABLES
    state,      \* IsCurDomainState of every user, "NONE" without a User object
    hasLobby,   \* the user's LobbyIndex is this lobby, as it may long not be any more
    room,       \* the user's RoomIndex, possibly stale
    slots,      \* Lobby::m_UserList, as far as slots have been taken
    down,       \* packets on their way to the client
    up,         \* list requests on their way to the server
    phase,      \* where the client is: before and after Init, and its two lists
    roomList,   \* m_RoomList: users per room, 0 for a room not in it
    userList,   \* m_UserList
    roomRows,   \* the list box of rooms, likewise
    userRows,   \* the list box of users: rows per user
    lost,       \* history: SendData has dropped a packet to the client
    refused,    \* history: the start of a request that was not answered
    ghost       \* history: users cut off without a notice to the lobby

server == <<state, hasLobby, room, slots, ghost>>
client == <<phase, roomList, userList, roomRows, userRows>>
vars == <<server, down, up, client, lost, refused>>

None == -1
Users == Others \union {Viewer}
Rooms == 0 .. RoomCount - 1

Init ==
    /\ state = [u \in Users |-> "NONE"]
    /\ hasLobby = [u \in Users |-> FALSE]
    /\ room = [u \in Users |-> None]
    /\ slots = <<>>
    /\ down = <<>>
    /\ up = <<>>
    /\ phase = "out"
    /\ roomList = [r \in Rooms |-> 0]
    /\ userList = {}
    /\ roomRows = [r \in Rooms |-> 0]
    /\ userRows = [u \in Users |-> 0]
    /\ lost = FALSE
    /\ refused = None
    /\ ghost = {}

-----------------------------------------------------------------------------
(* Packets to the client *)

Enters(u) == [kind |-> "LOBBY_ENTER_USER_NTF", user |-> u]
Leaves(u) == [kind |-> "LOBBY_LEAVE_USER_NTF", user |-> u]
Changed(r, n) == [kind |-> "ROOM_CHANGED_INFO_NTF", room |-> r, count |-> n]
Entered == [kind |-> "LOBBY_ENTER_RES"]
ListRes(kind, list, isEnd) == [kind |-> kind, list |-> list, isEnd |-> isEnd]
ListReq(kind, start) == [kind |-> kind, start |-> start]

\* At most n of a sequence.
FirstOf(seq, n) == SubSeq(seq, 1, IF Len(seq) < n THEN Len(seq) ELSE n)

\* SendData: what does not fit into the send buffer is dropped, and nobody looks
\* at the result.
Send(packets) ==
    LET fitting == FirstOf(packets, MaxDown - Len(down))
    IN /\ down' = down \o fitting
       /\ lost' = (lost \/ Len(fitting) < Len(packets))

\* SendToAllUser, of which this client sees what it gets itself.
Tell(packets) ==
    IF state[Viewer] = "LOBBY" THEN Send(packets) ELSE UNCHANGED <<down, lost>>

MembersOf(r, st, rm) == {u \in Others : st[u] = "ROOM" /\ rm[u] = r}
UserCount(r) == Cardinality(MembersOf(r, state, room))
RoomUsed(r) == UserCount(r) > 0
UserCountAfter(r) == Cardinality(MembersOf(r, state', room'))

-----------------------------------------------------------------------------
(* The handlers, for the other users *)

Login(u) ==
    /\ state[u] = "NONE"
    /\ state' = [state EXCEPT ![u] = "LOGIN"]
    /\ UNCHANGED <<hasLobby, room, slots, ghost, down, up, client, lost, refused>>

\* Variant: slots are taken without end.
EnterUser_NoEnd(u) ==
    /\ state[u] = "LOGIN"
    /\ Len(slots) <= SlotCount
    /\ slots' = Append(slots, u)
    /\ state' = [state EXCEPT ![u] = "LOBBY"]
    /\ hasLobby' = [hasLobby EXCEPT ![u] = TRUE]
    /\ ghost' = ghost \ {u}
    /\ UNCHANGED room

\* A slot is taken and the state changes; nothing is said of the room index.
EnterUser(u) ==
    /\ state[u] = "LOGIN"
    /\ Len(slots) < SlotCount
    /\ slots' = Append(slots, u)
    /\ state' = [state EXCEPT ![u] = "LOBBY"]
    /\ hasLobby' = [hasLobby EXCEPT ![u] = TRUE]
    /\ ghost' = ghost \ {u}
    /\ UNCHANGED room

LobbyEnter(u) ==
    /\ EnterUser(u)
    /\ Tell(<<Enters(u)>>)
    /\ UNCHANGED <<up, client, refused>>

LobbyLeave(u) ==
    /\ state[u] = "LOBBY"
    /\ state' = [state EXCEPT ![u] = "LOGIN"]
    /\ Tell(<<Leaves(u)>>)
    /\ UNCHANGED <<hasLobby, room, slots, ghost, up, client, refused>>

\* Into a room that is used, or into the first that is not, which is created.
RoomEnter(u, r) ==
    /\ state[u] = "LOBBY"
    /\ UserCount(r) < RoomLimit
    /\ RoomUsed(r) \/ \A q \in 0 .. r - 1 : RoomUsed(q)
    /\ state' = [state EXCEPT ![u] = "ROOM"]
    /\ room' = [room EXCEPT ![u] = r]
    /\ Tell(<<Leaves(u), Changed(r, UserCountAfter(r))>>)
    /\ UNCHANGED <<hasLobby, slots, ghost, up, client, refused>>

\* The room index stays.
RoomLeave(u) ==
    /\ state[u] = "ROOM"
    /\ state' = [state EXCEPT ![u] = "LOBBY"]
    /\ UNCHANGED <<hasLobby, room, slots, ghost>>
    /\ Tell(<<Enters(u), Changed(room[u], UserCountAfter(room[u]))>>)
    /\ UNCHANGED <<up, client, refused>>

\* Whoever has a room index, stale or not, is taken for a member of the room, and
\* its leaving is no news for the lobby.
NtfSysCloseSession(u) ==
    /\ state[u] # "NONE"
    /\ state' = [state EXCEPT ![u] = "NONE"]
    /\ hasLobby' = [hasLobby EXCEPT ![u] = FALSE]
    /\ room' = [room EXCEPT ![u] = None]
    /\ LET packets == IF ~hasLobby[u] THEN <<>>
                      ELSE IF room[u] = None THEN <<Leaves(u)>>
                      ELSE <<Changed(room[u], UserCountAfter(room[u]))>>
       IN Tell(packets)
    /\ ghost' = IF state[u] = "LOBBY" /\ room[u] # None THEN ghost \union {u} ELSE ghost
    /\ UNCHANGED <<slots, up, client, refused>>

-----------------------------------------------------------------------------
(* The handlers, for the client *)

\* LobbyEnter: the client hears of itself first, then gets the answer.
ViewerEnters ==
    /\ EnterUser(Viewer)
    /\ Send(<<Enters(Viewer), Entered>>)
    /\ UNCHANGED <<up, client, refused>>

\* What the loops pass by from `start` on: rooms that are used, users in the lobby.
RoomsFrom(start) == {r \in Rooms : r >= start /\ RoomUsed(r)}
SlotsFrom(start) ==
    {i \in 0 .. Len(slots) - 1 : i >= start /\ state[slots[i + 1]] = "LOBBY"}

\* A page takes them by rising index until it is full.
PageOf(entries, max) == {i \in entries : Cardinality({j \in entries : j < i}) < max}

\* The loop has stopped after the last index.
IsEnd(page, max, size) == Cardinality(page) < max \/ size - 1 \in page

\* Variant: zero is no start.
OutOfRange_Zero(start, size) == start <= 0 \/ start >= size - 1

\* The last index is refused as a start, and then nothing at all is sent.
OutOfRange(start, size) == start < 0 \/ start >= size - 1

SendRoomList(start) ==
    LET page == PageOf(RoomsFrom(start), MaxRoomList)
    IN IF OutOfRange(start, RoomCount)
       THEN refused' = start /\ UNCHANGED <<down, lost>>
       ELSE /\ Send(<<ListRes("LOBBY_ENTER_ROOM_LIST_RES", [r \in page |-> UserCount(r)],
                             IsEnd(page, MaxRoomList, RoomCount))>>)
            /\ UNCHANGED refused

SendUserList(start) ==
    LET page == PageOf(SlotsFrom(start), MaxUserList)
    IN IF OutOfRange(start, SlotCount)
       THEN refused' = start /\ UNCHANGED <<down, lost>>
       ELSE /\ Send(<<ListRes("LOBBY_ENTER_USER_LIST_RES", [i \in page |-> slots[i + 1]],
                             IsEnd(page, MaxUserList, SlotCount))>>)
            /\ UNCHANGED refused

HandleListReq ==
    /\ up # <<>>
    /\ up' = Tail(up)
    /\ IF Head(up).kind = "LOBBY_ENTER_ROOM_LIST_REQ"
         THEN SendRoomList(Head(up).start)
         ELSE SendUserList(Head(up).start)
    /\ UNCHANGED <<server, client>>

-----------------------------------------------------------------------------
(* The lobby scene of the client *)

RequestRoomList(start) == up' = Append(up, ListReq("LOBBY_ENTER_ROOM_LIST_REQ", start))
RequestLobbyUserList(start) == up' = Append(up, ListReq("LOBBY_ENTER_USER_LIST_REQ", start))

IsRoomListWorking == phase = "rooms"
IsUserListWorking == phase \in {"rooms", "users"}

\* Into the list while it is being fetched, else into the list box.
UpdateRoomInfo(r, n) ==
    IF IsRoomListWorking
    THEN roomList' = [roomList EXCEPT ![r] = n] /\ UNCHANGED roomRows
    ELSE roomRows' = [roomRows EXCEPT ![r] = n] /\ UNCHANGED roomList

AddUser(u) ==
    IF IsUserListWorking
    THEN userList' = userList \union {u} /\ UNCHANGED userRows
    ELSE userRows' = [userRows EXCEPT ![u] = IF @ = 0 THEN 1 ELSE @] /\ UNCHANGED userList

\* Variant: a leave notice is ignored while the list is being fetched.
RemoveUser_NotInList(u) ==
    IF IsUserListWorking
    THEN UNCHANGED <<userList, userRows>>
    ELSE userRows' = [userRows EXCEPT ![u] = IF @ = 0 THEN 0 ELSE @ - 1] /\ UNCHANGED userList

RemoveUser(u) ==
    IF IsUserListWorking
    THEN userList' = userList \ {u} /\ UNCHANGED userRows
    ELSE userRows' = [userRows EXCEPT ![u] = IF @ = 0 THEN 0 ELSE @ - 1] /\ UNCHANGED userList

ReceiveEnterRes ==
    /\ phase' = "rooms"
    /\ roomList' = [r \in Rooms |-> 0]
    /\ userList' = {}
    /\ RequestRoomList(0)
    /\ UNCHANGED <<roomRows, userRows>>

ReceiveRoomList(p) ==
    LET listed == [r \in Rooms |->
                     IF r \in DOMAIN p.list THEN p.list[r] ELSE roomList[r]]
    IN IF p.isEnd
       THEN \* SetRoomListGui
            /\ roomRows' = [r \in Rooms |-> IF listed[r] = 0 THEN roomRows[r] ELSE listed[r]]
            /\ roomList' = [r \in Rooms |-> 0]
            /\ phase' = "users"
            /\ RequestLobbyUserList(0)
            /\ UNCHANGED <<userList, userRows>>
       ELSE /\ roomList' = listed
            /\ RequestRoomList(Max(DOMAIN p.list) + 1)
            /\ UNCHANGED <<phase, userList, roomRows, userRows>>

ReceiveUserList(p) ==
    LET listed == userList \union {p.list[i] : i \in DOMAIN p.list}
    IN IF p.isEnd
       THEN \* SetLobbyUserListGui
            /\ userRows' = [u \in Users |-> userRows[u] + (IF u \in listed THEN 1 ELSE 0)]
            /\ userList' = {}
            /\ phase' = "done"
            /\ UNCHANGED <<up, roomList, roomRows>>
       ELSE /\ userList' = listed
            /\ RequestLobbyUserList(Max(DOMAIN p.list) + 1)
            /\ UNCHANGED <<phase, roomList, roomRows, userRows>>

ProcessPacket ==
    /\ down # <<>>
    /\ down' = Tail(down)
    /\ LET p == Head(down) IN
       \/ p.kind = "LOBBY_ENTER_RES" /\ ReceiveEnterRes
       \/ p.kind = "LOBBY_ENTER_ROOM_LIST_RES" /\ ReceiveRoomList(p)
       \/ p.kind = "LOBBY_ENTER_USER_LIST_RES" /\ ReceiveUserList(p)
       \/ /\ p.kind = "ROOM_CHANGED_INFO_NTF"
          /\ UpdateRoomInfo(p.room, p.count)
          /\ UNCHANGED <<up, phase, userList, userRows>>
       \/ /\ p.kind = "LOBBY_ENTER_USER_NTF" /\ AddUser(p.user)
          /\ UNCHANGED <<up, phase, roomList, roomRows>>
       \/ /\ p.kind = "LOBBY_LEAVE_USER_NTF" /\ RemoveUser(p.user)
          /\ UNCHANGED <<up, phase, roomList, roomRows>>
    /\ UNCHANGED <<server, lost, refused>>

-----------------------------------------------------------------------------

Move(u) ==
    \/ LobbyEnter(u) \/ LobbyLeave(u) \/ RoomLeave(u) \/ NtfSysCloseSession(u)
    \/ \E r \in Rooms : RoomEnter(u, r)

\* Bound: nobody comes or goes after a packet was dropped or a request refused.
Watched == ~lost /\ refused = None

Next ==
    \/ Watched /\ \E u \in Users : Login(u)
    \/ Watched /\ \E u \in Others : Move(u)
    \/ Watched /\ ViewerEnters
    \/ HandleListReq
    \/ ProcessPacket

\* The server's loop and the client's timer never stop.
Spec == Init /\ [][Next]_vars /\ WF_vars(HandleListReq) /\ WF_vars(ProcessPacket)

-----------------------------------------------------------------------------

\* Every variable has its type; at most one list request is under way.
TypeOK ==
    /\ state \in [Users -> {"NONE", "LOGIN", "LOBBY", "ROOM"}]
    /\ hasLobby \in [Users -> BOOLEAN]
    /\ room \in [Users -> Rooms \union {None}]
    /\ slots \in Seq(Users) /\ Len(slots) <= SlotCount
    /\ Len(down) <= MaxDown
    /\ Len(up) <= 1
    /\ phase \in {"out", "rooms", "users", "done"}
    /\ roomList \in [Rooms -> 0 .. RoomLimit]
    /\ userList \subseteq Users
    /\ roomRows \in [Rooms -> 0 .. RoomLimit]
    /\ userRows \in [Users -> 0 .. 2]
    /\ lost \in BOOLEAN
    /\ refused \in Int
    /\ ghost \subseteq Others

\* The client has got both lists and everything the server had to say.
Settled == phase = "done" /\ down = <<>> /\ ~lost

\* However notices and pages interleave (ClientSceneLobby.cpp:86, 111, 117), in the
\* end every other user in the lobby has one row, whoever has a row and is not in
\* the lobby was cut off after having been in a room (PacketProcess.cpp:107), and
\* the rooms are shown with the numbers of their users (ClientSceneLobby.cpp:63, 104).
ListsShownRight ==
    Settled =>
        /\ \A u \in Others :
             IF state[u] = "LOBBY" THEN userRows[u] = 1
             ELSE userRows[u] = 0 \/ (userRows[u] = 1 /\ u \in ghost)
        /\ \A r \in Rooms : roomRows[r] = UserCount(r)

\* A client that has entered gets both lists to their ends, page by page, unless a
\* packet to it was dropped (TcpNetwork.cpp:59) or it has asked for the last room
\* or the last slot alone, which is not answered (Lobby.cpp:213, 255).
ListsArrive ==
    (phase = "rooms") ~> (phase = "done" \/ lost \/ refused \in {RoomCount - 1, SlotCount - 1})

=============================================================================
