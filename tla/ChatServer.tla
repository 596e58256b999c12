------------------------------ MODULE ChatServer ------------------------------
(***************************************************************************)
(* The chat server's logic layer (MyChat/ChattingServer/ServerLogic): the  *)
(* pool of User objects and its two dictionaries, the lobbies with their   *)
(* user slots and rooms, and one action per packet handler.                *)
(*                                                                         *)
(* The logic thread drains the packet queue between two calls of           *)
(* TcpNetwork::Run, one packet at a time, so a handler is one atomic step. *)
(* The network is abstracted to `open`: the sessions accepted and whose    *)
(* NTF_SYS_CLOSE_SESSION packet has not been handled yet.  A session's     *)
(* packets are handled in order and its close notification comes last.     *)
(***************************************************************************)
EXTENDS Integers, FiniteSets, SequencesExt

CONSTANTS
    SessionCount,        \* size of the session pool (maxClientCount + extraClientCount)
    MaxUserCount,        \* size of the pool of User objects (maxClientCount)
    MaxLobbyCount,       \* number of lobbies
    MaxLobbyUserCount,   \* user slots of a lobby
    MaxRoomCount,        \* rooms of a lobby
    MaxRoomUserCount,    \* members a room can hold
    MaxListCount,        \* entries of a user list packet (MAX_SEND_LOBBY_USER_LIST_COUNT)
    Offsets,             \* offsets in a receive buffer at which a packet body can start
    IDs                  \* the IDs users log in with

\* The configuration the server is started with (ServerConfig): every limit is
\* positive.  With a limit of zero the server starts and refuses everybody.
ASSUME ConfigAssumption ==
    /\ SessionCount \in Nat \ {0}
    /\ MaxUserCount \in Nat \ {0}
    /\ MaxLobbyCount \in Nat \ {0}
    /\ MaxLobbyUserCount \in Nat \ {0}
    /\ MaxRoomCount \in Nat \ {0}
    /\ MaxRoomUserCount \in Nat \ {0}
    /\ MaxListCount \in Nat \ {0}

None == -1               \* nullptr, or the index -1

Sessions == 0 .. SessionCount - 1
Users    == 0 .. MaxUserCount - 1
Lobbies  == 0 .. MaxLobbyCount - 1
Slots    == 0 .. MaxLobbyUserCount - 1
Rooms    == 0 .. MaxRoomCount - 1

\* The dictionary of IDs is keyed by `const char*`, that is by the address of
\* the ID inside the packet: a session's receive buffer and an offset in it.
Addresses == Sessions \X Offsets

VARIABLES
    open,        \* sessions connected as far as the logic thread knows
    login,       \* ConnectedUser::m_IsLoginSuccess, per session
    pool,        \* m_UserObjPoolIndex: the free User objects, oldest first
    user,        \* m_UserObjPool
    sessionDic,  \* m_UserSessionDic: session -> User object
    idDic,       \* m_UserIDDic: address of an ID -> User object
    slots,       \* Lobby::m_UserList: per lobby and slot, a User object
    lobbyUsers,  \* Lobby::m_UserIndexDic: per lobby, the User objects in it
    roomUsed,    \* Room::m_IsUsed
    roomUsers,   \* Room::m_UserList
    pastEnd,     \* Lobby::RemoveUser has written through end()
    out          \* what the last handler sent

userVars  == <<login, pool, sessionDic, idDic>>
lobbyVars == <<slots, lobbyUsers, pastEnd>>
roomVars  == <<roomUsed, roomUsers>>
vars == <<open, userVars, user, lobbyVars, roomVars, out>>

States == {"NONE", "LOGIN", "LOBBY", "ROOM"}

-----------------------------------------------------------------------------
(* User objects (User.cpp) *)

User == [session : Sessions \union {None}, id : IDs \union {""},
         confirm : BOOLEAN, state : States,
         lobby : Lobbies \union {None}, room : Rooms \union {None}]

NewUser == [session |-> None, id |-> "", confirm |-> FALSE, state |-> "NONE",
            lobby |-> None, room |-> None]

\* Variant: Clear forgets m_IsConfirm.
ClearUser_StaysConfirmed(x) ==
    [x EXCEPT !.session = 0, !.id = "", !.state = "NONE", !.lobby = None, !.room = None]

\* Clear gives the object session index 0, a session that may well be in use.
ClearUser(x) == [session |-> 0, id |-> "", confirm |-> FALSE, state |-> "NONE",
                 lobby |-> None, room |-> None]

\* Variant: Set forgets the session index, so that of the last owner stays.
SetUser_NoSession(x, s, n) ==
    [x EXCEPT !.id = n, !.confirm = TRUE, !.state = "LOGIN"]

SetUser(x, s, n) ==
    [x EXCEPT !.session = s, !.id = n, !.confirm = TRUE, !.state = "LOGIN"]

\* RoomIndex keeps its old value.
UserEnterLobby(x, l) == [x EXCEPT !.lobby = l, !.state = "LOBBY"]

\* Variant: the two indices are passed in the wrong order.
UserEnterRoom_Swapped(x, l, r) == [x EXCEPT !.lobby = r, !.room = l, !.state = "ROOM"]

UserEnterRoom(x, l, r) == [x EXCEPT !.lobby = l, !.room = r, !.state = "ROOM"]

\* LobbyIndex and RoomIndex keep their old values.
UserLeaveLobby(x) == [x EXCEPT !.state = "LOGIN"]

-----------------------------------------------------------------------------
(* What the handlers send *)

Packets == {"LOBBY_ENTER_USER_LIST_RES", "ROOM_ENTER_USER_LIST_RES",
            "LOBBY_ENTER_USER_NTF", "LOBBY_LEAVE_USER_NTF", "LOBBY_CHAT_NTF",
            "WHISPER_NTF", "ROOM_CHANGED_INFO_NTF", "ROOM_ENTER_USER_NTF",
            "ROOM_LEAVE_USER_NTF", "ROOM_CHAT_NTF"}

\* `who` is the user a packet is about, `idx` the room or slot it names.  The
\* result code that ends every handler (..._RES) is not recorded: it goes to
\* the requester, always, and says which disjunct of the action was taken.
Message == [to : Sessions, pkt : Packets, who : Users \union {None},
            idx : Rooms \union Slots \union {None}]

Msg(to, pkt, who, idx) == [to |-> to, pkt |-> pkt, who |-> who, idx |-> idx]

\* SendToAllUser of a lobby or a room, whose skip tests are commented out:
\* every user in `members` is sent the packet, wherever that user is.
SendToAll(members, pkt, who, idx) ==
    {Msg(user[v].session, pkt, who, idx) : v \in members}

logicVars == <<open, userVars, user, lobbyVars, roomVars>>

\* The CHECK_ERR exit of a handler: nothing but an error code is sent.
Refuse == out' = {} /\ UNCHANGED logicVars

-----------------------------------------------------------------------------
(* Helpers of the managers *)

\* UserManager::GetUser succeeds for the session.
HasUser(s) == sessionDic[s] # None /\ user[sessionDic[s]].confirm

\* ... and the user is in the domain state the handler asks for.
InState(s, st) == HasUser(s) /\ user[sessionDic[s]].state = st

\* LobbyManager::GetLobby and Lobby::GetRoom return nullptr out of range.
HasLobby(s) == user[sessionDic[s]].lobby \in Lobbies
HasRoom(s)  == user[sessionDic[s]].room \in Rooms

\* Variant: RemoveUser without its test, clearing the slot find_if stops at.
RemoveUserFromSlots_NoTest(l, u) ==
    /\ pastEnd' = (pastEnd \/ \A i \in Slots : slots[l][i] # u)
    /\ slots' = [slots EXCEPT ![l] = [i \in Slots |-> IF @[i] = u THEN None ELSE @[i]]]

\* Lobby::RemoveUser returns when the slot is found and otherwise clears the
\* slot at end(), which lies past the vector: a found slot is never cleared.
RemoveUserFromSlots(l, u) ==
    /\ pastEnd' = (pastEnd \/ \A i \in Slots : slots[l][i] # u)
    /\ UNCHANGED slots

\* Room::LeaveUser finds the user: the room is used and the user is in it.
IsMember(l, r, u) == roomUsed[l][r] /\ Contains(roomUsers[l][r], u)

\* Variant: the room is not cleared when its last member leaves.
RoomLeaveUser_NotCleared(l, r, u) ==
    /\ roomUsers' = IF IsMember(l, r, u)
                    THEN [roomUsers EXCEPT ![l][r] = RemoveFirst(@, u)] ELSE roomUsers
    /\ UNCHANGED roomUsed

\* Room::LeaveUser.  The last member to leave clears the room.
RoomLeaveUser(l, r, u) ==
    IF IsMember(l, r, u)
    THEN /\ roomUsers' = [roomUsers EXCEPT ![l][r] = RemoveFirst(@, u)]
         /\ roomUsed' = [roomUsed EXCEPT
                           ![l][r] = RemoveFirst(roomUsers[l][r], u) # <<>>]
    ELSE UNCHANGED roomVars

\* Variant: the notice is sent to the members before the list has changed.
RoomLeaveNotice_TooEarly(l, r, u) ==
    IF roomUsed[l][r]
    THEN SendToAll(Range(roomUsers[l][r]), "ROOM_LEAVE_USER_NTF", u, None)
    ELSE {}

\* Room::NotifyLeaveUserInfo, called after RoomLeaveUser: those still in it.
RoomLeaveNotice(l, r, u) ==
    IF roomUsed'[l][r]
    THEN SendToAll(Range(roomUsers'[l][r]), "ROOM_LEAVE_USER_NTF", u, None)
    ELSE {}

\* Lobby::SendUserList from slot `start` on: the slots whose User object is in
\* state LOBBY, in whichever lobby that is, up to a packet full of them.
ListedSlots(l, start) ==
    LET listed == {i \in Slots : /\ i >= start
                                 /\ slots[l][i] # None
                                 /\ user[slots[l][i]].state = "LOBBY"}
    IN  {i \in listed : Cardinality({j \in listed : j < i}) < MaxListCount}

-----------------------------------------------------------------------------
(* PacketProcessLogin.cpp *)

\* A session is accepted: the logic thread hears of it with its first packet.
Connect(s) ==
    /\ s \notin open
    /\ open' = open \union {s}
    /\ out' = {}
    /\ UNCHANGED <<userVars, user, lobbyVars, roomVars>>

\* m_UserSessionDic.insert keeps the entry a session already has.
\* Variant: the entry is overwritten, as operator[] would.
InsertSession_Overwrites(s, u) == [sessionDic EXCEPT ![s] = u]

InsertSession(s, u) == [sessionDic EXCEPT ![s] = IF @ = None THEN u ELSE @]

CanLogin(s, o) == idDic[<<s, o>>] = None /\ pool # <<>>

\* Login and UserManager::AddUser.
Login(s, o, n) ==
    /\ s \in open
    /\ \/ /\ CanLogin(s, o)
          /\ LET u == Head(pool) IN
             /\ pool' = Tail(pool)
             /\ user' = [user EXCEPT ![u] = SetUser(@, s, n)]
             /\ sessionDic' = InsertSession(s, u)
             /\ idDic' = [idDic EXCEPT ![<<s, o>>] = u]
          /\ login' = [login EXCEPT ![s] = TRUE]
          /\ out' = {}
          /\ UNCHANGED <<open, lobbyVars, roomVars>>
       \/ ~CanLogin(s, o) /\ Refuse

-----------------------------------------------------------------------------
(* PacketProcessLobby.cpp *)

\* Variant: LobbyEnter does not ask for state LOGIN.
CanEnterLobby_AnyState(s, l) ==
    /\ HasUser(s)
    /\ l \in Lobbies
    /\ Cardinality(lobbyUsers[l]) < MaxLobbyUserCount
    /\ sessionDic[s] \notin lobbyUsers[l]
    /\ \E i \in Slots : slots[l][i] = None

\* The tests of LobbyEnter and of Lobby::EnterUser, in the order of the code.
CanEnterLobby(s, l) ==
    /\ InState(s, "LOGIN")
    /\ l \in Lobbies
    /\ Cardinality(lobbyUsers[l]) < MaxLobbyUserCount
    /\ sessionDic[s] \notin lobbyUsers[l]
    /\ \E i \in Slots : slots[l][i] = None

\* Lobby::AddUser takes the first empty slot.
AddUserToSlots(l, u) ==
    \E i \in Slots :
        /\ slots[l][i] = None
        /\ \A j \in 0 .. i - 1 : slots[l][j] # None
        /\ slots' = [slots EXCEPT ![l][i] = u]

LobbyEnter(s, l) ==
    /\ s \in open
    /\ \/ /\ CanEnterLobby(s, l)
          /\ LET u == sessionDic[s] IN
             /\ AddUserToSlots(l, u)
             /\ user' = [user EXCEPT ![u] = UserEnterLobby(@, l)]
             /\ lobbyUsers' = [lobbyUsers EXCEPT ![l] = @ \union {u}]
             /\ out' = SendToAll(lobbyUsers[l] \union {u},
                                 "LOBBY_ENTER_USER_NTF", u, None)
          /\ UNCHANGED <<open, userVars, pastEnd, roomVars>>
       \/ ~CanEnterLobby(s, l) /\ Refuse

\* The tests the handlers of this file start with, LobbyEnter excepted.
InLobby(s) == InState(s, "LOBBY") /\ HasLobby(s)

\* A start index out of range, the last slot included, gets no answer at all.
LobbyUserList(s, start) ==
    /\ s \in open
    /\ \/ /\ InLobby(s)
          /\ start \in 0 .. MaxLobbyUserCount - 2
          /\ LET x == user[sessionDic[s]] IN
             out' = {Msg(x.session, "LOBBY_ENTER_USER_LIST_RES", slots[x.lobby][i], i) :
                       i \in ListedSlots(x.lobby, start)}
          /\ UNCHANGED logicVars
       \/ ~(InLobby(s) /\ start \in 0 .. MaxLobbyUserCount - 2) /\ Refuse

\* Lobby::LeaveUser empties the slot (or fails to) before it looks the user up;
\* its error leaves everything else as it is.
LobbyLeave(s) ==
    /\ s \in open
    /\ \/ /\ InLobby(s)
          /\ LET u == sessionDic[s]
                 l == user[u].lobby
                 found == u \in lobbyUsers[l]
             IN
             /\ RemoveUserFromSlots(l, u)
             /\ user' = [user EXCEPT ![u] = IF found THEN UserLeaveLobby(@) ELSE @]
             /\ lobbyUsers' = [lobbyUsers EXCEPT ![l] = @ \ {u}]
             /\ out' = IF found
                       THEN SendToAll(lobbyUsers'[l], "LOBBY_LEAVE_USER_NTF", u, None)
                       ELSE {}
          /\ UNCHANGED <<open, userVars, roomVars>>
       \/ ~InLobby(s) /\ Refuse

LobbyChat(s) ==
    /\ s \in open
    /\ \/ /\ InLobby(s)
          /\ LET u == sessionDic[s] IN
             out' = SendToAll(lobbyUsers[user[u].lobby], "LOBBY_CHAT_NTF", u, None)
          /\ UNCHANGED logicVars
       \/ ~InLobby(s) /\ Refuse

\* The receiver is looked up by the address of the ID in the whisper packet,
\* an address of the whisperer's own receive buffer.
CanWhisper(s, o) ==
    /\ InLobby(s)
    /\ idDic[<<s, o>>] # None
    /\ user[idDic[<<s, o>>]].confirm

Whisper(s, o) ==
    /\ s \in open
    /\ \/ /\ CanWhisper(s, o)
          /\ out' = {Msg(user[idDic[<<s, o>>]].session, "WHISPER_NTF",
                         sessionDic[s], None)}
          /\ UNCHANGED logicVars
       \/ ~CanWhisper(s, o) /\ Refuse

-----------------------------------------------------------------------------
(* PacketProcessRoom.cpp *)

\* Variant: a room that is in use takes everybody.
RoomTakes_NoLimit(l, r, used) == used

\* The tests of Room::EnterUser; `used` is what m_IsUsed is by then.
RoomTakes(l, r, used) == used /\ Len(roomUsers[l][r]) # MaxRoomUserCount

\* RoomEnter from Room::EnterUser on, for a room chosen or just created: if
\* the room takes the user, the lobby and then the room are told.
EnterRoomUser(s, l, r, used) ==
    LET u == sessionDic[s]
        takes == RoomTakes(l, r, used)
    IN
    /\ roomUsed' = [roomUsed EXCEPT ![l][r] = used]
    /\ roomUsers' = [roomUsers EXCEPT ![l][r] = IF takes THEN Append(@, u) ELSE @]
    /\ user' = [user EXCEPT ![u] = IF takes THEN UserEnterRoom(@, l, r) ELSE @]
    /\ out' = IF takes
              THEN SendToAll(lobbyUsers[l], "LOBBY_LEAVE_USER_NTF", u, None)
                     \union SendToAll(lobbyUsers[l], "ROOM_CHANGED_INFO_NTF", None, r)
                     \union SendToAll(Range(roomUsers'[l][r]),
                                      "ROOM_ENTER_USER_NTF", u, None)
              ELSE {}
    /\ UNCHANGED <<open, userVars, lobbyVars>>

\* RoomEnter with WantCreate: the first unused room is taken.
RoomCreate(s) ==
    /\ s \in open
    /\ \/ /\ InLobby(s)
          /\ \E r \in Rooms :
                LET l == user[sessionDic[s]].lobby IN
                /\ ~roomUsed[l][r]
                /\ \A q \in 0 .. r - 1 : roomUsed[l][q]
                /\ EnterRoomUser(s, l, r, TRUE)
       \/ /\ InLobby(s) => \A r \in Rooms : roomUsed[user[sessionDic[s]].lobby][r]
          /\ Refuse

\* RoomEnter of an existing room, by index.
RoomEnter(s, r) ==
    /\ s \in open
    /\ \/ /\ InLobby(s)
          /\ r \in Rooms
          /\ LET l == user[sessionDic[s]].lobby IN
             EnterRoomUser(s, l, r, roomUsed[l][r])
       \/ ~(InLobby(s) /\ r \in Rooms) /\ Refuse

\* Variant: the room handlers trust the indices and do not ask for state ROOM.
InRoom_AnyState(s) == HasUser(s) /\ HasLobby(s) /\ HasRoom(s)

\* The tests the other room handlers start with.
InRoom(s) == InState(s, "ROOM") /\ HasLobby(s) /\ HasRoom(s)

RoomUserList(s) ==
    /\ s \in open
    /\ \/ /\ InRoom(s)
          /\ LET x == user[sessionDic[s]] IN
             out' = {Msg(x.session, "ROOM_ENTER_USER_LIST_RES", v, None) :
                       v \in Range(roomUsers[x.lobby][x.room])}
          /\ UNCHANGED logicVars
       \/ ~InRoom(s) /\ Refuse

CanLeaveRoom(s) ==
    /\ InRoom(s)
    /\ LET x == user[sessionDic[s]] IN IsMember(x.lobby, x.room, sessionDic[s])

RoomLeave(s) ==
    /\ s \in open
    /\ \/ /\ CanLeaveRoom(s)
          /\ LET u == sessionDic[s]
                 l == user[u].lobby
                 r == user[u].room
             IN
             /\ RoomLeaveUser(l, r, u)
             /\ user' = [user EXCEPT ![u] = UserEnterLobby(@, l)]
             /\ out' = RoomLeaveNotice(l, r, u)
                         \union SendToAll(lobbyUsers[l], "LOBBY_ENTER_USER_NTF", u, None)
                         \union SendToAll(lobbyUsers[l], "ROOM_CHANGED_INFO_NTF", None, r)
          /\ UNCHANGED <<open, userVars, lobbyVars>>
       \/ ~CanLeaveRoom(s) /\ Refuse

RoomChat(s) ==
    /\ s \in open
    /\ \/ /\ InRoom(s)
          /\ LET x == user[sessionDic[s]] IN
             out' = SendToAll(Range(roomUsers[x.lobby][x.room]),
                              "ROOM_CHAT_NTF", sessionDic[s], None)
          /\ UNCHANGED logicVars
       \/ ~InRoom(s) /\ Refuse

-----------------------------------------------------------------------------
(* PacketProcess.cpp: the end of a session *)

\* NtfSysCloseSesson for a session with a user: it leaves the room and the
\* lobby its User object names, current or stale, and UserManager::RemoveUser
\* gives the object back.  The entry of idDic stays: erase is called with the
\* address of a copy of the ID.
CloseUser(s) ==
    LET u == sessionDic[s]
        l == user[u].lobby
        r == user[u].room
        inRoom == HasLobby(s) /\ HasRoom(s)
    IN
    /\ IF inRoom THEN RoomLeaveUser(l, r, u) ELSE UNCHANGED roomVars
    /\ IF HasLobby(s)
       THEN /\ RemoveUserFromSlots(l, u)
            /\ lobbyUsers' = [lobbyUsers EXCEPT ![l] = @ \ {u}]
            /\ out' = IF inRoom
                      THEN RoomLeaveNotice(l, r, u) \union
                             SendToAll(lobbyUsers[l], "ROOM_CHANGED_INFO_NTF", None, r)
                      ELSE SendToAll(lobbyUsers'[l], "LOBBY_LEAVE_USER_NTF", u, None)
       ELSE out' = {} /\ UNCHANGED lobbyVars
    /\ sessionDic' = [sessionDic EXCEPT ![s] = None]
    /\ pool' = Append(pool, u)
    /\ user' = [user EXCEPT ![u] = ClearUser(@)]
    /\ UNCHANGED idDic

NtfSysCloseSession(s) ==
    /\ s \in open
    /\ open' = open \ {s}
    /\ login' = [login EXCEPT ![s] = FALSE]
    /\ \/ HasUser(s) /\ CloseUser(s)
       \/ /\ ~HasUser(s)
          /\ out' = {}
          /\ UNCHANGED <<pool, sessionDic, idDic, user, lobbyVars, roomVars>>

-----------------------------------------------------------------------------

Init ==
    /\ open = {}
    /\ login = [s \in Sessions |-> FALSE]
    /\ pool = [i \in 1 .. MaxUserCount |-> i - 1]
    /\ user = [u \in Users |-> NewUser]
    /\ sessionDic = [s \in Sessions |-> None]
    /\ idDic = [a \in Addresses |-> None]
    /\ slots = [l \in Lobbies |-> [i \in Slots |-> None]]
    /\ lobbyUsers = [l \in Lobbies |-> {}]
    /\ roomUsed = [l \in Lobbies |-> [r \in Rooms |-> FALSE]]
    /\ roomUsers = [l \in Lobbies |-> [r \in Rooms |-> <<>>]]
    /\ pastEnd = FALSE
    /\ out = {}

Next ==
    \E s \in Sessions :
        \/ Connect(s)
        \/ \E o \in Offsets, n \in IDs : Login(s, o, n)
        \/ \E l \in Lobbies \union {None} : LobbyEnter(s, l)
        \/ \E start \in Slots : LobbyUserList(s, start)
        \/ LobbyLeave(s)
        \/ LobbyChat(s)
        \/ \E o \in Offsets : Whisper(s, o)
        \/ RoomCreate(s)
        \/ \E r \in Rooms \union {None} : RoomEnter(s, r)
        \/ RoomUserList(s)
        \/ RoomLeave(s)
        \/ RoomChat(s)
        \/ NtfSysCloseSession(s)

Spec == Init /\ [][Next]_vars

-----------------------------------------------------------------------------
(* Invariants *)

\* Every variable keeps its type.  A lobby index never lands in a room index,
\* a room never holds anything but User objects, no packet goes to a session
\* index that does not exist.
TypeOK ==
    /\ open \subseteq Sessions
    /\ login \in [Sessions -> BOOLEAN]
    /\ pool \in Seq(Users)
    /\ user \in [Users -> User]
    /\ sessionDic \in [Sessions -> Users \union {None}]
    /\ idDic \in [Addresses -> Users \union {None}]
    /\ slots \in [Lobbies -> [Slots -> Users \union {None}]]
    /\ lobbyUsers \in [Lobbies -> SUBSET Users]
    /\ roomUsed \in [Lobbies -> [Rooms -> BOOLEAN]]
    /\ roomUsers \in [Lobbies -> [Rooms -> Seq(Users)]]
    /\ pastEnd \in BOOLEAN
    /\ out \subseteq Message

\* The pool never hands out an object that is in use: the free list holds each
\* object at most once, and exactly the objects that are not confirmed; such an
\* object is in its cleared state (UserManager::Alloc/ReleaseUserObjPoolIndex).
PoolSound ==
    /\ IsInjective(pool)
    /\ \A u \in Users :
        /\ u \in Range(pool) <=> ~user[u].confirm
        /\ user[u].confirm <=> user[u].state # "NONE"
        /\ IF user[u].confirm
           THEN user[u].session # None
           ELSE user[u].lobby = None /\ user[u].room = None

\* A session that has a user is connected, marked as logged in, and its user
\* names it; so no two sessions ever share a User object, over logins, second
\* logins on the same session and reuse of objects and sessions.
SessionsOwnUsers ==
    \A s \in Sessions :
        /\ login[s] <=> sessionDic[s] # None
        /\ sessionDic[s] # None =>
             /\ s \in open
             /\ user[sessionDic[s]].confirm
             /\ user[sessionDic[s]].session = s

\* Whoever is in a lobby, or remembers one, is the user its session is bound
\* to: the User objects that a second login on a session strands never move.
OnlyOwnedUsersMove ==
    \A u \in Users :
        user[u].lobby # None => sessionDic[user[u].session] = u

\* m_UserIndexDic of a lobby is exactly the users in that lobby or one of its
\* rooms, so a user is in at most one lobby, and it never exceeds the limit.
LobbyIndexSound ==
    \A l \in Lobbies :
        /\ \A u \in Users :
             u \in lobbyUsers[l] <=>
               user[u].lobby = l /\ user[u].state \in {"LOBBY", "ROOM"}
        /\ Cardinality(lobbyUsers[l]) <= MaxLobbyUserCount

\* A room's list is exactly the users in state ROOM that name it, each once; it
\* is within the limit; and a room is in use exactly while somebody is in it.
\* RoomIndex is never reset, so this is what separates a member from a user
\* with a stale room index.
RoomsSound ==
    \A l \in Lobbies, r \in Rooms :
        /\ IsInjective(roomUsers[l][r])
        /\ \A u \in Users :
             u \in Range(roomUsers[l][r]) <=>
               user[u].state = "ROOM" /\ user[u].lobby = l /\ user[u].room = r
        /\ Len(roomUsers[l][r]) <= MaxRoomUserCount
        /\ roomUsed[l][r] <=> roomUsers[l][r] # <<>>

\* Every user that names a lobby is found in that lobby's slots, even after it
\* left.  The user list a client asks for therefore misses nobody, and the
\* write through end() in Lobby::RemoveUser is never reached.
SlotsRemember ==
    \A u \in Users :
        user[u].lobby # None => \E i \in Slots : slots[user[u].lobby][i] = u

\* Lobby::RemoveUser never writes through end(), although its test is inverted
\* and NtfSysCloseSesson removes users who already left the lobby.
NeverPastEnd == ~pastEnd

-----------------------------------------------------------------------------
(* Action properties *)

\* Who receives the packets of one kind about one user.
Told(sent, pkt, who) == {m.to : m \in {n \in sent : n.pkt = pkt /\ n.who = who}}

LeaversAnnounced ==
    \A l \in Lobbies, r \in Rooms : \A u \in Range(roomUsers[l][r]) :
        u \notin Range(roomUsers'[l][r]) =>
          Told(out', "ROOM_LEAVE_USER_NTF", u) =
            {user[v].session : v \in Range(roomUsers'[l][r])}

\* Whenever a user stops being a member of a room, by leaving or because its
\* session closed, every member that stays is told so, and only members of
\* that room are (Room::NotifyLeaveUserInfo runs after the list has changed).
RoomDepartureHeard == [][LeaversAnnounced]_vars

ChatHeardInRoom ==
    \A m \in out' : m.pkt = "ROOM_CHAT_NTF" =>
        LET speaker == user[m.who] IN
        /\ speaker.state = "ROOM"
        /\ Told(out', "ROOM_CHAT_NTF", m.who) =
             {s \in Sessions : /\ sessionDic[s] # None
                               /\ user[sessionDic[s]].state = "ROOM"
                               /\ user[sessionDic[s]].lobby = speaker.lobby
                               /\ user[sessionDic[s]].room = speaker.room}

\* What is said in a room is said to the room: a room chat is delivered to the
\* sessions whose own user is in the room the speaker is in, to all of them and
\* to nobody else, although RoomIndex and LobbyIndex outlive a visit.
RoomChatStaysInRoom == [][ChatHeardInRoom]_vars

-----------------------------------------------------------------------------
(* What the server promises: ChatPresence *)

\* Where a session is, as its user tells.
PlaceOf(s) ==
    LET x == user[sessionDic[s]] IN
    IF sessionDic[s] = None THEN [at |-> "away"]
    ELSE IF x.state = "ROOM" THEN [at |-> "room", lobby |-> x.lobby, room |-> x.room]
    ELSE IF x.state = "LOBBY" THEN [at |-> "lobby", lobby |-> x.lobby]
    ELSE [at |-> "login"]

Presence == INSTANCE ChatPresence WITH place <- [s \in Sessions |-> PlaceOf(s)]

\* The server implements ChatPresence: whatever the pools, dictionaries, slots
\* and stale indices hold, a session moves only as promised there, and the rest
\* of what the handlers do is invisible to where sessions are.
PresenceSpec == Presence!Spec

-----------------------------------------------------------------------------
(* What the comments of the code say, and the code does not do *)

\* "ID duplicate: error" (Login): two connected sessions never hold the same ID.
DuplicateIdRefused ==
    \A s, t \in Sessions :
        /\ sessionDic[s] # None
        /\ sessionDic[t] # None
        /\ user[sessionDic[s]].id = user[sessionDic[t]].id
        => s = t

=============================================================================
