--------------------------- MODULE ChatServerProofs ---------------------------
(***************************************************************************)
(* Proofs about ChatServer, for every configuration.                       *)
(*                                                                         *)
(* The invariants are not inductive one by one: that a message goes to an  *)
(* existing session needs LobbyIndexSound and RoomsSound, these need       *)
(* SessionsOwnUsers to know that two sessions never move one User object,  *)
(* which needs PoolSound and OnlyOwnedUsersMove.                           *)
(* IInv, their conjunction, is inductive.  There is one lemma per handler  *)
(* that changes the state, and in it one step per conjunct.                *)
(*                                                                         *)
(* The second half is about single steps: who is told what, and where      *)
(* sessions are.  All of it follows from IInv, since it holds in a step    *)
(* that starts where the room lists are exact and every member owns its    *)
(* session.  The proofs of the two action properties go over the handlers: *)
(* all but a few send nothing of the kind in question, and the room lists  *)
(* change in three of them only.  Then comes the refinement of             *)
(* ChatPresence: one lemma per handler that moves somebody names the step  *)
(* of ChatPresence it is.  The limits of ChatPresence are on sessions,     *)
(* those of the code on User objects, so there is a lemma for each of the  *)
(* three limits that counts both.                                          *)
(***************************************************************************)
EXTENDS ChatServer, SequenceLemmas, FiniteSetTheorems

IInv ==
    /\ TypeOK
    /\ PoolSound
    /\ SessionsOwnUsers
    /\ OnlyOwnedUsersMove
    /\ LobbyIndexSound
    /\ RoomsSound
    /\ SlotsRemember
    /\ NeverPastEnd

\* Everything of IInv but the type of `out`, which every handler sets anew.
LogicTypeOK ==
    /\ open \subseteq Sessions
    /\ login \in [Sessions -> BOOLEAN]
    /\ pool \in Seq(Users)
    /\ user \in [Users -> User]
    /\ sessionDic \in [Sessions -> Users \union {None}]
    /\ idDic \in [Addresses -> Users \union {None}]
    /\ slots \in [Lobbies -> [Slots -> Users \union {None}]]
    /\ lobbyUsers \in [Lobbies -> SUBSET Users]
    /\ roomUsed \in [Lobbies -> [Rooms -> BOOLEAN]]
    /\ roomUsers \in [Lobbies -> [Rooms -> Seq(Users)]]
    /\ pastEnd \in BOOLEAN

\* TypeOK is the type of `out` and the types of everything else.
LEMMA TypeParts == TypeOK <=> LogicTypeOK /\ out \subseteq Message
  BY DEF TypeOK, LogicTypeOK

-----------------------------------------------------------------------------
(* Constants *)

\* -1 is no index, session 0 (which Clear writes) exists.
LEMMA IndexFacts ==
    /\ None \notin Sessions /\ None \notin Users /\ None \notin Lobbies
    /\ None \notin Slots /\ None \notin Rooms
    /\ 0 \in Sessions
    /\ Users \subseteq Nat /\ Slots \subseteq Nat /\ Rooms \subseteq Nat
  BY ConfigAssumption DEF None, Sessions, Users, Lobbies, Slots, Rooms

\* A set of users, such as those of a lobby, can be counted.
LEMMA UsersFinite ==
    ASSUME NEW T \in SUBSET Users
    PROVE  IsFiniteSet(T) /\ Cardinality(T) \in Nat
<1>1. IsFiniteSet(Users)
  BY ConfigAssumption, FS_Interval DEF Users
<1> QED
  BY <1>1, FS_Subset, FS_CardinalityType

-----------------------------------------------------------------------------
(* User objects *)

\* A User object as it is constructed has its type.
LEMMA NewUserType == NewUser \in User
  BY DEF NewUser, User, States

\* User::Clear: the object is out of use and remembers no lobby.
LEMMA ClearUserFacts ==
    ASSUME NEW x \in User
    PROVE  /\ ClearUser(x) \in User
           /\ ClearUser(x).confirm = FALSE
           /\ ClearUser(x).state = "NONE"
           /\ ClearUser(x).lobby = None
           /\ ClearUser(x).room = None
  BY IndexFacts DEF ClearUser, User, States

\* User::Set: the object is its new owner's; the two indices stay.
LEMMA SetUserFacts ==
    ASSUME NEW x \in User, NEW s \in Sessions, NEW n \in IDs
    PROVE  /\ SetUser(x, s, n) \in User
           /\ SetUser(x, s, n).session = s
           /\ SetUser(x, s, n).confirm = TRUE
           /\ SetUser(x, s, n).state = "LOGIN"
           /\ SetUser(x, s, n).lobby = x.lobby
           /\ SetUser(x, s, n).room = x.room
  BY DEF SetUser, User, States

\* User::EnterLobby sets the lobby and the state, and keeps the room index.
LEMMA UserEnterLobbyFacts ==
    ASSUME NEW x \in User, NEW l \in Lobbies
    PROVE  /\ UserEnterLobby(x, l) \in User
           /\ UserEnterLobby(x, l).session = x.session
           /\ UserEnterLobby(x, l).confirm = x.confirm
           /\ UserEnterLobby(x, l).state = "LOBBY"
           /\ UserEnterLobby(x, l).lobby = l
           /\ UserEnterLobby(x, l).room = x.room
  BY DEF UserEnterLobby, User, States

\* User::EnterRoom sets both indices and the state.
LEMMA UserEnterRoomFacts ==
    ASSUME NEW x \in User, NEW l \in Lobbies, NEW r \in Rooms
    PROVE  /\ UserEnterRoom(x, l, r) \in User
           /\ UserEnterRoom(x, l, r).session = x.session
           /\ UserEnterRoom(x, l, r).confirm = x.confirm
           /\ UserEnterRoom(x, l, r).state = "ROOM"
           /\ UserEnterRoom(x, l, r).lobby = l
           /\ UserEnterRoom(x, l, r).room = r
  BY DEF UserEnterRoom, User, States

\* User::LeaveLobby sets the state and keeps both indices.
LEMMA UserLeaveLobbyFacts ==
    ASSUME NEW x \in User
    PROVE  /\ UserLeaveLobby(x) \in User
           /\ UserLeaveLobby(x).session = x.session
           /\ UserLeaveLobby(x).confirm = x.confirm
           /\ UserLeaveLobby(x).state = "LOGIN"
           /\ UserLeaveLobby(x).lobby = x.lobby
           /\ UserLeaveLobby(x).room = x.room
  BY DEF UserLeaveLobby, User, States

-----------------------------------------------------------------------------
(* Messages *)

\* A packet to an existing session is a message.
LEMMA MsgType ==
    ASSUME NEW to \in Sessions, NEW pkt \in Packets,
           NEW who \in Users \union {None},
           NEW idx \in Rooms \union Slots \union {None}
    PROVE  Msg(to, pkt, who, idx) \in Message
  BY DEF Msg, Message

\* SendToAllUser sends messages if every receiver has a session.
LEMMA SendToAllType ==
    ASSUME NEW members, \A v \in members : user[v].session \in Sessions,
           NEW pkt \in Packets, NEW who \in Users \union {None},
           NEW idx \in Rooms \union Slots \union {None}
    PROVE  SendToAll(members, pkt, who, idx) \subseteq Message
  BY MsgType DEF SendToAll

\* Whoever remembers a lobby has a session, and that session is bound to it.
LEMMA MoversHaveSessions ==
    ASSUME LogicTypeOK, PoolSound, OnlyOwnedUsersMove,
           NEW u \in Users, user[u].lobby # None
    PROVE  /\ user[u].confirm
           /\ user[u].session \in Sessions
           /\ sessionDic[user[u].session] = u
<1>1. user[u] \in User
  BY DEF LogicTypeOK
<1>2. user[u].confirm /\ user[u].session # None
  BY <1>1 DEF PoolSound, User
<1> QED
  BY <1>1, <1>2 DEF User, OnlyOwnedUsersMove

\* So the members of a lobby and of a room can be sent to.
LEMMA MembersHaveSessions ==
    ASSUME LogicTypeOK, PoolSound, OnlyOwnedUsersMove, LobbyIndexSound, RoomsSound,
           NEW l \in Lobbies
    PROVE  /\ \A v \in lobbyUsers[l] : v \in Users /\ user[v].session \in Sessions
           /\ \A r \in Rooms : \A v \in Range(roomUsers[l][r]) :
                v \in Users /\ user[v].session \in Sessions
<1>1. ASSUME NEW v \in lobbyUsers[l]
      PROVE  v \in Users /\ user[v].session \in Sessions
  <2>1. v \in Users
    BY DEF LogicTypeOK
  <2>2. user[v].lobby # None
    BY <2>1, IndexFacts DEF LobbyIndexSound
  <2> QED
    BY <2>1, <2>2, MoversHaveSessions
<1>2. ASSUME NEW r \in Rooms, NEW v \in Range(roomUsers[l][r])
      PROVE  v \in Users /\ user[v].session \in Sessions
  <2>1. roomUsers[l][r] \in Seq(Users)
    BY DEF LogicTypeOK
  <2>2. v \in Users
    BY <2>1, InRange
  <2>3. user[v].lobby # None
    BY <2>2, IndexFacts DEF RoomsSound
  <2> QED
    BY <2>2, <2>3, MoversHaveSessions
<1> QED
  BY <1>1, <1>2

-----------------------------------------------------------------------------
(* What the helpers that touch rooms do *)

\* The rooms of all lobbies after a step that made the members of room r of
\* lobby l the set S: every list is still sound, and no other room changed.
RoomsAfter(l, r, S) ==
    /\ roomUsed' \in [Lobbies -> [Rooms -> BOOLEAN]]
    /\ roomUsers' \in [Lobbies -> [Rooms -> Seq(Users)]]
    /\ \A k \in Lobbies, q \in Rooms :
         /\ IsInjective(roomUsers'[k][q])
         /\ Len(roomUsers'[k][q]) <= MaxRoomUserCount
         /\ roomUsed'[k][q] <=> roomUsers'[k][q] # <<>>
         /\ Range(roomUsers'[k][q]) = IF k = l /\ q = r THEN S ELSE Range(roomUsers[k][q])

\* Storing a sound list in one room, in use unless the list is empty.
LEMMA ReplaceRoomList ==
    ASSUME LogicTypeOK, RoomsSound, NEW l \in Lobbies, NEW r \in Rooms,
           NEW list \in Seq(Users), IsInjective(list), Len(list) <= MaxRoomUserCount,
           roomUsers' = [roomUsers EXCEPT ![l][r] = list],
           roomUsed' = [roomUsed EXCEPT ![l][r] = list # <<>>]
    PROVE  RoomsAfter(l, r, Range(list))
<1>1. /\ roomUsed' \in [Lobbies -> [Rooms -> BOOLEAN]]
      /\ roomUsers' \in [Lobbies -> [Rooms -> Seq(Users)]]
  BY DEF LogicTypeOK
<1>2. ASSUME NEW k \in Lobbies, NEW q \in Rooms
      PROVE  /\ roomUsers'[k][q] = IF k = l /\ q = r THEN list ELSE roomUsers[k][q]
             /\ roomUsed'[k][q] = IF k = l /\ q = r THEN list # <<>> ELSE roomUsed[k][q]
  BY DEF LogicTypeOK
<1>3. ASSUME NEW k \in Lobbies, NEW q \in Rooms
      PROVE  /\ IsInjective(roomUsers'[k][q])
             /\ Len(roomUsers'[k][q]) <= MaxRoomUserCount
             /\ roomUsed'[k][q] <=> roomUsers'[k][q] # <<>>
             /\ Range(roomUsers'[k][q]) =
                  IF k = l /\ q = r THEN Range(list) ELSE Range(roomUsers[k][q])
  <2>1. CASE k = l /\ q = r
    <3>1. roomUsers'[k][q] = list
      BY <1>2, <2>1
    <3>2. roomUsed'[k][q] = (list # <<>>)
      BY <1>2, <2>1
    <3>3. Range(roomUsers'[k][q]) = Range(list)
      BY <3>1
    <3>4. roomUsed'[k][q] <=> roomUsers'[k][q] # <<>>
      BY <3>1, <3>2
    <3>5. IsInjective(roomUsers'[k][q]) /\ Len(roomUsers'[k][q]) <= MaxRoomUserCount
      BY <3>1
    <3> QED
      BY <3>3, <3>4, <3>5, <2>1
  <2>2. CASE ~(k = l /\ q = r)
    <3>1. roomUsers'[k][q] = roomUsers[k][q] /\ roomUsed'[k][q] = roomUsed[k][q]
      BY <1>2, <2>2
    <3> QED
      BY <3>1, <2>2 DEF RoomsSound
  <2> QED
    BY <2>1, <2>2
<1> QED
  BY <1>1, <1>3 DEF RoomsAfter

\* Room::LeaveUser takes one user out of one room.
LEMMA RoomLeaveUserFacts ==
    ASSUME LogicTypeOK, RoomsSound,
           NEW l \in Lobbies, NEW r \in Rooms, NEW u \in Users,
           RoomLeaveUser(l, r, u)
    PROVE  RoomsAfter(l, r, Range(roomUsers[l][r]) \ {u})
<1>1. roomUsers[l][r] \in Seq(Users) /\ Len(roomUsers[l][r]) \in Nat
  BY LenProperties DEF LogicTypeOK
<1>2. /\ IsInjective(roomUsers[l][r])
      /\ Len(roomUsers[l][r]) <= MaxRoomUserCount
      /\ roomUsed[l][r] <=> roomUsers[l][r] # <<>>
  BY DEF RoomsSound
<1>3. IsMember(l, r, u) <=> u \in Range(roomUsers[l][r])
  <2>1. Contains(roomUsers[l][r], u) <=> u \in Range(roomUsers[l][r])
    BY <1>1, InRange
  <2>2. roomUsers[l][r] = <<>> <=> Range(roomUsers[l][r]) = {}
    BY <1>1, InRange
  <2> QED
    BY <2>1, <2>2, <1>2 DEF IsMember
<1>4. CASE IsMember(l, r, u)
  <2> DEFINE list == RemoveFirst(roomUsers[l][r], u)
  <2>1. /\ list \in Seq(Users)
        /\ Len(list) = Len(roomUsers[l][r]) - 1
        /\ Range(list) = Range(roomUsers[l][r]) \ {u}
        /\ IsInjective(list)
    BY <1>1, <1>2, <1>3, <1>4, RemoveMember
  <2>2. Len(list) <= MaxRoomUserCount
    BY <1>1, <1>2, <2>1, ConfigAssumption
  <2>3. /\ roomUsers' = [roomUsers EXCEPT ![l][r] = list]
        /\ roomUsed' = [roomUsed EXCEPT ![l][r] = list # <<>>]
    BY <1>4 DEF RoomLeaveUser
  <2> HIDE DEF list
  <2>4. RoomsAfter(l, r, Range(list))
    BY <2>1, <2>2, <2>3, ReplaceRoomList
  <2> QED
    BY <2>1, <2>4
<1>5. CASE ~IsMember(l, r, u)
  <2>1. roomUsers' = roomUsers /\ roomUsed' = roomUsed
    BY <1>5 DEF RoomLeaveUser, roomVars
  <2>2. u \notin Range(roomUsers[l][r])
    BY <1>3, <1>5
  <2>3. Range(roomUsers[l][r]) \ {u} = Range(roomUsers[l][r])
    BY <2>2
  <2>4. RoomsAfter(l, r, Range(roomUsers[l][r]))
    BY <2>1 DEF RoomsAfter, LogicTypeOK, RoomsSound
  <2> QED
    BY <2>3, <2>4
<1> QED
  BY <1>4, <1>5

\* The leave notice goes to existing sessions only.
LEMMA RoomLeaveNoticeType ==
    ASSUME NEW l \in Lobbies, NEW r \in Rooms, NEW u \in Users,
           \A v \in Range(roomUsers'[l][r]) : user[v].session \in Sessions
    PROVE  RoomLeaveNotice(l, r, u) \subseteq Message
<1>1. "ROOM_LEAVE_USER_NTF" \in Packets
  BY DEF Packets
<1> QED
  BY <1>1, SendToAllType DEF RoomLeaveNotice

\* A room that takes a user gets it as one more member.
LEMMA EnterRoomUserFacts ==
    ASSUME LogicTypeOK, RoomsSound,
           NEW l \in Lobbies, NEW r \in Rooms, NEW s \in Sessions,
           sessionDic[s] \in Users \ Range(roomUsers[l][r]),
           NEW used \in BOOLEAN, RoomTakes(l, r, used),
           EnterRoomUser(s, l, r, used)
    PROVE  RoomsAfter(l, r, Range(roomUsers[l][r]) \union {sessionDic[s]})
<1> DEFINE u == sessionDic[s]
           list == Append(roomUsers[l][r], u)
<1>1. roomUsers[l][r] \in Seq(Users) /\ Len(roomUsers[l][r]) \in Nat
  BY LenProperties DEF LogicTypeOK
<1>2. /\ IsInjective(roomUsers[l][r])
      /\ Len(roomUsers[l][r]) <= MaxRoomUserCount
      /\ Len(roomUsers[l][r]) # MaxRoomUserCount
      /\ used = TRUE
  BY DEF RoomsSound, RoomTakes
<1>3. /\ list \in Seq(Users)
      /\ list # <<>>
      /\ Len(list) = Len(roomUsers[l][r]) + 1
      /\ Range(list) = Range(roomUsers[l][r]) \union {u}
      /\ IsInjective(list)
  BY <1>1, <1>2, AppendNew
<1>4. Len(list) <= MaxRoomUserCount
  BY <1>1, <1>2, <1>3, ConfigAssumption
<1>5. /\ roomUsers' = [roomUsers EXCEPT ![l][r] = list]
      /\ roomUsed' = [roomUsed EXCEPT ![l][r] = TRUE]
  BY <1>2 DEF EnterRoomUser, LogicTypeOK
<1>6. (list # <<>>) = TRUE
  BY <1>3
<1> HIDE DEF list
<1> QED
  BY <1>3, <1>4, <1>5, <1>6, ReplaceRoomList

-----------------------------------------------------------------------------
(* One lemma per handler *)

\* IInv without the type of `out`.
LogicInv ==
    /\ LogicTypeOK
    /\ PoolSound
    /\ SessionsOwnUsers
    /\ OnlyOwnedUsersMove
    /\ LobbyIndexSound
    /\ RoomsSound
    /\ SlotsRemember
    /\ NeverPastEnd

\* IInv is LogicInv and the type of `out`.
LEMMA IInvParts == IInv <=> LogicInv /\ out \subseteq Message
  BY TypeParts DEF IInv, LogicInv

\* A handler that only sends, or refuses, keeps the invariant.
LEMMA ReadOnlyKeeps ==
    ASSUME LogicInv, UNCHANGED logicVars
    PROVE  LogicInv'
<1>1. LogicTypeOK'
  BY DEF LogicInv, LogicTypeOK, logicVars, userVars, lobbyVars, roomVars
<1>2. PoolSound' /\ SessionsOwnUsers' /\ OnlyOwnedUsersMove'
  BY DEF LogicInv, PoolSound, SessionsOwnUsers, OnlyOwnedUsersMove,
         logicVars, userVars, lobbyVars, roomVars
<1>3. LobbyIndexSound' /\ RoomsSound' /\ SlotsRemember' /\ NeverPastEnd'
  BY DEF LogicInv, LobbyIndexSound, RoomsSound, SlotsRemember, NeverPastEnd,
         logicVars, userVars, lobbyVars, roomVars
<1> QED
  BY <1>1, <1>2, <1>3 DEF LogicInv

\* A refusal sends nothing that is recorded.
LEMMA RefuseKeeps ==
    ASSUME LogicInv, Refuse
    PROVE  LogicInv' /\ out' \subseteq Message
  BY ReadOnlyKeeps DEF Refuse

\* A session that is accepted changes `open` only.
LEMMA ConnectKeeps ==
    ASSUME LogicInv, NEW s \in Sessions, Connect(s)
    PROVE  LogicInv' /\ out' \subseteq Message
<1>1. LogicTypeOK' /\ out' \subseteq Message
  BY DEF LogicInv, LogicTypeOK, Connect, userVars, lobbyVars, roomVars
<1>2. PoolSound' /\ OnlyOwnedUsersMove'
  BY DEF LogicInv, PoolSound, OnlyOwnedUsersMove, Connect, userVars
<1>3. SessionsOwnUsers'
  BY DEF LogicInv, SessionsOwnUsers, Connect, userVars
<1>4. LobbyIndexSound' /\ RoomsSound' /\ SlotsRemember' /\ NeverPastEnd'
  BY DEF LogicInv, LobbyIndexSound, RoomsSound, SlotsRemember, NeverPastEnd,
         Connect, lobbyVars, roomVars
<1> QED
  BY <1>1, <1>2, <1>3, <1>4 DEF LogicInv

\* A login takes a free object: nobody owned it, it was in no lobby or room.
LEMMA LoginKeeps ==
    ASSUME LogicInv, NEW s \in Sessions, NEW o \in Offsets, NEW n \in IDs,
           Login(s, o, n)
    PROVE  LogicInv' /\ out' \subseteq Message
<1> USE DEF LogicInv
<1>1. CASE ~CanLogin(s, o)
  BY <1>1, RefuseKeeps DEF Login
<1>2. CASE CanLogin(s, o)
  <2> DEFINE u == Head(pool)
  <2>1. /\ s \in open
        /\ pool # <<>>
        /\ pool' = Tail(pool)
        /\ user' = [user EXCEPT ![u] = SetUser(user[u], s, n)]
        /\ sessionDic' = [sessionDic EXCEPT
                            ![s] = IF sessionDic[s] = None THEN u ELSE sessionDic[s]]
        /\ idDic' = [idDic EXCEPT ![<<s, o>>] = u]
        /\ login' = [login EXCEPT ![s] = TRUE]
        /\ out' = {}
        /\ UNCHANGED <<open, lobbyVars, roomVars>>
    BY <1>2 DEF Login, CanLogin, InsertSession
  <2>2. /\ u \in Range(pool)
        /\ u \in Users
        /\ Tail(pool) \in Seq(Users)
        /\ Range(Tail(pool)) = Range(pool) \ {u}
        /\ IsInjective(Tail(pool))
    BY <2>1, TakeFirst DEF LogicTypeOK, PoolSound
  <2> HIDE DEF u
  <2>3. /\ user[u] \in User
        /\ ~user[u].confirm
        /\ user[u].state = "NONE"
        /\ user[u].lobby = None
    BY <2>2 DEF PoolSound, LogicTypeOK
  <2>4. /\ user' \in [Users -> User]
        /\ user'[u] = SetUser(user[u], s, n)
        /\ \A v \in Users \ {u} : user'[v] = user[v]
    BY <2>1, <2>2, <2>3, SetUserFacts DEF LogicTypeOK
  <2>5. /\ user'[u].session = s
        /\ user'[u].confirm = TRUE
        /\ user'[u].state = "LOGIN"
        /\ user'[u].lobby = None
    <3>1. user'[u] = SetUser(user[u], s, n)
      BY <2>4
    <3>2. user[u] \in User /\ user[u].lobby = None
      BY <2>3
    <3>3. /\ SetUser(user[u], s, n).session = s
          /\ SetUser(user[u], s, n).confirm = TRUE
          /\ SetUser(user[u], s, n).state = "LOGIN"
          /\ SetUser(user[u], s, n).lobby = user[u].lobby
      BY <3>2, SetUserFacts, ZenonT(40)
    <3> QED
      BY <3>1, <3>2, <3>3
  <2>6. /\ sessionDic' \in [Sessions -> Users \union {None}]
        /\ sessionDic'[s] = IF sessionDic[s] = None THEN u ELSE sessionDic[s]
        /\ \A t \in Sessions \ {s} : sessionDic'[t] = sessionDic[t]
        /\ login' \in [Sessions -> BOOLEAN]
        /\ login'[s] = TRUE
        /\ \A t \in Sessions \ {s} : login'[t] = login[t]
    BY <2>1, <2>2 DEF LogicTypeOK
  <2>7. LogicTypeOK'
    BY <2>1, <2>2, <2>4, <2>6 DEF LogicTypeOK, Addresses, lobbyVars, roomVars
  <2>8. PoolSound'
    <3>1. IsInjective(pool')
      BY <2>1, <2>2
    <3>2. ASSUME NEW v \in Users
          PROVE  /\ v \in Range(pool') <=> ~user'[v].confirm
                 /\ user'[v].confirm <=> user'[v].state # "NONE"
                 /\ IF user'[v].confirm
                    THEN user'[v].session # None
                    ELSE user'[v].lobby = None /\ user'[v].room = None
      <4>1. CASE v = u
        BY <4>1, <2>1, <2>2, <2>5, IndexFacts
      <4>2. CASE v # u
        BY <4>2, <2>1, <2>2, <2>4 DEF PoolSound
      <4> QED
        BY <4>1, <4>2
    <3> QED
      BY <3>1, <3>2 DEF PoolSound
  <2>9. SessionsOwnUsers'
    <3> SUFFICES ASSUME NEW t \in Sessions
                 PROVE  /\ login'[t] <=> sessionDic'[t] # None
                        /\ sessionDic'[t] # None =>
                             /\ t \in open'
                             /\ user'[sessionDic'[t]].confirm
                             /\ user'[sessionDic'[t]].session = t
      BY DEF SessionsOwnUsers
    <3>1. CASE t = s /\ sessionDic[s] = None
      BY <3>1, <2>1, <2>2, <2>5, <2>6, IndexFacts
    <3>2. CASE ~(t = s /\ sessionDic[s] = None)
      <4>1. sessionDic'[t] = sessionDic[t] /\ (login'[t] <=> login[t])
        BY <3>2, <2>6 DEF SessionsOwnUsers, LogicTypeOK
      <4>2. sessionDic[t] # None => sessionDic[t] \in Users \ {u}
        BY <2>3 DEF SessionsOwnUsers, LogicTypeOK
      <4> QED
        BY <4>1, <4>2, <2>1, <2>4 DEF SessionsOwnUsers
    <3> QED
      BY <3>1, <3>2
  <2>10. OnlyOwnedUsersMove'
    <3> SUFFICES ASSUME NEW v \in Users, user'[v].lobby # None
                 PROVE  sessionDic'[user'[v].session] = v
      BY DEF OnlyOwnedUsersMove
    <3>1. v # u /\ user'[v] = user[v]
      BY <2>4, <2>5
    <3>2. user[v].session \in Sessions /\ sessionDic[user[v].session] = v
      BY <3>1, MoversHaveSessions
    <3> QED
      BY <3>1, <3>2, <2>6, IndexFacts
  <2>11. LobbyIndexSound'
    BY <2>1, <2>3, <2>4, <2>5, IndexFacts DEF LobbyIndexSound, lobbyVars
  <2>12. RoomsSound'
    BY <2>1, <2>3, <2>4, <2>5 DEF RoomsSound, roomVars
  <2>13. SlotsRemember' /\ NeverPastEnd'
    BY <2>1, <2>4, <2>5 DEF SlotsRemember, NeverPastEnd, lobbyVars
  <2> QED
    BY <2>1, <2>7, <2>8, <2>9, <2>10, <2>11, <2>12, <2>13
<1> QED
  BY <1>1, <1>2

\* The user a session is bound to.
LEMMA OwnUser ==
    ASSUME LogicInv, NEW s \in Sessions, HasUser(s)
    PROVE  /\ sessionDic[s] \in Users
           /\ user[sessionDic[s]] \in User
           /\ user[sessionDic[s]].session = s
           /\ user[sessionDic[s]].confirm
           /\ \A t \in Sessions \ {s} : sessionDic[t] # sessionDic[s]
  BY DEF LogicInv, LogicTypeOK, SessionsOwnUsers, HasUser

\* What a handler may do to the one user it moves: nothing else of the user
\* part of the invariant depends on where that user is.
LEMMA MoveKeepsOwnership ==
    ASSUME LogicInv, NEW s \in Sessions, HasUser(s),
           UNCHANGED <<open, userVars>>,
           user' \in [Users -> User],
           \A v \in Users \ {sessionDic[s]} : user'[v] = user[v],
           user'[sessionDic[s]].session = user[sessionDic[s]].session,
           user'[sessionDic[s]].confirm = user[sessionDic[s]].confirm,
           user'[sessionDic[s]].state # "NONE"
    PROVE  PoolSound' /\ SessionsOwnUsers' /\ OnlyOwnedUsersMove'
<1> DEFINE u == sessionDic[s]
<1>1. u \in Users /\ user[u].session = s /\ user[u].confirm
  BY OwnUser
<1>2. /\ open' = open /\ login' = login /\ pool' = pool
      /\ sessionDic' = sessionDic
  BY DEF userVars
<1> HIDE DEF u
<1>3. /\ \A v \in Users \ {u} : user'[v] = user[v]
      /\ user'[u].session = s
      /\ user'[u].confirm
      /\ user'[u].state # "NONE"
      /\ sessionDic[s] = u
  BY <1>1 DEF u
<1>4. PoolSound'
  <2> SUFFICES ASSUME NEW v \in Users
               PROVE  /\ v \in Range(pool) <=> ~user'[v].confirm
                      /\ user'[v].confirm <=> user'[v].state # "NONE"
                      /\ IF user'[v].confirm
                         THEN user'[v].session # None
                         ELSE user'[v].lobby = None /\ user'[v].room = None
    BY <1>2 DEF PoolSound, LogicInv
  <2>1. CASE v = u
    BY <2>1, <1>1, <1>3, IndexFacts DEF PoolSound, LogicInv
  <2>2. CASE v # u
    BY <2>2, <1>3 DEF PoolSound, LogicInv
  <2> QED
    BY <2>1, <2>2
<1>5. SessionsOwnUsers'
  <2> SUFFICES ASSUME NEW t \in Sessions, sessionDic[t] # None
               PROVE  user'[sessionDic[t]].confirm /\ user'[sessionDic[t]].session = t
    BY <1>2 DEF SessionsOwnUsers, LogicInv
  <2>1. CASE t = s
    BY <2>1, <1>3
  <2>2. CASE t # s
    <3>1. sessionDic[t] \in Users \ {u}
      BY <2>2, OwnUser DEF u, LogicInv, LogicTypeOK
    <3> QED
      BY <3>1, <1>3 DEF SessionsOwnUsers, LogicInv
  <2> QED
    BY <2>1, <2>2
<1>6. OnlyOwnedUsersMove'
  <2> SUFFICES ASSUME NEW v \in Users, user'[v].lobby # None
               PROVE  sessionDic[user'[v].session] = v
    BY <1>2 DEF OnlyOwnedUsersMove
  <2>1. CASE v = u
    BY <2>1, <1>3
  <2>2. CASE v # u
    BY <2>2, <1>3 DEF OnlyOwnedUsersMove, LogicInv
  <2> QED
    BY <2>1, <2>2
<1> QED
  BY <1>4, <1>5, <1>6

\* Entering a lobby: a user in state LOGIN is in no lobby, so it joins one.
LEMMA LobbyEnterKeeps ==
    ASSUME LogicInv, NEW s \in Sessions, NEW l \in Lobbies \union {None},
           LobbyEnter(s, l)
    PROVE  LogicInv' /\ out' \subseteq Message
<1>1. CASE ~CanEnterLobby(s, l)
  BY <1>1, RefuseKeeps DEF LobbyEnter
<1>2. CASE CanEnterLobby(s, l)
  <2> DEFINE u == sessionDic[s]
  <2>1. /\ HasUser(s)
        /\ user[u].state = "LOGIN"
        /\ l \in Lobbies
        /\ Cardinality(lobbyUsers[l]) < MaxLobbyUserCount
    BY <1>2 DEF CanEnterLobby, InState
  <2>2. /\ u \in Users
        /\ user[u] \in User
        /\ user[u].session = s
    BY <2>1, OwnUser
  <2>3. /\ AddUserToSlots(l, u)
        /\ user' = [user EXCEPT ![u] = UserEnterLobby(user[u], l)]
        /\ lobbyUsers' = [lobbyUsers EXCEPT ![l] = lobbyUsers[l] \union {u}]
        /\ out' = SendToAll(lobbyUsers[l] \union {u}, "LOBBY_ENTER_USER_NTF", u, None)
        /\ UNCHANGED <<open, userVars, pastEnd, roomVars>>
    BY <1>2 DEF LobbyEnter
  <2>4. /\ user' \in [Users -> User]
        /\ user'[u] = UserEnterLobby(user[u], l)
        /\ \A v \in Users \ {u} : user'[v] = user[v]
    BY <2>1, <2>2, <2>3, UserEnterLobbyFacts DEF LogicInv, LogicTypeOK
  <2>5. /\ user'[u].session = user[u].session
        /\ user'[u].confirm = user[u].confirm
        /\ user'[u].state = "LOBBY"
        /\ user'[u].lobby = l
    BY <2>1, <2>2, <2>4, UserEnterLobbyFacts
  <2>6. /\ lobbyUsers' \in [Lobbies -> SUBSET Users]
        /\ \A k \in Lobbies : lobbyUsers'[k] = IF k = l THEN lobbyUsers[l] \union {u}
                                                        ELSE lobbyUsers[k]
    BY <2>1, <2>2, <2>3 DEF LogicInv, LogicTypeOK
  <2>7. PICK i \in Slots : /\ slots[l][i] = None
                           /\ slots' = [slots EXCEPT ![l][i] = u]
    BY <2>3 DEF AddUserToSlots
  <2>8. /\ slots' \in [Lobbies -> [Slots -> Users \union {None}]]
        /\ slots'[l][i] = u
        /\ \A k \in Lobbies, j \in Slots :
             slots[k][j] # None => slots'[k][j] = slots[k][j]
    BY <2>1, <2>2, <2>7 DEF LogicInv, LogicTypeOK
  <2>9. LogicTypeOK'
    BY <2>3, <2>4, <2>6, <2>8 DEF LogicInv, LogicTypeOK, userVars, roomVars
  <2>10. PoolSound' /\ SessionsOwnUsers' /\ OnlyOwnedUsersMove'
    BY <2>1, <2>3, <2>4, <2>5, MoveKeepsOwnership
  <2> HIDE DEF u
  <2>11. LobbyIndexSound'
    <3>1. ASSUME NEW k \in Lobbies, NEW v \in Users
          PROVE  v \in lobbyUsers'[k] <=>
                   user'[v].lobby = k /\ user'[v].state \in {"LOBBY", "ROOM"}
      <4>1. v \in lobbyUsers[k] <=>
              user[v].lobby = k /\ user[v].state \in {"LOBBY", "ROOM"}
        BY DEF LogicInv, LobbyIndexSound
      <4>2. CASE v = u
        <5>1. user[u].state = "LOGIN"
          BY <2>1 DEF u
        <5>2. v \notin lobbyUsers[k]
          BY <4>1, <4>2, <5>1
        <5>3. v \in lobbyUsers'[k] <=> k = l
          BY <4>2, <5>2, <2>6
        <5> QED
          BY <4>2, <5>3, <2>5
      <4>3. CASE v # u
        <5>1. v \in lobbyUsers'[k] <=> v \in lobbyUsers[k]
          BY <4>3, <2>6
        <5> QED
          BY <4>1, <4>3, <5>1, <2>4
      <4> QED
        BY <4>2, <4>3
    <3>2. ASSUME NEW k \in Lobbies
          PROVE  Cardinality(lobbyUsers'[k]) <= MaxLobbyUserCount
      <4>1. IsFiniteSet(lobbyUsers[l]) /\ Cardinality(lobbyUsers[l]) \in Nat
        BY <2>1, UsersFinite DEF LogicInv, LogicTypeOK
      <4>2. Cardinality(lobbyUsers[l] \union {u}) <= Cardinality(lobbyUsers[l]) + 1
        <5>1. Cardinality(lobbyUsers[l] \union {u}) =
                IF u \in lobbyUsers[l] THEN Cardinality(lobbyUsers[l])
                                      ELSE Cardinality(lobbyUsers[l]) + 1
          BY <4>1, FS_AddElement
        <5> QED
          BY <5>1, <4>1
      <4>3. IsFiniteSet(lobbyUsers[l] \union {u})
        BY <4>1, FS_AddElement
      <4>4. Cardinality(lobbyUsers[l] \union {u}) \in Nat
        BY <4>3, FS_CardinalityType
      <4>5. Cardinality(lobbyUsers[l] \union {u}) <= MaxLobbyUserCount
        BY <4>1, <4>2, <4>4, <2>1, ConfigAssumption
      <4> QED
        BY <4>5, <2>6 DEF LogicInv, LobbyIndexSound
    <3> QED
      BY <3>1, <3>2 DEF LobbyIndexSound
  <2>12. RoomsSound'
    <3>1. user[u].state # "ROOM" /\ user'[u].state # "ROOM"
      BY <2>1, <2>5 DEF u
    <3> QED
      BY <3>1, <2>3, <2>4 DEF LogicInv, RoomsSound, roomVars
  <2>13. SlotsRemember'
    <3> SUFFICES ASSUME NEW v \in Users, user'[v].lobby # None
                 PROVE  \E j \in Slots : slots'[user'[v].lobby][j] = v
      BY DEF SlotsRemember
    <3>1. CASE v = u
      BY <3>1, <2>5, <2>8
    <3>2. CASE v # u
      <4>1. user'[v].lobby = user[v].lobby /\ user[v].lobby \in Lobbies
        BY <3>2, <2>4 DEF LogicInv, LogicTypeOK, User
      <4>2. PICK j \in Slots : slots[user[v].lobby][j] = v
        BY <3>2, <4>1, <2>4 DEF LogicInv, SlotsRemember
      <4>3. v # None
        BY IndexFacts
      <4> QED
        BY <4>1, <4>2, <4>3, <2>8
    <3> QED
      BY <3>1, <3>2
  <2>14. NeverPastEnd'
    BY <2>3 DEF LogicInv, NeverPastEnd
  <2>15. out' \subseteq Message
    <3>1. \A v \in lobbyUsers[l] \union {u} : user[v].session \in Sessions
      BY <2>1, <2>2, MembersHaveSessions DEF LogicInv
    <3>2. "LOBBY_ENTER_USER_NTF" \in Packets
      BY DEF Packets
    <3> QED
      BY <3>1, <3>2, <2>2, <2>3, SendToAllType
  <2> QED
    BY <2>9, <2>10, <2>11, <2>12, <2>13, <2>14, <2>15 DEF LogicInv
<1> QED
  BY <1>1, <1>2

\* The three lobby handlers that only send.
LEMMA LobbySendersKeep ==
    ASSUME LogicInv, NEW s \in Sessions,
           \/ \E start \in Slots : LobbyUserList(s, start)
           \/ LobbyChat(s)
           \/ \E o \in Offsets : Whisper(s, o)
    PROVE  LogicInv' /\ out' \subseteq Message
<1>1. CASE Refuse
  BY <1>1, RefuseKeeps
<1>2. ASSUME NEW start \in Slots, LobbyUserList(s, start), ~Refuse
      PROVE  LogicInv' /\ out' \subseteq Message
  <2> DEFINE x == user[sessionDic[s]]
  <2>1. /\ InLobby(s)
        /\ out' = {Msg(x.session, "LOBBY_ENTER_USER_LIST_RES", slots[x.lobby][i], i) :
                     i \in ListedSlots(x.lobby, start)}
        /\ UNCHANGED logicVars
    BY <1>2 DEF LobbyUserList
  <2>2. x.session \in Sessions /\ x.lobby \in Lobbies
    BY <2>1, OwnUser DEF InLobby, InState, HasLobby
  <2>3. ASSUME NEW i \in ListedSlots(x.lobby, start)
        PROVE  Msg(x.session, "LOBBY_ENTER_USER_LIST_RES", slots[x.lobby][i], i) \in Message
    <3>1. i \in Slots /\ slots[x.lobby][i] \in Users \union {None}
      BY <2>2 DEF ListedSlots, LogicInv, LogicTypeOK
    <3>2. "LOBBY_ENTER_USER_LIST_RES" \in Packets
      BY DEF Packets
    <3> QED
      BY <2>2, <3>1, <3>2, MsgType
  <2> QED
    BY <2>1, <2>3, ReadOnlyKeeps
<1>3. ASSUME LobbyChat(s), ~Refuse
      PROVE  LogicInv' /\ out' \subseteq Message
  <2> DEFINE u == sessionDic[s]
  <2>1. /\ InLobby(s)
        /\ out' = SendToAll(lobbyUsers[user[u].lobby], "LOBBY_CHAT_NTF", u, None)
        /\ UNCHANGED logicVars
    BY <1>3 DEF LobbyChat
  <2>2. u \in Users /\ user[u].lobby \in Lobbies
    BY <2>1, OwnUser DEF InLobby, InState, HasLobby
  <2>3. \A v \in lobbyUsers[user[u].lobby] : user[v].session \in Sessions
    BY <2>2, MembersHaveSessions DEF LogicInv
  <2>4. "LOBBY_CHAT_NTF" \in Packets
    BY DEF Packets
  <2> QED
    BY <2>1, <2>2, <2>3, <2>4, ReadOnlyKeeps, SendToAllType
<1>4. ASSUME NEW o \in Offsets, Whisper(s, o), ~Refuse
      PROVE  LogicInv' /\ out' \subseteq Message
  <2> DEFINE w == idDic[<<s, o>>]
  <2>1. /\ CanWhisper(s, o)
        /\ out' = {Msg(user[w].session, "WHISPER_NTF", sessionDic[s], None)}
        /\ UNCHANGED logicVars
    BY <1>4 DEF Whisper
  <2>2. sessionDic[s] \in Users
    BY <2>1, OwnUser DEF CanWhisper, InLobby, InState
  <2>3. w \in Users /\ user[w].confirm
    BY <2>1 DEF CanWhisper, LogicInv, LogicTypeOK, Addresses
  <2>4. user[w].session \in Sessions
    BY <2>3 DEF LogicInv, LogicTypeOK, PoolSound, User
  <2>5. "WHISPER_NTF" \in Packets
    BY DEF Packets
  <2> QED
    BY <2>1, <2>2, <2>4, <2>5, ReadOnlyKeeps, MsgType
<1> QED
  BY <1>1, <1>2, <1>3, <1>4

\* A user that only leaves a lobby and no longer counts as a member of it; the
\* part of LobbyIndexSound that leaving, from the lobby or by closing, shares.
LEMMA RemoveLobbyUser ==
    ASSUME LogicInv, NEW l \in Lobbies, NEW u \in Users,
           lobbyUsers' = [lobbyUsers EXCEPT ![l] = lobbyUsers[l] \ {u}],
           \A v \in Users \ {u} : user'[v] = user[v],
           user'[u].state \notin {"LOBBY", "ROOM"},
           \A k \in Lobbies \ {l} : u \notin lobbyUsers[k]
    PROVE  LobbyIndexSound' /\ lobbyUsers' \in [Lobbies -> SUBSET Users]
<1>1. /\ lobbyUsers' \in [Lobbies -> SUBSET Users]
      /\ \A k \in Lobbies : lobbyUsers'[k] = IF k = l THEN lobbyUsers[l] \ {u}
                                                      ELSE lobbyUsers[k]
  BY DEF LogicInv, LogicTypeOK
<1>2. ASSUME NEW k \in Lobbies, NEW v \in Users
      PROVE  v \in lobbyUsers'[k] <=>
               user'[v].lobby = k /\ user'[v].state \in {"LOBBY", "ROOM"}
  <2>1. v \in lobbyUsers[k] <=>
          user[v].lobby = k /\ user[v].state \in {"LOBBY", "ROOM"}
    BY DEF LogicInv, LobbyIndexSound
  <2>2. CASE v = u
    BY <2>2, <1>1
  <2>3. CASE v # u
    <3>1. v \in lobbyUsers'[k] <=> v \in lobbyUsers[k]
      BY <2>3, <1>1
    <3> QED
      BY <2>1, <2>3, <3>1
  <2> QED
    BY <2>2, <2>3
<1>3. ASSUME NEW k \in Lobbies
      PROVE  Cardinality(lobbyUsers'[k]) <= MaxLobbyUserCount
  <2>1. /\ lobbyUsers'[k] \subseteq lobbyUsers[k]
        /\ lobbyUsers'[k] \in SUBSET Users /\ lobbyUsers[k] \in SUBSET Users
    BY <1>1 DEF LogicInv, LogicTypeOK
  <2>2. /\ IsFiniteSet(lobbyUsers[k])
        /\ Cardinality(lobbyUsers[k]) \in Nat
        /\ Cardinality(lobbyUsers'[k]) \in Nat
    BY <2>1, UsersFinite
  <2>3. Cardinality(lobbyUsers'[k]) <= Cardinality(lobbyUsers[k])
    BY <2>1, <2>2, FS_Subset
  <2>4. Cardinality(lobbyUsers[k]) <= MaxLobbyUserCount
    BY DEF LogicInv, LobbyIndexSound
  <2> QED
    BY <2>2, <2>3, <2>4, ConfigAssumption
<1> QED
  BY <1>1, <1>2, <1>3 DEF LobbyIndexSound

\* Leaving a lobby: RemoveUser finds the slot, hence does nothing.
LEMMA LobbyLeaveKeeps ==
    ASSUME LogicInv, NEW s \in Sessions, LobbyLeave(s)
    PROVE  LogicInv' /\ out' \subseteq Message
<1>1. CASE ~InLobby(s)
  BY <1>1, RefuseKeeps DEF LobbyLeave
<1>2. CASE InLobby(s)
  <2> DEFINE u == sessionDic[s]
             l == user[u].lobby
  <2>1. /\ HasUser(s)
        /\ user[u].state = "LOBBY"
        /\ l \in Lobbies
    BY <1>2 DEF InLobby, InState, HasLobby
  <2>2. u \in Users /\ user[u] \in User
    BY <2>1, OwnUser
  <2>3. u \in lobbyUsers[l]
    BY <2>1, <2>2 DEF LogicInv, LobbyIndexSound
  <2>4. /\ RemoveUserFromSlots(l, u)
        /\ user' = [user EXCEPT ![u] = UserLeaveLobby(user[u])]
        /\ lobbyUsers' = [lobbyUsers EXCEPT ![l] = lobbyUsers[l] \ {u}]
        /\ out' = SendToAll(lobbyUsers'[l], "LOBBY_LEAVE_USER_NTF", u, None)
        /\ UNCHANGED <<open, userVars, roomVars>>
    BY <1>2, <2>3 DEF LobbyLeave
  <2> HIDE DEF u, l
  <2>5. /\ user' \in [Users -> User]
        /\ user'[u] = UserLeaveLobby(user[u])
        /\ \A v \in Users \ {u} : user'[v] = user[v]
    BY <2>2, <2>4, UserLeaveLobbyFacts DEF LogicInv, LogicTypeOK
  <2>6. /\ user'[u].session = user[u].session
        /\ user'[u].confirm = user[u].confirm
        /\ user'[u].state = "LOGIN"
        /\ user'[u].lobby = l
    BY <2>2, <2>5, UserLeaveLobbyFacts DEF l
  <2>7. slots' = slots /\ pastEnd' = pastEnd
    <3>1. \E i \in Slots : slots[l][i] = u
      BY <2>1, <2>2, IndexFacts DEF LogicInv, SlotsRemember, l
    <3> QED
      BY <3>1, <2>4 DEF RemoveUserFromSlots, LogicInv, LogicTypeOK
  <2>8. \A k \in Lobbies \ {l} : u \notin lobbyUsers[k]
    BY <2>2 DEF LogicInv, LobbyIndexSound, l
  <2>9. LobbyIndexSound' /\ lobbyUsers' \in [Lobbies -> SUBSET Users]
    BY <2>1, <2>2, <2>4, <2>5, <2>6, <2>8, RemoveLobbyUser
  <2>10. LogicTypeOK'
    BY <2>4, <2>5, <2>7, <2>9 DEF LogicInv, LogicTypeOK, userVars, roomVars
  <2>11. PoolSound' /\ SessionsOwnUsers' /\ OnlyOwnedUsersMove'
    BY <2>1, <2>4, <2>5, <2>6, MoveKeepsOwnership DEF u
  <2>12. RoomsSound'
    <3>1. user[u].state # "ROOM" /\ user'[u].state # "ROOM"
      BY <2>1, <2>6 DEF u
    <3> QED
      BY <3>1, <2>4, <2>5 DEF LogicInv, RoomsSound, roomVars
  <2>13. SlotsRemember' /\ NeverPastEnd'
    <3>1. \A v \in Users : user'[v].lobby = user[v].lobby
      BY <2>5, <2>6 DEF l
    <3> QED
      BY <3>1, <2>7 DEF LogicInv, SlotsRemember, NeverPastEnd
  <2>14. out' \subseteq Message
    <3>1. lobbyUsers'[l] \subseteq lobbyUsers[l]
      BY <2>1, <2>4 DEF LogicInv, LogicTypeOK, l
    <3>2. \A v \in lobbyUsers'[l] : user[v].session \in Sessions
      BY <2>1, <3>1, MembersHaveSessions DEF LogicInv, l
    <3>3. "LOBBY_LEAVE_USER_NTF" \in Packets
      BY DEF Packets
    <3> QED
      BY <3>2, <3>3, <2>2, <2>4, SendToAllType
  <2> QED
    BY <2>9, <2>10, <2>11, <2>12, <2>13, <2>14 DEF LogicInv
<1> QED
  BY <1>1, <1>2

\* Entering a room: either the room takes the user, who then is in no other
\* room because it was in state LOBBY, or nothing changes.  `used` differs from
\* roomUsed only for a room just created, which is empty and takes its creator.
LEMMA EnterRoomKeeps ==
    ASSUME LogicInv, NEW s \in Sessions, InLobby(s), NEW r \in Rooms,
           NEW l, l = user[sessionDic[s]].lobby,
           NEW used \in BOOLEAN, used = roomUsed[l][r] \/ used,
           EnterRoomUser(s, l, r, used)
    PROVE  LogicInv' /\ out' \subseteq Message
<1> DEFINE u == sessionDic[s]
<1>1. /\ HasUser(s)
      /\ user[u].state = "LOBBY"
      /\ l \in Lobbies
  BY DEF InLobby, InState, HasLobby
<1>2. u \in Users /\ user[u] \in User /\ user[u].session = s
  BY <1>1, OwnUser
<1>3. \A k \in Lobbies, q \in Rooms : u \notin Range(roomUsers[k][q])
  BY <1>1, <1>2 DEF LogicInv, RoomsSound
<1>4. UNCHANGED <<open, userVars, lobbyVars>>
  BY DEF EnterRoomUser
<1>5. CASE RoomTakes(l, r, used)
  <2>1. /\ user' = [user EXCEPT ![u] = UserEnterRoom(user[u], l, r)]
        /\ out' = SendToAll(lobbyUsers[l], "LOBBY_LEAVE_USER_NTF", u, None)
                    \union SendToAll(lobbyUsers[l], "ROOM_CHANGED_INFO_NTF", None, r)
                    \union SendToAll(Range(roomUsers'[l][r]),
                                     "ROOM_ENTER_USER_NTF", u, None)
    BY <1>5 DEF EnterRoomUser
  <2>2. /\ user' \in [Users -> User]
        /\ user'[u] = UserEnterRoom(user[u], l, r)
        /\ \A v \in Users \ {u} : user'[v] = user[v]
    BY <1>1, <1>2, <2>1, UserEnterRoomFacts DEF LogicInv, LogicTypeOK
  <2>3. /\ user'[u].session = user[u].session
        /\ user'[u].confirm = user[u].confirm
        /\ user'[u].state = "ROOM"
        /\ user'[u].lobby = l
        /\ user'[u].room = r
    BY <1>1, <1>2, <2>2, UserEnterRoomFacts
  <2>4. RoomsAfter(l, r, Range(roomUsers[l][r]) \union {u})
    <3>1. LogicTypeOK /\ RoomsSound
      BY DEF LogicInv
    <3>2. u \in Users \ Range(roomUsers[l][r])
      BY <1>1, <1>2, <1>3
    <3> QED
      BY <1>1, <1>2, <1>5, <3>1, <3>2, EnterRoomUserFacts
  <2>5. LogicTypeOK'
    BY <1>4, <2>2, <2>4 DEF LogicInv, LogicTypeOK, RoomsAfter, userVars, lobbyVars
  <2>6. PoolSound' /\ SessionsOwnUsers' /\ OnlyOwnedUsersMove'
    BY <1>1, <1>4, <2>2, <2>3, MoveKeepsOwnership
  <2>7. user[u].lobby = l /\ user[u].state = "LOBBY"
    BY <1>1
  <2> HIDE DEF u
  <2>8. LobbyIndexSound'
    <3>1. \A v \in Users : /\ user'[v].lobby = user[v].lobby
                           /\ user'[v].state \in {"LOBBY", "ROOM"} <=>
                                user[v].state \in {"LOBBY", "ROOM"}
      BY <2>2, <2>3, <2>7
    <3> QED
      BY <3>1, <1>4 DEF LogicInv, LobbyIndexSound, lobbyVars
  <2>9. RoomsSound'
    <3>1. ASSUME NEW k \in Lobbies, NEW q \in Rooms, NEW v \in Users
          PROVE  v \in Range(roomUsers'[k][q]) <=>
                   user'[v].state = "ROOM" /\ user'[v].lobby = k /\ user'[v].room = q
      <4>1. CASE v = u
        BY <4>1, <1>3, <2>3, <2>4 DEF RoomsAfter
      <4>2. CASE v # u
        <5>1. Range(roomUsers'[k][q]) = IF k = l /\ q = r
                                        THEN Range(roomUsers[l][r]) \union {u}
                                        ELSE Range(roomUsers[k][q])
          BY <2>4 DEF RoomsAfter
        <5>2. v \in Range(roomUsers'[k][q]) <=> v \in Range(roomUsers[k][q])
          BY <4>2, <5>1
        <5> QED
          BY <4>2, <5>2, <2>2 DEF LogicInv, RoomsSound
      <4> QED
        BY <4>1, <4>2
    <3>2. ASSUME NEW k \in Lobbies, NEW q \in Rooms
          PROVE  /\ IsInjective(roomUsers'[k][q])
                 /\ Len(roomUsers'[k][q]) <= MaxRoomUserCount
                 /\ roomUsed'[k][q] <=> roomUsers'[k][q] # <<>>
      BY <2>4 DEF RoomsAfter
    <3> QED
      BY <3>1, <3>2 DEF RoomsSound
  <2>10. SlotsRemember' /\ NeverPastEnd'
    <3>1. \A v \in Users : user'[v].lobby = user[v].lobby
      BY <2>2, <2>3, <2>7
    <3> QED
      BY <3>1, <1>4 DEF LogicInv, SlotsRemember, NeverPastEnd, lobbyVars
  <2>11. out' \subseteq Message
    <3>1. /\ \A v \in lobbyUsers[l] : user[v].session \in Sessions
          /\ \A v \in Range(roomUsers[l][r]) : user[v].session \in Sessions
      BY <1>1, MembersHaveSessions DEF LogicInv
    <3>2. \A v \in Range(roomUsers'[l][r]) : user[v].session \in Sessions
      <4>1. Range(roomUsers'[l][r]) = Range(roomUsers[l][r]) \union {u}
        BY <1>1, <2>4 DEF RoomsAfter
      <4>2. user[u].session \in Sessions
        BY <1>2
      <4> QED
        BY <3>1, <4>1, <4>2
    <3>3. /\ "LOBBY_LEAVE_USER_NTF" \in Packets
          /\ "ROOM_CHANGED_INFO_NTF" \in Packets
          /\ "ROOM_ENTER_USER_NTF" \in Packets
      BY DEF Packets
    <3>4. u \in Users
      BY <1>2
    <3>5. SendToAll(lobbyUsers[l], "LOBBY_LEAVE_USER_NTF", u, None) \subseteq Message
      BY <3>1, <3>3, <3>4, SendToAllType
    <3>6. SendToAll(lobbyUsers[l], "ROOM_CHANGED_INFO_NTF", None, r) \subseteq Message
      BY <3>1, <3>3, SendToAllType
    <3>7. SendToAll(Range(roomUsers'[l][r]), "ROOM_ENTER_USER_NTF", u, None)
            \subseteq Message
      BY <3>2, <3>3, <3>4, SendToAllType
    <3> QED
      BY <2>1, <3>5, <3>6, <3>7 DEF u
  <2> QED
    BY <2>5, <2>6, <2>8, <2>9, <2>10, <2>11 DEF LogicInv
<1>6. CASE ~RoomTakes(l, r, used)
  <2>1. used = roomUsed[l][r]
    <3> SUFFICES ASSUME ~roomUsed[l][r], used
                 PROVE  FALSE
      BY <1>1 DEF LogicInv, LogicTypeOK
    <3>1. roomUsers[l][r] = <<>>
      BY <1>1 DEF LogicInv, RoomsSound
    <3> QED
      BY <3>1, <1>6, EmptySeq, ConfigAssumption DEF RoomTakes
  <2>2. roomUsed' = roomUsed /\ roomUsers' = roomUsers /\ user' = user /\ out' = {}
    BY <1>1, <1>2, <1>6, <2>1 DEF EnterRoomUser, LogicInv, LogicTypeOK
  <2> QED
    BY <1>4, <2>2, ReadOnlyKeeps DEF logicVars, roomVars
<1> QED
  BY <1>5, <1>6

\* Creating a room takes the first unused one.
LEMMA RoomCreateKeeps ==
    ASSUME LogicInv, NEW s \in Sessions, RoomCreate(s)
    PROVE  LogicInv' /\ out' \subseteq Message
<1>1. CASE Refuse
  BY <1>1, RefuseKeeps
<1>2. CASE InLobby(s) /\ \E r \in Rooms :
             EnterRoomUser(s, user[sessionDic[s]].lobby, r, TRUE)
  BY <1>2, EnterRoomKeeps
<1> QED
  BY <1>1, <1>2 DEF RoomCreate

\* Entering a room by its index.
LEMMA RoomEnterKeeps ==
    ASSUME LogicInv, NEW s \in Sessions, NEW r \in Rooms \union {None}, RoomEnter(s, r)
    PROVE  LogicInv' /\ out' \subseteq Message
<1> DEFINE l == user[sessionDic[s]].lobby
<1>1. CASE Refuse
  BY <1>1, RefuseKeeps
<1>2. CASE InLobby(s) /\ r \in Rooms /\ EnterRoomUser(s, l, r, roomUsed[l][r])
  <2>1. roomUsed[l][r] \in BOOLEAN
    BY <1>2 DEF InLobby, HasLobby, LogicInv, LogicTypeOK
  <2> QED
    BY <1>2, <2>1, EnterRoomKeeps
<1> QED
  BY <1>1, <1>2 DEF RoomEnter

\* Taking a user that is in no other room out of one, when its state afterwards
\* is not ROOM: what leaving a room and closing a session share.
LEMMA RemoveRoomUser ==
    ASSUME LogicInv, NEW l \in Lobbies, NEW r \in Rooms, NEW u \in Users,
           RoomLeaveUser(l, r, u),
           \A k \in Lobbies, q \in Rooms :
              u \in Range(roomUsers[k][q]) => k = l /\ q = r,
           \A v \in Users \ {u} : user'[v] = user[v],
           user'[u].state # "ROOM"
    PROVE  RoomsSound' /\ RoomsAfter(l, r, Range(roomUsers[l][r]) \ {u})
<1>1. RoomsAfter(l, r, Range(roomUsers[l][r]) \ {u})
  BY RoomLeaveUserFacts DEF LogicInv
<1>2. ASSUME NEW k \in Lobbies, NEW q \in Rooms, NEW v \in Users
      PROVE  v \in Range(roomUsers'[k][q]) <=>
               user'[v].state = "ROOM" /\ user'[v].lobby = k /\ user'[v].room = q
  <2>1. Range(roomUsers'[k][q]) = IF k = l /\ q = r THEN Range(roomUsers[l][r]) \ {u}
                                                    ELSE Range(roomUsers[k][q])
    BY <1>1 DEF RoomsAfter
  <2>2. CASE v = u
    <3>1. v \notin Range(roomUsers'[k][q])
      BY <2>1, <2>2
    <3> QED
      BY <2>2, <3>1
  <2>3. CASE v # u
    <3>1. v \in Range(roomUsers'[k][q]) <=> v \in Range(roomUsers[k][q])
      BY <2>1, <2>3
    <3> QED
      BY <2>3, <3>1 DEF LogicInv, RoomsSound
  <2> QED
    BY <2>2, <2>3
<1>3. ASSUME NEW k \in Lobbies, NEW q \in Rooms
      PROVE  /\ IsInjective(roomUsers'[k][q])
             /\ Len(roomUsers'[k][q]) <= MaxRoomUserCount
             /\ roomUsed'[k][q] <=> roomUsers'[k][q] # <<>>
  BY <1>1 DEF RoomsAfter
<1> QED
  BY <1>1, <1>2, <1>3 DEF RoomsSound

\* The two room handlers that only send.
LEMMA RoomSendersKeep ==
    ASSUME LogicInv, NEW s \in Sessions, RoomUserList(s) \/ RoomChat(s)
    PROVE  LogicInv' /\ out' \subseteq Message
<1> DEFINE x == user[sessionDic[s]]
           members == Range(roomUsers[x.lobby][x.room])
<1>1. CASE Refuse
  BY <1>1, RefuseKeeps
<1>2. ASSUME InRoom(s)
      PROVE  /\ sessionDic[s] \in Users
             /\ x.session \in Sessions
             /\ \A v \in members : v \in Users /\ user[v].session \in Sessions
  <2>1. HasUser(s) /\ x.lobby \in Lobbies /\ x.room \in Rooms
    BY <1>2 DEF InRoom, InState, HasLobby, HasRoom
  <2> QED
    BY <2>1, OwnUser, MembersHaveSessions DEF LogicInv
<1>3. ASSUME RoomUserList(s), ~Refuse
      PROVE  LogicInv' /\ out' \subseteq Message
  <2>1. /\ InRoom(s)
        /\ out' = {Msg(x.session, "ROOM_ENTER_USER_LIST_RES", v, None) : v \in members}
        /\ UNCHANGED logicVars
    BY <1>3 DEF RoomUserList
  <2>2. "ROOM_ENTER_USER_LIST_RES" \in Packets
    BY DEF Packets
  <2> QED
    BY <1>2, <2>1, <2>2, ReadOnlyKeeps, MsgType
<1>4. ASSUME RoomChat(s), ~Refuse
      PROVE  LogicInv' /\ out' \subseteq Message
  <2>1. /\ InRoom(s)
        /\ out' = SendToAll(members, "ROOM_CHAT_NTF", sessionDic[s], None)
        /\ UNCHANGED logicVars
    BY <1>4 DEF RoomChat
  <2>2. "ROOM_CHAT_NTF" \in Packets
    BY DEF Packets
  <2> QED
    BY <1>2, <2>1, <2>2, ReadOnlyKeeps, SendToAllType
<1> QED
  BY <1>1, <1>3, <1>4

\* Leaving a room: the user goes back to the lobby it never stopped being
\* counted in, and keeps a room index that now means nothing.
LEMMA RoomLeaveKeeps ==
    ASSUME LogicInv, NEW s \in Sessions, RoomLeave(s)
    PROVE  LogicInv' /\ out' \subseteq Message
<1>1. CASE ~CanLeaveRoom(s)
  BY <1>1, RefuseKeeps DEF RoomLeave
<1>2. CASE CanLeaveRoom(s)
  <2> DEFINE u == sessionDic[s]
             l == user[u].lobby
             r == user[u].room
  <2>1. /\ HasUser(s)
        /\ user[u].state = "ROOM"
        /\ l \in Lobbies
        /\ r \in Rooms
    BY <1>2 DEF CanLeaveRoom, InRoom, InState, HasLobby, HasRoom
  <2>2. u \in Users /\ user[u] \in User
    BY <2>1, OwnUser
  <2>3. /\ RoomLeaveUser(l, r, u)
        /\ user' = [user EXCEPT ![u] = UserEnterLobby(user[u], l)]
        /\ out' = RoomLeaveNotice(l, r, u)
                    \union SendToAll(lobbyUsers[l], "LOBBY_ENTER_USER_NTF", u, None)
                    \union SendToAll(lobbyUsers[l], "ROOM_CHANGED_INFO_NTF", None, r)
        /\ UNCHANGED <<open, userVars, lobbyVars>>
    BY <1>2 DEF RoomLeave
  <2>4. /\ user' \in [Users -> User]
        /\ user'[u] = UserEnterLobby(user[u], l)
        /\ \A v \in Users \ {u} : user'[v] = user[v]
    BY <2>1, <2>2, <2>3, UserEnterLobbyFacts DEF LogicInv, LogicTypeOK
  <2>5. /\ user'[u].session = user[u].session
        /\ user'[u].confirm = user[u].confirm
        /\ user'[u].state = "LOBBY"
        /\ user'[u].lobby = l
    BY <2>1, <2>2, <2>4, UserEnterLobbyFacts
  <2>6. \A k \in Lobbies, q \in Rooms :
           u \in Range(roomUsers[k][q]) => k = l /\ q = r
    BY <2>2 DEF LogicInv, RoomsSound
  <2>7. PoolSound' /\ SessionsOwnUsers' /\ OnlyOwnedUsersMove'
    BY <2>1, <2>3, <2>4, <2>5, MoveKeepsOwnership
  <2>8. l = user[u].lobby /\ user[u].state = "ROOM"
    BY <2>1
  <2> HIDE DEF u, l, r
  <2>9. RoomsSound' /\ RoomsAfter(l, r, Range(roomUsers[l][r]) \ {u})
    BY <2>1, <2>2, <2>3, <2>4, <2>5, <2>6, RemoveRoomUser
  <2>10. LogicTypeOK'
    BY <2>3, <2>4, <2>9 DEF LogicInv, LogicTypeOK, RoomsAfter, userVars, lobbyVars
  <2>11. LobbyIndexSound'
    <3>1. \A v \in Users : /\ user'[v].lobby = user[v].lobby
                           /\ user'[v].state \in {"LOBBY", "ROOM"} <=>
                                user[v].state \in {"LOBBY", "ROOM"}
      BY <2>4, <2>5, <2>8
    <3> QED
      BY <3>1, <2>3 DEF LogicInv, LobbyIndexSound, lobbyVars
  <2>12. SlotsRemember' /\ NeverPastEnd'
    <3>1. \A v \in Users : user'[v].lobby = user[v].lobby
      BY <2>4, <2>5, <2>8
    <3> QED
      BY <3>1, <2>3 DEF LogicInv, SlotsRemember, NeverPastEnd, lobbyVars
  <2>13. out' \subseteq Message
    <3>1. /\ \A v \in lobbyUsers[l] : user[v].session \in Sessions
          /\ \A v \in Range(roomUsers[l][r]) : user[v].session \in Sessions
      BY <2>1, MembersHaveSessions DEF LogicInv, l, r, u
    <3>2. Range(roomUsers'[l][r]) = Range(roomUsers[l][r]) \ {u}
      BY <2>1, <2>9 DEF RoomsAfter, l, r
    <3>3. RoomLeaveNotice(l, r, u) \subseteq Message
      BY <2>1, <2>2, <3>1, <3>2, RoomLeaveNoticeType
    <3>4. "LOBBY_ENTER_USER_NTF" \in Packets /\ "ROOM_CHANGED_INFO_NTF" \in Packets
      BY DEF Packets
    <3>5. SendToAll(lobbyUsers[l], "LOBBY_ENTER_USER_NTF", u, None) \subseteq Message
      BY <2>2, <3>1, <3>4, SendToAllType
    <3>6. SendToAll(lobbyUsers[l], "ROOM_CHANGED_INFO_NTF", None, r) \subseteq Message
      BY <2>1, <3>1, <3>4, SendToAllType DEF r
    <3> QED
      BY <2>3, <3>3, <3>5, <3>6
  <2> QED
    BY <2>7, <2>9, <2>10, <2>11, <2>12, <2>13 DEF LogicInv
<1> QED
  BY <1>1, <1>2

\* Closing a session that has no user.
LEMMA CloseWithoutUserKeeps ==
    ASSUME LogicInv, NEW s \in Sessions, ~HasUser(s),
           open' = open \ {s}, login' = [login EXCEPT ![s] = FALSE], out' = {},
           UNCHANGED <<pool, sessionDic, idDic, user, lobbyVars, roomVars>>
    PROVE  LogicInv' /\ out' \subseteq Message
<1>1. sessionDic[s] = None
  BY DEF HasUser, LogicInv, SessionsOwnUsers
<1>2. LogicTypeOK' /\ out' \subseteq Message
  BY DEF LogicInv, LogicTypeOK, lobbyVars, roomVars
<1>3. PoolSound' /\ OnlyOwnedUsersMove'
  BY DEF LogicInv, PoolSound, OnlyOwnedUsersMove
<1>4. SessionsOwnUsers'
  BY <1>1 DEF LogicInv, LogicTypeOK, SessionsOwnUsers
<1>5. LobbyIndexSound' /\ RoomsSound' /\ SlotsRemember' /\ NeverPastEnd'
  BY DEF LogicInv, LobbyIndexSound, RoomsSound, SlotsRemember, NeverPastEnd,
         lobbyVars, roomVars
<1> QED
  BY <1>2, <1>3, <1>4, <1>5 DEF LogicInv

\* Closing a session gives its User object back to the pool: the pool, the
\* dictionary and the ownership of the other users stay sound.
LEMMA ReleaseKeepsOwnership ==
    ASSUME LogicInv, NEW s \in Sessions, HasUser(s),
           open' = open \ {s},
           login' = [login EXCEPT ![s] = FALSE],
           sessionDic' = [sessionDic EXCEPT ![s] = None],
           pool' = Append(pool, sessionDic[s]),
           user' = [user EXCEPT ![sessionDic[s]] = ClearUser(user[sessionDic[s]])]
    PROVE  /\ pool' \in Seq(Users)
           /\ user' \in [Users -> User]
           /\ PoolSound' /\ SessionsOwnUsers' /\ OnlyOwnedUsersMove'
<1> DEFINE u == sessionDic[s]
<1>1. /\ u \in Users /\ user[u] \in User /\ user[u].confirm
      /\ \A t \in Sessions \ {s} : sessionDic[t] # u
  BY OwnUser
<1> HIDE DEF u
<1>2. /\ user' = [user EXCEPT ![u] = ClearUser(user[u])]
      /\ pool' = Append(pool, u)
      /\ sessionDic[s] = u
  BY DEF u
<1>3. /\ user' \in [Users -> User]
      /\ user'[u] = ClearUser(user[u])
      /\ \A v \in Users \ {u} : user'[v] = user[v]
  BY <1>1, <1>2, ClearUserFacts DEF LogicInv, LogicTypeOK
<1>4. /\ user'[u].confirm = FALSE
      /\ user'[u].state = "NONE"
      /\ user'[u].lobby = None
      /\ user'[u].room = None
  <2>1. /\ ClearUser(user[u]).confirm = FALSE
        /\ ClearUser(user[u]).state = "NONE"
        /\ ClearUser(user[u]).lobby = None
        /\ ClearUser(user[u]).room = None
    BY <1>1, ClearUserFacts
  <2> QED
    BY <1>3, <2>1
<1>5. /\ pool' \in Seq(Users)
      /\ Range(pool') = Range(pool) \union {u}
      /\ IsInjective(pool')
  <2>1. pool \in Seq(Users) /\ IsInjective(pool)
    BY DEF LogicInv, LogicTypeOK, PoolSound
  <2>2. u \notin Range(pool)
    BY <1>1 DEF LogicInv, PoolSound
  <2> QED
    BY <1>1, <1>2, <2>1, <2>2, AppendNew
<1>6. /\ sessionDic'[s] = None
      /\ login'[s] = FALSE
      /\ \A t \in Sessions \ {s} : /\ sessionDic'[t] = sessionDic[t]
                                   /\ login'[t] = login[t]
  BY DEF LogicInv, LogicTypeOK
<1>7. PoolSound'
  <2>1. ASSUME NEW v \in Users
        PROVE  /\ v \in Range(pool') <=> ~user'[v].confirm
               /\ user'[v].confirm <=> user'[v].state # "NONE"
               /\ IF user'[v].confirm
                  THEN user'[v].session # None
                  ELSE user'[v].lobby = None /\ user'[v].room = None
    <3>1. CASE v = u
      BY <3>1, <1>4, <1>5
    <3>2. CASE v # u
      BY <3>2, <1>3, <1>5 DEF LogicInv, PoolSound
    <3> QED
      BY <3>1, <3>2
  <2> QED
    BY <2>1, <1>5 DEF PoolSound
<1>8. SessionsOwnUsers'
  <2> SUFFICES ASSUME NEW t \in Sessions
               PROVE  /\ login'[t] <=> sessionDic'[t] # None
                      /\ sessionDic'[t] # None =>
                           /\ t \in open'
                           /\ user'[sessionDic'[t]].confirm
                           /\ user'[sessionDic'[t]].session = t
    BY DEF SessionsOwnUsers
  <2>1. CASE t = s
    BY <2>1, <1>6
  <2>2. CASE t # s
    <3>1. sessionDic'[t] = sessionDic[t] /\ login'[t] = login[t] /\ sessionDic[t] # u
      BY <2>2, <1>1, <1>6
    <3>2. sessionDic[t] # None => sessionDic[t] \in Users \ {u}
      BY <3>1 DEF LogicInv, LogicTypeOK
    <3>3. /\ login[t] <=> sessionDic[t] # None
          /\ sessionDic[t] # None => /\ t \in open
                                     /\ user[sessionDic[t]].confirm
                                     /\ user[sessionDic[t]].session = t
      BY DEF LogicInv, SessionsOwnUsers
    <3> QED
      BY <2>2, <3>1, <3>2, <3>3, <1>3
  <2> QED
    BY <2>1, <2>2
<1>9. OnlyOwnedUsersMove'
  <2> SUFFICES ASSUME NEW v \in Users, user'[v].lobby # None
               PROVE  sessionDic'[user'[v].session] = v
    BY DEF OnlyOwnedUsersMove
  <2>1. v # u /\ user'[v] = user[v]
    BY <1>3, <1>4
  <2>2. user[v].session \in Sessions /\ sessionDic[user[v].session] = v
    BY <2>1, MoversHaveSessions DEF LogicInv
  <2>3. user[v].session # s
    BY <2>1, <2>2, <1>2
  <2> QED
    BY <2>1, <2>2, <2>3, <1>6
<1> QED
  BY <1>3, <1>5, <1>7, <1>8, <1>9

\* Closing a session that has a user: it leaves the lobby and the room its
\* object names, whether it still is there or not, and no other.
LEMMA CloseUserKeeps ==
    ASSUME LogicInv, NEW s \in Sessions, HasUser(s),
           open' = open \ {s}, login' = [login EXCEPT ![s] = FALSE], CloseUser(s)
    PROVE  LogicInv' /\ out' \subseteq Message
<1> DEFINE u == sessionDic[s]
           l == user[u].lobby
           r == user[u].room
<1>1. u \in Users /\ user[u] \in User
  BY OwnUser
<1>2. /\ sessionDic' = [sessionDic EXCEPT ![s] = None]
      /\ pool' = Append(pool, u)
      /\ user' = [user EXCEPT ![u] = ClearUser(user[u])]
      /\ idDic' = idDic
  BY DEF CloseUser
<1>3. /\ pool' \in Seq(Users)
      /\ user' \in [Users -> User]
      /\ PoolSound' /\ SessionsOwnUsers' /\ OnlyOwnedUsersMove'
  BY <1>2, ReleaseKeepsOwnership
<1>4. /\ user'[u] = ClearUser(user[u])
      /\ \A v \in Users \ {u} : user'[v] = user[v]
  BY <1>1, <1>2 DEF LogicInv, LogicTypeOK
<1>5. user'[u].state = "NONE" /\ user'[u].lobby = None
  BY <1>1, <1>4, ClearUserFacts, ZenonT(40)
<1>6. l \in Lobbies \union {None} /\ r \in Rooms \union {None}
  BY <1>1 DEF User
<1>7. /\ \A k \in Lobbies, q \in Rooms :
            u \in Range(roomUsers[k][q]) => k = l /\ q = r
      /\ \A k \in Lobbies : u \in lobbyUsers[k] => k = l
  BY <1>1 DEF LogicInv, RoomsSound, LobbyIndexSound
<1>8. HasLobby(s) <=> l \in Lobbies
  BY DEF HasLobby
<1>9. HasRoom(s) <=> r \in Rooms
  BY DEF HasRoom
<1>10. /\ IF l \in Lobbies /\ r \in Rooms
          THEN RoomLeaveUser(l, r, u) ELSE UNCHANGED roomVars
       /\ IF l \in Lobbies
          THEN /\ RemoveUserFromSlots(l, u)
               /\ lobbyUsers' = [lobbyUsers EXCEPT ![l] = lobbyUsers[l] \ {u}]
               /\ out' = IF r \in Rooms
                         THEN RoomLeaveNotice(l, r, u) \union
                                SendToAll(lobbyUsers[l], "ROOM_CHANGED_INFO_NTF", None, r)
                         ELSE SendToAll(lobbyUsers'[l], "LOBBY_LEAVE_USER_NTF", u, None)
          ELSE out' = {} /\ UNCHANGED lobbyVars
  BY <1>8, <1>9 DEF CloseUser
<1>11. u \in Users /\ l = user[u].lobby
  BY <1>1
<1> HIDE DEF u, l, r
<1>12. slots' = slots /\ pastEnd' = pastEnd
  <2>1. CASE l \in Lobbies
    <3>1. \E i \in Slots : slots[l][i] = u
      BY <2>1, <1>11, IndexFacts DEF LogicInv, SlotsRemember
    <3> QED
      BY <2>1, <3>1, <1>10 DEF RemoveUserFromSlots, LogicInv, LogicTypeOK
  <2>2. CASE l \notin Lobbies
    BY <2>2, <1>10 DEF lobbyVars
  <2> QED
    BY <2>1, <2>2
<1>13. LobbyIndexSound' /\ lobbyUsers' \in [Lobbies -> SUBSET Users]
  <2>1. CASE l \in Lobbies
    BY <2>1, <1>4, <1>5, <1>7, <1>10, <1>11, RemoveLobbyUser
  <2>2. CASE l \notin Lobbies
    <3>1. \A k \in Lobbies : u \notin lobbyUsers[k]
      BY <2>2, <1>7
    <3>2. lobbyUsers' = lobbyUsers
      BY <2>2, <1>10 DEF lobbyVars
    <3>3. ASSUME NEW k \in Lobbies, NEW v \in Users
          PROVE  v \in lobbyUsers'[k] <=>
                   user'[v].lobby = k /\ user'[v].state \in {"LOBBY", "ROOM"}
      <4>1. CASE v = u
        BY <4>1, <3>1, <3>2, <1>5
      <4>2. CASE v # u
        BY <4>2, <3>2, <1>4 DEF LogicInv, LobbyIndexSound
      <4> QED
        BY <4>1, <4>2
    <3> QED
      BY <3>2, <3>3 DEF LogicInv, LogicTypeOK, LobbyIndexSound
  <2> QED
    BY <2>1, <2>2
<1>14. /\ RoomsSound'
       /\ roomUsed' \in [Lobbies -> [Rooms -> BOOLEAN]]
       /\ roomUsers' \in [Lobbies -> [Rooms -> Seq(Users)]]
  <2>1. CASE l \in Lobbies /\ r \in Rooms
    <3>1. RoomsSound' /\ RoomsAfter(l, r, Range(roomUsers[l][r]) \ {u})
      BY <2>1, <1>4, <1>5, <1>7, <1>10, <1>11, RemoveRoomUser
    <3> QED
      BY <3>1 DEF RoomsAfter
  <2>2. CASE ~(l \in Lobbies /\ r \in Rooms)
    <3>1. \A k \in Lobbies, q \in Rooms : u \notin Range(roomUsers[k][q])
      BY <2>2, <1>7
    <3>2. roomUsed' = roomUsed /\ roomUsers' = roomUsers
      BY <2>2, <1>10 DEF roomVars
    <3>3. ASSUME NEW k \in Lobbies, NEW q \in Rooms, NEW v \in Users
          PROVE  v \in Range(roomUsers'[k][q]) <=>
                   user'[v].state = "ROOM" /\ user'[v].lobby = k /\ user'[v].room = q
      <4>1. CASE v = u
        BY <4>1, <3>1, <3>2, <1>5
      <4>2. CASE v # u
        BY <4>2, <3>2, <1>4 DEF LogicInv, RoomsSound
      <4> QED
        BY <4>1, <4>2
    <3> QED
      BY <3>2, <3>3 DEF LogicInv, LogicTypeOK, RoomsSound
  <2> QED
    BY <2>1, <2>2
<1>15. LogicTypeOK'
  <2>1. open' \subseteq Sessions /\ login' \in [Sessions -> BOOLEAN]
    BY DEF LogicInv, LogicTypeOK
  <2>2. sessionDic' \in [Sessions -> Users \union {None}]
    BY <1>2 DEF LogicInv, LogicTypeOK
  <2> QED
    BY <2>1, <2>2, <1>2, <1>3, <1>12, <1>13, <1>14 DEF LogicInv, LogicTypeOK
<1>16. SlotsRemember' /\ NeverPastEnd'
  <2>1. ASSUME NEW v \in Users, user'[v].lobby # None
        PROVE  \E i \in Slots : slots'[user'[v].lobby][i] = v
    <3>1. v # u /\ user'[v] = user[v]
      BY <2>1, <1>4, <1>5
    <3> QED
      BY <2>1, <3>1, <1>12 DEF LogicInv, SlotsRemember
  <2> QED
    BY <2>1, <1>12 DEF LogicInv, SlotsRemember, NeverPastEnd
<1>17. out' \subseteq Message
  <2>1. CASE l \notin Lobbies
    BY <2>1, <1>10
  <2>2. CASE l \in Lobbies
    <3>1. /\ \A v \in lobbyUsers[l] : user[v].session \in Sessions
          /\ \A q \in Rooms : \A v \in Range(roomUsers[l][q]) : user[v].session \in Sessions
      BY <2>2, MembersHaveSessions DEF LogicInv
    <3>2. "LOBBY_LEAVE_USER_NTF" \in Packets /\ "ROOM_CHANGED_INFO_NTF" \in Packets
      BY DEF Packets
    <3>3. CASE r \in Rooms
      <4>1. RoomsAfter(l, r, Range(roomUsers[l][r]) \ {u})
        BY <2>2, <3>3, <1>10, <1>11, RoomLeaveUserFacts DEF LogicInv
      <4>2. Range(roomUsers'[l][r]) = Range(roomUsers[l][r]) \ {u}
        BY <2>2, <3>3, <4>1 DEF RoomsAfter
      <4>3. RoomLeaveNotice(l, r, u) \subseteq Message
        BY <2>2, <3>1, <3>3, <4>2, <1>11, RoomLeaveNoticeType
      <4>4. SendToAll(lobbyUsers[l], "ROOM_CHANGED_INFO_NTF", None, r) \subseteq Message
        BY <3>1, <3>2, <3>3, SendToAllType
      <4> QED
        BY <2>2, <3>3, <4>3, <4>4, <1>10
    <3>4. CASE r \notin Rooms
      <4>1. lobbyUsers'[l] \subseteq lobbyUsers[l]
        BY <2>2, <1>10 DEF LogicInv, LogicTypeOK
      <4> QED
        BY <2>2, <3>1, <3>2, <3>4, <4>1, <1>10, <1>11, SendToAllType
    <3> QED
      BY <3>3, <3>4
  <2> QED
    BY <2>1, <2>2
<1> QED
  BY <1>3, <1>13, <1>14, <1>15, <1>16, <1>17 DEF LogicInv

\* The end of a session, with or without a user.
LEMMA NtfSysCloseSessionKeeps ==
    ASSUME LogicInv, NEW s \in Sessions, NtfSysCloseSession(s)
    PROVE  LogicInv' /\ out' \subseteq Message
<1>1. CASE HasUser(s)
  BY <1>1, CloseUserKeeps DEF NtfSysCloseSession
<1>2. CASE ~HasUser(s)
  BY <1>2, CloseWithoutUserKeeps DEF NtfSysCloseSession
<1> QED
  BY <1>1, <1>2

-----------------------------------------------------------------------------
(* The invariant *)

\* The server starts with a full pool, and nobody anywhere.
LEMMA InitEstablishes == Init => IInv
<1> SUFFICES ASSUME Init PROVE IInv
  OBVIOUS
<1>1. /\ pool \in Seq(Users)
      /\ IsInjective(pool)
      /\ Range(pool) = Users
  <2>1. /\ pool = [i \in 1 .. MaxUserCount |-> i - 1]
        /\ MaxUserCount \in Nat
    BY ConfigAssumption DEF Init
  <2>2. \A i \in 1 .. MaxUserCount : i - 1 \in Users
    BY <2>1 DEF Users
  <2>3. pool \in Seq(Users)
    BY <2>1, <2>2, IsASeq
  <2>4. IsInjective(pool)
    BY <2>1 DEF IsInjective
  <2>5. ASSUME NEW u \in Users
        PROVE  u \in Range(pool)
    <3>1. u + 1 \in 1 .. MaxUserCount /\ (u + 1) - 1 = u
      BY <2>1 DEF Users
    <3> QED
      BY <2>1, <3>1 DEF Range
  <2>6. Range(pool) \subseteq Users
    BY <2>1, <2>2 DEF Range
  <2> QED
    BY <2>3, <2>4, <2>5, <2>6
<1>2. \A u \in Users : /\ user[u] \in User
                       /\ user[u].confirm = FALSE
                       /\ user[u].state = "NONE"
                       /\ user[u].lobby = None
                       /\ user[u].room = None
  BY NewUserType DEF Init, NewUser
<1>3. TypeOK
  <2>1. roomUsers \in [Lobbies -> [Rooms -> Seq(Users)]]
    BY EmptySeq DEF Init
  <2>2. user \in [Users -> User]
    BY NewUserType DEF Init
  <2> QED
    BY <1>1, <2>1, <2>2 DEF Init, TypeOK
<1>4. PoolSound /\ OnlyOwnedUsersMove
  BY <1>1, <1>2 DEF PoolSound, OnlyOwnedUsersMove
<1>5. SessionsOwnUsers
  BY DEF Init, SessionsOwnUsers
<1>6. LobbyIndexSound
  BY <1>2, FS_EmptySet, ConfigAssumption, IndexFacts DEF Init, LobbyIndexSound
<1>7. RoomsSound
  <2>1. Len(<<>>) = 0 /\ Range(<<>>) = {} /\ IsInjective(<<>>)
    BY EmptySeq DEF Range, IsInjective
  <2> QED
    BY <1>2, <2>1, ConfigAssumption, IndexFacts DEF Init, RoomsSound
<1>8. SlotsRemember /\ NeverPastEnd
  BY <1>2 DEF Init, SlotsRemember, NeverPastEnd
<1> QED
  BY <1>3, <1>4, <1>5, <1>6, <1>7, <1>8 DEF IInv

\* Every handler keeps IInv.
LEMMA NextKeeps == IInv /\ [Next]_vars => IInv'
<1> SUFFICES ASSUME IInv, [Next]_vars PROVE IInv'
  OBVIOUS
<1>1. LogicInv /\ out \subseteq Message
  BY IInvParts
<1>2. LogicInv' /\ out' \subseteq Message => IInv'
  BY DEF IInv, LogicInv, TypeOK, LogicTypeOK, Message
<1>3. CASE UNCHANGED vars
  <2>1. UNCHANGED logicVars /\ out' = out
    BY <1>3 DEF vars, logicVars
  <2> QED
    BY <1>1, <1>2, <2>1, ReadOnlyKeeps DEF Message
<1>4. ASSUME NEW s \in Sessions, Connect(s)
      PROVE  IInv'
  BY <1>1, <1>2, <1>4, ConnectKeeps
<1>5. ASSUME NEW s \in Sessions, NEW o \in Offsets, NEW n \in IDs, Login(s, o, n)
      PROVE  IInv'
  BY <1>1, <1>2, <1>5, LoginKeeps
<1>6. ASSUME NEW s \in Sessions, NEW l \in Lobbies \union {None}, LobbyEnter(s, l)
      PROVE  IInv'
  BY <1>1, <1>2, <1>6, LobbyEnterKeeps
<1>7. ASSUME NEW s \in Sessions,
             \/ \E start \in Slots : LobbyUserList(s, start)
             \/ LobbyChat(s)
             \/ \E o \in Offsets : Whisper(s, o)
      PROVE  IInv'
  BY <1>1, <1>2, <1>7, LobbySendersKeep
<1>8. ASSUME NEW s \in Sessions, LobbyLeave(s)
      PROVE  IInv'
  BY <1>1, <1>2, <1>8, LobbyLeaveKeeps
<1>9. ASSUME NEW s \in Sessions, RoomCreate(s)
      PROVE  IInv'
  BY <1>1, <1>2, <1>9, RoomCreateKeeps
<1>10. ASSUME NEW s \in Sessions, NEW r \in Rooms \union {None}, RoomEnter(s, r)
       PROVE  IInv'
  BY <1>1, <1>2, <1>10, RoomEnterKeeps
<1>11. ASSUME NEW s \in Sessions, RoomUserList(s) \/ RoomChat(s)
       PROVE  IInv'
  BY <1>1, <1>2, <1>11, RoomSendersKeep
<1>12. ASSUME NEW s \in Sessions, RoomLeave(s)
       PROVE  IInv'
  BY <1>1, <1>2, <1>12, RoomLeaveKeeps
<1>13. ASSUME NEW s \in Sessions, NtfSysCloseSession(s)
       PROVE  IInv'
  BY <1>1, <1>2, <1>13, NtfSysCloseSessionKeeps
<1> QED
  BY <1>3, <1>4, <1>5, <1>6, <1>7, <1>8, <1>9, <1>10, <1>11, <1>12, <1>13 DEF Next

\* In every configuration the conjunction of the invariants holds.
THEOREM Invariance == Spec => []IInv
  BY InitEstablishes, NextKeeps, PTL DEF Spec

\* No handler ever puts a value of another type into a variable, and every
\* packet is addressed to a session index of the pool.
THEOREM TypeCorrect == Spec => []TypeOK
  BY Invariance, PTL DEF IInv

\* The pool never hands out an object in use, and loses none that is free.
THEOREM PoolNeverShares == Spec => []PoolSound
  BY Invariance, PTL DEF IInv

\* No two sessions share a User object, and a closed session owns none.
THEOREM OwnershipHolds == Spec => []SessionsOwnUsers
  BY Invariance, PTL DEF IInv

\* A User object stranded by a second login never enters a lobby.
THEOREM StrandedUsersStay == Spec => []OnlyOwnedUsersMove
  BY Invariance, PTL DEF IInv

\* A lobby's dictionary is exactly its users, and within the lobby's limit.
THEOREM LobbyIndexHolds == Spec => []LobbyIndexSound
  BY Invariance, PTL DEF IInv

\* A room's list is exactly its members, each once, and within its limit.
THEOREM RoomsHold == Spec => []RoomsSound
  BY Invariance, PTL DEF IInv

\* Every user that names a lobby keeps a slot in it, even after leaving.
THEOREM SlotsAreNeverFreed == Spec => []SlotsRemember
  BY Invariance, PTL DEF IInv

\* The write through end() in Lobby::RemoveUser is unreachable.
THEOREM EndIsNeverWritten == Spec => []NeverPastEnd
  BY Invariance, PTL DEF IInv

-----------------------------------------------------------------------------
(* Packets to the members of a room *)

\* SendToAllUser sends one kind of packet about one user.
LEMMA SendToAllKind ==
    ASSUME NEW members, NEW pkt, NEW who, NEW idx,
           NEW m \in SendToAll(members, pkt, who, idx)
    PROVE  m.pkt = pkt /\ m.who = who /\ m.idx = idx
  BY DEF SendToAll, Msg

\* ... to exactly the sessions of the members.
LEMMA SendToAllReaches ==
    ASSUME NEW members, NEW pkt, NEW who, NEW idx
    PROVE  {m.to : m \in SendToAll(members, pkt, who, idx)} =
             {user[v].session : v \in members}
<1>1. \A v \in members : Msg(user[v].session, pkt, who, idx).to = user[v].session
  BY DEF Msg
<1> QED
  BY <1>1 DEF SendToAll

\* The leave notice is one kind of packet about the leaver.
LEMMA RoomLeaveNoticeKind ==
    ASSUME NEW l, NEW r, NEW u, NEW m \in RoomLeaveNotice(l, r, u)
    PROVE  m.pkt = "ROOM_LEAVE_USER_NTF" /\ m.who = u
  BY SendToAllKind DEF RoomLeaveNotice

\* The sessions of a room's members are those whose user is in the room.
LEMMA RoomOwners ==
    ASSUME LogicInv, NEW l \in Lobbies, NEW r \in Rooms
    PROVE  {user[v].session : v \in Range(roomUsers[l][r])} =
             {s \in Sessions : /\ sessionDic[s] # None
                               /\ user[sessionDic[s]].state = "ROOM"
                               /\ user[sessionDic[s]].lobby = l
                               /\ user[sessionDic[s]].room = r}
<1>1. ASSUME NEW v \in Range(roomUsers[l][r])
      PROVE  /\ user[v].session \in Sessions
             /\ sessionDic[user[v].session] = v
             /\ v # None
             /\ user[v].state = "ROOM" /\ user[v].lobby = l /\ user[v].room = r
  <2>1. v \in Users
    BY MembersHaveSessions DEF LogicInv
  <2>2. user[v].state = "ROOM" /\ user[v].lobby = l /\ user[v].room = r
    BY <2>1 DEF LogicInv, RoomsSound
  <2>3. user[v].session \in Sessions /\ sessionDic[user[v].session] = v
    BY <2>1, <2>2, IndexFacts, MoversHaveSessions DEF LogicInv
  <2> QED
    BY <2>1, <2>2, <2>3, IndexFacts
<1>2. ASSUME NEW s \in Sessions, sessionDic[s] # None,
             user[sessionDic[s]].state = "ROOM",
             user[sessionDic[s]].lobby = l, user[sessionDic[s]].room = r
      PROVE  /\ sessionDic[s] \in Range(roomUsers[l][r])
             /\ user[sessionDic[s]].session = s
  <2>1. sessionDic[s] \in Users
    BY <1>2 DEF LogicInv, LogicTypeOK
  <2> QED
    BY <2>1, <1>2 DEF LogicInv, RoomsSound, SessionsOwnUsers
<1> QED
  BY <1>1, <1>2

\* Every handler but RoomChat sends no room chat.
LEMMA OthersSendNoChat ==
    ASSUME NEW s \in Sessions,
           \/ Connect(s)
           \/ \E o \in Offsets, n \in IDs : Login(s, o, n)
           \/ \E l \in Lobbies \union {None} : LobbyEnter(s, l)
           \/ \E start \in Slots : LobbyUserList(s, start)
           \/ LobbyLeave(s)
           \/ LobbyChat(s)
           \/ \E o \in Offsets : Whisper(s, o)
           \/ RoomCreate(s)
           \/ \E r \in Rooms \union {None} : RoomEnter(s, r)
           \/ RoomUserList(s)
           \/ RoomLeave(s)
           \/ NtfSysCloseSession(s),
           NEW m \in out'
    PROVE  m.pkt # "ROOM_CHAT_NTF"
<1>1. CASE Connect(s)
  BY <1>1 DEF Connect
<1>2. CASE \E o \in Offsets, n \in IDs : Login(s, o, n)
  BY <1>2 DEF Login, Refuse
<1>3. CASE \E l \in Lobbies \union {None} : LobbyEnter(s, l)
  BY <1>3, SendToAllKind DEF LobbyEnter, Refuse
<1>4. CASE \E start \in Slots : LobbyUserList(s, start)
  BY <1>4 DEF LobbyUserList, Refuse, Msg
<1>5. CASE LobbyLeave(s)
  BY <1>5, SendToAllKind DEF LobbyLeave, Refuse
<1>6. CASE LobbyChat(s)
  BY <1>6, SendToAllKind DEF LobbyChat, Refuse
<1>7. CASE \E o \in Offsets : Whisper(s, o)
  BY <1>7 DEF Whisper, Refuse, Msg
<1>8. CASE RoomCreate(s) \/ \E r \in Rooms \union {None} : RoomEnter(s, r)
  <2>1. CASE Refuse
    BY <2>1 DEF Refuse
  <2>2. CASE \E l, r, used : EnterRoomUser(s, l, r, used)
    BY <2>2, SendToAllKind DEF EnterRoomUser
  <2> QED
    BY <1>8, <2>1, <2>2 DEF RoomCreate, RoomEnter
<1>9. CASE RoomUserList(s)
  BY <1>9, SMTT(30) DEF RoomUserList, Refuse, Msg
<1>10. CASE RoomLeave(s)
  BY <1>10, SendToAllKind, RoomLeaveNoticeKind DEF RoomLeave, Refuse
<1>11. CASE NtfSysCloseSession(s)
  <2>1. CASE ~HasUser(s)
    BY <1>11, <2>1 DEF NtfSysCloseSession
  <2>2. CASE HasUser(s)
    BY <1>11, <2>2, SendToAllKind, RoomLeaveNoticeKind, SMTT(30)
    DEF NtfSysCloseSession, CloseUser
  <2> QED
    BY <2>1, <2>2
<1> QED
  BY <1>1, <1>2, <1>3, <1>4, <1>5, <1>6, <1>7, <1>8, <1>9, <1>10, <1>11

\* RoomChat sends to the room of its user.
LEMMA RoomChatHeard ==
    ASSUME LogicInv, NEW s \in Sessions, RoomChat(s)
    PROVE  ChatHeardInRoom
<1>1. CASE Refuse
  BY <1>1 DEF Refuse, ChatHeardInRoom
<1>2. CASE InRoom(s) /\ ~Refuse
  <2> DEFINE u == sessionDic[s]
             l == user[u].lobby
             r == user[u].room
  <2>1. user[u].state = "ROOM" /\ l \in Lobbies /\ r \in Rooms
    BY <1>2 DEF InRoom, InState, HasLobby, HasRoom
  <2>2. out' = SendToAll(Range(roomUsers[l][r]), "ROOM_CHAT_NTF", u, None)
    BY <1>2 DEF RoomChat
  <2>3. \A m \in out' : m.pkt = "ROOM_CHAT_NTF" /\ m.who = u
    BY <2>2, SendToAllKind
  <2>4. Told(out', "ROOM_CHAT_NTF", u) = {m.to : m \in out'}
    BY <2>3 DEF Told
  <2>5. Told(out', "ROOM_CHAT_NTF", u) = {user[v].session : v \in Range(roomUsers[l][r])}
    BY <2>2, <2>4, SendToAllReaches
  <2>6. Told(out', "ROOM_CHAT_NTF", u) =
          {t \in Sessions : /\ sessionDic[t] # None
                            /\ user[sessionDic[t]].state = "ROOM"
                            /\ user[sessionDic[t]].lobby = l
                            /\ user[sessionDic[t]].room = r}
    BY <2>1, <2>5, RoomOwners
  <2> QED
    BY <2>1, <2>3, <2>6 DEF ChatHeardInRoom
<1> QED
  BY <1>1, <1>2 DEF RoomChat

\* A step from a state of the invariant delivers a room chat as promised.
LEMMA NextHeardInRoom == IInv /\ [Next]_vars => [ChatHeardInRoom]_vars
<1> SUFFICES ASSUME IInv, Next PROVE ChatHeardInRoom
  OBVIOUS
<1>1. LogicInv
  BY IInvParts
<1>2. CASE \E s \in Sessions : RoomChat(s)
  BY <1>1, <1>2, RoomChatHeard
<1>3. CASE ~\E s \in Sessions : RoomChat(s)
  <2>1. \A m \in out' : m.pkt # "ROOM_CHAT_NTF"
    BY <1>3, OthersSendNoChat DEF Next
  <2> QED
    BY <2>1 DEF ChatHeardInRoom
<1> QED
  BY <1>2, <1>3

\* What is said in a room is heard by the sessions whose user is in that room,
\* all of them and nobody else (Room::NotifyChat), whatever stale indices the
\* User objects hold.
THEOREM ChatStays == Spec => RoomChatStaysInRoom
  BY Invariance, NextHeardInRoom, PTL DEF Spec, RoomChatStaysInRoom

-----------------------------------------------------------------------------
(* Leaving a room *)

\* Told distributes over the packets of a handler.
LEMMA ToldParts ==
    ASSUME NEW A, NEW B, NEW pkt, NEW who
    PROVE  Told(A \union B, pkt, who) = Told(A, pkt, who) \union Told(B, pkt, who)
  BY DEF Told

\* Packets of another kind are told nobody.
LEMMA ToldOtherKind ==
    ASSUME NEW members, NEW kind, NEW about, NEW idx, NEW pkt, NEW who, kind # pkt
    PROVE  Told(SendToAll(members, kind, about, idx), pkt, who) = {}
  BY SendToAllKind DEF Told

\* The leave notice, sent when the list has changed, reaches the members that
\* stay: all of them, for the room is in use while it has any.
LEMMA RoomLeaveNoticeReaches ==
    ASSUME NEW l \in Lobbies, NEW r \in Rooms, NEW u \in Users, NEW S,
           RoomsAfter(l, r, S)
    PROVE  Told(RoomLeaveNotice(l, r, u), "ROOM_LEAVE_USER_NTF", u) =
             {user[v].session : v \in Range(roomUsers'[l][r])}
<1> DEFINE sent == SendToAll(Range(roomUsers'[l][r]), "ROOM_LEAVE_USER_NTF", u, None)
<1>1. /\ roomUsers'[l][r] \in Seq(Users)
      /\ roomUsed'[l][r] <=> roomUsers'[l][r] # <<>>
  BY DEF RoomsAfter
<1>2. CASE roomUsed'[l][r]
  <2>1. RoomLeaveNotice(l, r, u) = sent
    BY <1>2 DEF RoomLeaveNotice
  <2>2. \A m \in sent : m.pkt = "ROOM_LEAVE_USER_NTF" /\ m.who = u
    BY SendToAllKind
  <2>3. {m.to : m \in sent} = {user[v].session : v \in Range(roomUsers'[l][r])}
    BY SendToAllReaches
  <2> HIDE DEF sent
  <2> QED
    BY <2>1, <2>2, <2>3 DEF Told
<1>3. CASE ~roomUsed'[l][r]
  <2>1. Range(roomUsers'[l][r]) = {}
    BY <1>1, <1>3, InRange
  <2>2. RoomLeaveNotice(l, r, u) = {}
    BY <1>3 DEF RoomLeaveNotice
  <2> QED
    BY <2>1, <2>2 DEF Told
<1> QED
  BY <1>2, <1>3

\* What RoomLeave and a close have in common: one user leaves one room, the
\* notice is sent, and the other packets of the handler are of other kinds.
LEMMA OneLeaverAnnounced ==
    ASSUME LogicInv, NEW l \in Lobbies, NEW r \in Rooms, NEW u \in Users,
           RoomLeaveUser(l, r, u), NEW rest,
           out' = RoomLeaveNotice(l, r, u) \union rest,
           Told(rest, "ROOM_LEAVE_USER_NTF", u) = {}
    PROVE  LeaversAnnounced
<1>1. RoomsAfter(l, r, Range(roomUsers[l][r]) \ {u})
  BY RoomLeaveUserFacts DEF LogicInv
<1>2. Told(out', "ROOM_LEAVE_USER_NTF", u) =
        {user[v].session : v \in Range(roomUsers'[l][r])}
  BY <1>1, ToldParts, RoomLeaveNoticeReaches
<1>3. ASSUME NEW k \in Lobbies, NEW q \in Rooms, NEW v \in Range(roomUsers[k][q]),
             v \notin Range(roomUsers'[k][q])
      PROVE  k = l /\ q = r /\ v = u
  BY <1>1, <1>3 DEF RoomsAfter
<1> QED
  BY <1>2, <1>3 DEF LeaversAnnounced

\* A handler after which every room still has its members has nothing to tell.
LEMMA NobodyLeaves ==
    ASSUME \A l \in Lobbies, r \in Rooms :
               Range(roomUsers[l][r]) \subseteq Range(roomUsers'[l][r])
    PROVE  LeaversAnnounced
  BY DEF LeaversAnnounced

\* Entering a room takes nobody out of one.
LEMMA EnterRoomAnnounced ==
    ASSUME LogicInv, NEW s \in Sessions, InLobby(s), NEW r \in Rooms,
           NEW used \in BOOLEAN, EnterRoomUser(s, user[sessionDic[s]].lobby, r, used)
    PROVE  LeaversAnnounced
<1> DEFINE u == sessionDic[s]
           l == user[u].lobby
<1>1. HasUser(s) /\ user[u].state = "LOBBY" /\ l \in Lobbies
  BY DEF InLobby, InState, HasLobby
<1>2. u \in Users
  BY <1>1, OwnUser
<1>3. CASE RoomTakes(l, r, used)
  <2>1. u \in Users \ Range(roomUsers[l][r])
    BY <1>1, <1>2 DEF LogicInv, RoomsSound
  <2>2. LogicTypeOK /\ RoomsSound
    BY DEF LogicInv
  <2>3. RoomsAfter(l, r, Range(roomUsers[l][r]) \union {u})
    BY <1>1, <1>3, <2>1, <2>2, EnterRoomUserFacts
  <2> QED
    BY <2>3, NobodyLeaves DEF RoomsAfter
<1>4. CASE ~RoomTakes(l, r, used)
  <2>1. roomUsers' = roomUsers
    BY <1>1, <1>4 DEF EnterRoomUser, LogicInv, LogicTypeOK
  <2> QED
    BY <2>1, NobodyLeaves
<1> QED
  BY <1>3, <1>4

\* RoomLeave announces its user.
LEMMA RoomLeaveAnnounced ==
    ASSUME LogicInv, NEW s \in Sessions, CanLeaveRoom(s), RoomLeave(s), ~Refuse
    PROVE  LeaversAnnounced
<1> DEFINE u == sessionDic[s]
           l == user[u].lobby
           r == user[u].room
           rest == SendToAll(lobbyUsers[l], "LOBBY_ENTER_USER_NTF", u, None)
                     \union SendToAll(lobbyUsers[l], "ROOM_CHANGED_INFO_NTF", None, r)
<1>1. HasUser(s) /\ l \in Lobbies /\ r \in Rooms
  BY DEF CanLeaveRoom, InRoom, InState, HasLobby, HasRoom
<1>2. u \in Users
  BY <1>1, OwnUser
<1>3. RoomLeaveUser(l, r, u) /\ out' = RoomLeaveNotice(l, r, u) \union rest
  BY DEF RoomLeave
<1>4. Told(rest, "ROOM_LEAVE_USER_NTF", u) = {}
  <2> DEFINE entered == SendToAll(lobbyUsers[l], "LOBBY_ENTER_USER_NTF", u, None)
             changed == SendToAll(lobbyUsers[l], "ROOM_CHANGED_INFO_NTF", None, r)
  <2>1. /\ Told(entered, "ROOM_LEAVE_USER_NTF", u) = {}
        /\ Told(changed, "ROOM_LEAVE_USER_NTF", u) = {}
    BY ToldOtherKind
  <2>2. rest = entered \union changed
    OBVIOUS
  <2> HIDE DEF rest, entered, changed
  <2> QED
    BY <2>1, <2>2, ToldParts
<1> HIDE DEF u, l, r, rest
<1> QED
  BY <1>1, <1>2, <1>3, <1>4, OneLeaverAnnounced

\* A close announces its user to the room the user is in; a stale room index
\* takes nobody out of a room.
LEMMA CloseAnnounced ==
    ASSUME LogicInv, NEW s \in Sessions, HasUser(s), CloseUser(s)
    PROVE  LeaversAnnounced
<1> DEFINE u == sessionDic[s]
           l == user[u].lobby
           r == user[u].room
           rest == SendToAll(lobbyUsers[l], "ROOM_CHANGED_INFO_NTF", None, r)
<1>1. u \in Users
  BY OwnUser
<1>2. CASE l \in Lobbies /\ r \in Rooms
  <2>1. RoomLeaveUser(l, r, u) /\ out' = RoomLeaveNotice(l, r, u) \union rest
    BY <1>2 DEF CloseUser, HasLobby, HasRoom
  <2>2. Told(rest, "ROOM_LEAVE_USER_NTF", u) = {}
    BY ToldOtherKind
  <2> HIDE DEF u, l, r, rest
  <2> QED
    BY <1>1, <1>2, <2>1, <2>2, OneLeaverAnnounced
<1>3. CASE ~(l \in Lobbies /\ r \in Rooms)
  <2>1. roomUsers' = roomUsers
    BY <1>3 DEF CloseUser, HasLobby, HasRoom, roomVars
  <2> QED
    BY <2>1, NobodyLeaves
<1> QED
  BY <1>2, <1>3

\* A step from a state of the invariant announces whoever leaves a room.
LEMMA NextAnnounced == IInv /\ [Next]_vars => [LeaversAnnounced]_vars
<1> SUFFICES ASSUME IInv, Next PROVE LeaversAnnounced
  OBVIOUS
<1>1. LogicInv
  BY IInvParts
<1>2. CASE roomUsers' = roomUsers
  BY <1>2, NobodyLeaves
<1>3. CASE roomUsers' # roomUsers
  <2>1. ~Refuse
    BY <1>3 DEF Refuse, logicVars, roomVars
  <2>2. ASSUME NEW s \in Sessions, RoomCreate(s)
        PROVE  LeaversAnnounced
    BY <1>1, <2>1, <2>2, EnterRoomAnnounced DEF RoomCreate
  <2>3. ASSUME NEW s \in Sessions, NEW r \in Rooms \union {None}, RoomEnter(s, r)
        PROVE  LeaversAnnounced
    <3>1. /\ InLobby(s) /\ r \in Rooms
          /\ EnterRoomUser(s, user[sessionDic[s]].lobby, r,
                           roomUsed[user[sessionDic[s]].lobby][r])
      BY <2>1, <2>3 DEF RoomEnter
    <3>2. roomUsed[user[sessionDic[s]].lobby][r] \in BOOLEAN
      BY <1>1, <3>1 DEF InLobby, HasLobby, LogicInv, LogicTypeOK
    <3> QED
      BY <1>1, <3>1, <3>2, EnterRoomAnnounced
  <2>4. ASSUME NEW s \in Sessions, RoomLeave(s)
        PROVE  LeaversAnnounced
    <3>1. CanLeaveRoom(s)
      BY <2>1, <2>4 DEF RoomLeave
    <3> QED
      BY <1>1, <2>1, <2>4, <3>1, RoomLeaveAnnounced
  <2>5. ASSUME NEW s \in Sessions, NtfSysCloseSession(s)
        PROVE  LeaversAnnounced
    <3>1. HasUser(s) /\ CloseUser(s)
      BY <1>3, <2>5 DEF NtfSysCloseSession, roomVars
    <3> QED
      BY <1>1, <3>1, CloseAnnounced
  <2>6. ASSUME NEW s \in Sessions,
               \/ Connect(s)
               \/ \E o \in Offsets, n \in IDs : Login(s, o, n)
               \/ \E l \in Lobbies \union {None} : LobbyEnter(s, l)
               \/ \E start \in Slots : LobbyUserList(s, start)
               \/ LobbyLeave(s)
               \/ LobbyChat(s)
               \/ \E o \in Offsets : Whisper(s, o)
               \/ RoomUserList(s)
               \/ RoomChat(s)
        PROVE  FALSE
    BY <1>3, <2>1, <2>6
    DEF Connect, Login, LobbyEnter, LobbyUserList, LobbyLeave, LobbyChat, Whisper,
        RoomUserList, RoomChat, logicVars, roomVars
  <2> QED
    BY <2>2, <2>3, <2>4, <2>5, <2>6 DEF Next
<1> QED
  BY <1>2, <1>3

\* Whoever stops being a member of a room is announced to every member that
\* stays and to nobody else (Room::NotifyLeaveUserInfo).
THEOREM DeparturesHeard == Spec => RoomDepartureHeard
  BY Invariance, NextAnnounced, PTL DEF Spec, RoomDepartureHeard

-----------------------------------------------------------------------------
(* Where sessions are: the steps of ChatServer as steps of ChatPresence *)

\* Where the server has each session: what ChatPresence sees of ChatServer.
Place == [s \in Sessions |-> PlaceOf(s)]

\* ChatPresence counts with the Cardinality it extends, which is the same.
LEMMA SameCount == \A S : Presence!Cardinality(S) = Cardinality(S)
  BY DEF Presence!Cardinality, Cardinality

\* The places of ChatPresence differ in their tags, and in what they name.
LEMMA PlaceFacts ==
    /\ Presence!Away.at = "away" /\ Presence!LoggedIn.at = "login"
    /\ \A l : Presence!InLobby(l).at = "lobby" /\ Presence!InLobby(l).lobby = l
    /\ \A l, r : /\ Presence!InRoom(l, r).at = "room"
                 /\ Presence!InRoom(l, r).lobby = l
                 /\ Presence!InRoom(l, r).room = r
  BY DEF Presence!Away, Presence!LoggedIn, Presence!InLobby, Presence!InRoom

\* A session is where its user is; one without a user is away.
LEMMA PlaceCases ==
    ASSUME NEW s \in Sessions
    PROVE  /\ Place[s] = PlaceOf(s)
           /\ sessionDic[s] = None => PlaceOf(s) = Presence!Away
           /\ sessionDic[s] # None =>
                LET x == user[sessionDic[s]] IN
                /\ x.state = "ROOM" => PlaceOf(s) = Presence!InRoom(x.lobby, x.room)
                /\ x.state = "LOBBY" => PlaceOf(s) = Presence!InLobby(x.lobby)
                /\ x.state \notin {"ROOM", "LOBBY"} => PlaceOf(s) = Presence!LoggedIn
<1>1. Place[s] = PlaceOf(s)
  BY DEF Place
<1>2. CASE sessionDic[s] = None
  BY <1>1, <1>2 DEF PlaceOf, Presence!Away
<1>3. CASE sessionDic[s] # None
  <2> DEFINE x == user[sessionDic[s]]
  <2>1. CASE x.state = "ROOM"
    BY <1>1, <1>3, <2>1 DEF PlaceOf, Presence!InRoom
  <2>2. CASE x.state = "LOBBY"
    BY <1>1, <1>3, <2>2 DEF PlaceOf, Presence!InLobby
  <2>3. CASE x.state \notin {"ROOM", "LOBBY"}
    BY <1>1, <1>3, <2>3 DEF PlaceOf, Presence!LoggedIn
  <2> QED
    BY <1>1, <1>3, <2>1, <2>2, <2>3
<1> QED
  BY <1>1, <1>2, <1>3

\* Read the other way: what a place says of the session's user.
LEMMA WhoIsThere ==
    ASSUME NEW s \in Sessions
    PROVE  /\ PlaceOf(s) = Presence!Away <=> sessionDic[s] = None
           /\ \A l : PlaceOf(s) = Presence!InLobby(l) <=>
                       /\ sessionDic[s] # None
                       /\ user[sessionDic[s]].state = "LOBBY"
                       /\ user[sessionDic[s]].lobby = l
           /\ \A l, r : PlaceOf(s) = Presence!InRoom(l, r) <=>
                          /\ sessionDic[s] # None
                          /\ user[sessionDic[s]].state = "ROOM"
                          /\ user[sessionDic[s]].lobby = l
                          /\ user[sessionDic[s]].room = r
<1> DEFINE x == user[sessionDic[s]]
<1>1. CASE sessionDic[s] = None
  BY <1>1, PlaceCases, PlaceFacts
<1>2. CASE sessionDic[s] # None /\ x.state = "ROOM"
  BY <1>2, PlaceCases, PlaceFacts
<1>3. CASE sessionDic[s] # None /\ x.state = "LOBBY"
  BY <1>3, PlaceCases, PlaceFacts
<1>4. CASE sessionDic[s] # None /\ x.state \notin {"ROOM", "LOBBY"}
  BY <1>4, PlaceCases, PlaceFacts
<1> QED
  BY <1>1, <1>2, <1>3, <1>4

\* A session stays where it is if it keeps its user and the user its state and
\* indices.
LEMMA PlaceStays ==
    ASSUME NEW s \in Sessions, sessionDic'[s] = sessionDic[s],
           sessionDic[s] # None => user'[sessionDic[s]] = user[sessionDic[s]]
    PROVE  PlaceOf(s)' = PlaceOf(s)
  BY DEF PlaceOf

\* One session moves and the others stay.
LEMMA OneMoves ==
    ASSUME NEW s \in Sessions, NEW to, PlaceOf(s)' = to,
           \A t \in Sessions \ {s} : PlaceOf(t)' = PlaceOf(t)
    PROVE  Place' = [Place EXCEPT ![s] = to]
  BY DEF Place

\* All of them stay.
LEMMA NobodyMoves ==
    ASSUME \A t \in Sessions : PlaceOf(t)' = PlaceOf(t)
    PROVE  Place' = Place
  BY DEF Place

\* A handler that changes one session's user, and leaves the sessions' bindings
\* alone, moves that session at most.
LEMMA OthersStay ==
    ASSUME LogicInv, NEW s \in Sessions, HasUser(s), sessionDic' = sessionDic,
           \A v \in Users \ {sessionDic[s]} : user'[v] = user[v]
    PROVE  \A t \in Sessions \ {s} : PlaceOf(t)' = PlaceOf(t)
<1> SUFFICES ASSUME NEW t \in Sessions \ {s} PROVE PlaceOf(t)' = PlaceOf(t)
  OBVIOUS
<1>1. sessionDic[t] # sessionDic[s]
  BY OwnUser
<1>2. sessionDic[t] \in Users \union {None}
  BY DEF LogicInv, LogicTypeOK
<1> QED
  BY <1>1, <1>2, PlaceStays

\* The guests of a lobby are sessions of its users, each of another one: there
\* are no more of them than users in m_UserIndexDic.
LEMMA GuestsCounted ==
    ASSUME LogicInv, NEW l \in Lobbies
    PROVE  /\ Cardinality(Presence!Guests(l)) \in Nat
           /\ Cardinality(Presence!Guests(l)) <= Cardinality(lobbyUsers[l])
<1> DEFINE G == Presence!Guests(l)
           f == [t \in G |-> sessionDic[t]]
<1>1. ASSUME NEW t \in G
      PROVE  t \in Sessions /\ sessionDic[t] # None /\ sessionDic[t] \in lobbyUsers[l]
  <2>1. /\ t \in Sessions
        /\ \/ Place[t] = Presence!InLobby(l)
           \/ \E r \in Rooms : Place[t] = Presence!InRoom(l, r)
    BY DEF Presence!Guests, Presence!Members, Place
  <2>2. /\ sessionDic[t] # None
        /\ user[sessionDic[t]].state \in {"LOBBY", "ROOM"}
        /\ user[sessionDic[t]].lobby = l
    BY <2>1, WhoIsThere, PlaceCases
  <2>3. sessionDic[t] \in Users
    BY <2>1, <2>2 DEF LogicInv, LogicTypeOK
  <2> QED
    BY <2>1, <2>2, <2>3 DEF LogicInv, LobbyIndexSound
<1>2. ASSUME NEW t \in G, NEW q \in G, sessionDic[t] = sessionDic[q]
      PROVE  t = q
  BY <1>1, <1>2 DEF LogicInv, SessionsOwnUsers
<1>3. IsFiniteSet(lobbyUsers[l])
  BY UsersFinite DEF LogicInv, LogicTypeOK
<1> HIDE DEF G
<1>4. f \in Injection(G, lobbyUsers[l])
  BY <1>1, <1>2 DEF Injection, IsInjective
<1> QED
  BY <1>3, <1>4, FS_Injection, FS_CardinalityType DEF G

\* Every session that is not away has a User object of its own, and while the
\* pool has a free one they are less than there are.
LEMMA OneUserIsFree ==
    ASSUME LogicInv, pool # <<>>
    PROVE  Cardinality({t \in Sessions : Place[t] # Presence!Away}) < MaxUserCount
<1> DEFINE T == {t \in Sessions : Place[t] # Presence!Away}
           taken == Users \ {Head(pool)}
           f == [t \in T |-> sessionDic[t]]
<1>1. Head(pool) \in Users /\ Head(pool) \in Range(pool)
  BY TakeFirst DEF LogicInv, LogicTypeOK, PoolSound
<1>2. ~user[Head(pool)].confirm
  BY <1>1 DEF LogicInv, PoolSound
<1>3. ASSUME NEW t \in T
      PROVE  t \in Sessions /\ sessionDic[t] # None /\ sessionDic[t] \in taken
  <2>1. t \in Sessions /\ sessionDic[t] # None
    BY WhoIsThere, PlaceCases
  <2>2. sessionDic[t] \in Users /\ user[sessionDic[t]].confirm
    BY <2>1 DEF LogicInv, LogicTypeOK, SessionsOwnUsers
  <2> QED
    BY <2>1, <2>2, <1>2
<1>4. ASSUME NEW t \in T, NEW q \in T, sessionDic[t] = sessionDic[q]
      PROVE  t = q
  BY <1>3, <1>4 DEF LogicInv, SessionsOwnUsers
<1>5. IsFiniteSet(taken) /\ Cardinality(taken) = MaxUserCount - 1
  <2>1. IsFiniteSet(Users) /\ Cardinality(Users) = MaxUserCount
    BY FS_Interval, ConfigAssumption DEF Users
  <2> QED
    BY <1>1, <2>1, FS_RemoveElement
<1> HIDE DEF T, taken
<1>6. f \in Injection(T, taken)
  BY <1>3, <1>4 DEF Injection, IsInjective
<1>7. IsFiniteSet(T) /\ Cardinality(T) <= Cardinality(taken)
  BY <1>5, <1>6, FS_Injection
<1>8. Cardinality(T) \in Nat
  BY <1>7, FS_CardinalityType
<1> QED
  BY <1>5, <1>7, <1>8, ConfigAssumption DEF T

\* The sessions in a room are those of the users in its list.
LEMMA MembersAreListed ==
    ASSUME LogicInv, NEW l \in Lobbies, NEW r \in Rooms
    PROVE  Presence!Members(l, r) = {user[v].session : v \in Range(roomUsers[l][r])}
<1>1. Presence!Members(l, r) =
        {s \in Sessions : /\ sessionDic[s] # None
                          /\ user[sessionDic[s]].state = "ROOM"
                          /\ user[sessionDic[s]].lobby = l
                          /\ user[sessionDic[s]].room = r}
  BY WhoIsThere, PlaceCases DEF Presence!Members, Place
<1> QED
  BY <1>1, RoomOwners

\* Nobody is in a room with an empty list.
LEMMA NoMembers ==
    ASSUME LogicInv, NEW l \in Lobbies, NEW r \in Rooms, roomUsers[l][r] = <<>>
    PROVE  Presence!Members(l, r) = {}
<1>1. Range(roomUsers[l][r]) = {}
  BY InRange DEF LogicInv, LogicTypeOK
<1> QED
  BY <1>1, MembersAreListed

\* The members of a room are as many sessions as its list has entries.
LEMMA MembersCounted ==
    ASSUME LogicInv, NEW l \in Lobbies, NEW r \in Rooms
    PROVE  Cardinality(Presence!Members(l, r)) = Len(roomUsers[l][r])
<1> DEFINE list == roomUsers[l][r]
           M == Presence!Members(l, r)
           f == [i \in 1 .. Len(list) |-> user[list[i]].session]
<1>1. list \in Seq(Users) /\ Len(list) \in Nat /\ IsInjective(list)
  BY LenProperties DEF LogicInv, LogicTypeOK, RoomsSound
<1>2. M = {user[v].session : v \in Range(list)}
  BY MembersAreListed
<1>3. \A i \in 1 .. Len(list) : list[i] \in Range(list)
  BY <1>1, InRange
<1>4. ASSUME NEW v \in Range(list)
      PROVE  sessionDic[user[v].session] = v /\ v \in Users
  <2>1. v \in Users
    BY <1>1, InRange
  <2>2. user[v].lobby # None
    BY <2>1, IndexFacts DEF LogicInv, RoomsSound
  <2> QED
    BY <2>1, <2>2, MoversHaveSessions DEF LogicInv
<1>5. ASSUME NEW i \in 1 .. Len(list), NEW j \in 1 .. Len(list),
             user[list[i]].session = user[list[j]].session
      PROVE  i = j
  <2>1. list[i] = list[j]
    BY <1>3, <1>4, <1>5
  <2> QED
    BY <1>1, <2>1 DEF IsInjective
<1>6. ASSUME NEW m \in M
      PROVE  \E i \in 1 .. Len(list) : user[list[i]].session = m
  BY <1>1, <1>2, InRange
<1> HIDE DEF list, M
<1>7. f \in Bijection(1 .. Len(list), M)
  <2>1. f \in [1 .. Len(list) -> M]
    BY <1>2, <1>3
  <2> QED
    BY <2>1, <1>5, <1>6 DEF Bijection, Injection, Surjection, IsInjective
<1> QED
  BY <1>1, <1>7, FS_CountingElements DEF ExistsBijection, list, M

\* How a move of ChatPresence is shown: one session moves, the others stay.
LEMMA MoveShown ==
    ASSUME NEW s \in Sessions, NEW from, NEW to,
           PlaceOf(s) = from, PlaceOf(s)' = to,
           \A t \in Sessions \ {s} : PlaceOf(t)' = PlaceOf(t)
    PROVE  Presence!Move(s, from, to)
<1>1. Place' = [Place EXCEPT ![s] = to]
  BY OneMoves
<1> QED
  BY <1>1, PlaceCases DEF Presence!Move, Place

\* Login: a first login takes a free User object, of which there is one; a
\* second login on a session strands the object it takes and moves nobody.
LEMMA LoginMaps ==
    ASSUME LogicInv, NEW s \in Sessions, NEW o \in Offsets, NEW n \in IDs, Login(s, o, n)
    PROVE  Presence!Login(s) \/ Place' = Place
<1>1. CASE Refuse
  BY <1>1, PlaceStays, NobodyMoves DEF Refuse, logicVars, userVars
<1>2. CASE CanLogin(s, o) /\ ~Refuse
  <2> DEFINE u == Head(pool)
  <2>1. /\ pool # <<>>
        /\ user' = [user EXCEPT ![u] = SetUser(user[u], s, n)]
        /\ sessionDic' = [sessionDic EXCEPT ![s] = IF sessionDic[s] = None THEN u
                                                   ELSE sessionDic[s]]
    BY <1>2 DEF Login, CanLogin, InsertSession
  <2>2. u \in Users /\ ~user[u].confirm /\ user[u] \in User
    <3>1. u \in Users /\ u \in Range(pool)
      BY <2>1, TakeFirst DEF LogicInv, LogicTypeOK, PoolSound
    <3> QED
      BY <3>1 DEF LogicInv, LogicTypeOK, PoolSound
  <2>3. \A t \in Sessions : sessionDic[t] # None => sessionDic[t] \in Users \ {u}
    BY <2>2 DEF LogicInv, LogicTypeOK, SessionsOwnUsers
  <2>4. \A v \in Users \ {u} : user'[v] = user[v]
    BY <2>1, <2>2 DEF LogicInv, LogicTypeOK
  <2>5. \A t \in Sessions \ {s} : sessionDic'[t] = sessionDic[t]
    BY <2>1 DEF LogicInv, LogicTypeOK
  <2>6. \A t \in Sessions \ {s} : PlaceOf(t)' = PlaceOf(t)
    BY <2>3, <2>4, <2>5, PlaceStays
  <2>7. CASE sessionDic[s] = None
    <3>1. sessionDic'[s] = u /\ user'[u].state = "LOGIN" /\ u # None
      <4>1. sessionDic \in [Sessions -> Users \union {None}] /\ user \in [Users -> User]
        BY DEF LogicInv, LogicTypeOK
      <4>2. SetUser(user[u], s, n).state = "LOGIN"
        BY <2>2, SetUserFacts
      <4>3. user'[u].state = "LOGIN"
        BY <2>1, <2>2, <4>1, <4>2
      <4>4. sessionDic'[s] = u
        BY <2>1, <2>7, <4>1
      <4> QED
        BY <2>2, <4>3, <4>4, IndexFacts
    <3>2. PlaceOf(s)' = Presence!LoggedIn
      BY <3>1 DEF PlaceOf, Presence!LoggedIn
    <3>3. PlaceOf(s) = Presence!Away
      BY <2>7, PlaceCases
    <3>4. Presence!Move(s, Presence!Away, Presence!LoggedIn)
      BY <2>6, <3>2, <3>3, MoveShown
    <3> QED
      BY <2>1, <3>4, OneUserIsFree, SameCount DEF Presence!Login, Place
  <2>8. CASE sessionDic[s] # None
    <3>1. sessionDic'[s] = sessionDic[s]
      BY <2>1, <2>8 DEF LogicInv, LogicTypeOK
    <3>2. PlaceOf(s)' = PlaceOf(s)
      BY <2>3, <2>4, <2>8, <3>1, PlaceStays
    <3> QED
      BY <2>6, <3>2, NobodyMoves
  <2> QED
    BY <2>7, <2>8
<1> QED
  BY <1>1, <1>2 DEF Login

\* A handler moves its own user within the same session: what changes of places
\* is the session's, and it is the one the user's new state says.
LEMMA OwnerMoves ==
    ASSUME LogicInv, NEW s \in Sessions, HasUser(s), sessionDic' = sessionDic,
           NEW y, user' = [user EXCEPT ![sessionDic[s]] = y]
    PROVE  /\ \A t \in Sessions \ {s} : PlaceOf(t)' = PlaceOf(t)
           /\ y.state = "LOGIN" => PlaceOf(s)' = Presence!LoggedIn
           /\ y.state = "LOBBY" => PlaceOf(s)' = Presence!InLobby(y.lobby)
           /\ y.state = "ROOM" => PlaceOf(s)' = Presence!InRoom(y.lobby, y.room)
<1>1. sessionDic[s] \in Users /\ sessionDic'[s] # None
  BY OwnUser, IndexFacts
<1>2. user'[sessionDic'[s]] = y /\ \A v \in Users \ {sessionDic[s]} : user'[v] = user[v]
  BY <1>1 DEF LogicInv, LogicTypeOK
<1>3. \A t \in Sessions \ {s} : PlaceOf(t)' = PlaceOf(t)
  BY <1>2, OthersStay
<1>4. y.state = "LOGIN" => PlaceOf(s)' = Presence!LoggedIn
  BY <1>1, <1>2 DEF PlaceOf, Presence!LoggedIn
<1>5. y.state = "LOBBY" => PlaceOf(s)' = Presence!InLobby(y.lobby)
  BY <1>1, <1>2 DEF PlaceOf, Presence!InLobby
<1>6. y.state = "ROOM" => PlaceOf(s)' = Presence!InRoom(y.lobby, y.room)
  BY <1>1, <1>2 DEF PlaceOf, Presence!InRoom
<1> QED
  BY <1>3, <1>4, <1>5, <1>6

\* LobbyEnter: the lobby's limit on users is one on sessions.
LEMMA LobbyEnterMaps ==
    ASSUME LogicInv, NEW s \in Sessions, NEW l \in Lobbies \union {None}, LobbyEnter(s, l)
    PROVE  \/ l \in Lobbies /\ Presence!EnterLobby(s, l)
           \/ Place' = Place
<1>1. CASE Refuse
  BY <1>1, PlaceStays, NobodyMoves DEF Refuse, logicVars, userVars
<1>2. CASE CanEnterLobby(s, l)
  <2> DEFINE u == sessionDic[s]
             y == UserEnterLobby(user[u], l)
  <2>1. /\ HasUser(s) /\ user[u].state = "LOGIN" /\ l \in Lobbies
        /\ Cardinality(lobbyUsers[l]) < MaxLobbyUserCount
    BY <1>2 DEF CanEnterLobby, InState
  <2>2. u \in Users /\ user[u] \in User /\ u # None
    BY <2>1, OwnUser, IndexFacts
  <2>3. y.state = "LOBBY" /\ y.lobby = l
    BY <2>1, <2>2, UserEnterLobbyFacts
  <2>4. (sessionDic' = sessionDic /\ user' = [user EXCEPT ![u] = y]) \/ Refuse
    BY <1>2 DEF LobbyEnter, userVars
  <2>5. CASE sessionDic' = sessionDic /\ user' = [user EXCEPT ![u] = y]
    <3> HIDE DEF y
    <3>1. /\ \A t \in Sessions \ {s} : PlaceOf(t)' = PlaceOf(t)
          /\ PlaceOf(s)' = Presence!InLobby(l)
      BY <2>1, <2>3, <2>5, OwnerMoves
    <3>2. PlaceOf(s) = Presence!LoggedIn
      BY <2>1, <2>2, PlaceCases
    <3>3. Presence!Move(s, Presence!LoggedIn, Presence!InLobby(l))
      BY <3>1, <3>2, MoveShown
    <3>4. Cardinality(Presence!Guests(l)) < MaxLobbyUserCount
      <4>1. Cardinality(lobbyUsers[l]) \in Nat
        BY <2>1, UsersFinite DEF LogicInv, LogicTypeOK
      <4>2. Cardinality(Presence!Guests(l)) <= Cardinality(lobbyUsers[l])
        BY <2>1, GuestsCounted
      <4>3. Cardinality(Presence!Guests(l)) \in Nat
        BY <2>1, GuestsCounted
      <4> QED
        BY <2>1, <4>1, <4>2, <4>3, ConfigAssumption
    <3> QED
      BY <2>1, <3>3, <3>4, SameCount DEF Presence!EnterLobby
  <2> QED
    BY <1>1, <2>4, <2>5
<1> QED
  BY <1>1, <1>2 DEF LobbyEnter

\* LobbyLeave: the user is found, so it leaves.
LEMMA LobbyLeaveMaps ==
    ASSUME LogicInv, NEW s \in Sessions, LobbyLeave(s)
    PROVE  \/ \E l \in Lobbies : Presence!LeaveLobby(s, l)
           \/ Place' = Place
<1>1. CASE Refuse
  BY <1>1, PlaceStays, NobodyMoves DEF Refuse, logicVars, userVars
<1>2. CASE InLobby(s) /\ ~Refuse
  <2> DEFINE u == sessionDic[s]
             l == user[u].lobby
             y == UserLeaveLobby(user[u])
  <2>1. HasUser(s) /\ user[u].state = "LOBBY" /\ l \in Lobbies
    BY <1>2 DEF InLobby, InState, HasLobby
  <2>2. u \in Users /\ user[u] \in User /\ u # None
    BY <2>1, OwnUser, IndexFacts
  <2>3. u \in lobbyUsers[l]
    BY <2>1, <2>2 DEF LogicInv, LobbyIndexSound
  <2>4. sessionDic' = sessionDic /\ user' = [user EXCEPT ![u] = y]
    BY <1>2, <2>3 DEF LobbyLeave, userVars
  <2>5. y.state = "LOGIN"
    BY <2>2, UserLeaveLobbyFacts
  <2> HIDE DEF y
  <2>6. /\ \A t \in Sessions \ {s} : PlaceOf(t)' = PlaceOf(t)
        /\ PlaceOf(s)' = Presence!LoggedIn
    BY <2>1, <2>4, <2>5, OwnerMoves
  <2>7. PlaceOf(s) = Presence!InLobby(l)
    BY <2>1, <2>2, PlaceCases
  <2>8. Presence!Move(s, Presence!InLobby(l), Presence!LoggedIn)
    BY <2>6, <2>7, MoveShown
  <2> QED
    BY <2>1, <2>8 DEF Presence!LeaveLobby
<1> QED
  BY <1>1, <1>2 DEF LobbyLeave

\* RoomEnter and its creating variant: a room that takes the user was empty and
\* is opened, or had members and is joined within its limit.
LEMMA EnterRoomMaps ==
    ASSUME LogicInv, NEW s \in Sessions, InLobby(s), NEW r \in Rooms,
           NEW used \in BOOLEAN, EnterRoomUser(s, user[sessionDic[s]].lobby, r, used),
           used = TRUE => \/ roomUsed[user[sessionDic[s]].lobby][r]
                          \/ roomUsers[user[sessionDic[s]].lobby][r] = <<>>
    PROVE  \/ \E l \in Lobbies : Presence!OpenRoom(s, l, r) \/ Presence!JoinRoom(s, l, r)
           \/ Place' = Place
<1> DEFINE u == sessionDic[s]
           l == user[u].lobby
           list == roomUsers[l][r]
<1>1. HasUser(s) /\ user[u].state = "LOBBY" /\ l \in Lobbies
  BY DEF InLobby, InState, HasLobby
<1>2. u \in Users /\ user[u] \in User /\ u # None
  BY <1>1, OwnUser, IndexFacts
<1>3. sessionDic' = sessionDic
  BY DEF EnterRoomUser, userVars
<1>4. CASE ~RoomTakes(l, r, used)
  <2>1. user' = user
    BY <1>2, <1>4 DEF EnterRoomUser, LogicInv, LogicTypeOK
  <2> QED
    BY <1>3, <2>1, PlaceStays, NobodyMoves
<1>5. CASE RoomTakes(l, r, used)
  <2> DEFINE y == UserEnterRoom(user[u], l, r)
  <2>1. user' = [user EXCEPT ![u] = y]
    BY <1>5 DEF EnterRoomUser
  <2>2. y.state = "ROOM" /\ y.lobby = l /\ y.room = r
    BY <1>1, <1>2, UserEnterRoomFacts
  <2> HIDE DEF y
  <2>3. /\ \A t \in Sessions \ {s} : PlaceOf(t)' = PlaceOf(t)
        /\ PlaceOf(s)' = Presence!InRoom(l, r)
    BY <1>1, <1>3, <2>1, <2>2, OwnerMoves
  <2>4. PlaceOf(s) = Presence!InLobby(l)
    BY <1>1, <1>2, PlaceCases
  <2>5. Presence!Move(s, Presence!InLobby(l), Presence!InRoom(l, r))
    BY <2>3, <2>4, MoveShown
  <2>6. /\ list \in Seq(Users) /\ Len(list) \in Nat /\ (Len(list) = 0 <=> list = <<>>)
        /\ Len(list) <= MaxRoomUserCount /\ Len(list) # MaxRoomUserCount
        /\ used
    BY <1>1, <1>5, LenProperties, EmptySeq DEF LogicInv, LogicTypeOK, RoomsSound, RoomTakes
  <2>7. Cardinality(Presence!Members(l, r)) = Len(list)
    BY <1>1, MembersCounted
  <2>8. CASE list = <<>>
    <3>1. Presence!Members(l, r) = {}
      BY <1>1, <2>8, NoMembers
    <3> QED
      BY <1>1, <2>5, <3>1 DEF Presence!OpenRoom
  <2>9. CASE list # <<>>
    <3>1. Len(list) \in 1 .. MaxRoomUserCount - 1
      BY <2>6, <2>9, ConfigAssumption
    <3> QED
      BY <1>1, <2>5, <2>7, <3>1, SameCount DEF Presence!JoinRoom
  <2> QED
    BY <2>8, <2>9
<1> QED
  BY <1>4, <1>5

LEMMA RoomCreateMaps ==
    ASSUME LogicInv, NEW s \in Sessions, RoomCreate(s)
    PROVE  \/ \E l \in Lobbies, r \in Rooms :
                Presence!OpenRoom(s, l, r) \/ Presence!JoinRoom(s, l, r)
           \/ Place' = Place
<1>1. CASE Refuse
  BY <1>1, PlaceStays, NobodyMoves DEF Refuse, logicVars, userVars
<1>2. CASE InLobby(s) /\ ~Refuse
  <2>1. PICK r \in Rooms : /\ ~roomUsed[user[sessionDic[s]].lobby][r]
                           /\ EnterRoomUser(s, user[sessionDic[s]].lobby, r, TRUE)
    BY <1>2 DEF RoomCreate
  <2>2. roomUsers[user[sessionDic[s]].lobby][r] = <<>>
    BY <1>2, <2>1 DEF InLobby, HasLobby, LogicInv, RoomsSound
  <2> QED
    BY <1>2, <2>1, <2>2, EnterRoomMaps
<1> QED
  BY <1>1, <1>2 DEF RoomCreate

LEMMA RoomEnterMaps ==
    ASSUME LogicInv, NEW s \in Sessions, NEW r \in Rooms \union {None}, RoomEnter(s, r)
    PROVE  \/ /\ r \in Rooms
              /\ \E l \in Lobbies : Presence!OpenRoom(s, l, r) \/ Presence!JoinRoom(s, l, r)
           \/ Place' = Place
<1>1. CASE Refuse
  BY <1>1, PlaceStays, NobodyMoves DEF Refuse, logicVars, userVars
<1>2. CASE InLobby(s) /\ r \in Rooms /\ ~Refuse
  <2> DEFINE l == user[sessionDic[s]].lobby
  <2>1. EnterRoomUser(s, l, r, roomUsed[l][r])
    BY <1>2 DEF RoomEnter
  <2>2. roomUsed[l][r] \in BOOLEAN
    BY <1>2 DEF InLobby, HasLobby, LogicInv, LogicTypeOK
  <2> QED
    BY <1>2, <2>1, <2>2, EnterRoomMaps
<1> QED
  BY <1>1, <1>2 DEF RoomEnter

\* RoomLeave takes its user back to the lobby of the room.
LEMMA RoomLeaveMaps ==
    ASSUME LogicInv, NEW s \in Sessions, RoomLeave(s)
    PROVE  \/ \E l \in Lobbies, r \in Rooms : Presence!LeaveRoom(s, l, r)
           \/ Place' = Place
<1>1. CASE Refuse
  BY <1>1, PlaceStays, NobodyMoves DEF Refuse, logicVars, userVars
<1>2. CASE CanLeaveRoom(s) /\ ~Refuse
  <2> DEFINE u == sessionDic[s]
             l == user[u].lobby
             r == user[u].room
             y == UserEnterLobby(user[u], l)
  <2>1. HasUser(s) /\ user[u].state = "ROOM" /\ l \in Lobbies /\ r \in Rooms
    BY <1>2 DEF CanLeaveRoom, InRoom, InState, HasLobby, HasRoom
  <2>2. u \in Users /\ user[u] \in User /\ u # None
    BY <2>1, OwnUser, IndexFacts
  <2>3. sessionDic' = sessionDic /\ user' = [user EXCEPT ![u] = y]
    BY <1>2 DEF RoomLeave, userVars
  <2>4. y.state = "LOBBY" /\ y.lobby = l
    BY <2>1, <2>2, UserEnterLobbyFacts
  <2> HIDE DEF y
  <2>5. /\ \A t \in Sessions \ {s} : PlaceOf(t)' = PlaceOf(t)
        /\ PlaceOf(s)' = Presence!InLobby(l)
    BY <2>1, <2>3, <2>4, OwnerMoves
  <2>6. PlaceOf(s) = Presence!InRoom(l, r)
    BY <2>1, <2>2, PlaceCases
  <2>7. Presence!Move(s, Presence!InRoom(l, r), Presence!InLobby(l))
    BY <2>5, <2>6, MoveShown
  <2> QED
    BY <2>1, <2>7 DEF Presence!LeaveRoom
<1> QED
  BY <1>1, <1>2 DEF RoomLeave

\* NtfSysCloseSesson takes its session away from wherever it is, and nobody else.
LEMMA CloseMaps ==
    ASSUME LogicInv, NEW s \in Sessions, NtfSysCloseSession(s)
    PROVE  Presence!CutOff(s) \/ Place' = Place
<1>1. CASE ~HasUser(s)
  <2>1. user' = user /\ sessionDic' = sessionDic
    BY <1>1 DEF NtfSysCloseSession, CloseUser
  <2> QED
    BY <2>1, PlaceStays, NobodyMoves
<1>2. CASE HasUser(s)
  <2>1. /\ sessionDic' = [sessionDic EXCEPT ![s] = None]
        /\ user' = [user EXCEPT ![sessionDic[s]] = ClearUser(user[sessionDic[s]])]
    BY <1>2 DEF NtfSysCloseSession, CloseUser
  <2>2. sessionDic'[s] = None /\ \A t \in Sessions \ {s} : sessionDic'[t] = sessionDic[t]
    BY <2>1 DEF LogicInv, LogicTypeOK
  <2>3. \A v \in Users \ {sessionDic[s]} : user'[v] = user[v]
    BY <2>1 DEF LogicInv, LogicTypeOK
  <2>4. \A t \in Sessions \ {s} :
          sessionDic[t] # None => sessionDic[t] \in Users \ {sessionDic[s]}
    BY <1>2, OwnUser DEF LogicInv, LogicTypeOK
  <2>5. \A t \in Sessions \ {s} : PlaceOf(t)' = PlaceOf(t)
    BY <2>2, <2>3, <2>4, PlaceStays
  <2>6. PlaceOf(s)' = Presence!Away
    BY <2>2 DEF PlaceOf, Presence!Away
  <2>7. Place' = [Place EXCEPT ![s] = Presence!Away]
    BY <2>5, <2>6, OneMoves
  <2> QED
    BY <2>7 DEF Presence!CutOff, Place
<1> QED
  BY <1>1, <1>2

\* The handlers that leave users and their bindings alone move nobody.
LEMMA SendersMoveNobody ==
    ASSUME NEW s \in Sessions,
           \/ Connect(s)
           \/ \E start \in Slots : LobbyUserList(s, start)
           \/ LobbyChat(s)
           \/ \E o \in Offsets : Whisper(s, o)
           \/ RoomUserList(s)
           \/ RoomChat(s)
    PROVE  Place' = Place
<1>1. user' = user /\ sessionDic' = sessionDic
  BY DEF Connect, LobbyUserList, LobbyChat, Whisper, RoomUserList, RoomChat, Refuse,
         logicVars, userVars
<1> QED
  BY <1>1, PlaceStays, NobodyMoves

\* At the start everybody is away.
LEMMA InitMaps == Init => Presence!Init
<1> SUFFICES ASSUME Init PROVE Presence!Init
  OBVIOUS
<1>1. \A s \in Sessions : PlaceOf(s) = Presence!Away
  BY PlaceCases DEF Init
<1> QED
  BY <1>1 DEF Presence!Init

\* Every step of the server is a step of ChatPresence or moves nobody.
LEMMA NextMaps == IInv /\ [Next]_vars => [Presence!Next]_Place
<1> SUFFICES ASSUME IInv, [Next]_vars PROVE Presence!Next \/ Place' = Place
  OBVIOUS
<1>1. LogicInv
  BY IInvParts
<1>2. CASE UNCHANGED vars
  BY <1>2, PlaceStays, NobodyMoves DEF vars, userVars
<1>3. ASSUME NEW s \in Sessions,
             \/ Connect(s)
             \/ \E start \in Slots : LobbyUserList(s, start)
             \/ LobbyChat(s)
             \/ \E o \in Offsets : Whisper(s, o)
             \/ RoomUserList(s)
             \/ RoomChat(s)
      PROVE  Place' = Place
  BY <1>3, SendersMoveNobody
<1>4. ASSUME NEW s \in Sessions, NEW o \in Offsets, NEW n \in IDs, Login(s, o, n)
      PROVE  Presence!Next \/ Place' = Place
  BY <1>1, <1>4, LoginMaps DEF Presence!Next
<1>5. ASSUME NEW s \in Sessions, NEW l \in Lobbies \union {None}, LobbyEnter(s, l)
      PROVE  Presence!Next \/ Place' = Place
  BY <1>1, <1>5, LobbyEnterMaps DEF Presence!Next
<1>6. ASSUME NEW s \in Sessions, LobbyLeave(s)
      PROVE  Presence!Next \/ Place' = Place
  BY <1>1, <1>6, LobbyLeaveMaps DEF Presence!Next
<1>7. ASSUME NEW s \in Sessions, RoomCreate(s)
      PROVE  Presence!Next \/ Place' = Place
  BY <1>1, <1>7, RoomCreateMaps DEF Presence!Next
<1>8. ASSUME NEW s \in Sessions, NEW r \in Rooms \union {None}, RoomEnter(s, r)
      PROVE  Presence!Next \/ Place' = Place
  BY <1>1, <1>8, RoomEnterMaps DEF Presence!Next
<1>9. ASSUME NEW s \in Sessions, RoomLeave(s)
      PROVE  Presence!Next \/ Place' = Place
  BY <1>1, <1>9, RoomLeaveMaps DEF Presence!Next
<1>10. ASSUME NEW s \in Sessions, NtfSysCloseSession(s)
       PROVE  Presence!Next \/ Place' = Place
  BY <1>1, <1>10, CloseMaps DEF Presence!Next
<1> QED
  BY <1>2, <1>3, <1>4, <1>5, <1>6, <1>7, <1>8, <1>9, <1>10 DEF Next

\* The server implements ChatPresence, for every configuration: whatever the
\* pools, dictionaries, slots and stale indices hold, a session moves only as
\* promised there (UserManager, Lobby, Room and the handlers of PacketProcess).
THEOREM PresenceImplemented == Spec => PresenceSpec
<1>1. IInv /\ [Next]_vars => [Presence!Next]_([s \in Sessions |-> PlaceOf(s)])
  BY NextMaps DEF Place
<1> QED
  BY <1>1, Invariance, InitMaps, PTL DEF Spec, PresenceSpec, Presence!Spec

===============================================================================
