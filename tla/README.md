# GameServerLearning in TLA+

TLA+ modules, TLC configurations and TLAPS proofs for the programs of this
repository: a chat server with its client (`src/MyChat`), a web API that keeps
accounts in Redis and MongoDB (`src/WebAPI_Redis`) and a small MySQL tool
(`src/MysqlSP`). Modelled, checked and proved about are the chat server's logic
layer and its network layer, the network side of the chat client, the lobby as
the client shows it, and the web API's request lock and accounts.

Paths below are relative to `src/`; `ServerLogic/` and `ServerNetwork/` stand
for `MyChat/ChattingServer/ServerLogic/` and `.../ServerNetwork/`; the
client's files are those of `MyChat/ChattingClient/`, the C# files those of
`WebAPI_Redis/Web_Redis/Web_Redis/`.

## 1. The system

### Chat server

One process, one thread. `Main::Run` (ServerLogic/Main.cpp:71) alternates
`TcpNetwork::Run`, one round of `select` that accepts, receives and writes, with
a loop that takes one packet after the other from the network's queue and calls
its handler, and then `StateCheck`.

| component | state it keeps | operations | correct when |
|---|---|---|---|
| `User` | session index, ID, confirmed, domain state (NONE, LOGIN, LOBBY, ROOM), lobby index, room index | `Set`, `Clear`, `EnterLobby`, `EnterRoom`, `LeaveLobby` | the state says which index means something: `EnterLobby` keeps the room index, `LeaveLobby` keeps both |
| `UserManager` | pool of `User` objects, free list, dictionary session -> user, dictionary ID -> user | `AddUser`, `RemoveUser`, `GetUser` | an object is either free or owned by one session, none is shared or lost |
| `Lobby` | slots, dictionary of users in it (and in its rooms), rooms | `EnterUser`, `LeaveUser`, `CreateRoom`, `Send...List`, `Notify...` | its dictionary is exactly its users, within its limit; entering and leaving are announced |
| `Room` | in use, members, title | `CreateRoom`, `EnterUser`, `LeaveUser`, `SendUserList`, `Notify...` | its list is exactly its members; it is in use while it has any; chat and notices reach them and nobody else |
| `LobbyManager` | the lobbies | `GetLobby`, `SendLobbyListInfo` | |
| `ConnectedUserManager` | per session: connect time, logged in | `SetConnectSession`, `SetLogin`, `SetDisConnectSession`, `LoginCheck` | sessions that do not log in in time are closed, others are not |
| `PacketProcess` | table of handlers | one handler per packet, `NtfSysCloseSesson` | a session moves LOGIN -> LOBBY -> ROOM and back, whatever order its packets come in, and a close from anywhere leaves nothing behind |
| `TcpNetwork` | session pool (free indices, socket, receive and send buffers), packet queue | `NewSession`, `RecvSocket`, `RecvBufferProcess`, `SendData`, `FlushSendBuff`, `CloseSession`, `Run` | packets reach the handlers whole, once, in order; a session index means one connection until its close is handled; what is sent reaches the connection it was meant for |
| `IOCPNetwork`, `DBManager`, `ServerLog` | | | unfinished, unused by a handler, console output |

They interact by calls within the one thread. What the network hands to the
logic is a queue of packets whose bodies are pointers into the receive buffers;
what the logic hands to the network is `SendData(sessionIndex, ...)`. A session
that ends, for whatever reason, is reported by a packet
`NTF_SYS_CLOSE_SESSION` in the same queue.

### Chat client, web API, MySQL tool

| component | state it keeps | operations | correct when |
|---|---|---|---|
| client `TcpNetwork` | socket, receive buffer and size, queue of packets; two threads | `ConnectTo`, `DisConnect`, `SendPacket`, `Update` (receive thread), `GetPacket` | packets of a connection are delivered whole, once, in order, and none of an earlier connection |
| client scenes | scene (connect, login, lobby, room), lists of users and rooms | `ProcessPacket` of each scene, buttons | the scene agrees with the state of the user at the server; the lists end up the server's |
| `RequestLock` | a counter per user in Redis | `RequestProcessing`, `Dispose` | at most one request of a user is processed at a time |
| accounts | user (MongoDB), game data (MongoDB), token (Redis) | `CreateUser`, `Login`, `LoadBasicGameData` | a user is created once and completely; the token a client holds is the stored one |
| MysqlSP | rows by uid | `Insert`, `Search`, `Delete` | a uid names one row |

### Where it is hard

Within a handler there is no concurrency, so the hazards of the logic layer are
long sequences of legal packets of several sessions: indices that outlive the
visit they describe, objects and session numbers that are reused, a second login
on one session, ID lookups by address, limits, rooms that are created, emptied
and created again, a close from every state. In the network layer they are the
reuse of a session index around its close, buffers that are shifted under
queued packets, partial packets, and data sent to a session that has gone. The
client has two threads without a common lock, the web API has requests that
interleave between database calls and may stop half way. `PROJECT.json` lists
each at its line with the properties that cover it, or why none does.

## 2. The modules

| module | what it is |
|---|---|
| `ChatServer` | the logic layer: `User`, `UserManager`, `Lobby`, `Room` and one action per handler |
| `ChatPresence` | the abstract specification: where each session may be |
| `MCChatServer` | `ChatServer` for TLC |
| `SessionPool` | the network layer: `TcpNetwork` and the loop of `Main::Run` |
| `SessionFeed` | the abstract specification: what the network promises the logic |
| `MCSessionPool` | `SessionPool` for TLC |
| `RecvFraming` | the receive buffer of one session: how bytes become packets |
| `LobbyView` | the lobby of the server composed with the lobby scene of one client |
| `ClientNetwork` | the client's two threads: connect, disconnect, receive |
| `RequestLock` | the web API's lock of a user, a number in Redis |
| `WebAccount` | creating a user, logging in and loading data, over MongoDB and Redis |
| `MCRecvFraming`, `MCLobbyView`, `MCClientNetwork`, `MCRequestLock`, `MCWebAccount` | these five for TLC |
| `SequenceLemmas` | facts about `Append`, `RemoveFirst`, `Range` and `IsInjective` the proofs need |
| `ChatServerProofs` | the inductive invariant and the theorems for the state invariants, the two action properties and the refinement of `ChatPresence` |
| `SessionPoolProofs` | the inductive invariant of `SessionPool`, and that it implements `SessionFeed` |
| `LobbyViewProofs` | the inductive invariant of `LobbyView`, and that the lists end up right |
| `RecvFramingProofs`, `ClientNetworkProofs`, `RequestLockProofs`, `WebAccountProofs` | the inductive invariants of these modules |

### ChatServer

State, and the field it stands for:

| variable | code |
|---|---|
| `open` | the sessions accepted whose close packet has not been handled |
| `login` | `ConnectedUser::m_IsLoginSuccess` |
| `pool`, `user` | `UserManager::m_UserObjPoolIndex` (a queue), `m_UserObjPool` |
| `sessionDic`, `idDic` | `m_UserSessionDic`, `m_UserIDDic` |
| `slots`, `lobbyUsers` | `Lobby::m_UserList`, `Lobby::m_UserIndexDic` |
| `roomUsed`, `roomUsers` | `Room::m_IsUsed`, `Room::m_UserList` |
| `pastEnd` | a ghost: `Lobby::RemoveUser` has written through `end()` |
| `out` | a ghost: what the last handler sent, and to which session |

Each handler is one action, for the code handles a packet to its end before it
takes the next. An action is the disjunction of the handler's success and of
`Refuse`, its `CHECK_ERR` exit, which sends an error code and changes nothing;
the guards are the handler's tests in their order. The `..._RES` packet that
answers every request is not in `out`, except the answers that are lists.
`NtfSysCloseSession` may run for a session at any time after `Connect`, that is
whatever its connection did last.

What is kept as the code has it, although it looks odd:

* The ID dictionary is a `unordered_map<const char*, User*>`: `find` compares
  addresses. `Login` passes a pointer into the session's receive buffer, so the
  key is the pair of session and offset. `erase` is called with the address of a
  copy of the ID, which is never a key: entries stay, and a later login or
  whisper at the same session and offset finds them.
* `m_UserSessionDic.insert` does not replace an entry: after a second login on a
  session the new object is confirmed and has no way to be reached or released.
* `User::Clear` sets the session index to 0, not to -1.
* `Lobby::RemoveUser` has its test inverted: slots are never freed.
* `SendToAllUser` of a lobby reaches users in the lobby's rooms too, and the
  sender: its skip tests are commented out.
* The order in `NtfSysCloseSesson`: the room is left and told, then the lobby is
  told the room changed while the closing user is still in it, then the lobby is
  left.

Abstractions: IDs, titles and texts are left out or are values of a small set;
the error codes are one `Refuse`; a message carries who it is about and the room
or slot it names. `Lobby::m_UserIDDic` is left out, since nothing reads it, and
so are the handlers `LobbyList` and `LobbyRoomList`, which read and answer only
(the second is in `LobbyView`). `MaxListCount` is
`MAX_SEND_LOBBY_USER_LIST_COUNT`. A negative index in a request is represented by
`None`, -1.

The network's part of the contract is assumed here: a session's packets are
handled in order, its close last, and its index is not accepted again before.
`SessionPool` implements that contract, stated in `SessionFeed`.

### ChatPresence

What the server promises: every session is away, logged in, in one lobby or in
one room of one lobby; it moves by the six operations or is cut off from
anywhere; a room is opened when nobody is in it and joined while somebody is and
it is not full; the limits on users, lobby guests and room members hold.
`ChatServer` implements it under the mapping `PlaceOf`, which reads the state of
the user a session is bound to. A second login, a refused request, everything
in slots and in the ID dictionary must be stuttering steps of it.

### SessionPool

State, and the field it stands for:

| variable | code |
|---|---|
| `backLog`, `gone` | external: what waits at the listening socket, whose peer has ended |
| `socket`, `sendBuffer` | `ClientSession::SocketFD`; `pSendBuffer` up to `SendSize` |
| `poolIndex` | `m_ClientSessionPoolIndex` |
| `packetQueue` | `m_PacketQueue` |
| `pc`, `cursor` | where `Main::Run` and `RunCheckSelectClients` are |
| `hungUp` | what the sets returned by `select` say of connections that ended |
| `users` | the sessions the logic has a user for |
| `owner`, `handled` | ghosts: the connection the logic takes a session for; the packet it took last |

The steps are those between which a peer can act: `select`, `accept`, each
session of the round over the clients (read, then write, or closed), each packet
handled. Peers call and hang up between any two. A name of a connection is used
again once nothing refers to it, so connections come and go without bound.

What is kept as the code has it: a round accepts or serves clients, never both;
`CloseSession` gives the index back before the logic knows; `SendData` fills the
buffer of any session, connected or not; `ConnectedSession` does not clear it; a
failed `accept` is not recognised, and from then on `select` fails
(`SelectNothing`).

Abstractions: a piece in a send buffer is what one handler sends to one session,
and carries whom the logic meant; the buffer's size is counted in pieces. A read
turns into any number of request packets up to `MaxPacketsPerRead`, or fails,
maybe after some: how bytes become packets is in `RecvFraming`. A handler
of a request may answer, may log its session in, and may send to any users;
which ones is `ChatServer`'s matter. Packets have the ids of the protocol, none
of which is 0. `HangUp` is the moment when the peer has ended and everything it
sent has been read. `ForcingClose` is left out: only `LoginCheck` calls it.

### SessionFeed

Each session index stands for one connection from its accept until the logic has
handled its close. The logic takes requests only of a connection that an index
stands for, and after its close none. `SessionPool` implements it with `owner`
and `handled`. The `open` of `ChatServer` is the set of sessions with an owner,
its `Connect`, handlers and `NtfSysCloseSession` are the three actions.

### RecvFraming

One session of the server, from the socket to the handlers. A byte is a cell
<<packet, offset>>, so that what the code takes for a header or a body can be
compared with what was sent.

| variable | code |
|---|---|
| `sizes`, `wire` | external: the packets sent, the bytes that have not been read |
| `buf`, `remaining` | `ClientSession::pRecvBuffer`, `RemainingDataSize` |
| `readPos` | the local variable of `RecvBufferProcess` |
| `queue` | the session's part of `m_PacketQueue`: position and size of a body, and as a ghost the body when it was queued |
| `stage` | where the round is: before the read, in `RecvBufferProcess`, in the handlers |
| `delivered`, `aligned` | ghosts: the packets queued; whether the reads ended well so far |

`RecvSocket`, one `AddPacketQueue` per packet found, `EndProcess` (the rest is
moved to the front), `Process` (`Main::Run` empties the queue) and
`CloseSession` are the steps. Kept as the code has it: the test of line 341 is
inverted, so a packet followed by more is held until the next read, and a packet
whose body is not complete is dispatched, which leaves `remaining` negative;
a positive rest is not counted when the next data is read behind it; a read that
finds nothing forgets the rest. Where something that is no header is taken for
one (`Garble`) the model follows the session no further.

### LobbyView

The composition of the server's lobby with the lobby scene of one client, over
a connection that keeps the order. From the server it has what this client is
told of: the users' states with their stale lobby and room indices, the slots
that are never freed, the handlers with their notices in their order, both
lists with their pages, their last pages and the start indices they refuse, and
a connection that takes `MaxDown` packets and drops what does not fit. From the
client it has `ProcessPacket` of `ClientSceneLobby` with its two lists, the flags that
say whether they are being fetched (`phase`), and the two list boxes.

| variable | code |
|---|---|
| `state`, `hasLobby`, `room` | the fields of the users' `User` objects |
| `slots` | `Lobby::m_UserList`, as far as slots have been taken |
| `down`, `up` | the packets under way |
| `phase` | `m_IsRoomListWorking`, `m_IsUserListWorking` |
| `roomList`, `userList` | `m_RoomList`, `m_UserList` |
| `roomRows`, `userRows` | the list boxes `m_LobbyRoomList`, `m_LobbyUserList` |
| `lost`, `refused`, `ghost` | ghosts: a packet was dropped; a request was not answered; who was cut off without a notice |

A page of a list is a function from the indices it has to what it says of them:
`PageOf` takes the first `MaxRoomList` or `MaxUserList` of what the loop passes by
from the requested start on (`RoomsFrom`, `SlotsFrom`). After a page that is not the
last the client asks for its greatest index plus one.

The bound `Watched` stops comings and goings once a packet was dropped or a
request refused. It takes nothing from `ListsShownRight`, which says nothing after
a drop; and after a refusal the client never gets to the end of its lists.

Left out: other lobbies, titles, chat, and the two-byte error answer to a list
request from a user who is in no lobby, of which the client reads more than was
sent. The viewer enters once and stays. Its own row may appear twice, since its
own notice comes before the answer that starts the fetching; `ListsShownRight` speaks
of the others. An ID belongs to one `User` object; object and ID are not told
apart.

### ClientNetwork

The two threads of the client. `m_IsConnected` and `m_recvSize` are plain members
of both, so every access to them is a step of its own and an update
(`m_recvSize += n`) a read and a write.

| variable | code |
|---|---|
| `ui` | where the UI thread is in `DisConnect` |
| `connected`, `recvSize`, `buffer`, `queue` | `m_IsConnected`, `m_recvSize`, `m_RecvBuffer`, `m_PacketQueue` |
| `thread` | `m_Thread`: not joinable, or where `Update` is |
| `got`, `reg`, `dataSize`, `readPos` | its locals; the value it read of `m_recvSize` to update it |
| `wire`, `gone`, `sent` | external: bytes that arrived, the server has closed, what it sent |
| `handled`, `clean`, `caught`, `terminated` | ghosts |

Kept as the code has it: a closed connection reads as nothing received, so the
thread keeps polling until the user disconnects; the header of a packet whose
body is not complete is not put back; `DisConnect` closes the socket and clears
before it waits for the thread, so a size the thread has in hand may be written
back, and may become negative. What happens at a negative position or at a
header that is none is undefined and followed no further (`wild`). The queue has a
mutex that `Clear` does not take; the clearing is one step here.

### RequestLock and WebAccount

Requests of the web API run concurrently and stop only at their database calls,
so each call is an action: `GetString`, `SetStringAsync`, `Increment` and
`Dispose` of the lock; the two finds, the two insertions, the write and the read
of the token and the answers of the accounts. `pc` is how far a request is,
`key` the number in Redis, `user`, `gameData` and `session` the documents and the
token string. Faults are part of both: `DB/Redis.cs` turns a failed call into a
default result (a failed read looks like a missing key, a failed increment like
0, a failed write like a success), a failed call to MongoDB ends the request with
an exception, before or after it took effect, and the host may crash between
any two calls (`Crash`). `faulted` records that one of these lost something.

The handler that loads game data has the lock commented out, so the two modules
do not meet in the code, and are not composed.

## 3. What TLC checks

| run | bounds | properties |
|---|---|---|
| `state` | 2 sessions, 2 users, 2 lobbies of 2 slots, 1 room for 1 each, 1 login offset; 27,862 states | `TypeOK`, `LobbyIndexSound`, `NeverPastEnd` |
| `presence` | 2 sessions, 3 users, 1 lobby of 2 slots, 2 rooms for 1, 2 login offsets; 170,788 states | `PoolSound`, `SessionsOwnUsers`, `OnlyOwnedUsersMove`, `PresenceSpec` |
| `rooms` | 3 sessions, 3 users, 1 lobby of 3 slots, 1 room for 2, 1 offset; 287,468 states | `RoomsSound`, `RoomDepartureHeard`, `RoomChatStaysInRoom` |
| `feed` | 2 sessions, 3 connections, 1 waiting at a time, buffers of 2 pieces, 1 packet per read; 185,816 states | `TypeOK`, `PoolExact`, `QueueSound`, `StaleDataFirst`, `FeedSpec`, `EndReported`, `CallersServed` |
| `framing` | headers of 2 cells, packets up to 3, a buffer of 12, bodies of 0, 1, 3 and (too large) 4, 3 packets a connection; 330,968 states | `TypeOK`, `InBounds`, `QueuedBodiesIntact`, `ExactWhileAligned`, `InOrderOnce` |
| `lobby_view` | a viewer and 2 others, 3 slots, 3 rooms for 2, pages of 1, 3 packets under way; 736,024 states | `TypeOK`, `ListsShownRight`, `ListsArrive` |
| `client` | headers of 1 cell, bodies of 1 and 2, reads up to 3, a buffer of 5, 2 packets a connection, 2 connections; 1,670,103 states | `TypeOK`, `NeverTerminated`, `CleanStart`, `ExactWhileClean`, `JoinReturns`, `AllHandled` |
| `lock` | 3 requests, 2 seconds, 2 failing reads; 32,336 states | `TypeOK`, `SequentialOnceCreated`, `TakenMeansHeld`, `LockComesFree` |
| `account` | 3 clients, 2 passwords, 2 ticks; 130,580 states | `TypeOK`, `CreatedOnce`, `HalfUserOnlyByFault`, `LoadNeedsPassword`, `StoredTokenIsHeld` |
| `duplicate_id` | as small as it gets | `DuplicateIdRefused` is violated |
| `own_data` | as `feed` | `OwnDataOnly` is violated |
| `lock_sequential` | as `lock`, no failing read | `Sequential` is violated |

Deadlock is checked but in `lobby_view` and `client`. In the first nothing happens
any more after a packet was dropped or a request refused and everything under
way is handled, which is a bound of the model (`Watched`); in the second a thread that ran
wild is not followed, and the number of connections is bounded.

### Fairness

* `ChatServer`, `RecvFraming` and `WebAccount` have no liveness property and no
  fairness.
* `SessionPool`: weak fairness of the server's loop as a whole. The loop never
  blocks (`select` waits a millisecond at most), and no choice in it is made fair:
  peers may do nothing, and `select` reports what it likes, but for connections
  that have ended.
* `LobbyView`: weak fairness of the server handling list requests and of the client's
  timer, which takes a packet every 32 ms. Users need not do anything.
* `ClientNetwork`: weak fairness of the receive thread, of the steps inside
  `DisConnect`, and of the timer. The user and the server need not do anything.
* `RequestLock`: weak fairness of each request that has started. Nobody has to
  send one, and it may fail instead.

### Why the bounds are enough

A second offset is what a second login on a session, and so a stranded object,
needs; the third User object of `presence` lets both sessions be served while one
object is stranded. Two lobbies are what a stale lobby index needs to differ from
the current lobby; two rooms what a stale room index needs. The pool runs empty
and objects go to another session; sessions are closed and accepted again
without bound. Lobbies of two slots fill up for good, a room for one or two is
full, a list packet of one entry makes a second page. Three sessions are what a
leaver, somebody who stays and somebody outside need. The state space is finite
without a bound on steps: no counter grows.

In `feed` a third connection is what is refused when the pool is empty and what
takes an index that was given back while the logic still sends to it; two pieces
are what an order in a buffer needs, and what fills it; a session that reads a
packet and one that closes in the same round make the queue mix both kinds.

In `framing` a read takes up to two maximal packets, as in the code, the buffer
is the four the proofs assume (the configuration file is not in the
repository; the constant it replaced, Define.h:29, is eight), and the cells are cut anywhere: inside a header, a body, between packets. Three
packets are what a held packet, the one behind it and a cut one need. In
`lobby_view` three rooms and three slots are the least at which a page may
end before the last index, at it, and ask for it; three packets are the least
that let both notices of one handler and an answer wait, and drop the fourth. In `client`
the buffer is the least that takes a rest and a full read, so that the test for
an overflow is exercised; two connections are what leftovers need.
In `lock` three requests are what a holder, a request that ran into it and a
third that reads in between need, two equal or different seconds what the
comparison with the own summand needs. In `account` two clients of one person and one of
another are what races of creations and of logins need.

### What the properties say

* `PoolSound`, `SessionsOwnUsers`, `OnlyOwnedUsersMove`: the pool is exact, two
  sessions never share a User object, and an object stranded by a second login
  is confined: it stays in use for ever, for the close of its session releases
  the first object only, but it never enters a lobby. The reason is the `insert` that
  keeps the first entry; with `operator[]` the property fails.
* `LobbyIndexSound`, `RoomsSound`: dictionary and lists agree with the users'
  states and indices, through stale indices, both ways of leaving, and limits.
  The empty room that `RoomEnter` would leave if `EnterUser` failed after
  `CreateRoom` does not occur, since a room takes at least one member.
* `NeverPastEnd`: the inverted test never writes through `end()`, because it also
  never frees a slot. The two defects hide each other: freeing the slot alone
  makes the close handler write through `end()` for a user that left its lobby
  before (this is the mutant).
* `RoomDepartureHeard`, `RoomChatStaysInRoom`: who is told, by session.
* `PresenceSpec`: the refinement.
* `PoolExact`, `QueueSound`: no index is lost or given away twice, through refusals,
  failed reads and failed sends; in the queue a close stands behind all packets of
  its session, once, and the queue is empty when a connection is accepted. That
  last part keeps an index from being reused too early: with one packet handled
  per round instead of all, `FeedSpec` fails.
* `StaleDataFirst`: what a connection receives of its predecessor's data comes
  before its own, so it is the start of its stream that is wrong and never the
  rest.
* `EndReported`, `CallersServed`: every caller is accepted or refused; every end is
  reported once no more callers come. That premise is needed, since a round that
  accepts does not look at clients. Both assume that no accept has failed
  (`Hears`): `accept` returns an unsigned value, so the test `< 0` of
  TcpNetwork.cpp:197 never sees the failure, the invalid socket goes into the set,
  and every later `select` fails.
* `InBounds`, `QueuedBodiesIntact`: handlers see the bodies that were queued, and
  nothing is read or written outside the buffer. Again two defects hide each
  other. A complete body is queued only if nothing follows it, so moving the rest to
  the front never lands on a queued body: with the test of line 341 the right
  way round `QueuedBodiesIntact` fails. And a rest never grows beyond one read
  because it is not counted: counting it lets a held packet grow the rest until
  a read leaves the buffer, and `InBounds` fails.
* `ExactWhileAligned`, `InOrderOnce`: what the framing does deliver. While every
  read ends with a packet and holds at most one body, its last, every packet
  arrives; beyond that packets get lost, but none is repeated or overtaken.
* `ListsShownRight`: when the client has both lists and everything under way, each
  other user in the lobby has one row and each room its number of users, whatever
  notices came between the pages. The exception is `ghost`: `User::EnterLobby`
  does not reset the room index, so the close of a user who came back from a room
  is taken for one of a room member (PacketProcess.cpp:107), the lobby is not
  told, and the row stays.
* `ListsArrive`: the client gets both lists to their ends. It does not if a packet to it
  was dropped, or if the last entry of a full page is the last but one: the
  client then asks for the last index alone, as Packet.h:72 says, and the server answers
  nothing (Lobby.cpp:213, 255). With any other start refused the property fails.
* `NeverTerminated`, `CleanStart`, `JoinReturns`: disconnecting comes back, no
  second thread is started over one that was not joined, and packets or a size are
  left for the next connection only if the thread was caught in the middle of a
  round.
* `ExactWhileClean`, `AllHandled`: what is sent is handled, whole and in order, on a
  connection that began clean and as long as no read ends inside a body; a read
  that ends inside a header does no harm.
* `SequentialOnceCreated`, `TakenMeansHeld`, `LockComesFree`: once the key exists and is
  seen, one request at a time has the lock, also when increments collide, are lost or the
  host crashes; without a fault the number refused increments leave behind never
  outlives the holder they ran into. After a fault the user may stay locked out for
  ever, which is why both properties name it.
* `CreatedOnce`, `HalfUserOnlyByFault`: of racing creations one succeeds, with its
  own password and with game data; a user without game data is the trace of a
  fault, and stays, since creating it again is refused.
* `LoadNeedsPassword`, `StoredTokenIsHeld`: game data goes only to clients that
  know the password; however logins race, the stored token is held by one.

The three violations are findings, described in `PROJECT.json`: duplicate IDs are
accepted, since the dictionary compares addresses; data sent to a session that
has closed is received by the next connection of that session; and two first
requests of a user both hold the request lock.

Every property of a passing run has a mutant: a variant of one definition, in
its module just before it, named after the slip it makes
(`ClearUser_StaysConfirmed`, `HeldBack_Incomplete`, ...). With the variant in
place TLC finds the property violated under the same configuration.

## 4. What TLAPS proves

For all values of the constants under the assumptions the modules name, and for
any sets of offsets, IDs, connections, requests, clients and passwords. The
assumptions: every limit is a positive number (`ConfigAssumption`,
`NetworkAssumption`, `ClientAssumption`), the special sockets and `Absent` and
`None` are no ordinary values, seconds are positive, and the receive buffer takes
at least four maximal packets (`FramingAssumption`; its size comes from a
configuration file that is not in the repository). In `LobbyView` there are
finitely many other users, since rooms count them (`ViewerAssumption`).

| theorem | statement |
|---|---|
| `Invariance` | `Spec => []IInv` |
| `TypeCorrect`, `PoolNeverShares`, `OwnershipHolds`, `StrandedUsersStay`, `LobbyIndexHolds`, `RoomsHold`, `EndIsNeverWritten` | each invariant of the runs `state`, `presence` and `rooms` |
| `SlotsAreNeverFreed` | `Spec => []SlotsRemember`, on which the last of them rests |
| `ChatStays` | `Spec => RoomChatStaysInRoom` |
| `DeparturesHeard` | `Spec => RoomDepartureHeard` |
| `PresenceImplemented` | `Spec => PresenceSpec`: `ChatServer` implements `ChatPresence` |
| `NetworkInvariance` | `Spec => []IInv` of `SessionPool` |
| `NetworkTypeCorrect`, `PoolStaysExact`, `QueueStaysSound`, `StaleDataStaysFirst` | the invariants of the run `feed` |
| `NetworkFeedsLogic` | `Spec => FeedSpec`: `SessionPool` implements `SessionFeed` |
| `FramingInvariance`, `FramingTypeCorrect`, `BufferIsLargeEnough`, `BodiesStayIntact` | `[]IInv`, `[]TypeOK`, `[]InBounds`, `[]QueuedBodiesIntact` of `RecvFraming` |
| `PacketsInOrder`, `AlignedStreamsAreExact` | `[]InOrderOnce`, `[]ExactWhileAligned` of `RecvFraming` |
| `ClientInvariance`, `OneReceiver`, `LeftoversAreCaught` | `[]Inv`, `[]NeverTerminated`, `[]CleanStart` of `ClientNetwork` |
| `ClientTypeCorrect`, `CleanConnectionsAreExact` | `[]TypeOK`, `[]ExactWhileClean` of `ClientNetwork` |
| `LobbyViewInvariance`, `LobbyViewTypeCorrect`, `ListsAreShownRight` | `[]IInv`, `[]TypeOK`, `[]ListsShownRight` of `LobbyView` |
| `LockInvariance`, `LockTypeCorrect`, `OneAtATime`, `RefusedForAHolder` | `[]IInv` and the invariants of the run `lock` |
| `AccountInvariance`, `AccountTypeCorrect`, `CreatedByOne`, `HalfUsersAreFaults`, `LoadsKnowThePassword`, `TokensAreHeld` | `[]IInv` and the invariants of the run `account` |

The `IInv` of `ChatServer` is the conjunction of its invariants. None of the larger ones is
inductive alone: that every packet goes to a session of the pool (`TypeOK`) needs
every listed user to have a session, which needs `LobbyIndexSound` and
`RoomsSound`; that a handler which moves its own user leaves the others' entries
alone needs `SessionsOwnUsers`; that a new login does not take an object in use
needs `PoolSound`; that a stranded object is in no list needs
`OnlyOwnedUsersMove`; and that the close handler changes no slot needs
`SlotsRemember`. Together they need no strengthening.

The proof has one lemma per handler, and one step per conjunct in it. Handlers
that only send are one case (`ReadOnlyKeeps`). What they share are lemmas:
`RoomLeaveUserFacts`, `EnterRoomUserFacts` say what the room lists are
afterwards (`RoomsAfter`), `MoveKeepsOwnership` that moving one's own user touches
nobody else's, `ReleaseKeepsOwnership` that a close gives one object back.
`SequenceLemmas` has the facts about lists: `RemoveFirst` is defined through a
`CHOOSE` of an index, and what it returns on a list without repetitions is
proved there.

The two action properties are proved from `IInv`: `RoomOwners` says that the
sessions of a room's members are the sessions whose user is in the room, and the
rest goes over the handlers by the kinds of packets they send. The refinement of
`ChatPresence` has one lemma for each handler that moves somebody, which names the
abstract step it is; for the other handlers nobody's place changes. The limits of
`ChatPresence` count sessions, those of the code User objects, and three lemmas
(`OneUserIsFree`, `GuestsCounted`, `MembersCounted`) carry one count to the other along `sessionDic`, which
`SessionsOwnUsers` makes injective.

For `SessionPool` the invariants need one strengthening, `CallersNew`: a connection
that waits has left no trace in sockets, owners and buffers. Without it the
accept could give a session to a connection that has one (`PoolExact`) or find
its data behind another's (`StaleDataFirst`). `QueueFor` says of any queue what
`QueueSound` says of the current one, so that reading (`ReceivedKeeps`), closing
(`ClosedKeeps`) and taking a packet (`TakenKeeps`) are lemmas about queues, and
`CloseSessionKeeps`, `FlushKeeps` and `HandleKeeps` about what the actions share.
The refinement follows: when a connection is accepted the queue is empty, so a
free session has no owner (`FeedConnect`), and a packet's connection is its
session's owner (`FeedTake`).

For `RecvFraming` the strengthening is `RestSmall`, what is left fits into one
read, and `BodyIsLast`: a queued packet with a body is where the processing of the
buffer ends. The second is what the inverted test gives, and why moving the rest
spares the queued bodies. `CellsSound` lets a cell name the packet it comes from.
`InOrderOnce` needs that what is left in the buffer and on the wire is in the order
of sending and comes after every packet delivered (`OrderInv`), however much of it
was lost. `ExactWhileAligned` needs where the stream is cut: between rounds between
two packets, within a round at the start of a packet (`AlignedInv`), and that the
wire is the end of what was sent with no packet cut short (`WireInv`).

For `RequestLock` it is `SeenByAll`: until a request misses the number, nobody creates
it anew, whoever increments has seen it, and while the lock is held it is
positive, so that no increment returns its own summand. For `WebAccount` it is
what each stage of a handler guarantees (`StagesSound`), that only one
request got past the first insertion (`OneCreator`), and that the client which
wrote the stored token holds it (`LastWriter`). For `ClientNetwork` it is that the
UI thread is idle without a connection only when no thread is left
(`JoinedFirst`), and that the size, once zeroed outside a round, stays zero
since the closed socket gives the thread nothing (`StaysDrained`). Its types are no
matter of course, since `Clear` writes the size while the thread computes with it:
`TypeInv` adds, for each stage of a round, what still bounds the positions
(`InBuffer`). For `ExactWhileClean` the buffer, the bytes in hand and the wire are
one sequence, `Ahead` of the thread. `Exact` says that from the first byte not
handled on it is the rest of what was sent, packet after packet, and at each stage
how far the thread is in it (`InStep`).

For `LobbyView` the state of the two sides alone says little while pages and notices
are under way, so the invariant speaks of what the client will show once it has
got what is on its way (`WillShow`, `WillShowCount`: the last packet about a user or a
room counts, and without one what the client has now) and of the slots and
rooms it has yet to ask for (`SlotToCome`, `RoomToCome`). A user in the lobby will be
shown or has a slot to come; a user who is not will not be, or is a ghost; a
room will be shown with its number, or is not shown yet and to come
(`UsersRight`, `RoomsRight`). This needs that one request or one answer is under way, the
one that is due (`InTurn`), that nothing but its own entering reaches the client before
the answer to it (`EnteredFirst`), and that a list box has no row before its list
came (`BoxesEmpty`), since the last page adds rows and does not look for them. The
proof has one frame for each kind of step: a handler appends notices
(`MoveFrame`), an answer to a list request appends a page (`AnswerFrame`), the client
takes the first packet and then shows what it says (`TakeFrame`). That a page
settles its slots and leaves the later ones to the next request is `PageFacts`, about
`PageOf` and `IsEnd`; the greatest index of a page comes from a least-element principle
(`Least`) in place of an induction.

Not provable here and left to TLC: liveness and anything with `ENABLED`, which
the prover does not support; what a recursive definition computes for every
input, since that needs an induction theorem with an operator parameter; and
anything in a module that reaches a `RECURSIVE` operator. Only model-checked:
the liveness properties `EndReported`, `CallersServed`, `LockComesFree`, `JoinReturns`,
`AllHandled` and `ListsArrive`. Every invariant, every action property and both
refinements the passing runs check are theorems.

## 5. Not modelled, and why

Of the repository's 81,000 lines some 74,000 are the vendored GUI library `nana`,
which is not part of the programs' own logic; the programs themselves are about
6,900 lines, the construction of forms, project scaffolding and data classes
included. A map of the repository as a whole
therefore stays at a few percent.

* `ConnectedUserManager::LoginCheck` and `TcpNetwork::ForcingClose`: connect times
  are written by `NtfSysConnctSession` only, which is registered for no packet, so
  every time is 0 and the check passes over every session. As the code stands it
  changes nothing but its own scan position.
* `LobbyList`: counts the users of each lobby and answers.
* `ChatServer` and `SessionPool` are joined by the contract `SessionFeed` and not by one
  model of both: their product would be too large for TLC, and each is checked for
  everything the contract allows the other.
* The login and room scenes of the client: they show what single packets tell
  them, and have no state machine beyond the lobby's (the connect scene's is in
  `ClientNetwork`). The widgets are out of scope.
* `MysqlSP`: a form that keeps no state; what its three stored procedures do is not in
  the repository.
* `IOCPNetwork` (unfinished, not built into the server), `DBManager` (used by no handler),
  logging, the start-up code of the web API, and the call through a null handler
  for an unregistered packet id (PacketProcess.cpp:70), after which there is no
  process left to specify.

What could follow: `LobbyView` with a client that leaves and comes back, once the
list boxes are cleared on entry; `LoginCheck`, once the connect times are set.

## 6. Running it

    tlc -workers 2 -config ChatServerState.cfg MCChatServer.tla
    tlc -workers 2 -config SessionPoolFeed.cfg MCSessionPool.tla
    tlc -workers 2 -config RecvFraming.cfg MCRecvFraming.tla
    tlc -workers 2 -config LobbyView.cfg MCLobbyView.tla
    tlc -workers 2 -config ClientNetwork.cfg MCClientNetwork.tla
    tlc -workers 2 -config RequestLock.cfg MCRequestLock.tla
    tlc -workers 2 -config WebAccount.cfg MCWebAccount.tla
    tlapm ChatServerProofs.tla
    tlapm LobbyViewProofs.tla
