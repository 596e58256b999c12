----------------------------- MODULE SessionPool -----------------------------
(***************************************************************************)
(* The network layer of the chat server, TcpNetwork, and the loop of       *)
(* Main::Run that alternates it with the logic layer.                      *)
(*                                                                         *)
(* A pool of sessions is shared by the connections that come and go.  One  *)
(* round of TcpNetwork::Run accepts one connection, or goes over the       *)
(* sessions, reads and writes each and gives those that ended back to the  *)
(* pool.  What it read, and the ends it saw, wait in a queue the logic     *)
(* then empties.                                                           *)
(*                                                                         *)
(* Peers act at any moment between two steps.  Which packets the bytes of  *)
(* one read turn into is left open here: any number of them up to a bound, *)
(* or a read that fails.                                                   *)
(***************************************************************************)
EXTENDS Integers, Sequences, SequencesExt

CONSTANTS
    SessionCount,       \* maxClientCount + extraClientCount
    SendBufferSize,     \* maxClientSendBufferSize, in handlers' worth of data
    BackLogCount,       \* connections the listening socket lets wait
    MaxPacketsPerRead,  \* bound on the packets of one read
    Conns,              \* the connections
    NoSocket,           \* SocketFD of a session without connection
    InvalidSocket       \* what a failed accept returns

ASSUME NetworkAssumption ==
    /\ SessionCount \in Nat \ {0}
    /\ SendBufferSize \in Nat \ {0}
    /\ BackLogCount \in Nat \ {0}
    /\ MaxPacketsPerRead \in Nat \ {0}
    /\ NoSocket \notin Conns
    /\ InvalidSocket \notin Conns
    /\ NoSocket # InvalidSocket

Sessions == 0 .. SessionCount - 1

VARIABLES
    backLog,        \* connections waiting at the listening socket
    gone,           \* connections whose peer has ended them, all it sent read
    socket,         \* SocketFD of each session
    sendBuffer,     \* pSendBuffer: for each piece, the connection it is for
    poolIndex,      \* m_ClientSessionPoolIndex
    packetQueue,    \* m_PacketQueue
    pc,             \* where Main::Run is
    cursor,         \* the session RunCheckSelectClients looks at
    hungUp,         \* connected sessions whose end select has reported
    users,          \* the sessions the logic has a logged-in user for
    owner,          \* ghost: the connection the logic takes a session for
    handled         \* ghost: the packet the logic took last

peers == <<backLog, gone>>
pool  == <<socket, sendBuffer, poolIndex>>
loop  == <<pc, cursor, hungUp>>
logic == <<users, owner, handled>>
vars  == <<backLog, gone, socket, sendBuffer, poolIndex, packetQueue,
           pc, cursor, hungUp, users, owner, handled>>

-----------------------------------------------------------------------------
Feed == INSTANCE SessionFeed WITH NoConn <- NoSocket

\* A queued packet carries, as a ghost, the connection it came from.
Packets == [kind : {"request", "close"}, session : Sessions, conn : Conns]

TypeOK ==
    /\ backLog \in Seq(Conns)
    /\ gone \subseteq Conns
    /\ socket \in [Sessions -> Conns \union {NoSocket, InvalidSocket}]
    /\ sendBuffer \in [Sessions -> Seq(Conns)]
    /\ \A s \in Sessions : Len(sendBuffer[s]) <= SendBufferSize
    /\ poolIndex \in Seq(Sessions)
    /\ packetQueue \in Seq(Packets)
    /\ pc \in {"select", "accept", "clients", "packets"}
    /\ cursor \in 0 .. SessionCount
    /\ hungUp \subseteq Sessions
    /\ users \subseteq Sessions
    /\ owner \in [Sessions -> Conns \union {NoSocket}]
    /\ handled \in Packets \union {Feed!Nothing}

Init ==
    /\ backLog = <<>>
    /\ gone = {}
    /\ socket = [s \in Sessions |-> NoSocket]
    /\ sendBuffer = [s \in Sessions |-> <<>>]
    /\ poolIndex = [i \in 1 .. SessionCount |-> i - 1]
    /\ packetQueue = <<>>
    /\ pc = "select"
    /\ cursor = 0
    /\ hungUp = {}
    /\ users = {}
    /\ owner = [s \in Sessions |-> NoSocket]
    /\ handled = Feed!Nothing

IsConnected(s) == socket[s] \in Conns

-----------------------------------------------------------------------------
(* The peers. *)

\* Nothing refers to the connection, so its name may stand for a new one.
Unused(c) ==
    /\ \A i \in DOMAIN backLog : backLog[i] # c
    /\ \A i \in DOMAIN packetQueue : packetQueue[i].conn # c
    /\ \A s \in Sessions : /\ socket[s] # c
                           /\ owner[s] # c
                           /\ \A i \in DOMAIN sendBuffer[s] : sendBuffer[s][i] # c

Call(c) ==
    /\ Unused(c)
    /\ Len(backLog) < BackLogCount
    /\ backLog' = Append(backLog, c)
    /\ gone' = gone \ {c}
    /\ UNCHANGED <<pool, packetQueue, loop, logic>>

HangUp(c) ==
    /\ c \in Range(backLog) \union Range(socket)
    /\ gone' = gone \union {c}
    /\ UNCHANGED <<backLog, pool, packetQueue, loop, logic>>

-----------------------------------------------------------------------------
(* The pool. *)

AllocClientSessionIndex_NotPopped == UNCHANGED poolIndex

AllocClientSessionIndex == poolIndex' = Tail(poolIndex)

CloseSession_ReportedFirst(s, q) ==
    /\ socket' = [socket EXCEPT ![s] = NoSocket]
    /\ sendBuffer' = [sendBuffer EXCEPT ![s] = <<>>]
    /\ poolIndex' = Append(poolIndex, s)
    /\ packetQueue' = <<Feed!Close(s, socket[s])>> \o q

\* ClientSession::Clear and push_back; the end is reported by a packet.  q is
\* the queue as it is by then.
CloseSession(s, q) ==
    /\ socket' = [socket EXCEPT ![s] = NoSocket]
    /\ sendBuffer' = [sendBuffer EXCEPT ![s] = <<>>]
    /\ poolIndex' = Append(poolIndex, s)
    /\ packetQueue' = Append(q, Feed!Close(s, socket[s]))

\* accept may fail for a peer that has gone by then.  The wrong socket it returns
\* is not less than 0, for SOCKET is unsigned: it is given to a session like any
\* other.  Without a free session the connection is closed.
NewSession ==
    /\ pc = "accept"
    /\ pc' = "packets"
    /\ backLog' = Tail(backLog)
    /\ LET c == Head(backLog) IN
        \E fd \in {c, InvalidSocket} :
            /\ fd = InvalidSocket => c \in gone
            /\ IF poolIndex = <<>>
               THEN UNCHANGED <<socket, poolIndex, owner>>
               ELSE LET s == Head(poolIndex) IN
                    /\ AllocClientSessionIndex
                    /\ socket' = [socket EXCEPT ![s] = fd]
                    /\ owner' = IF fd = InvalidSocket THEN owner
                                ELSE [owner EXCEPT ![s] = c]
    /\ UNCHANGED <<gone, sendBuffer, packetQueue, cursor, hungUp, users, handled>>

-----------------------------------------------------------------------------
(* TcpNetwork::Run. *)

\* m_Readfds holds what accept returned: with a wrong socket among them select
\* fails.
SelectFails == \E s \in Sessions : socket[s] = InvalidSocket

SelectNothing ==
    /\ pc = "select"
    /\ SelectFails
    /\ pc' = "packets"
    /\ UNCHANGED <<peers, pool, packetQueue, cursor, hungUp, logic>>

ServerSocketReady_ClientsFirst ==
    backLog # <<>> /\ \A s \in Sessions : ~ IsConnected(s)

\* The listening socket is readable: then the clients are not looked at.
ServerSocketReady == backLog # <<>>

SelectAccept ==
    /\ pc = "select"
    /\ ~ SelectFails
    /\ ServerSocketReady
    /\ pc' = "accept"
    /\ UNCHANGED <<peers, pool, packetQueue, cursor, hungUp, logic>>

SelectClients ==
    /\ pc = "select"
    /\ ~ SelectFails
    /\ ~ ServerSocketReady
    /\ pc' = "clients"
    /\ cursor' = 0
    /\ hungUp' = {s \in Sessions : socket[s] \in gone}
    /\ UNCHANGED <<peers, pool, packetQueue, logic>>

\* The queue after one read made n packets of what came.
Received(s, n) == packetQueue \o [i \in 1 .. n |-> Feed!Request(s, socket[s])]

\* The packets a read can make: none once the peer has gone.
PacketCounts(s) == IF socket[s] \in gone THEN {0} ELSE 0 .. MaxPacketsPerRead

\* The end of the connection is read, the socket is in the exception set, or
\* RecvBufferProcess finds a packet that cannot be one, maybe after others.
ReadFails(s) ==
    /\ IsConnected(s)
    /\ \E n \in PacketCounts(s) : CloseSession(s, Received(s, n))

\* Nothing to write, or a prefix is sent, or the send fails since the peer has
\* gone.
FlushSendBuff(s, q) ==
    \/ /\ packetQueue' = q
       /\ UNCHANGED pool
    \/ /\ \E k \in 1 .. Len(sendBuffer[s]) :
            sendBuffer' = [sendBuffer EXCEPT
                            ![s] = SubSeq(@, k + 1, Len(@))]
       /\ packetQueue' = q
       /\ UNCHANGED <<socket, poolIndex>>
    \/ /\ socket[s] \in gone
       /\ sendBuffer[s] # <<>>
       /\ CloseSession(s, q)

ReadAndWrite(s) ==
    /\ IsConnected(s)
    /\ s \notin hungUp
    /\ \E n \in PacketCounts(s) : FlushSendBuff(s, Received(s, n))

Skip(s) ==
    /\ ~ IsConnected(s)
    /\ UNCHANGED <<pool, packetQueue>>

Advance_StopsAtFree ==
    /\ cursor' = cursor + 1
    /\ pc' = IF IsConnected(cursor) /\ cursor + 1 < SessionCount
             THEN "clients" ELSE "packets"

\* The loop goes on to the next session whatever became of this one.
Advance ==
    /\ cursor' = cursor + 1
    /\ pc' = IF cursor + 1 < SessionCount THEN "clients" ELSE "packets"

RunCheckSelectClients ==
    /\ pc = "clients"
    /\ Skip(cursor) \/ ReadFails(cursor) \/ ReadAndWrite(cursor)
    /\ hungUp' = hungUp \ {cursor}
    /\ Advance
    /\ UNCHANGED <<peers, logic>>

-----------------------------------------------------------------------------
(* The logic: one packet after the other until the queue is empty. *)

SendData_NoLimit(to) ==
    sendBuffer' = [s \in Sessions |-> IF s \in to THEN Append(sendBuffer[s], owner[s])
                                     ELSE sendBuffer[s]]

\* What a handler sends to session s is meant for whom the logic takes s for.
\* It goes into the session's buffer, connected or not, while there is room.
SendData(to) ==
    sendBuffer' =
        [s \in Sessions |->
            IF s \in to /\ Len(sendBuffer[s]) < SendBufferSize
            THEN Append(sendBuffer[s], owner[s])
            ELSE sendBuffer[s]]

\* A request is answered, may log its session in, and may be passed on to other
\* users.
HandleRequest ==
    /\ pc = "packets"
    /\ packetQueue # <<>>
    /\ Head(packetQueue).kind = "request"
    /\ LET s == Head(packetQueue).session IN
        /\ users' \in {users, users \union {s}}
        /\ \E to \in SUBSET (users \union {s}) : SendData(to)
    /\ handled' = Head(packetQueue)
    /\ packetQueue' = Tail(packetQueue)
    /\ UNCHANGED <<peers, socket, poolIndex, loop, owner>>

\* The close of a user is told to other users; what NotifyChangedRoomInfo sends
\* goes to the closed session too, which is still in its lobby by then.
HandleClose ==
    /\ pc = "packets"
    /\ packetQueue # <<>>
    /\ Head(packetQueue).kind = "close"
    /\ LET s == Head(packetQueue).session IN
        /\ \E to \in IF s \in users THEN SUBSET users ELSE {{}} : SendData(to)
        /\ users' = users \ {s}
        /\ owner' = [owner EXCEPT ![s] = NoSocket]
    /\ handled' = Head(packetQueue)
    /\ packetQueue' = Tail(packetQueue)
    /\ UNCHANGED <<peers, socket, poolIndex, loop>>

Drained_OnePacket == TRUE

\* GetPacketInfo has no packet left.
Drained == packetQueue = <<>>

LeavePackets ==
    /\ pc = "packets"
    /\ Drained
    /\ pc' = "select"
    /\ cursor' = 0
    /\ handled' = Feed!Nothing
    /\ UNCHANGED <<peers, pool, packetQueue, hungUp, users, owner>>

-----------------------------------------------------------------------------
Peer == \E c \in Conns : Call(c) \/ HangUp(c)

Server ==
    \/ SelectNothing \/ SelectAccept \/ SelectClients
    \/ NewSession \/ RunCheckSelectClients
    \/ HandleRequest \/ HandleClose \/ LeavePackets

Next == Peer \/ Server

\* The loop of Main::Run never blocks: select returns after a millisecond.
Spec == Init /\ [][Next]_vars /\ WF_vars(Server)

-----------------------------------------------------------------------------
(* Properties. *)

\* The free list holds exactly the sessions without a socket, each once, and
\* no two sessions have the same connection: AllocClientSessionIndex and
\* ReleaseSessionIndex, through refusals, failed reads and failed sends.
PoolExact ==
    /\ IsInjective(poolIndex)
    /\ Range(poolIndex) = {s \in Sessions : socket[s] = NoSocket}
    /\ \A s, t \in Sessions : IsConnected(s) /\ socket[s] = socket[t] => s = t

\* The queue at every point of the loop: a packet came from the connection the
\* logic still takes its session for, a close is the last packet of its session,
\* which is free by then, no session's end is lost, and no packet
\* survives until the next select, when its session may be given away.
QueueSound ==
    /\ \A i \in DOMAIN packetQueue :
            packetQueue[i].conn = owner[packetQueue[i].session]
    /\ \A i, j \in DOMAIN packetQueue :
            packetQueue[i].kind = "close" /\ packetQueue[i].session = packetQueue[j].session
                => j <= i
    /\ \A s \in Sessions : IsConnected(s) => owner[s] = socket[s]
    /\ \A s \in Sessions :
            (~ IsConnected(s) /\ owner[s] # NoSocket)
                <=> \E i \in DOMAIN packetQueue : /\ packetQueue[i].kind = "close"
                                               /\ packetQueue[i].session = s
    /\ pc \in {"select", "accept"} => packetQueue = <<>>
    /\ \A s \in users : owner[s] # NoSocket

\* What a connection receives that was not meant for it comes before everything
\* that was: SendData appends to whatever the buffer of a free session holds, but
\* never for a former connection once the session has a new one.
StaleDataFirst ==
    \A s \in Sessions : IsConnected(s) =>
        \A i, j \in DOMAIN sendBuffer[s] :
            i < j /\ sendBuffer[s][i] = socket[s] => sendBuffer[s][j] = socket[s]

\* The network keeps its promise to the logic (the specification SessionFeed).
FeedSpec == Feed!Spec

\* No accept has failed: after one that did, select fails for ever.
Hears == [](~ SelectFails)

\* When no more connections come, the logic handles the end of every connection
\* whose peer has gone.  While they come, Run serves the listening socket only.
EndReported ==
    Hears /\ <>[](backLog = <<>>) =>
        \A c \in Conns : c \in gone \intersect Range(owner) ~> c \notin Range(owner)

\* Every connection that waits at the listening socket is accepted or refused,
\* however busy the clients are.
CallersServed ==
    Hears => \A c \in Conns : c \in Range(backLog) ~> c \notin Range(backLog)

\* A connection receives only what was meant for it: what the handlers say of
\* their notifications, which go to the users in a lobby or a room.  Violated.
OwnDataOnly ==
    \A s \in Sessions : IsConnected(s) =>
        \A i \in DOMAIN sendBuffer[s] : sendBuffer[s][i] = socket[s]

=============================================================================
