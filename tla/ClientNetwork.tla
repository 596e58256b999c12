---------------------------- MODULE ClientNetwork ----------------------------
(***************************************************************************)
(* The network side of the chat client (TcpNetwork.cpp of the client): the *)
(* receive thread, and the UI thread that connects, disconnects and takes  *)
(* a packet from the queue at every tick.  m_IsConnected and m_recvSize    *)
(* are plain members of both threads; only the queue has a mutex, which    *)
(* Clear does not take.  So every access to them is a step of its own, and *)
(* an update is a read and a write.                                        *)
(*                                                                         *)
(* A byte is a cell <<connection, packet, offset>>; what the server sends  *)
(* on a connection arrives in order.  A header that is none sends the      *)
(* thread "wild": what it does then is undefined.                          *)
(***************************************************************************)
EXTENDS Integers, SequencesExt

CONSTANTS
    HeaderSize,   \* PACKET_HEADER_SIZE
    ReadMax,      \* MAX_PACKET_SIZE, the most a read returns
    BufferSize,   \* MAX_SOCK_RECV_BUFFER
    BodySizes,    \* sizes of bodies the server sends
    MaxSent,      \* bound: packets on one connection
    MaxConns      \* bound: connections

ASSUME ClientAssumption ==
    /\ {HeaderSize, ReadMax, MaxSent, MaxConns} \subseteq Nat \ {0}
    /\ BodySizes \subseteq 1 .. ReadMax
    /\ BufferSize \in Nat /\ HeaderSize + ReadMax < BufferSize

VARIABLES
    ui,          \* the UI thread: "idle" or where it is in DisConnect
    connected,   \* m_IsConnected
    thread,      \* the receive thread: "none" if not joinable, or where it is
    recvSize,    \* m_recvSize
    buffer,      \* m_RecvBuffer
    queue,       \* m_PacketQueue
    got,         \* the thread's recvBuff
    reg,         \* what the thread has read of m_recvSize to update it
    dataSize,    \* its dataSize
    readPos,     \* its readPos
    wire,        \* cells that have arrived and were not read
    gone,        \* the server has closed the connection
    sent,        \* per connection, the sizes of the packets sent
    handled,     \* packets handled on this connection
    clean,       \* history: it began with nothing left, and no read ended in a body
    caught,      \* history: DisConnect zeroed m_recvSize in the middle of a round
    terminated   \* std::terminate, for a thread object assigned to while joinable

mem == <<connected, recvSize, buffer, queue>>
local == <<got, reg, dataSize, readPos>>
peer == <<wire, gone, sent>>
log == <<handled, clean, caught, terminated>>
vars == <<ui, thread, mem, local, peer, log>>

Conn == Len(sent)
Intact(c, p) == [conn |-> c, packet |-> p, intact |-> TRUE]

Init ==
    /\ ui = "idle" /\ connected = FALSE /\ thread = "none"
    /\ recvSize = 0 /\ buffer = [i \in 0 .. BufferSize - 1 |-> <<0, 0, 0>>]
    /\ queue = <<>>
    /\ got = <<>> /\ reg = 0 /\ dataSize = 0 /\ readPos = 0
    /\ wire = <<>> /\ gone = FALSE /\ sent = <<>>
    /\ handled = <<>> /\ clean = FALSE /\ caught = FALSE /\ terminated = FALSE

-----------------------------------------------------------------------------
(* The server *)

Send ==
    /\ ui = "idle" /\ connected /\ ~gone
    /\ Len(sent[Conn]) < MaxSent
    /\ \E n \in BodySizes :
         /\ sent' = [sent EXCEPT ![Conn] = Append(@, n)]
         /\ wire' = wire \o [o \in 1 .. HeaderSize + n |-> <<Conn, Len(sent[Conn]) + 1, o>>]
    /\ UNCHANGED <<ui, thread, mem, local, gone, log>>

ServerCloses ==
    /\ ui = "idle" /\ connected /\ ~gone
    /\ gone' = TRUE
    /\ UNCHANGED <<ui, thread, mem, local, wire, sent, log>>

-----------------------------------------------------------------------------
(* The UI thread *)

\* ConnectOrDisConnect, not connected; an attempt that fails changes nothing here.
ConnectTo ==
    /\ ui = "idle" /\ ~connected /\ Conn < MaxConns
    /\ connected' = TRUE
    /\ thread' = "test"
    /\ terminated' = (terminated \/ thread # "none")
    /\ sent' = Append(sent, <<>>) /\ wire' = <<>> /\ gone' = FALSE
    /\ handled' = <<>>
    /\ clean' = (recvSize = 0 /\ queue = <<>>)
    /\ UNCHANGED <<ui, recvSize, buffer, queue, local, caught>>

\* One packet per tick, to every scene.
PacketProcess ==
    /\ ui = "idle" /\ queue # <<>>
    /\ handled' = Append(handled, Head(queue))
    /\ queue' = Tail(queue)
    /\ UNCHANGED <<ui, thread, connected, recvSize, buffer, local, peer, clean,
                   caught, terminated>>

\* DisConnect: the socket first, then Clear, and the thread is waited for.
CloseSocket ==
    /\ ui = "idle" /\ connected
    /\ ui' = "closed"
    /\ wire' = <<>>
    /\ UNCHANGED <<thread, mem, local, gone, sent, log>>

\* Variant: Clear leaves m_IsConnected alone.
ClearConnected_Kept ==
    /\ ui = "closed" /\ ui' = "notConnected"
    /\ UNCHANGED <<thread, mem, local, peer, log>>

ClearConnected ==
    /\ ui = "closed" /\ ui' = "notConnected"
    /\ connected' = FALSE
    /\ UNCHANGED <<thread, recvSize, buffer, queue, local, peer, log>>

\* Where the thread has yet to write m_recvSize, or has a round's size in hand.
InRound == {"load", "store", "parse", "loadRest", "storeRest"}

\* Variant: Clear leaves m_recvSize alone.
ClearSize_Kept ==
    /\ ui = "notConnected" /\ ui' = "empty"
    /\ caught' = (thread \in InRound)
    /\ UNCHANGED <<thread, mem, local, peer, handled, clean, terminated>>

ClearSize ==
    /\ ui = "notConnected" /\ ui' = "empty"
    /\ recvSize' = 0
    /\ caught' = (thread \in InRound)
    /\ UNCHANGED <<thread, connected, buffer, queue, local, peer, handled, clean,
                   terminated>>

ClearQueue ==
    /\ ui = "empty" /\ ui' = "join"
    /\ queue' = <<>>
    /\ UNCHANGED <<thread, connected, recvSize, buffer, local, peer, log>>

Join ==
    /\ ui = "join" /\ thread = "ended"
    /\ ui' = "idle" /\ thread' = "none"
    /\ UNCHANGED <<mem, local, peer, log>>

DisConnectStep == ClearConnected \/ ClearSize \/ ClearQueue \/ Join

-----------------------------------------------------------------------------
(* The receive thread *)

Update ==
    /\ thread = "test"
    /\ thread' = IF connected THEN "recv" ELSE "ended"
    /\ UNCHANGED <<ui, mem, local, peer, log>>

\* No read ends inside a body when the next cell is none of the later cells of one.
EndsWell(rest) == rest = <<>> \/ Head(rest)[3] <= HeaderSize + 1

\* Variant: a read of as much as m_RecvBuffer holds, more than recvBuff.
RecvSome_BufferSize ==
    /\ thread = "recv" /\ wire # <<>>
    /\ \E n \in 1 .. BufferSize :
         /\ n <= Len(wire)
         /\ got' = SubSeq(wire, 1, n)
         /\ wire' = SubSeq(wire, n + 1, Len(wire))
         /\ clean' = (clean /\ EndsWell(wire'))
    /\ thread' = "load"
    /\ UNCHANGED <<ui, mem, reg, dataSize, readPos, gone, sent, handled, caught,
                   terminated>>

RecvSome ==
    /\ thread = "recv" /\ wire # <<>>
    /\ \E n \in 1 .. ReadMax :
         /\ n <= Len(wire)
         /\ got' = SubSeq(wire, 1, n)
         /\ wire' = SubSeq(wire, n + 1, Len(wire))
         /\ clean' = (clean /\ EndsWell(wire'))
    /\ thread' = "load"
    /\ UNCHANGED <<ui, mem, reg, dataSize, readPos, gone, sent, handled, caught,
                   terminated>>

\* Variant: the thread gives the connection up when the server has.
RecvNothing_GiveUp ==
    /\ thread = "recv" /\ wire = <<>>
    /\ thread' = "size"
    /\ connected' = (connected /\ ~gone)
    /\ UNCHANGED <<ui, recvSize, buffer, queue, local, peer, log>>

\* Nothing arrived, the socket is closed, or the server has closed: all the same.
RecvNothing ==
    /\ thread = "recv" /\ wire = <<>>
    /\ thread' = "size"
    /\ UNCHANGED <<ui, mem, local, peer, log>>

\* A size below zero, which Clear can leave behind, is an address before the buffer.
LoadSize ==
    /\ thread = "load"
    /\ reg' = recvSize
    /\ thread' = IF recvSize + Len(got) >= BufferSize THEN "size"
                 ELSE IF recvSize < 0 THEN "wild" ELSE "store"
    /\ UNCHANGED <<ui, mem, got, dataSize, readPos, peer, log>>

StoreData ==
    /\ thread = "store"
    /\ buffer' = [i \in DOMAIN buffer |->
                    IF i - reg \in 0 .. Len(got) - 1 THEN got[i - reg + 1] ELSE buffer[i]]
    /\ recvSize' = reg + Len(got)
    /\ thread' = "size"
    /\ UNCHANGED <<ui, connected, queue, local, peer, log>>

ReadSize ==
    /\ thread = "size"
    /\ dataSize' = recvSize
    /\ readPos' = 0
    /\ thread' = "parse"
    /\ UNCHANGED <<ui, mem, got, reg, peer, log>>

HeaderFits == dataSize - readPos > HeaderSize
IsHeader == \A k \in 1 .. HeaderSize :
    buffer[readPos + k - 1] = <<buffer[readPos][1], buffer[readPos][2], k>>
BodyPos == readPos + HeaderSize
BodySize == sent[buffer[readPos][1]][buffer[readPos][2]]

\* Variant: a body that ends with the data is not taken for complete.
BodyFits_Strict == BodySize < dataSize - BodyPos
BodyFits == BodySize <= dataSize - BodyPos

\* AddPacketQueue, with a copy of the body.
Found ==
    LET c == buffer[readPos][1]
        p == buffer[readPos][2]
    IN [conn |-> c, packet |-> p,
        intact |-> \A k \in 1 .. BodySize : buffer[BodyPos + k - 1] = <<c, p, HeaderSize + k>>]

\* The header of a body that is not complete is read and not put back.
Parse ==
    /\ thread = "parse"
    /\ IF ~HeaderFits
       THEN thread' = "loadRest" /\ UNCHANGED <<queue, readPos>>
       ELSE IF ~IsHeader
       THEN thread' = "wild" /\ UNCHANGED <<queue, readPos>>
       ELSE IF ~BodyFits
       THEN thread' = "loadRest" /\ readPos' = BodyPos /\ UNCHANGED queue
       ELSE /\ queue' = Append(queue, Found)
            /\ readPos' = BodyPos + BodySize
            /\ UNCHANGED thread
    /\ UNCHANGED <<ui, connected, recvSize, buffer, got, reg, dataSize, peer, log>>

LoadRest ==
    /\ thread = "loadRest"
    /\ reg' = recvSize
    /\ thread' = "storeRest"
    /\ UNCHANGED <<ui, mem, got, dataSize, readPos, peer, log>>

StoreRest ==
    /\ thread = "storeRest"
    /\ recvSize' = reg - readPos
    /\ thread' = "shift"
    /\ UNCHANGED <<ui, connected, buffer, queue, local, peer, log>>

\* The end of the round, and of its locals.
Shift ==
    /\ thread = "shift"
    /\ buffer' = [i \in DOMAIN buffer |->
                    IF i < recvSize THEN buffer[i + readPos] ELSE buffer[i]]
    /\ thread' = "test"
    /\ got' = <<>> /\ reg' = 0 /\ dataSize' = 0 /\ readPos' = 0
    /\ UNCHANGED <<ui, connected, recvSize, queue, peer, log>>

ThreadStep ==
    \/ Update \/ RecvSome \/ RecvNothing \/ LoadSize \/ StoreData
    \/ ReadSize \/ Parse \/ LoadRest \/ StoreRest \/ Shift

-----------------------------------------------------------------------------

Next ==
    \/ Send \/ ServerCloses
    \/ ConnectTo \/ PacketProcess \/ CloseSocket \/ DisConnectStep
    \/ ThreadStep

\* Both threads run, and the timer ticks.
Spec ==
    /\ Init /\ [][Next]_vars
    /\ WF_vars(ThreadStep) /\ WF_vars(DisConnectStep) /\ WF_vars(PacketProcess)

-----------------------------------------------------------------------------

\* Every variable has its type; positions stay in the buffer.
TypeOK ==
    /\ ui \in {"idle", "closed", "notConnected", "empty", "join"}
    /\ thread \in InRound \union {"none", "test", "recv", "size", "shift", "ended", "wild"}
    /\ {connected, gone, clean, caught, terminated} \subseteq BOOLEAN
    /\ {recvSize, reg, dataSize} \subseteq -BufferSize .. BufferSize
    /\ readPos \in 0 .. BufferSize
    /\ Len(got) <= ReadMax  \* recvBuff
    /\ sent \in Seq(Seq(BodySizes)) /\ Conn <= MaxConns

\* ConnectTo starts a thread only after the last has been joined
\* (TcpNetwork.cpp:44, 58): no thread object is lost, nobody terminates the
\* program, and there is never a second reader of the socket.
NeverTerminated == ~terminated

\* DisConnect leaves packets or a size behind for the next connection only if it
\* zeroed the size between the thread's receiving and its writing it back
\* (TcpNetwork.cpp:55, 149, 180).
CleanStart == ui = "idle" /\ ~connected => caught \/ (recvSize = 0 /\ queue = <<>>)

\* On a connection that began clean, and as long as no read ends inside a body
\* (TcpNetwork.cpp:165), what the scenes have got and will get is what the server
\* sent on it, whole and in order, and every header is one.
ExactWhileClean ==
    clean /\ connected /\ ui = "idle" =>
        /\ thread # "wild"
        /\ LET seen == handled \o queue
           IN Len(seen) <= Len(sent[Conn]) /\ \A p \in DOMAIN seen : seen[p] = Intact(Conn, p)

\* DisConnect comes back: the thread it waits for ends (TcpNetwork.cpp:59, 79),
\* unless it ran wild before.
JoinReturns == (ui = "join") ~> (ui = "idle" \/ thread = "wild")

\* What is sent on a clean connection is handled, even if it came cut in a header
\* or the server has closed (TcpNetwork.cpp:126), unless the user disconnects.
AllHandled ==
    (clean /\ connected /\ Len(handled) < Len(sent[Conn]))
        ~> (~clean \/ ui # "idle" \/ Len(handled) = Len(sent[Conn]))

=============================================================================
