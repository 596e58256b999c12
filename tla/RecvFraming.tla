----------------------------- MODULE RecvFraming -----------------------------
(***************************************************************************)
(* How the chat server cuts what it receives into packets (RecvSocket,     *)
(* RecvBufferProcess and AddPacketQueue of ServerNetwork/TcpNetwork.cpp),  *)
(* for one session.  A byte is a cell <<packet, offset in the packet>>, so *)
(* that what the code takes for a header or a body can be compared with    *)
(* what was sent.  A packet is HeaderSize cells and a body.  TCP delivers  *)
(* the cells in order, in reads of any size.                               *)
(*                                                                         *)
(* One round on the session is: a read, a step per packet found, the end   *)
(* of RecvBufferProcess, and the handlers of the queued packets, which     *)
(* still point into the buffer.                                            *)
(***************************************************************************)
EXTENDS Integers, Sequences

CONSTANTS
    HeaderSize,   \* PACKET_HEADER_SIZE
    MaxPacket,    \* MAX_PACKET_SIZE
    BufferSize,   \* maxClientRecvBufferSize
    BodySizes,    \* sizes of bodies the peer may send
    MaxSent       \* bound: packets sent on one connection

ASSUME FramingAssumption ==
    /\ HeaderSize \in Nat \ {0}
    /\ MaxPacket \in Nat
    /\ HeaderSize <= MaxPacket
    /\ BufferSize \in Nat
    /\ 4 * MaxPacket <= BufferSize
    /\ BodySizes \subseteq Nat
    /\ MaxSent \in Nat

VARIABLES
    sizes,      \* body sizes of the packets sent on this connection
    wire,       \* cells sent and not yet read
    buf,        \* pRecvBuffer
    remaining,  \* RemainingDataSize; dataSize while the buffer is processed
    readPos,    \* the local variable of RecvBufferProcess
    queue,      \* the session's part of m_PacketQueue
    stage,      \* where the round is
    delivered,  \* history: the packets put into the queue on this connection
    aligned     \* history: no read so far has ended inside a packet or held a
                \* packet with a body and something behind it

vars == <<sizes, wire, buf, remaining, readPos, queue, stage, delivered, aligned>>

Stages == {"select", "parse", "handle", "garbled", "closed"}
Positions == 0 .. BufferSize - 1
Cells == Nat \X Nat
Junk == <<0, 0>>     \* no cell of this connection

Packet(i, size) == [k \in 1 .. HeaderSize + size |-> <<i, k - 1>>]

Init ==
    /\ sizes = <<>>
    /\ wire = <<>>
    /\ buf = [p \in Positions |-> Junk]
    /\ remaining = 0
    /\ readPos = 0
    /\ queue = <<>>
    /\ stage = "select"
    /\ delivered = <<>>
    /\ aligned = TRUE

\* The peer may send at any moment; what it sends while the server processes
\* the buffer is not looked at before the next read.
Send(size) ==
    /\ stage = "select"
    /\ Len(sizes) < MaxSent
    /\ sizes' = Append(sizes, size)
    /\ wire' = wire \o Packet(Len(sizes) + 1, size)
    /\ UNCHANGED <<buf, remaining, readPos, queue, stage, delivered, aligned>>

-----------------------------------------------------------------------------
\* RecvSocket

RecvPos == IF remaining > 0 THEN remaining ELSE 0

\* A negative rest stays and is added to the next size, a positive one does not.
Carried == IF remaining > 0 THEN 0 ELSE remaining

\* Variant: what is left in the buffer is counted.
Remaining_Accumulated(n) == remaining + n

Remaining(n) == Carried + n

\* The n cells end with a packet, and only the last of them has a body.
WholePackets(n) ==
    /\ wire[n][2] = HeaderSize + sizes[wire[n][1]] - 1
    /\ \A k \in 1 .. n : sizes[wire[k][1]] > 0 => wire[k][1] = wire[n][1]

RecvSocket(n) ==
    /\ stage = "select"
    /\ n <= Len(wire) /\ n <= 2 * MaxPacket
    /\ buf' = [p \in Positions |->
                 IF p \in RecvPos .. RecvPos + n - 1 THEN wire[p - RecvPos + 1] ELSE buf[p]]
    /\ wire' = SubSeq(wire, n + 1, Len(wire))
    /\ remaining' = Remaining(n)
    /\ readPos' = 0
    /\ stage' = "parse"
    /\ aligned' = (aligned /\ WholePackets(n))
    /\ UNCHANGED <<sizes, queue, delivered>>

\* WSAEWOULDBLOCK: no error, but the rest is forgotten.
RecvNothing ==
    /\ stage = "select"
    /\ remaining > 0
    /\ remaining' = 0
    /\ UNCHANGED <<sizes, wire, buf, readPos, queue, stage, delivered, aligned>>

-----------------------------------------------------------------------------
\* RecvBufferProcess

\* Variant: a header must be followed by something, as in the client.
HeaderFits_Strict == remaining - readPos > HeaderSize

HeaderFits == remaining - readPos >= HeaderSize

\* The packet whose header lies at readPos.
At == buf[readPos][1]
HeaderRead ==
    At > 0 /\ \A k \in 0 .. HeaderSize - 1 : buf[readPos + k] = <<At, k>>

BodyPos == readPos + HeaderSize
BodySize == sizes[At]

\* Variant: the test for an incomplete body the right way round.
HeldBack_Incomplete == BodySize > 0 /\ BodySize > remaining - BodyPos

HeldBack == BodySize > 0 /\ BodySize < remaining - BodyPos

CellsAt(pos, size) == [k \in 1 .. size |-> buf[pos + k - 1]]

\* AddPacketQueue, with a pointer to the body.
AddPacketQueue ==
    /\ stage = "parse" /\ HeaderFits /\ HeaderRead /\ ~HeldBack
    /\ BodySize <= MaxPacket
    /\ queue' = Append(queue, [size |-> BodySize, pos |-> BodyPos,
                               body |-> CellsAt(BodyPos, BodySize)])
    /\ readPos' = BodyPos + BodySize
    /\ delivered' = Append(delivered, At)
    /\ UNCHANGED <<sizes, wire, buf, remaining, stage, aligned>>

\* RECV_CLIENT_MAX_PACKET: the session is closed.
TooLarge ==
    /\ stage = "parse" /\ HeaderFits /\ HeaderRead /\ ~HeldBack
    /\ BodySize > MaxPacket
    /\ stage' = "closed"
    /\ UNCHANGED <<sizes, wire, buf, remaining, readPos, queue, delivered, aligned>>

\* Something else is taken for a header.  What it is taken for is undefined, so
\* the model ends here until the connection ends.
Garble ==
    /\ stage = "parse" /\ HeaderFits /\ ~HeaderRead
    /\ stage' = "garbled"
    /\ UNCHANGED <<sizes, wire, buf, remaining, readPos, queue, delivered, aligned>>

Rest == remaining - readPos

\* Variant: nothing is moved.
Moved_NotAtAll == buf

Moved == [p \in Positions |-> IF p < Rest THEN buf[readPos + p] ELSE buf[p]]

\* The rest is moved to the start of the buffer, before the handlers run.
EndProcess ==
    /\ stage = "parse"
    /\ HeaderFits => HeaderRead /\ HeldBack
    /\ remaining' = Rest
    /\ buf' = Moved
    /\ stage' = "handle"
    /\ UNCHANGED <<sizes, wire, readPos, queue, delivered, aligned>>

\* Variant: one packet a round.
Process_OnePacket ==
    /\ stage = "handle"
    /\ queue' = IF queue = <<>> THEN <<>> ELSE Tail(queue)
    /\ stage' = "select"
    /\ UNCHANGED <<sizes, wire, buf, remaining, readPos, delivered, aligned>>

\* Main::Run empties the queue.
Process ==
    /\ stage = "handle"
    /\ queue' = <<>>
    /\ stage' = "select"
    /\ UNCHANGED <<sizes, wire, buf, remaining, readPos, delivered, aligned>>

\* The session is closed and given to another connection, after the queue has
\* been emptied.  Clear forgets the rest but not what is in the buffer.
CloseSession ==
    /\ stage \in {"select", "garbled", "closed"}
    /\ sizes' = <<>> /\ wire' = <<>> /\ queue' = <<>> /\ delivered' = <<>>
    /\ buf' = [p \in Positions |-> Junk]
    /\ remaining' = 0 /\ readPos' = 0
    /\ stage' = "select"
    /\ aligned' = TRUE

Round == AddPacketQueue \/ TooLarge \/ Garble \/ EndProcess \/ Process

Next ==
    \/ \E size \in BodySizes : Send(size)
    \/ \E n \in 1 .. 2 * MaxPacket : RecvSocket(n)
    \/ RecvNothing
    \/ Round
    \/ CloseSession

Spec == Init /\ [][Next]_vars

-----------------------------------------------------------------------------

\* Every variable has its type; nothing is queued while the server waits.
TypeOK ==
    /\ sizes \in Seq(BodySizes)
    /\ wire \in Seq(Cells)
    /\ buf \in [Positions -> Cells]
    /\ remaining \in Int
    /\ readPos \in Nat
    /\ queue \in Seq([size : Nat, pos : Nat, body : Seq(Cells)])
    /\ stage \in Stages
    /\ delivered \in Seq(Nat)
    /\ aligned \in BOOLEAN
    /\ stage = "select" => queue = <<>>

\* Neither a read nor a body a handler looks at goes beyond the buffer
\* (TcpNetwork.cpp:302, 355), though the read is not bounded by what is left of
\* it: a rest never grows beyond one read.
InBounds ==
    /\ stage = "select" => RecvPos + 2 * MaxPacket <= BufferSize
    /\ \A k \in 1 .. Len(queue) : queue[k].pos + queue[k].size <= BufferSize

\* A handler sees the body as it was when the packet was queued: the rest moved to
\* the front (TcpNetwork.cpp:361-364) never lands on a queued body.  It is the
\* inverted test of line 341 that makes it so.
QueuedBodiesIntact ==
    \A k \in 1 .. Len(queue) : CellsAt(queue[k].pos, queue[k].size) = queue[k].body

\* As long as every read ends with a packet and holds at most one body, its last,
\* each packet that was read is delivered, complete and in order.
ExactWhileAligned ==
    aligned /\ stage \in {"select", "handle"} =>
        LET unread == IF wire = <<>> THEN Len(sizes) + 1 ELSE wire[1][1]
        IN /\ delivered = [i \in 1 .. unread - 1 |-> i]
           /\ remaining = 0
           /\ \A k \in 1 .. Len(queue) : \A j \in 1 .. queue[k].size :
                queue[k].body[j][2] = HeaderSize + j - 1

\* However the stream is cut, packets are lost but never repeated or reordered
\* before the server takes something else for a header.
InOrderOnce ==
    \A j, k \in 1 .. Len(delivered) : j < k => delivered[j] < delivered[k]

=============================================================================
