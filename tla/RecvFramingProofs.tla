-------------------------- MODULE RecvFramingProofs --------------------------
(***************************************************************************)
(* Proofs about RecvFraming, for headers, packets, buffers and numbers of  *)
(* packets of any size: what the buffer holds stays within it and intact,  *)
(* what is delivered is in order, and what is lost, if anything, is lost   *)
(* by a read that is cut or holds a body before its end.                   *)
(***************************************************************************)
EXTENDS RecvFraming, SequenceTheorems, TLAPS

\* A cell names a packet that has been sent, or none.
CellsSound ==
    /\ \A p \in Positions : buf[p][1] <= Len(sizes)
    /\ \A k \in 1 .. Len(wire) : wire[k][1] <= Len(sizes)

\* What is left in the buffer fits into one read, and a queued body into the
\* buffer behind it.
RestSmall ==
    /\ remaining <= 2 * MaxPacket
    /\ \A k \in 1 .. Len(queue) : queue[k].pos + queue[k].size <= 3 * MaxPacket

\* A queued packet with a body is where the processing of the buffer ends, since
\* one with something behind it is held back: nothing is left to be moved.
BodyIsLast ==
    stage = "parse" =>
        \A k \in 1 .. Len(queue) : queue[k].size > 0 => readPos >= remaining

IInv == TypeOK /\ CellsSound /\ RestSmall /\ BodyIsLast /\ QueuedBodiesIntact

\* Of two cells of the stream, the one sent first.
Before(c, d) == c[1] < d[1] \/ (c[1] = d[1] /\ c[2] < d[2])

\* What of the buffer has been read and not been looked at.
Live == (IF stage \in {"select", "handle"} THEN 0 ELSE readPos) .. remaining - 1

\* What is lost is lost from the stream: what is left of it in the buffer, and
\* behind it on the wire, is in the order of sending and comes behind the first
\* cell of every packet delivered.
LeftInOrder ==
    /\ \A p, q \in Live : p < q => Before(buf[p], buf[q])
    /\ \A k, m \in 1 .. Len(wire) : k < m => Before(wire[k], wire[m])
    /\ \A p \in Live, k \in 1 .. Len(wire) : Before(buf[p], wire[k])

DeliveredBefore ==
    \A j \in 1 .. Len(delivered) :
        /\ delivered[j] <= Len(sizes)
        /\ \A p \in Live : Before(<<delivered[j], 0>>, buf[p])
        /\ \A k \in 1 .. Len(wire) : Before(<<delivered[j], 0>>, wire[k])

OrderInv == LeftInOrder /\ DeliveredBefore /\ InOrderOnce

\* The position of the last cell of a packet that has cell c at position k.
EndOf(c, k) == k + HeaderSize + sizes[c[1]] - 1 - c[2]

\* In f, read up to position `to`, the packet of the cell at position k is whole
\* from that cell on, and the next packet follows it.
Placed(f, k, to) ==
    LET i == f[k][1]
        e == EndOf(f[k], k)
    IN /\ i \in 1 .. Len(sizes) /\ f[k][2] \in 0 .. HeaderSize + sizes[i] - 1
       /\ e <= to
       /\ \A m \in k .. e : f[m] = <<i, f[k][2] + m - k>>
       /\ \A m \in e + 1 .. to : f[m][1] > i
       /\ e < to => f[e + 1] = <<i + 1, 0>>

\* From position `from` to position `to`, f holds a piece of what was sent, in
\* which no packet is cut at its end.
Stream(f, from, to) == \A k \in from .. to : Placed(f, k, to)

\* The wire holds the end of what was sent.
WireInv ==
    /\ Stream(wire, 1, Len(wire))
    /\ wire # <<>> => wire[Len(wire)][1] = Len(sizes)

\* The first packet that was not read.
Unread == IF wire = <<>> THEN Len(sizes) + 1 ELSE wire[1][1]

UpTo(n) == [i \in 1 .. n - 1 |-> i]

\* Between two rounds the stream is cut between two packets.
BetweenRounds ==
    /\ remaining = 0
    /\ delivered = UpTo(Unread)

\* Within a round the buffer holds whole packets, of which the last alone has a
\* body, and the processing is at the start of one or at the end.
WithinRound ==
    /\ readPos \in 0 .. remaining
    /\ remaining > 0
    /\ Stream(buf, 0, remaining - 1)
    /\ Unread = buf[remaining - 1][1] + 1
    /\ \A p \in 0 .. remaining - 1 :
         sizes[buf[p][1]] > 0 => EndOf(buf[p], p) = remaining - 1
    /\ readPos < remaining => buf[readPos][2] = 0
    /\ delivered = UpTo(IF readPos < remaining THEN buf[readPos][1] ELSE Unread)

BodiesExact ==
    \A k \in 1 .. Len(queue) : \A j \in 1 .. queue[k].size :
        queue[k].body[j][2] = HeaderSize + j - 1

AlignedInv ==
    aligned =>
        /\ wire # <<>> => wire[1][2] = 0
        /\ stage \in {"select", "handle"} => BetweenRounds
        /\ stage = "parse" => WithinRound
        /\ BodiesExact

-----------------------------------------------------------------------------

Queued == [size : Nat, pos : Nat, body : Seq(Cells)]

LEMMA EmptyQueue ==
    ASSUME queue' = <<>>
    PROVE  /\ \A k \in 1 .. Len(queue') : FALSE
           /\ queue' \in Seq(Queued)
OBVIOUS

LEMMA QueueEntries ==
    ASSUME IInv PROVE \A k \in 1 .. Len(queue) : queue[k] \in Queued
<1>1. queue \in Seq(Queued)  BY DEF IInv, TypeOK, Queued
<1> QED  BY <1>1

LEMMA JunkIsCell == Junk \in Cells /\ Junk[1] = 0
BY DEF Junk, Cells

LEMMA InitHolds == Init => IInv
<1> SUFFICES ASSUME Init PROVE IInv
  OBVIOUS
<1>1. /\ sizes \in Seq(BodySizes) /\ wire \in Seq(Cells)
      /\ queue \in Seq([size : Nat, pos : Nat, body : Seq(Cells)])
      /\ delivered \in Seq(Nat)
      /\ Len(queue) = 0 /\ Len(wire) = 0 /\ Len(sizes) = 0
  BY DEF Init
<1>2. buf \in [Positions -> Cells]  BY JunkIsCell DEF Init
<1>3. TypeOK  BY <1>1, <1>2 DEF Init, TypeOK, Stages
<1>4. CellsSound
  <2>1. \A p \in Positions : buf[p][1] <= Len(sizes)
    BY <1>1, JunkIsCell DEF Init
  <2> QED  BY <1>1, <2>1 DEF CellsSound
<1>5. RestSmall  BY <1>1, FramingAssumption DEF Init, RestSmall
<1>6. BodyIsLast /\ QueuedBodiesIntact
  BY <1>1 DEF Init, BodyIsLast, QueuedBodiesIntact
<1> QED  BY <1>3, <1>4, <1>5, <1>6 DEF IInv

\* The steps that leave the queue empty: what is to be shown of them.
LEMMA WithoutQueue ==
    ASSUME TypeOK', CellsSound', queue' = <<>>, remaining' <= 2 * MaxPacket
    PROVE  IInv'
<1>1. Len(queue') = 0  OBVIOUS
<1>2. RestSmall'  BY <1>1 DEF RestSmall
<1>3. BodyIsLast'  BY <1>1 DEF BodyIsLast
<1>4. QueuedBodiesIntact'  BY <1>1 DEF QueuedBodiesIntact
<1> QED  BY <1>2, <1>3, <1>4 DEF IInv

LEMMA PacketCells ==
    ASSUME NEW i \in Nat, NEW size \in Nat
    PROVE  /\ Packet(i, size) \in Seq(Cells)
           /\ \A k \in 1 .. Len(Packet(i, size)) : Packet(i, size)[k][1] = i
<1>1. HeaderSize + size \in Nat  BY FramingAssumption
<1>2. \A k \in 1 .. HeaderSize + size : <<i, k - 1>> \in Cells /\ <<i, k - 1>>[1] = i
  BY <1>1 DEF Cells
<1>3. Packet(i, size) \in [1 .. HeaderSize + size -> Cells]
  BY <1>2 DEF Packet
<1>4. Packet(i, size) \in Seq(Cells) /\ Len(Packet(i, size)) = HeaderSize + size
  BY <1>1, <1>3
<1> QED  BY <1>2, <1>4 DEF Packet

LEMMA SendKeeps == ASSUME IInv, NEW size \in BodySizes, Send(size) PROVE IInv'
<1> DEFINE n == Len(sizes)
           packet == Packet(n + 1, size)
<1>1. n \in Nat /\ size \in Nat /\ sizes \in Seq(BodySizes) /\ wire \in Seq(Cells)
  BY FramingAssumption DEF IInv, TypeOK
<1>2. /\ sizes' = Append(sizes, size) /\ wire' = wire \o packet
      /\ buf' = buf /\ remaining' = remaining /\ readPos' = readPos
      /\ queue' = queue /\ stage' = stage /\ delivered' = delivered /\ aligned' = aligned
      /\ queue = <<>>
  BY DEF Send, IInv, TypeOK
<1>3. packet \in Seq(Cells) /\ \A k \in 1 .. Len(packet) : packet[k][1] = n + 1
  <2>1. n + 1 \in Nat  BY <1>1
  <2> HIDE DEF n
  <2> QED  BY <1>1, <2>1, PacketCells
<1> HIDE DEF packet
<1>4. sizes' \in Seq(BodySizes) /\ Len(sizes') = n + 1
  BY <1>1, <1>2
<1>5. wire' \in Seq(Cells) /\ Len(wire') = Len(wire) + Len(packet)
      /\ \A k \in 1 .. Len(wire') :
           wire'[k] = IF k <= Len(wire) THEN wire[k] ELSE packet[k - Len(wire)]
  BY <1>1, <1>2, <1>3
<1>6. TypeOK'  BY <1>2, <1>4, <1>5, Zenon DEF IInv, TypeOK
<1>7. CellsSound'
  <2>1. \A p \in Positions : buf'[p][1] <= Len(sizes')
    <3> SUFFICES ASSUME NEW p \in Positions PROVE buf'[p][1] <= Len(sizes')
      OBVIOUS
    <3>1. buf[p] \in Cells /\ buf[p][1] <= n  BY DEF IInv, TypeOK, CellsSound
    <3>2. buf[p][1] \in Nat  BY <3>1 DEF Cells
    <3> QED  BY <1>1, <1>2, <1>4, <3>1, <3>2
  <2>2. \A k \in 1 .. Len(wire') : wire'[k][1] <= Len(sizes')
    <3> SUFFICES ASSUME NEW k \in 1 .. Len(wire') PROVE wire'[k][1] <= n + 1
      BY <1>4
    <3>1. CASE k <= Len(wire)
      <4>1. k \in 1 .. Len(wire)  BY <1>1, <1>5, <3>1
      <4>2. wire[k] \in Cells /\ wire[k][1] <= n  BY <4>1, <1>1 DEF IInv, CellsSound
      <4>3. wire[k][1] \in Nat  BY <4>2 DEF Cells
      <4> QED  BY <1>1, <1>5, <3>1, <4>2, <4>3
    <3>2. CASE ~(k <= Len(wire))
      <4>1. k - Len(wire) \in 1 .. Len(packet)  BY <1>1, <1>3, <1>5, <3>2
      <4>2. wire'[k] = packet[k - Len(wire)]  BY <1>5, <3>2
      <4>3. wire'[k][1] = n + 1  BY <1>3, <4>1, <4>2
      <4> QED  BY <1>1, <4>3
    <3> QED  BY <3>1, <3>2
  <2> QED  BY <2>1, <2>2 DEF CellsSound
<1> QED  BY <1>2, <1>6, <1>7, WithoutQueue DEF IInv, RestSmall

LEMMA RecvSocketKeeps ==
    ASSUME IInv, NEW n \in 1 .. 2 * MaxPacket, RecvSocket(n) PROVE IInv'
<1>1. /\ stage = "select" /\ n <= Len(wire)
      /\ wire' = SubSeq(wire, n + 1, Len(wire))
      /\ remaining' = Carried + n /\ readPos' = 0 /\ stage' = "parse"
      /\ aligned' = (aligned /\ WholePackets(n))
      /\ sizes' = sizes /\ queue' = queue /\ delivered' = delivered /\ queue = <<>>
  BY DEF RecvSocket, Remaining, IInv, TypeOK
<1>2. /\ MaxPacket \in Nat /\ n \in Nat /\ wire \in Seq(Cells) /\ remaining \in Int
      /\ Len(wire) \in Nat /\ Len(sizes) \in Nat
  BY FramingAssumption DEF IInv, TypeOK
<1>3. RecvPos \in Nat /\ Carried \in Int /\ Carried <= 0
  BY <1>2 DEF RecvPos, Carried
<1>4. remaining' \in Int /\ remaining' <= 2 * MaxPacket  BY <1>1, <1>2, <1>3
<1>5. \A p \in Positions :
        buf'[p] = IF p \in RecvPos .. RecvPos + n - 1 THEN wire[p - RecvPos + 1] ELSE buf[p]
  BY DEF RecvSocket
<1>6. \A p \in Positions : buf'[p] \in Cells /\ buf'[p][1] <= Len(sizes)
  <2> SUFFICES ASSUME NEW p \in Positions
               PROVE  buf'[p] \in Cells /\ buf'[p][1] <= Len(sizes)
    OBVIOUS
  <2>1. CASE p \in RecvPos .. RecvPos + n - 1
    <3>1. p - RecvPos + 1 \in 1 .. Len(wire)  BY <1>1, <1>2, <1>3, <2>1
    <3>2. buf'[p] = wire[p - RecvPos + 1]  BY <1>5, <2>1
    <3> QED  BY <1>2, <3>1, <3>2 DEF IInv, CellsSound
  <2>2. CASE p \notin RecvPos .. RecvPos + n - 1
    BY <1>5, <2>2 DEF IInv, TypeOK, CellsSound
  <2> QED  BY <2>1, <2>2
<1>7. buf' \in [Positions -> Cells]  BY <1>6 DEF RecvSocket
<1>8. /\ wire' \in Seq(Cells)
      /\ \A k \in 1 .. Len(wire') : wire'[k] = wire[k + n] /\ k + n \in 1 .. Len(wire)
  BY <1>1, <1>2
<1>9. TypeOK'
  <2>1. aligned' \in BOOLEAN  BY <1>1
  <2> QED
    BY <1>1, <1>4, <1>7, <1>8, <2>1 DEF IInv, TypeOK, Stages
<1>10. CellsSound'  BY <1>1, <1>6, <1>8 DEF IInv, CellsSound
<1> QED  BY <1>1, <1>4, <1>9, <1>10, WithoutQueue

LEMMA RecvNothingKeeps == ASSUME IInv, RecvNothing PROVE IInv'
<1>1. /\ remaining' = 0 /\ queue = <<>> /\ queue' = queue /\ stage' = stage
      /\ sizes' = sizes /\ wire' = wire /\ buf' = buf /\ readPos' = readPos
      /\ delivered' = delivered /\ aligned' = aligned
  BY DEF RecvNothing, IInv, TypeOK
<1>2. TypeOK' /\ CellsSound'  BY <1>1 DEF IInv, TypeOK, CellsSound
<1> QED  BY <1>1, <1>2, WithoutQueue, FramingAssumption

\* What a complete header says.
LEMMA HeaderFacts ==
    ASSUME IInv, stage = "parse", HeaderFits, HeaderRead
    PROVE  /\ BodyPos \in Nat /\ BodyPos <= remaining
           /\ BodySize \in Nat
           /\ At \in Nat
<1>1. /\ HeaderSize \in Nat \ {0} /\ readPos \in Nat /\ remaining \in Int
      /\ remaining <= 2 * MaxPacket /\ MaxPacket \in Nat /\ BufferSize \in Nat
      /\ 4 * MaxPacket <= BufferSize
  BY FramingAssumption DEF IInv, TypeOK, RestSmall
<1>2. BodyPos \in Nat /\ BodyPos <= remaining /\ readPos \in Positions
  BY <1>1 DEF HeaderFits, BodyPos, Positions
<1>3. buf[readPos] \in Cells /\ At <= Len(sizes) /\ At > 0
  BY <1>2 DEF IInv, TypeOK, CellsSound, At, HeaderRead
<1>4. At \in Nat  BY <1>3 DEF Cells, At
<1>5. sizes \in Seq(BodySizes)  BY DEF IInv, TypeOK
<1>6. sizes[At] \in BodySizes  BY <1>3, <1>4, <1>5
<1> QED  BY <1>2, <1>4, <1>6, FramingAssumption DEF BodySize

LEMMA AddPacketQueueKeeps == ASSUME IInv, AddPacketQueue PROVE IInv'
<1> DEFINE q == [size |-> BodySize, pos |-> BodyPos, body |-> CellsAt(BodyPos, BodySize)]
<1>1. /\ stage = "parse" /\ HeaderFits /\ HeaderRead /\ ~HeldBack
      /\ BodySize <= MaxPacket
      /\ queue' = Append(queue, q)
      /\ readPos' = BodyPos + BodySize /\ delivered' = Append(delivered, At)
      /\ sizes' = sizes /\ wire' = wire /\ buf' = buf /\ remaining' = remaining
      /\ stage' = stage /\ aligned' = aligned
  BY DEF AddPacketQueue
<1>2. /\ BodyPos \in Nat /\ BodyPos <= remaining /\ BodySize \in Nat /\ At \in Nat
  BY <1>1, HeaderFacts
<1>3. /\ MaxPacket \in Nat /\ BufferSize \in Nat /\ 4 * MaxPacket <= BufferSize
      /\ remaining \in Int /\ remaining <= 2 * MaxPacket /\ readPos \in Nat
  BY FramingAssumption DEF IInv, TypeOK, RestSmall
<1>4. BodyPos + BodySize <= 3 * MaxPacket /\ BodyPos + BodySize <= BufferSize
  BY <1>1, <1>2, <1>3
<1>5. CellsAt(BodyPos, BodySize) \in Seq(Cells)
  <2>1. \A k \in 1 .. BodySize : BodyPos + k - 1 \in Positions
    BY <1>2, <1>3, <1>4 DEF Positions
  <2>2. CellsAt(BodyPos, BodySize) \in [1 .. BodySize -> Cells]
    BY <2>1 DEF CellsAt, IInv, TypeOK
  <2> QED  BY <1>2, <2>2
<1>6. q \in Queued  BY <1>2, <1>5 DEF Queued
<1>7. q.size = BodySize /\ q.pos = BodyPos /\ q.body = CellsAt(BodyPos, BodySize)
  OBVIOUS
<1> HIDE DEF q
<1>8. queue \in Seq(Queued)  BY DEF IInv, TypeOK, Queued
<1>9. /\ queue' \in Seq(Queued) /\ Len(queue') = Len(queue) + 1 /\ Len(queue) \in Nat
      /\ \A k \in 1 .. Len(queue') :
           queue'[k] = IF k <= Len(queue) THEN queue[k] ELSE q
  BY <1>1, <1>6, <1>8
<1>10. \A k \in 1 .. Len(queue') :
         queue'[k] = q \/ (k \in 1 .. Len(queue) /\ queue'[k] = queue[k])
  BY <1>9
<1>11. TypeOK'
  <2>1. delivered' \in Seq(Nat)  BY <1>1, <1>2 DEF IInv, TypeOK
  <2>2. readPos' \in Nat  BY <1>1, <1>2
  <2>3. stage' # "select"  BY <1>1
  <2> QED  BY <1>1, <1>9, <2>1, <2>2, <2>3, Zenon DEF IInv, TypeOK, Queued
<1>12. CellsSound'  BY <1>1 DEF IInv, CellsSound
<1>13. RestSmall'
  <2>1. \A k \in 1 .. Len(queue') : queue'[k].pos + queue'[k].size <= 3 * MaxPacket
    BY <1>4, <1>7, <1>10 DEF IInv, RestSmall
  <2> QED  BY <1>1, <1>3, <2>1 DEF RestSmall
<1>14. BodyIsLast'
  <2>1. \A k \in 1 .. Len(queue) : ~(queue[k].size > 0)
    <3>1. readPos < remaining
      BY <1>1, <1>3, FramingAssumption DEF HeaderFits
    <3> QED  BY <1>1, <1>3, <3>1 DEF IInv, BodyIsLast
  <2>2. q.size > 0 => readPos' >= remaining'
    BY <1>1, <1>2, <1>3, <1>7 DEF HeldBack
  <2>3. \A k \in 1 .. Len(queue') : queue'[k].size > 0 => readPos' >= remaining'
    BY <1>10, <2>1, <2>2
  <2> QED  BY <2>3 DEF BodyIsLast
<1>15. QueuedBodiesIntact'
  <2>1. \A pos, size : CellsAt(pos, size)' = CellsAt(pos, size)
    BY <1>1 DEF CellsAt
  <2>2. \A k \in 1 .. Len(queue') :
          CellsAt(queue'[k].pos, queue'[k].size) = queue'[k].body
    BY <1>7, <1>10 DEF IInv, QueuedBodiesIntact
  <2> QED  BY <1>1, <2>2 DEF QueuedBodiesIntact, CellsAt
<1> QED  BY <1>11, <1>12, <1>13, <1>14, <1>15 DEF IInv

\* Nothing is moved over a queued body: where one is queued nothing is left.
LEMMA EndProcessKeeps == ASSUME IInv, EndProcess PROVE IInv'
<1>1. /\ stage = "parse" /\ remaining' = Rest /\ stage' = "handle" /\ buf' = Moved
      /\ sizes' = sizes /\ wire' = wire /\ readPos' = readPos /\ queue' = queue
      /\ delivered' = delivered /\ aligned' = aligned
  BY DEF EndProcess
<1>2. /\ MaxPacket \in Nat /\ BufferSize \in Nat /\ 4 * MaxPacket <= BufferSize
      /\ remaining \in Int /\ remaining <= 2 * MaxPacket /\ readPos \in Nat
  BY FramingAssumption DEF IInv, TypeOK, RestSmall
<1>3. Rest \in Int /\ Rest <= 2 * MaxPacket  BY <1>2 DEF Rest
<1>4. \A p \in Positions : p < Rest => readPos + p \in Positions
  BY <1>2 DEF Rest, Positions
<1>5. \A p \in Positions : \E o \in Positions : buf'[p] = buf[o]
  BY <1>1, <1>4 DEF Moved
<1>6. buf' \in [Positions -> Cells]
  BY <1>1, <1>5 DEF Moved, IInv, TypeOK
<1>7. TypeOK'  BY <1>1, <1>3, <1>6 DEF IInv, TypeOK, Stages
<1>8. CellsSound'  BY <1>1, <1>5 DEF IInv, CellsSound
<1>9. RestSmall'  BY <1>1, <1>3 DEF IInv, RestSmall
<1>10. BodyIsLast'  BY <1>1 DEF BodyIsLast
<1>11. QueuedBodiesIntact'
  <2> SUFFICES ASSUME NEW k \in 1 .. Len(queue)
               PROVE  CellsAt(queue[k].pos, queue[k].size)' = queue[k].body
    BY <1>1 DEF QueuedBodiesIntact
  <2>1. /\ queue[k].size \in Nat /\ queue[k].pos \in Nat
        /\ queue[k].pos + queue[k].size <= BufferSize
    <3>1. queue[k] \in Queued  BY QueueEntries DEF IInv
    <3>2. queue[k].pos + queue[k].size <= 3 * MaxPacket  BY DEF IInv, RestSmall
    <3> QED  BY <1>2, <3>1, <3>2 DEF Queued
  <2>2. CellsAt(queue[k].pos, queue[k].size) = queue[k].body
    BY DEF IInv, QueuedBodiesIntact
  <2>3. \A j \in 1 .. queue[k].size :
          buf'[queue[k].pos + j - 1] = buf[queue[k].pos + j - 1]
    <3> SUFFICES ASSUME NEW j \in 1 .. queue[k].size
                 PROVE  buf'[queue[k].pos + j - 1] = buf[queue[k].pos + j - 1]
      OBVIOUS
    <3>1. Rest <= 0  BY <1>1, <1>2, <2>1 DEF IInv, BodyIsLast, Rest
    <3>2. queue[k].pos + j - 1 \in Positions  BY <1>2, <2>1 DEF Positions
    <3>3. \A p \in Positions : ~(p < Rest)  BY <1>2, <1>3, <3>1 DEF Positions
    <3> QED  BY <1>1, <3>2, <3>3 DEF Moved
  <2>4. CellsAt(queue[k].pos, queue[k].size)' = CellsAt(queue[k].pos, queue[k].size)
    BY <1>1, <2>3 DEF CellsAt
  <2> QED  BY <2>2, <2>4
<1> QED  BY <1>7, <1>8, <1>9, <1>10, <1>11 DEF IInv

LEMMA ProcessKeeps == ASSUME IInv, Process PROVE IInv'
<1>1. /\ queue' = <<>> /\ stage' = "select" /\ remaining' = remaining
      /\ sizes' = sizes /\ wire' = wire /\ buf' = buf /\ readPos' = readPos
      /\ delivered' = delivered /\ aligned' = aligned
  BY DEF Process
<1>2. TypeOK'  BY <1>1, EmptyQueue DEF IInv, TypeOK, Stages, Queued
<1>3. CellsSound'  BY <1>1 DEF IInv, CellsSound
<1> QED  BY <1>1, <1>2, <1>3, WithoutQueue DEF IInv, RestSmall

LEMMA CloseSessionKeeps == ASSUME IInv, CloseSession PROVE IInv'
<1>1. /\ sizes' = <<>> /\ wire' = <<>> /\ queue' = <<>> /\ delivered' = <<>>
      /\ remaining' = 0 /\ readPos' = 0 /\ stage' = "select" /\ aligned' = TRUE
      /\ buf' = [p \in Positions |-> Junk]
  BY DEF CloseSession
<1>2. buf' \in [Positions -> Cells]  BY <1>1, JunkIsCell
<1>3. /\ sizes' \in Seq(BodySizes) /\ wire' \in Seq(Cells) /\ delivered' \in Seq(Nat)
      /\ Len(sizes') = 0 /\ Len(wire') = 0
  BY <1>1
<1>4. TypeOK'  BY <1>1, <1>2, <1>3, EmptyQueue DEF TypeOK, Stages, Queued
<1>5. CellsSound'
  <2>1. \A p \in Positions : buf'[p][1] <= Len(sizes')
    BY <1>1, <1>3, JunkIsCell
  <2> QED  BY <1>3, <2>1 DEF CellsSound
<1> QED  BY <1>1, <1>4, <1>5, WithoutQueue, FramingAssumption

\* The session is closed or given up: only the stage changes.
LEMMA StopKeeps == ASSUME IInv, TooLarge \/ Garble PROVE IInv'
<1>1. /\ stage' \in {"closed", "garbled"}
      /\ sizes' = sizes /\ wire' = wire /\ buf' = buf /\ remaining' = remaining
      /\ readPos' = readPos /\ queue' = queue /\ delivered' = delivered
      /\ aligned' = aligned
  BY DEF TooLarge, Garble
<1>2. TypeOK'  BY <1>1 DEF IInv, TypeOK, Stages
<1> QED  BY <1>1, <1>2
  DEF IInv, CellsSound, RestSmall, BodyIsLast, QueuedBodiesIntact, CellsAt

LEMMA StepKeeps == ASSUME IInv, [Next]_vars PROVE IInv'
<1>1. CASE Round
  BY <1>1, AddPacketQueueKeeps, EndProcessKeeps, ProcessKeeps, StopKeeps DEF Round
<1>2. CASE UNCHANGED vars
  BY <1>2 DEF vars, IInv, TypeOK, CellsSound, RestSmall, BodyIsLast,
              QueuedBodiesIntact, CellsAt
<1> QED
  BY <1>1, <1>2, SendKeeps, RecvSocketKeeps, RecvNothingKeeps, CloseSessionKeeps DEF Next

-----------------------------------------------------------------------------
(* The order of what is left *)

\* The numbers every step computes with.
LEMMA Numbers ==
    ASSUME IInv
    PROVE  /\ HeaderSize \in Nat \ {0} /\ MaxPacket \in Nat /\ BufferSize \in Nat
           /\ 4 * MaxPacket <= BufferSize
           /\ remaining \in Int /\ remaining <= 2 * MaxPacket /\ readPos \in Nat
           /\ Len(sizes) \in Nat /\ Len(wire) \in Nat /\ Len(delivered) \in Nat
           /\ \A i \in 1 .. Len(sizes) : sizes[i] \in Nat
           /\ \A j \in 1 .. Len(delivered) : delivered[j] \in Nat
           /\ Live \subseteq Positions
<1>1. /\ HeaderSize \in Nat \ {0} /\ MaxPacket \in Nat /\ BufferSize \in Nat
      /\ 4 * MaxPacket <= BufferSize
      /\ remaining \in Int /\ remaining <= 2 * MaxPacket /\ readPos \in Nat
      /\ sizes \in Seq(BodySizes) /\ wire \in Seq(Cells) /\ delivered \in Seq(Nat)
  BY FramingAssumption DEF IInv, TypeOK, RestSmall
<1>2. \A i \in 1 .. Len(sizes) : sizes[i] \in Nat
  <2>1. \A i \in 1 .. Len(sizes) : sizes[i] \in BodySizes
    BY <1>1
  <2> QED  BY <2>1, FramingAssumption
<1>3. Live \subseteq Positions
  BY <1>1 DEF Live, Positions
<1>4. \A j \in 1 .. Len(delivered) : delivered[j] \in Nat
  BY <1>1
<1> QED  BY <1>1, <1>2, <1>3, <1>4

\* A cell is a pair of numbers.
LEMMA CellNumbers ==
    ASSUME IInv
    PROVE  /\ \A p \in Positions :
                buf[p] \in Cells /\ buf[p][1] \in Nat /\ buf[p][2] \in Nat
           /\ \A k \in 1 .. Len(wire) :
                wire[k] \in Cells /\ wire[k][1] \in Nat /\ wire[k][2] \in Nat
<1>1. \A c \in Cells : c[1] \in Nat /\ c[2] \in Nat
  BY DEF Cells
<1>2. buf \in [Positions -> Cells] /\ wire \in Seq(Cells)
  BY DEF IInv, TypeOK
<1> QED  BY <1>1, <1>2

\* What the peer sends comes behind everything it sent before.
LEMMA SendShown ==
    ASSUME IInv, NEW size \in BodySizes, Send(size)
    PROVE  /\ size \in Nat /\ stage = "select"
           /\ Len(sizes') = Len(sizes) + 1
           /\ \A i \in 1 .. Len(sizes) : sizes'[i] = sizes[i]
           /\ sizes'[Len(sizes) + 1] = size
           /\ Len(wire') = Len(wire) + HeaderSize + size
           /\ \A k \in 1 .. Len(wire) : wire'[k] = wire[k]
           /\ \A k \in Len(wire) + 1 .. Len(wire') :
                wire'[k] = <<Len(sizes) + 1, k - Len(wire) - 1>>
           /\ UNCHANGED <<buf, remaining, readPos, queue, stage, delivered, aligned>>
<1> DEFINE n == Len(sizes)
           packet == Packet(n + 1, size)
<1>1. n \in Nat /\ size \in Nat /\ sizes \in Seq(BodySizes) /\ wire \in Seq(Cells)
  BY FramingAssumption DEF IInv, TypeOK
<1>2. sizes' = Append(sizes, size) /\ wire' = wire \o packet
  BY DEF Send
<1>3. packet \in Seq(Cells)
  <2>1. n + 1 \in Nat  BY <1>1
  <2> HIDE DEF n
  <2> QED  BY <1>1, <2>1, PacketCells
<1>4. /\ Len(packet) = HeaderSize + size
      /\ \A k \in 1 .. HeaderSize + size : packet[k] = <<n + 1, k - 1>>
  <2>1. HeaderSize + size \in Nat  BY <1>1, FramingAssumption
  <2> QED  BY <1>3, <2>1 DEF Packet
<1> HIDE DEF packet
<1>5. /\ Len(sizes') = n + 1 /\ sizes'[n + 1] = size
      /\ \A i \in 1 .. n : sizes'[i] = sizes[i]
  BY <1>1, <1>2
<1>6. /\ Len(wire') = Len(wire) + Len(packet)
      /\ \A k \in 1 .. Len(wire') :
           wire'[k] = IF k <= Len(wire) THEN wire[k] ELSE packet[k - Len(wire)]
  BY <1>1, <1>2, <1>3
<1>7. \A k \in Len(wire) + 1 .. Len(wire') : wire'[k] = <<n + 1, k - Len(wire) - 1>>
  <2> SUFFICES ASSUME NEW k \in Len(wire) + 1 .. Len(wire')
               PROVE  wire'[k] = <<n + 1, k - Len(wire) - 1>>
    OBVIOUS
  <2>1. /\ k - Len(wire) \in 1 .. HeaderSize + size
        /\ wire'[k] = packet[k - Len(wire)]
    BY <1>1, <1>4, <1>6, FramingAssumption
  <2> QED  BY <1>4, <2>1
<1>8. Len(wire') = Len(wire) + HeaderSize + size
  BY <1>1, <1>4, <1>6, FramingAssumption
<1>9. \A k \in 1 .. Len(wire) : wire'[k] = wire[k]
  BY <1>1, <1>4, <1>6, FramingAssumption
<1>10. /\ stage = "select"
       /\ UNCHANGED <<buf, remaining, readPos, queue, stage, delivered, aligned>>
  BY DEF Send
<1> QED  BY <1>1, <1>5, <1>7, <1>8, <1>9, <1>10

LEMMA SendKeepsOrder ==
    ASSUME IInv, OrderInv, NEW size \in BodySizes, Send(size) PROVE OrderInv'
<1>1. /\ size \in Nat /\ Len(sizes') = Len(sizes) + 1
      /\ Len(wire') = Len(wire) + HeaderSize + size
      /\ \A k \in 1 .. Len(wire) : wire'[k] = wire[k]
      /\ \A k \in Len(wire) + 1 .. Len(wire') :
           wire'[k] = <<Len(sizes) + 1, k - Len(wire) - 1>>
      /\ buf' = buf /\ delivered' = delivered /\ Live' = Live
  BY SendShown DEF Live
<1>2. /\ HeaderSize \in Nat /\ Len(sizes) \in Nat /\ Len(wire) \in Nat
      /\ Len(delivered) \in Nat /\ Live \subseteq Positions
  BY Numbers
<1>3. \A k \in 1 .. Len(wire') :
        \/ k \in 1 .. Len(wire) /\ wire'[k] = wire[k]
        \/ /\ k \in Len(wire) + 1 .. Len(wire')
           /\ wire'[k][1] = Len(sizes) + 1 /\ wire'[k][2] = k - Len(wire) - 1
  BY <1>1, <1>2
<1>4. \A p \in Positions : buf[p][1] \in Nat /\ buf[p][1] <= Len(sizes)
  BY CellNumbers DEF IInv, CellsSound
<1>5. \A k \in 1 .. Len(wire) : wire[k][1] \in Nat /\ wire[k][1] <= Len(sizes)
  BY CellNumbers DEF IInv, CellsSound
<1>6. LeftInOrder'
  <2>1. ASSUME NEW k \in 1 .. Len(wire'), NEW m \in 1 .. Len(wire'), k < m
        PROVE  Before(wire'[k], wire'[m])
    <3>1. CASE m \in 1 .. Len(wire)
      BY <1>1, <1>2, <2>1, <3>1, SMTT(30) DEF OrderInv, LeftInOrder
    <3>2. CASE k \in 1 .. Len(wire) /\ m \notin 1 .. Len(wire)
      BY <1>2, <1>3, <1>5, <2>1, <3>2, SMTT(30) DEF Before
    <3>3. CASE k \notin 1 .. Len(wire) /\ m \notin 1 .. Len(wire)
      BY <1>2, <1>3, <2>1, <3>3, SMTT(30) DEF Before
    <3> QED  BY <2>1, <3>1, <3>2, <3>3, <1>1, <1>2
  <2>2. ASSUME NEW p \in Live, NEW k \in 1 .. Len(wire')
        PROVE  Before(buf[p], wire'[k])
    <3>1. CASE k \in 1 .. Len(wire)
      BY <1>1, <3>1 DEF OrderInv, LeftInOrder
    <3>2. CASE k \notin 1 .. Len(wire)
      BY <1>2, <1>3, <1>4, <3>2 DEF Before
    <3> QED  BY <3>1, <3>2
  <2> QED  BY <1>1, <2>1, <2>2 DEF OrderInv, LeftInOrder
<1>7. DeliveredBefore'
  <2>1. ASSUME NEW j \in 1 .. Len(delivered), NEW k \in 1 .. Len(wire')
        PROVE  Before(<<delivered[j], 0>>, wire'[k])
    <3>1. delivered[j] \in Nat /\ delivered[j] <= Len(sizes)
      BY Numbers DEF OrderInv, DeliveredBefore
    <3>2. CASE k \in 1 .. Len(wire)
      BY <1>1, <3>2 DEF OrderInv, DeliveredBefore
    <3>3. CASE k \notin 1 .. Len(wire)
      BY <1>2, <1>3, <3>1, <3>3 DEF Before
    <3> QED  BY <3>2, <3>3
  <2>2. ASSUME NEW j \in 1 .. Len(delivered) PROVE delivered[j] <= Len(sizes')
    <3>1. delivered[j] \in Nat /\ delivered[j] <= Len(sizes)
      BY Numbers DEF OrderInv, DeliveredBefore
    <3> QED  BY <1>1, <1>2, <3>1
  <2> QED  BY <1>1, <2>1, <2>2 DEF OrderInv, DeliveredBefore
<1>8. InOrderOnce'
  BY <1>1 DEF OrderInv, InOrderOnce
<1> QED  BY <1>6, <1>7, <1>8 DEF OrderInv

\* A read takes the first n cells of the wire and puts them behind the rest.
\* Not all that lies in the buffer then counts as data, but it is the first part.
LEMMA RecvShown ==
    ASSUME IInv, NEW n \in 1 .. 2 * MaxPacket, RecvSocket(n)
    PROVE  /\ n \in Nat /\ n <= Len(wire) /\ Len(wire') = Len(wire) - n
           /\ \A k \in 1 .. Len(wire') : k + n \in 1 .. Len(wire) /\ wire'[k] = wire[k + n]
           /\ stage = "select" /\ stage' = "parse" /\ readPos' = 0
           /\ aligned' = (aligned /\ WholePackets(n))
           /\ RecvPos \in Nat /\ remaining' \in Int /\ remaining' <= RecvPos + n
           /\ RecvPos = (IF remaining > 0 THEN remaining ELSE 0)
           /\ Live' = 0 .. remaining' - 1
           /\ \A p \in Live' :
                \/ p < RecvPos /\ p \in Live /\ buf'[p] = buf[p]
                \/ /\ p >= RecvPos /\ p - RecvPos + 1 \in 1 .. n
                   /\ p - RecvPos + 1 \in 1 .. Len(wire)
                   /\ buf'[p] = wire[p - RecvPos + 1]
           /\ UNCHANGED <<sizes, queue, delivered>>
<1>1. /\ stage = "select" /\ n <= Len(wire)
      /\ wire' = SubSeq(wire, n + 1, Len(wire))
      /\ remaining' = Carried + n /\ readPos' = 0 /\ stage' = "parse"
      /\ aligned' = (aligned /\ WholePackets(n))
      /\ UNCHANGED <<sizes, queue, delivered>>
      /\ buf' = [p \in Positions |->
           IF p \in RecvPos .. RecvPos + n - 1 THEN wire[p - RecvPos + 1] ELSE buf[p]]
  BY DEF RecvSocket, Remaining
<1>2. /\ MaxPacket \in Nat /\ n \in Nat /\ remaining \in Int /\ Len(wire) \in Nat
      /\ remaining <= 2 * MaxPacket /\ BufferSize \in Nat /\ 4 * MaxPacket <= BufferSize
      /\ wire \in Seq(Cells)
  BY Numbers DEF IInv, TypeOK
<1>3. /\ RecvPos \in Nat /\ Carried \in Int /\ Carried <= 0
      /\ RecvPos = (IF remaining > 0 THEN remaining ELSE 0)
  BY <1>2 DEF RecvPos, Carried
<1>4. remaining' <= RecvPos + n /\ remaining' \in Int /\ remaining' <= n
  BY <1>1, <1>2, <1>3
<1>5. Live' = 0 .. remaining' - 1
  BY <1>1 DEF Live
<1>6. ASSUME NEW p \in Live'
      PROVE  \/ p < RecvPos /\ p \in Live /\ buf'[p] = buf[p]
             \/ /\ p >= RecvPos /\ p - RecvPos + 1 \in 1 .. n
                /\ p - RecvPos + 1 \in 1 .. Len(wire)
                /\ buf'[p] = wire[p - RecvPos + 1]
  <2>1. p \in 0 .. remaining' - 1
    BY <1>5, Zenon
  <2>2. p \in Nat /\ p < RecvPos + n /\ p < 2 * MaxPacket
    <3> DEFINE r == remaining'
    <3>1. p \in 0 .. r - 1 /\ r \in Int /\ r <= RecvPos + n /\ r <= n
      BY <1>4, <2>1
    <3> HIDE DEF r
    <3>2. n <= 2 * MaxPacket
      BY <1>2
    <3> QED  BY <1>2, <1>3, <3>1, <3>2
  <2>3. p \in Positions
    BY <1>2, <2>2 DEF Positions
  <2>4. CASE p < RecvPos
    <3>1. p \in Live
      BY <1>1, <1>2, <1>3, <2>2, <2>4 DEF Live
    <3> QED  BY <1>1, <1>3, <2>2, <2>3, <2>4, <3>1
  <2>5. CASE ~(p < RecvPos)
    BY <1>1, <1>2, <1>3, <2>2, <2>3, <2>5
  <2> QED  BY <2>4, <2>5
<1>7. /\ Len(wire') = Len(wire) - n
      /\ \A k \in 1 .. Len(wire') : k + n \in 1 .. Len(wire) /\ wire'[k] = wire[k + n]
  BY <1>1, <1>2
<1> QED  BY <1>1, <1>2, <1>3, <1>4, <1>5, <1>6, <1>7

LEMMA RecvSocketKeepsOrder ==
    ASSUME IInv, OrderInv, NEW n \in 1 .. 2 * MaxPacket, RecvSocket(n) PROVE OrderInv'
<1>1. /\ n \in Nat /\ Len(wire') = Len(wire) - n /\ RecvPos \in Nat
      /\ \A k \in 1 .. Len(wire') : k + n \in 1 .. Len(wire) /\ wire'[k] = wire[k + n]
      /\ \A p \in Live' :
           \/ p < RecvPos /\ p \in Live /\ buf'[p] = buf[p]
           \/ /\ p >= RecvPos /\ p - RecvPos + 1 \in 1 .. n
              /\ p - RecvPos + 1 \in 1 .. Len(wire)
              /\ buf'[p] = wire[p - RecvPos + 1]
      /\ Live' \subseteq Int
      /\ sizes' = sizes /\ delivered' = delivered
  BY RecvShown
<1>2. Len(wire) \in Nat
  BY Numbers
<1>3. /\ \A p, q \in Live : p < q => Before(buf[p], buf[q])
      /\ \A k, m \in 1 .. Len(wire) : k < m => Before(wire[k], wire[m])
      /\ \A p \in Live, k \in 1 .. Len(wire) : Before(buf[p], wire[k])
  BY DEF OrderInv, LeftInOrder
<1>4. LeftInOrder'
  <2>1. ASSUME NEW p \in Live', NEW q \in Live', p < q
        PROVE  Before(buf'[p], buf'[q])
    <3>1. p \in Int /\ q \in Int
      BY <1>1
    <3>2. CASE q < RecvPos
      <4>1. p < RecvPos
        BY <1>1, <2>1, <3>1, <3>2
      <4> QED  BY <1>1, <1>3, <2>1, <3>2, <4>1
    <3>3. CASE p < RecvPos /\ ~(q < RecvPos)
      <4>1. /\ p \in Live /\ buf'[p] = buf[p]
            /\ q - RecvPos + 1 \in 1 .. Len(wire) /\ buf'[q] = wire[q - RecvPos + 1]
        BY <1>1, <3>1, <3>3
      <4> QED  BY <1>3, <4>1
    <3>4. CASE ~(p < RecvPos)
      <4>1. ~(q < RecvPos) /\ p - RecvPos + 1 < q - RecvPos + 1
        BY <1>1, <2>1, <3>1, <3>4
      <4>2. /\ p - RecvPos + 1 \in 1 .. Len(wire) /\ buf'[p] = wire[p - RecvPos + 1]
            /\ q - RecvPos + 1 \in 1 .. Len(wire) /\ buf'[q] = wire[q - RecvPos + 1]
        BY <1>1, <3>1, <3>4, <4>1
      <4> QED  BY <1>3, <4>1, <4>2
    <3> QED  BY <3>2, <3>3, <3>4
  <2>2. ASSUME NEW k \in 1 .. Len(wire'), NEW m \in 1 .. Len(wire'), k < m
        PROVE  Before(wire'[k], wire'[m])
    <3>1. /\ k + n \in 1 .. Len(wire) /\ wire'[k] = wire[k + n]
          /\ m + n \in 1 .. Len(wire) /\ wire'[m] = wire[m + n]
      BY <1>1
    <3>2. k + n < m + n
      BY <1>1, <1>2, <2>2
    <3> QED  BY <1>3, <3>1, <3>2
  <2>3. ASSUME NEW p \in Live', NEW k \in 1 .. Len(wire')
        PROVE  Before(buf'[p], wire'[k])
    <3>1. k + n \in 1 .. Len(wire) /\ wire'[k] = wire[k + n]
      BY <1>1
    <3>2. CASE p \in Live /\ buf'[p] = buf[p]
      BY <1>3, <3>1, <3>2
    <3>3. CASE /\ p - RecvPos + 1 \in 1 .. n /\ p - RecvPos + 1 \in 1 .. Len(wire)
               /\ buf'[p] = wire[p - RecvPos + 1]
      <4>1. p - RecvPos + 1 < k + n
        BY <1>1, <1>2, <3>3
      <4> QED  BY <1>3, <3>1, <3>3, <4>1
    <3> QED  BY <1>1, <3>2, <3>3
  <2> QED  BY <2>1, <2>2, <2>3 DEF LeftInOrder
<1>5. DeliveredBefore'
  BY <1>1 DEF OrderInv, DeliveredBefore
<1>6. InOrderOnce'
  BY <1>1 DEF OrderInv, InOrderOnce
<1> QED  BY <1>4, <1>5, <1>6 DEF OrderInv

\* To forget some of what is left disturbs no order.
LEMMA ForgettingKeepsOrder ==
    ASSUME OrderInv, UNCHANGED <<sizes, wire, buf, delivered>>, Live' \subseteq Live
    PROVE  OrderInv'
<1>1. sizes' = sizes /\ wire' = wire /\ buf' = buf /\ delivered' = delivered
  OBVIOUS
<1>2. LeftInOrder'  BY <1>1 DEF OrderInv, LeftInOrder
<1>3. DeliveredBefore'  BY <1>1 DEF OrderInv, DeliveredBefore
<1>4. InOrderOnce'  BY <1>1 DEF OrderInv, InOrderOnce
<1> QED  BY <1>2, <1>3, <1>4 DEF OrderInv

\* Nothing has been sent, and nothing is left.
LEMMA EmptyInOrder ==
    ASSUME wire = <<>>, delivered = <<>>, remaining = 0, stage = "select"
    PROVE  OrderInv
<1>1. Live = {} /\ Len(wire) = 0 /\ Len(delivered) = 0
  BY DEF Live
<1> QED  BY <1>1 DEF OrderInv, LeftInOrder, DeliveredBefore, InOrderOnce

LEMMA CloseKeepsOrder == ASSUME CloseSession PROVE OrderInv'
<1>1. wire' = <<>> /\ delivered' = <<>> /\ remaining' = 0 /\ stage' = "select"
  BY DEF CloseSession
<1>2. Live' = {} /\ Len(wire') = 0 /\ Len(delivered') = 0
  BY <1>1 DEF Live
<1> QED  BY <1>2 DEF OrderInv, LeftInOrder, DeliveredBefore, InOrderOnce

\* The packet queued is one whose first cell was left: it comes behind those
\* delivered, and before what is left behind it.
LEMMA AddPacketQueueKeepsOrder ==
    ASSUME IInv, OrderInv, AddPacketQueue PROVE OrderInv'
<1>1. /\ stage = "parse" /\ HeaderFits /\ HeaderRead
      /\ readPos' = BodyPos + BodySize /\ delivered' = Append(delivered, At)
      /\ sizes' = sizes /\ wire' = wire /\ buf' = buf /\ remaining' = remaining
      /\ stage' = stage
  BY DEF AddPacketQueue
<1>2. /\ BodyPos \in Nat /\ BodyPos <= remaining /\ BodySize \in Nat /\ At \in Nat
  BY <1>1, HeaderFacts
<1>3. /\ HeaderSize \in Nat \ {0} /\ remaining \in Int /\ readPos \in Nat
      /\ Len(delivered) \in Nat /\ Live \subseteq Positions
      /\ delivered \in Seq(Nat)
  BY Numbers DEF IInv, TypeOK
<1>4. BodyPos = readPos + HeaderSize
  BY DEF BodyPos
<1>5. Live = readPos .. remaining - 1 /\ Live' = readPos' .. remaining - 1
  BY <1>1 DEF Live
<1>6. readPos \in Live
  BY <1>2, <1>3, <1>4, <1>5
<1>7. Live' \subseteq Live /\ \A p \in Live' : readPos < p
  BY <1>1, <1>2, <1>3, <1>4, <1>5
<1>8. buf[readPos] = <<At, 0>> /\ At <= Len(sizes)
  <2>1. 0 \in 0 .. HeaderSize - 1 /\ readPos + 0 = readPos
    BY <1>3
  <2>2. buf[readPos] = <<At, 0>>
    BY <1>1, <2>1 DEF HeaderRead
  <2>3. readPos \in Positions
    BY <1>3, <1>6
  <2> QED  BY <2>2, <2>3 DEF IInv, CellsSound, At
<1>9. /\ Len(delivered') = Len(delivered) + 1
      /\ \A j \in 1 .. Len(delivered') :
           \/ j \in 1 .. Len(delivered) /\ delivered'[j] = delivered[j]
           \/ j = Len(delivered) + 1 /\ delivered'[j] = At
  BY <1>1, <1>2, <1>3
<1>10. \A j \in 1 .. Len(delivered) : delivered[j] < At
  <2> SUFFICES ASSUME NEW j \in 1 .. Len(delivered) PROVE delivered[j] < At
    OBVIOUS
  <2>1. Before(<<delivered[j], 0>>, <<At, 0>>)
    BY <1>6, <1>8 DEF OrderInv, DeliveredBefore
  <2> QED  BY <2>1 DEF Before
<1>11. /\ \A p \in Live' : Before(<<At, 0>>, buf[p])
       /\ \A k \in 1 .. Len(wire) : Before(<<At, 0>>, wire[k])
  <2>1. \A p \in Live : readPos < p => Before(buf[readPos], buf[p])
    BY <1>6 DEF OrderInv, LeftInOrder
  <2>2. \A k \in 1 .. Len(wire) : Before(buf[readPos], wire[k])
    BY <1>6 DEF OrderInv, LeftInOrder
  <2> QED  BY <1>7, <1>8, <2>1, <2>2
<1>12. LeftInOrder'
  BY <1>1, <1>7 DEF OrderInv, LeftInOrder
<1>13. DeliveredBefore'
  <2> SUFFICES ASSUME NEW j \in 1 .. Len(delivered')
               PROVE  /\ delivered'[j] <= Len(sizes)
                      /\ \A p \in Live' : Before(<<delivered'[j], 0>>, buf[p])
                      /\ \A k \in 1 .. Len(wire) : Before(<<delivered'[j], 0>>, wire[k])
    BY <1>1 DEF DeliveredBefore
  <2>1. CASE j \in 1 .. Len(delivered) /\ delivered'[j] = delivered[j]
    BY <1>7, <2>1 DEF OrderInv, DeliveredBefore
  <2>2. CASE delivered'[j] = At
    BY <1>8, <1>11, <2>2
  <2> QED  BY <1>9, <2>1, <2>2
<1>14. InOrderOnce'
  <2> SUFFICES ASSUME NEW j \in 1 .. Len(delivered'), NEW k \in 1 .. Len(delivered'), j < k
               PROVE  delivered'[j] < delivered'[k]
    BY DEF InOrderOnce
  <2>1. j \in 1 .. Len(delivered) /\ delivered'[j] = delivered[j]
    BY <1>3, <1>9
  <2>2. CASE k \in 1 .. Len(delivered) /\ delivered'[k] = delivered[k]
    BY <2>1, <2>2 DEF OrderInv, InOrderOnce
  <2>3. CASE delivered'[k] = At
    BY <1>10, <2>1, <2>3
  <2> QED  BY <1>9, <2>2, <2>3
<1> QED  BY <1>12, <1>13, <1>14 DEF OrderInv

\* What is left keeps its order when it is moved to the front.
LEMMA RestShown ==
    ASSUME IInv, EndProcess
    PROVE  /\ stage = "parse" /\ stage' = "handle" /\ remaining' = remaining - readPos
           /\ UNCHANGED <<sizes, wire, readPos, queue, delivered, aligned>>
           /\ Live' = 0 .. remaining' - 1
           /\ \A p \in Live' : readPos + p \in Live /\ buf'[p] = buf[readPos + p]
<1>1. /\ stage = "parse" /\ stage' = "handle" /\ remaining' = Rest /\ buf' = Moved
      /\ UNCHANGED <<sizes, wire, readPos, queue, delivered, aligned>>
  BY DEF EndProcess
<1>2. /\ MaxPacket \in Nat /\ BufferSize \in Nat /\ 4 * MaxPacket <= BufferSize
      /\ remaining \in Int /\ remaining <= 2 * MaxPacket /\ readPos \in Nat
  BY Numbers
<1>3. Rest = remaining - readPos
  BY DEF Rest
<1>4. Live = readPos .. remaining - 1 /\ Live' = 0 .. remaining' - 1
  BY <1>1 DEF Live
<1>5. ASSUME NEW p \in Live' PROVE readPos + p \in Live /\ buf'[p] = buf[readPos + p]
  <2>1. p \in 0 .. (remaining - readPos) - 1
    BY <1>1, <1>3, <1>4
  <2>2. p \in Nat /\ p < remaining - readPos /\ p \in Positions
    BY <1>2, <2>1 DEF Positions
  <2> QED  BY <1>1, <1>2, <1>3, <1>4, <2>2 DEF Moved
<1> QED  BY <1>1, <1>3, <1>4, <1>5

LEMMA EndProcessKeepsOrder ==
    ASSUME IInv, OrderInv, EndProcess PROVE OrderInv'
<1>1. /\ \A p \in Live' : readPos + p \in Live /\ buf'[p] = buf[readPos + p]
      /\ Live' \subseteq Int
      /\ sizes' = sizes /\ wire' = wire /\ delivered' = delivered
  BY RestShown
<1>2. readPos \in Nat
  BY Numbers
<1>3. \A p, q \in Live' : p < q => readPos + p < readPos + q
  BY <1>1, <1>2
<1>4. LeftInOrder'  BY <1>1, <1>3 DEF OrderInv, LeftInOrder
<1>5. DeliveredBefore'  BY <1>1 DEF OrderInv, DeliveredBefore
<1>6. InOrderOnce'  BY <1>1 DEF OrderInv, InOrderOnce
<1> QED  BY <1>4, <1>5, <1>6 DEF OrderInv

LEMMA StepKeepsOrder == ASSUME IInv, OrderInv, [Next]_vars PROVE OrderInv'
<1>1. CASE RecvNothing
  <2>1. Live' = {} /\ UNCHANGED <<sizes, wire, buf, delivered>>
    BY <1>1 DEF RecvNothing, Live
  <2> QED  BY <2>1, ForgettingKeepsOrder
<1>2. CASE TooLarge \/ Garble \/ Process \/ UNCHANGED vars
  <2>1. Live' = Live /\ UNCHANGED <<sizes, wire, buf, delivered>>
    BY <1>2 DEF TooLarge, Garble, Process, vars, Live
  <2> QED  BY <2>1, ForgettingKeepsOrder
<1> QED
  BY <1>1, <1>2, SendKeepsOrder, RecvSocketKeepsOrder, AddPacketQueueKeepsOrder,
     EndProcessKeepsOrder, CloseKeepsOrder DEF Next, Round

-----------------------------------------------------------------------------
(* What is on the wire *)

LEMMA SendKeepsWire ==
    ASSUME IInv, WireInv, NEW size \in BodySizes, Send(size) PROVE WireInv'
<1> DEFINE n == Len(sizes)
           L == Len(wire)
           to == Len(wire')
<1>1. /\ size \in Nat /\ Len(sizes') = n + 1 /\ sizes'[n + 1] = size
      /\ \A i \in 1 .. n : sizes'[i] = sizes[i]
      /\ to = L + HeaderSize + size
      /\ \A k \in 1 .. L : wire'[k] = wire[k]
      /\ \A k \in L + 1 .. to : wire'[k] = <<n + 1, k - L - 1>>
  BY SendShown
<1>2. /\ HeaderSize \in Nat \ {0} /\ n \in Nat /\ L \in Nat
      /\ \A i \in 1 .. n : sizes[i] \in Nat
  BY Numbers
<1>3. to \in Nat /\ L < to
  BY <1>1, <1>2
<1>4. wire # <<>> => L \in 1 .. L /\ wire[L][1] = n
  <2>1. wire \in Seq(Cells)  BY DEF IInv, TypeOK
  <2> QED  BY <1>2, <2>1 DEF WireInv
<1> HIDE DEF n, L, to
<1>5. ASSUME NEW k \in 1 .. L PROVE Placed(wire, k, Len(wire))'
  <2> DEFINE i == wire[k][1]
             o == wire[k][2]
             e == EndOf(wire[k], k)
  <2>1. /\ i \in 1 .. n /\ o \in 0 .. HeaderSize + sizes[i] - 1
        /\ e <= L
        /\ \A m \in k .. e : wire[m] = <<i, o + m - k>>
        /\ \A m \in e + 1 .. L : wire[m][1] > i
        /\ e < L => wire[e + 1] = <<i + 1, 0>>
    BY DEF WireInv, Stream, Placed, n, L
  <2>2. sizes'[i] = sizes[i] /\ sizes[i] \in Nat /\ wire'[k] = wire[k]
    BY <1>1, <1>2, <2>1
  <2>3. e = k + HeaderSize + sizes[i] - 1 - o /\ EndOf(wire[k], k)' = e
    BY <1>1, <2>2 DEF EndOf
  <2> HIDE DEF i, o, e
  <2>4. e \in Nat /\ k <= e
    BY <1>2, <2>1, <2>2, <2>3
  <2>5. \A m \in k .. e : wire'[m] = <<i, o + m - k>>
    <3> SUFFICES ASSUME NEW m \in k .. e PROVE wire'[m] = <<i, o + m - k>>
      OBVIOUS
    <3>1. m \in 1 .. L
      BY <1>2, <2>1, <2>4
    <3> QED  BY <1>1, <2>1, <3>1
  <2>6. ASSUME NEW m \in e + 1 .. to PROVE wire'[m][1] > i
    <3>1. CASE m <= L
      <4>1. m \in 1 .. L /\ m \in e + 1 .. L
        BY <1>2, <2>4, <3>1
      <4> QED  BY <1>1, <2>1, <4>1
    <3>2. CASE ~(m <= L)
      <4>1. m \in L + 1 .. to
        BY <1>2, <1>3, <2>4, <3>2
      <4>2. wire'[m][1] = n + 1
        BY <1>1, <4>1
      <4>3. i <= n /\ i \in Int
        BY <1>2, <2>1
      <4>4. n + 1 > i
        BY <1>2, <4>3
      <4> QED  BY <4>2, <4>4
    <3> QED  BY <3>1, <3>2
  <2>7. wire'[e + 1] = <<i + 1, 0>>
    <3>1. CASE e < L
      <4>1. e + 1 \in 1 .. L
        BY <1>2, <2>4, <3>1
      <4> QED  BY <1>1, <2>1, <3>1, <4>1
    <3>2. CASE e = L
      <4>1. wire[L] = <<i, o + L - k>>
        BY <1>2, <2>1, <2>4, <3>2
      <4>2. wire # <<>>
        BY <1>2 DEF L
      <4>3. i = n
        BY <1>4, <4>1, <4>2
      <4> QED  BY <1>1, <1>2, <1>3, <3>2, <4>3
    <3> QED  BY <1>2, <2>1, <2>4, <3>1, <3>2
  <2>8. i \in 1 .. n + 1 /\ o \in 0 .. HeaderSize + sizes'[i] - 1 /\ e <= to
    BY <1>2, <1>3, <2>1, <2>2, <2>4
  <2> QED
    BY <1>1, <2>2, <2>3, <2>5, <2>6, <2>7, <2>8 DEF Placed, i, o, n, to
<1>6. ASSUME NEW k \in L + 1 .. to PROVE Placed(wire, k, Len(wire))'
  <2>1. wire'[k] = <<n + 1, k - L - 1>> /\ k \in Int
    BY <1>1, <1>2, <1>3
  <2>2. EndOf(wire[k], k)' = to
    BY <1>1, <1>2, <2>1 DEF EndOf
  <2>3. \A m \in k .. to : wire'[m] = <<n + 1, (k - L - 1) + m - k>>
    <3> SUFFICES ASSUME NEW m \in k .. to
                 PROVE  wire'[m] = <<n + 1, (k - L - 1) + m - k>>
      OBVIOUS
    <3>1. m \in L + 1 .. to /\ (k - L - 1) + m - k = m - L - 1
      BY <1>2, <1>3, <2>1
    <3> QED  BY <1>1, <3>1
  <2>4. k - L - 1 \in 0 .. HeaderSize + size - 1
    BY <1>1, <1>2, <1>3
  <2>5. /\ n + 1 \in 1 .. n + 1 /\ to <= to /\ ~(to < to)
        /\ \A m \in to + 1 .. to : FALSE
    BY <1>2, <1>3
  <2>6. wire'[k][1] = n + 1 /\ wire'[k][2] = k - L - 1
    BY <2>1
  <2> QED  BY <1>1, <2>2, <2>3, <2>4, <2>5, <2>6 DEF Placed, to
<1>7. Stream(wire, 1, Len(wire))'
  <2>1. \A k \in 1 .. to : k \in 1 .. L \/ k \in L + 1 .. to
    BY <1>2, <1>3
  <2> QED  BY <1>5, <1>6, <2>1 DEF Stream, to
<1>8. wire'[to][1] = n + 1
  <2>1. to \in L + 1 .. to
    BY <1>2, <1>3
  <2> QED  BY <1>1, <2>1
<1> QED  BY <1>1, <1>7, <1>8 DEF WireInv, to, n

\* The end of a packet lies where its cells say.
LEMMA EndIsBehind ==
    ASSUME IInv, NEW f, NEW k \in Int, NEW to \in Int, Placed(f, k, to)
    PROVE  /\ f[k][1] \in 1 .. Len(sizes) /\ f[k][2] \in Nat /\ sizes[f[k][1]] \in Nat
           /\ EndOf(f[k], k) \in Int /\ k <= EndOf(f[k], k) /\ EndOf(f[k], k) <= to
           /\ EndOf(f[k], k) = k + HeaderSize + sizes[f[k][1]] - 1 - f[k][2]
           /\ \A m \in k .. EndOf(f[k], k) : f[m] = <<f[k][1], f[k][2] + m - k>>
           /\ \A m \in EndOf(f[k], k) + 1 .. to : f[m][1] > f[k][1]
           /\ EndOf(f[k], k) < to => f[EndOf(f[k], k) + 1] = <<f[k][1] + 1, 0>>
<1> DEFINE i == f[k][1]
           o == f[k][2]
           e == EndOf(f[k], k)
<1>1. /\ i \in 1 .. Len(sizes) /\ o \in 0 .. HeaderSize + sizes[i] - 1
      /\ e <= to
      /\ \A m \in k .. e : f[m] = <<i, o + m - k>>
      /\ \A m \in e + 1 .. to : f[m][1] > i
      /\ e < to => f[e + 1] = <<i + 1, 0>>
  BY DEF Placed
<1>2. e = k + HeaderSize + sizes[i] - 1 - o
  BY DEF EndOf
<1> HIDE DEF i, o, e
<1>3. HeaderSize \in Nat /\ sizes[i] \in Nat
  BY <1>1, Numbers
<1>4. o \in Nat /\ e \in Int /\ k <= e
  BY <1>1, <1>2, <1>3, SMTT(30)
<1> QED  BY <1>1, <1>2, <1>3, <1>4 DEF i, o, e

\* A piece of a stream that was copied to another place is one there.
LEMMA Copied ==
    ASSUME IInv, NEW f, NEW g,
           NEW d \in Int, NEW k \in Int, NEW to \in Int, NEW top \in Int,
           Placed(f, k + d, top), to + d <= top,
           EndOf(f[k + d], k + d) <= to + d,
           \A m \in k .. to : g[m] = f[m + d]
    PROVE  Placed(g, k, to)
<1> DEFINE c == f[k + d]
           i == c[1]
           o == c[2]
           e == EndOf(c, k + d)
<1>1. k + d \in Int
  OBVIOUS
<1>2. /\ i \in 1 .. Len(sizes) /\ o \in Nat /\ sizes[i] \in Nat
      /\ e \in Int /\ k + d <= e /\ e <= top
      /\ e = k + d + HeaderSize + sizes[i] - 1 - o
      /\ \A m \in k + d .. e : f[m] = <<i, o + m - (k + d)>>
      /\ \A m \in e + 1 .. top : f[m][1] > i
      /\ e < top => f[e + 1] = <<i + 1, 0>>
  BY <1>1, EndIsBehind
<1>3. e <= to + d /\ to + d <= top
  OBVIOUS
<1>4. HeaderSize \in Nat
  BY Numbers
<1>5. g[k] = c
  <2>1. k \in k .. to  BY <1>2, <1>3
  <2> QED  BY <2>1
<1>6. EndOf(g[k], k) = e - d
  <2>1. EndOf(g[k], k) = k + HeaderSize + sizes[i] - 1 - o
    BY <1>5 DEF EndOf
  <2> HIDE DEF e, i, o, c
  <2> QED  BY <1>2, <1>4, <2>1, SMTT(30)
<1> HIDE DEF e, i, o, c
<1>7. e - d \in Int /\ k <= e - d /\ e - d <= to
  BY <1>2, <1>3, SMTT(30)
<1>8. e \in Int /\ k + d <= e
  BY <1>2
<1>9. ASSUME NEW m \in k .. e - d PROVE g[m] = <<i, o + m - k>>
  <2>1. m \in k .. to /\ m + d \in k + d .. e /\ o + (m + d) - (k + d) = o + m - k
    BY <1>2, <1>3, <1>7, SMTT(30)
  <2>2. f[m + d] = <<i, o + (m + d) - (k + d)>>
    BY <1>2, <2>1
  <2> QED  BY <2>1, <2>2
<1>10. ASSUME NEW m \in (e - d) + 1 .. to PROVE g[m][1] > i
  <2>1. m \in k .. to /\ m + d \in e + 1 .. top
    <3>1. m \in Int /\ (e - d) + 1 <= m /\ m <= to
      BY <1>8
    <3> QED  BY <1>3, <1>8, <3>1
  <2>2. f[m + d][1] > i
    BY <1>2, <2>1
  <2> QED  BY <2>1, <2>2
<1>11. ASSUME e - d < to PROVE g[(e - d) + 1] = <<i + 1, 0>>
  <2>1. (e - d) + 1 \in k .. to /\ (e - d) + 1 + d = e + 1 /\ e < top
    BY <1>3, <1>11, <1>8
  <2>2. g[(e - d) + 1] = f[(e - d) + 1 + d]
    BY <2>1
  <2> QED  BY <1>2, <2>1, <2>2
<1>12. o \in 0 .. HeaderSize + sizes[i] - 1
  BY <1>2, <1>4
<1>13. g[k][1] = i /\ g[k][2] = o
  BY <1>5 DEF i, o
<1> QED
  BY <1>2, <1>6, <1>7, <1>9, <1>10, <1>11, <1>12, <1>13 DEF Placed

\* Whether a stream is whole depends on the sizes sent and on nothing else.
LEMMA SameSizes ==
    ASSUME sizes' = sizes
    PROVE  /\ \A k, to : Placed(wire, k, to)' <=> Placed(wire', k, to)
           /\ \A k, to : Placed(buf, k, to)' <=> Placed(buf', k, to)
BY DEF Placed, EndOf

LEMMA RecvSocketKeepsWire ==
    ASSUME IInv, WireInv, NEW n \in 1 .. 2 * MaxPacket, RecvSocket(n) PROVE WireInv'
<1>1. /\ n \in Nat /\ n <= Len(wire) /\ Len(wire') = Len(wire) - n /\ sizes' = sizes
      /\ \A k \in 1 .. Len(wire') : k + n \in 1 .. Len(wire) /\ wire'[k] = wire[k + n]
  BY RecvShown
<1>2. Len(wire) \in Nat /\ wire \in Seq(Cells)
  BY Numbers DEF IInv, TypeOK
<1>3. ASSUME NEW k \in 1 .. Len(wire') PROVE Placed(wire', k, Len(wire'))
  <2> DEFINE L == Len(wire)
             to == Len(wire')
  <2>1. k + n \in 1 .. L /\ k \in Int /\ to \in Int /\ to + n = L
    BY <1>1, <1>2, <1>3
  <2>2. Placed(wire, k + n, L)
    BY <2>1 DEF WireInv, Stream
  <2>3. EndOf(wire[k + n], k + n) <= to + n
    <3>1. EndOf(wire[k + n], k + n) <= L
      BY <2>2 DEF Placed
    <3> QED  BY <2>1, <3>1
  <2>4. \A m \in k .. to : wire'[m] = wire[m + n]
    BY <1>1, <1>2, <1>3
  <2> HIDE DEF L, to
  <2>5. L \in Int /\ n \in Int /\ to + n <= L
    BY <1>1, <1>2, <2>1 DEF L
  <2>6. Placed(wire', k, to)
    BY <2>1, <2>2, <2>3, <2>4, <2>5, Copied
  <2> QED  BY <2>6 DEF to
<1>4. Stream(wire, 1, Len(wire))'
  BY <1>1, <1>3, SameSizes DEF Stream
<1>5. wire' # <<>> => wire'[Len(wire')][1] = Len(sizes')
  <2> SUFFICES ASSUME wire' # <<>> PROVE wire'[Len(wire')][1] = Len(sizes)
    BY <1>1
  <2>1. wire' \in Seq(Cells)
    BY <1>2 DEF RecvSocket
  <2>2. Len(wire') \in 1 .. Len(wire') /\ Len(wire') + n = Len(wire) /\ wire # <<>>
    BY <1>1, <1>2, <2>1
  <2> QED  BY <1>1, <2>2 DEF WireInv
<1> QED  BY <1>4, <1>5 DEF WireInv

LEMMA StepKeepsWire == ASSUME IInv, WireInv, [Next]_vars PROVE WireInv'
<1>1. CASE UNCHANGED <<sizes, wire>>
  BY <1>1, SameSizes DEF WireInv, Stream
<1>2. CASE CloseSession
  <2>1. wire' = <<>> /\ Len(wire') = 0
    BY <1>2 DEF CloseSession
  <2> QED  BY <2>1 DEF WireInv, Stream
<1>3. RecvNothing \/ Round \/ UNCHANGED vars => UNCHANGED <<sizes, wire>>
  BY DEF RecvNothing, Round, AddPacketQueue, TooLarge, Garble, EndProcess, Process, vars
<1> QED
  BY <1>1, <1>2, <1>3, SendKeepsWire, RecvSocketKeepsWire DEF Next

LEMMA InitWire == Init => WireInv
<1> SUFFICES ASSUME Init PROVE WireInv
  OBVIOUS
<1>1. wire = <<>> /\ Len(wire) = 0
  BY DEF Init
<1> QED  BY <1>1 DEF WireInv, Stream

-----------------------------------------------------------------------------
(* Streams that are read in whole packets *)

LEMMA UpToNothing == UpTo(1) = <<>>
<1>1. UpTo(1) \in [1 .. 0 -> Nat]
  BY DEF UpTo
<1>2. UpTo(1) \in Seq(Nat) /\ Len(UpTo(1)) = 0
  BY <1>1
<1> QED  BY <1>2

LEMMA UpToNext ==
    ASSUME NEW n \in Nat \ {0}
    PROVE  Append(UpTo(n), n) = UpTo(n + 1)
<1>1. UpTo(n) \in [1 .. n - 1 -> Nat] /\ UpTo(n + 1) \in [1 .. n -> Nat]
  BY DEF UpTo
<1>2. UpTo(n) \in Seq(Nat) /\ Len(UpTo(n)) = n - 1
  BY <1>1
<1>3. UpTo(n + 1) \in Seq(Nat) /\ Len(UpTo(n + 1)) = n
  BY <1>1
<1>4. \A k \in 1 .. n : UpTo(n + 1)[k] = k
  BY DEF UpTo
<1>5. \A k \in 1 .. n - 1 : UpTo(n)[k] = k
  BY DEF UpTo
<1>6. Append(UpTo(n), n) \in Seq(Nat) /\ Len(Append(UpTo(n), n)) = n
  BY <1>2
<1>7. ASSUME NEW k \in 1 .. n PROVE Append(UpTo(n), n)[k] = UpTo(n + 1)[k]
  <2>1. CASE k = n
    BY <1>2, <1>4, <2>1
  <2>2. CASE k # n
    <3>1. k \in 1 .. n - 1
      BY <2>2
    <3> QED  BY <1>2, <1>4, <1>5, <3>1
  <2> QED  BY <2>1, <2>2
<1> QED  BY <1>3, <1>6, <1>7, SeqEqual

LEMMA SendKeepsAligned ==
    ASSUME IInv, AlignedInv, NEW size \in BodySizes, Send(size) PROVE AlignedInv'
<1>1. /\ size \in Nat /\ stage = "select" /\ Len(sizes') = Len(sizes) + 1
      /\ Len(wire') = Len(wire) + HeaderSize + size
      /\ \A k \in 1 .. Len(wire) : wire'[k] = wire[k]
      /\ \A k \in Len(wire) + 1 .. Len(wire') :
           wire'[k] = <<Len(sizes) + 1, k - Len(wire) - 1>>
      /\ remaining' = remaining /\ queue' = queue /\ stage' = stage
      /\ delivered' = delivered /\ aligned' = aligned
  BY SendShown
<1>2. HeaderSize \in Nat \ {0} /\ Len(sizes) \in Nat /\ Len(wire) \in Nat
  BY Numbers
<1>3. wire \in Seq(Cells) /\ wire' \in Seq(Cells)
  BY SendKeeps DEF IInv, TypeOK
<1>4. wire' # <<>>
  BY <1>1, <1>2, <1>3
<1>5. wire'[1] = IF wire = <<>> THEN <<Len(sizes) + 1, 0>> ELSE wire[1]
  <2>1. CASE wire = <<>>
    <3>1. Len(wire) = 0
      BY <2>1
    <3>2. 1 \in Len(wire) + 1 .. Len(wire') /\ 1 - Len(wire) - 1 = 0
      BY <1>1, <1>2, <3>1
    <3> QED  BY <1>1, <2>1, <3>2
  <2>2. CASE wire # <<>>
    <3>1. 1 \in 1 .. Len(wire)
      BY <1>2, <1>3, <2>2
    <3> QED  BY <1>1, <2>2, <3>1
  <2> QED  BY <2>1, <2>2
<1>6. Unread' = Unread
  BY <1>4, <1>5 DEF Unread
<1>7. BetweenRounds => BetweenRounds'
  BY <1>1, <1>6 DEF BetweenRounds
<1>8. BodiesExact => BodiesExact'
  BY <1>1 DEF BodiesExact
<1>9. ASSUME aligned' PROVE wire'[1][2] = 0
  BY <1>1, <1>5, <1>9 DEF AlignedInv
<1> QED  BY <1>1, <1>7, <1>8, <1>9 DEF AlignedInv

\* A read that ends with a packet, on a stream that starts with one.
LEMMA RecvSocketKeepsAligned ==
    ASSUME IInv, WireInv, AlignedInv, NEW n \in 1 .. 2 * MaxPacket, RecvSocket(n)
    PROVE  AlignedInv'
<1> SUFFICES ASSUME aligned' PROVE AlignedInv'
  BY DEF AlignedInv
<1> DEFINE L == Len(wire)
<1>1. /\ n \in Nat \ {0} /\ n <= L /\ Len(wire') = L - n
      /\ \A k \in 1 .. Len(wire') : k + n \in 1 .. L /\ wire'[k] = wire[k + n]
      /\ stage = "select" /\ stage' = "parse" /\ readPos' = 0
      /\ aligned /\ WholePackets(n)
      /\ sizes' = sizes /\ queue' = queue /\ delivered' = delivered
  <2>1. aligned' = (aligned /\ WholePackets(n)) /\ n \in Nat
    BY RecvShown
  <2>2. aligned /\ WholePackets(n)
    BY <2>1, Zenon
  <2>3. n # 0
    OBVIOUS
  <2> QED  BY <2>1, <2>2, <2>3, RecvShown
<1>2. L \in Nat /\ wire \in Seq(Cells) /\ wire # <<>> /\ queue = <<>>
  BY <1>1 DEF IInv, TypeOK
<1>3. remaining = 0 /\ delivered = UpTo(wire[1][1]) /\ wire[1][2] = 0
  BY <1>1, <1>2 DEF AlignedInv, BetweenRounds, Unread
<1>4. remaining' = n /\ \A p \in 0 .. n - 1 : buf'[p] = wire[p + 1]
  <2>1. RecvPos = 0 /\ Carried = 0
    BY <1>3 DEF RecvPos, Carried
  <2>2. remaining' = n
    BY <1>1, <2>1 DEF RecvSocket, Remaining
  <2>3. MaxPacket \in Nat /\ BufferSize \in Nat /\ 4 * MaxPacket <= BufferSize
    BY Numbers
  <2>4. 0 .. n - 1 \subseteq Positions
    BY <2>3 DEF Positions
  <2>5. \A p \in 0 .. n - 1 : p \in RecvPos .. RecvPos + n - 1 /\ p - RecvPos + 1 = p + 1
    BY <1>1, <2>1
  <2> QED  BY <2>2, <2>4, <2>5 DEF RecvSocket
<1>5. n \in Int /\ L \in Int /\ 1 \in 1 .. L /\ n \in 1 .. L
  BY <1>1, <1>2
<1>6. \A k \in 1 .. L : Placed(wire, k, L)
  BY DEF WireInv, Stream
<1> HIDE DEF L
<1>7. EndOf(wire[n], n) = n
  <2>1. wire[n][2] = HeaderSize + sizes[wire[n][1]] - 1
    BY <1>1 DEF WholePackets
  <2>2. /\ sizes[wire[n][1]] \in Nat /\ HeaderSize \in Nat
        /\ EndOf(wire[n], n) = n + HeaderSize + sizes[wire[n][1]] - 1 - wire[n][2]
    BY <1>5, <1>6, EndIsBehind, Numbers
  <2> QED  BY <1>5, <2>1, <2>2
<1>8. ASSUME NEW k \in 1 .. n PROVE EndOf(wire[k], k) <= n
  <2> DEFINE e == EndOf(wire[k], k)
             i == wire[k][1]
             o == wire[k][2]
  <2>1. k \in Int /\ k \in 1 .. L
    BY <1>1, <1>5
  <2>2. /\ sizes[i] \in Nat /\ o \in Nat /\ e \in Int
        /\ e = k + HeaderSize + sizes[i] - 1 - o
        /\ \A m \in k .. e : wire[m] = <<i, o + m - k>>
    BY <1>5, <1>6, <2>1, EndIsBehind
  <2>3. HeaderSize \in Nat
    BY Numbers
  <2> HIDE DEF e, i, o
  <2>4. ASSUME n < e PROVE FALSE
    <3>1. n \in k .. e
      BY <1>5, <2>1, <2>2, <2>4
    <3>2. wire[n] = <<i, o + n - k>>
      BY <2>2, <3>1
    <3>3. EndOf(wire[n], n) = n + HeaderSize + sizes[i] - 1 - (o + n - k)
      BY <3>2 DEF EndOf
    <3>4. EndOf(wire[n], n) = e
      BY <1>5, <2>1, <2>2, <2>3, <3>3
    <3> QED  BY <1>5, <1>7, <2>2, <2>4, <3>4
  <2> QED  BY <1>5, <2>2, <2>4 DEF e
<1>9. ASSUME NEW p \in 0 .. n - 1 PROVE Placed(buf', p, n - 1)
  <2>1. p \in Int /\ n - 1 \in Int /\ 1 \in Int /\ p + 1 \in 1 .. L /\ (n - 1) + 1 <= L
    BY <1>1, <1>5
  <2>2. EndOf(wire[p + 1], p + 1) <= (n - 1) + 1
    BY <1>5, <1>8
  <2>3. \A m \in p .. n - 1 : buf'[m] = wire[m + 1]
    BY <1>4, <1>5
  <2> QED  BY <1>5, <1>6, <2>1, <2>2, <2>3, Copied
<1>10. Stream(buf, 0, remaining - 1)'
  <2>1. \A p \in 0 .. n - 1 : Placed(buf, p, n - 1)'
    BY <1>1, <1>9, SameSizes
  <2> QED  BY <1>4, <2>1 DEF Stream
<1>11. buf'[n - 1] = wire[n] /\ buf'[0] = wire[1]
  <2>1. n - 1 \in 0 .. n - 1 /\ 0 \in 0 .. n - 1 /\ (n - 1) + 1 = n /\ 0 + 1 = 1
    BY <1>1
  <2> QED  BY <1>4, <2>1
<1>12. wire' = <<>> \/ (Len(wire') \in Nat \ {0} /\ 1 \in 1 .. Len(wire') /\ n < L)
  <2>1. wire' \in Seq(Cells)
    BY <1>2 DEF RecvSocket
  <2> QED  BY <1>1, <1>5, <2>1
<1>13. Unread' = wire[n][1] + 1 /\ (wire' # <<>> => wire'[1][2] = 0)
  <2>1. CASE wire' = <<>>
    <3>1. n = L
      <4>1. Len(wire') = 0  BY <2>1
      <4> QED  BY <1>1, <1>5, <4>1
    <3>2. wire[n][1] = Len(sizes)
      BY <1>2, <3>1 DEF WireInv, L
    <3> QED  BY <1>1, <2>1, <3>2 DEF Unread
  <2>2. CASE wire' # <<>>
    <3>1. n < L /\ 1 + n = n + 1 /\ wire'[1] = wire[1 + n]
      BY <1>1, <1>12, <2>2
    <3>2. wire[n + 1] = <<wire[n][1] + 1, 0>>
      BY <1>5, <1>6, <1>7, <3>1, EndIsBehind, ZenonT(40)
    <3> QED  BY <2>2, <3>1, <3>2 DEF Unread
  <2> QED  BY <2>1, <2>2
<1>14. ASSUME NEW p \in 0 .. n - 1, sizes[buf'[p][1]] > 0
       PROVE  EndOf(buf[p], p)' = n - 1
  <2> DEFINE k == p + 1
             e == EndOf(wire[k], k)
             i == wire[k][1]
  <2>1. k \in Int /\ k \in 1 .. L /\ k \in 1 .. n /\ p \in Int
    BY <1>1, <1>5
  <2>2. buf'[p] = wire[k]
    BY <1>4
  <2> HIDE DEF k
  <2>3. wire[n][1] = i
    BY <1>1, <1>14, <2>1, <2>2 DEF WholePackets
  <2>4. /\ i \in 1 .. Len(sizes) /\ e \in Int /\ sizes[i] \in Nat /\ wire[k][2] \in Nat
        /\ e = k + HeaderSize + sizes[i] - 1 - wire[k][2]
        /\ \A m \in e + 1 .. L : wire[m][1] > i
    BY <1>5, <1>6, <2>1, EndIsBehind
  <2>5. EndOf(buf[p], p)' = p + HeaderSize + sizes[i] - 1 - wire[k][2]
    BY <1>1, <2>2 DEF EndOf
  <2>6. e <= n
    BY <1>8, <2>1
  <2>7. HeaderSize \in Nat /\ Len(sizes) \in Nat
    BY Numbers
  <2> HIDE DEF e, i
  <2>8. ~(e < n)
    <3> SUFFICES ASSUME e < n PROVE FALSE
      OBVIOUS
    <3>1. n \in e + 1 .. L
      BY <1>5, <2>4
    <3>2. wire[n][1] > i
      BY <2>4, <3>1
    <3> QED  BY <2>3, <2>4, <2>7, <3>2
  <2>9. e = n
    BY <1>5, <2>4, <2>6, <2>8
  <2> QED  BY <1>5, <2>1, <2>4, <2>5, <2>7, <2>9, SMTT(30) DEF k
<1>15. WithinRound'
  <2>1. readPos' \in 0 .. remaining' /\ remaining' > 0 /\ readPos' < remaining'
    BY <1>1, <1>4
  <2>2. Unread' = buf'[remaining' - 1][1] + 1
    BY <1>4, <1>11, <1>13
  <2>3. \A p \in 0 .. remaining' - 1 :
          sizes'[buf'[p][1]] > 0 => EndOf(buf[p], p)' = remaining' - 1
    BY <1>1, <1>4, <1>14
  <2>4. buf'[readPos'][2] = 0 /\ delivered' = UpTo(buf'[readPos'][1])
    BY <1>1, <1>3, <1>11
  <2> QED  BY <1>10, <2>1, <2>2, <2>3, <2>4 DEF WithinRound, UpTo
<1>16. BodiesExact'
  BY <1>1, <1>2 DEF BodiesExact
<1> QED  BY <1>1, <1>13, <1>15, <1>16 DEF AlignedInv

\* At the start of a packet the rest of the packet is in the buffer, and nothing
\* is behind it if it has a body.
LEMMA PacketInBuffer ==
    ASSUME IInv, WithinRound, readPos < remaining
    PROVE  LET i == buf[readPos][1]
               e == readPos + HeaderSize + sizes[i] - 1
           IN /\ i \in 1 .. Len(sizes) /\ sizes[i] \in Nat
              /\ e <= remaining - 1
              /\ sizes[i] > 0 => e = remaining - 1
              /\ \A m \in readPos .. e : buf[m] = <<i, m - readPos>>
              /\ e < remaining - 1 => buf[e + 1] = <<i + 1, 0>>
<1> DEFINE i == buf[readPos][1]
           e == EndOf(buf[readPos], readPos)
           last == remaining - 1
<1>1. readPos \in Int /\ last \in Int /\ readPos \in 0 .. last
  BY Numbers
<1>2. /\ Placed(buf, readPos, last) /\ buf[readPos][2] = 0
      /\ sizes[i] > 0 => e = last
  BY <1>1 DEF WithinRound, Stream
<1>3. /\ i \in 1 .. Len(sizes) /\ sizes[i] \in Nat
      /\ e \in Int /\ e <= last
      /\ e = readPos + HeaderSize + sizes[i] - 1 - buf[readPos][2]
      /\ \A m \in readPos .. e : buf[m] = <<i, buf[readPos][2] + m - readPos>>
      /\ e < last => buf[e + 1] = <<i + 1, 0>>
  BY <1>1, <1>2, EndIsBehind
<1>4. HeaderSize \in Nat
  BY Numbers
<1> HIDE DEF i, e, last
<1>5. e = readPos + HeaderSize + sizes[i] - 1
  BY <1>1, <1>2, <1>3, <1>4
<1>6. \A m \in readPos .. e : buf[m] = <<i, m - readPos>>
  BY <1>1, <1>2, <1>3
<1> QED  BY <1>2, <1>3, <1>5, <1>6 DEF i, last

LEMMA AddPacketQueueKeepsAligned ==
    ASSUME IInv, AlignedInv, AddPacketQueue PROVE AlignedInv'
<1> SUFFICES ASSUME aligned' PROVE AlignedInv'
  BY DEF AlignedInv
<1> DEFINE q == [size |-> BodySize, pos |-> BodyPos, body |-> CellsAt(BodyPos, BodySize)]
           r == readPos
           s == sizes[At]
           e == readPos + HeaderSize + sizes[At] - 1
           last == remaining - 1
<1>1. /\ stage = "parse" /\ HeaderFits /\ HeaderRead
      /\ queue' = Append(queue, q)
      /\ readPos' = BodyPos + BodySize /\ delivered' = Append(delivered, At)
      /\ sizes' = sizes /\ wire' = wire /\ buf' = buf /\ remaining' = remaining
      /\ stage' = stage /\ aligned' = aligned
  BY DEF AddPacketQueue
<1>2. WithinRound /\ BodiesExact /\ (wire # <<>> => wire[1][2] = 0)
  BY <1>1 DEF AlignedInv
<1>3. /\ HeaderSize \in Nat \ {0} /\ remaining \in Int /\ readPos \in Nat
      /\ readPos < remaining
  BY <1>1, Numbers, SMTT(30) DEF HeaderFits
<1>4. /\ At \in 1 .. Len(sizes) /\ s \in Nat
      /\ e <= last
      /\ \A m \in r .. e : buf[m] = <<At, m - r>>
      /\ e < last => buf[e + 1] = <<At + 1, 0>>
  BY <1>2, <1>3, PacketInBuffer DEF At
<1>5. readPos' = e + 1 /\ BodyPos = r + HeaderSize /\ BodySize = s
  BY <1>1, <1>3, <1>4 DEF BodyPos, BodySize
<1>6. e \in Int /\ r <= e /\ last \in Int /\ At \in Nat \ {0}
  BY <1>3, <1>4
<1>7. delivered' = UpTo(At + 1)
  <2>1. delivered = UpTo(At)
    BY <1>2, <1>3 DEF WithinRound, At
  <2> QED  BY <1>1, <1>6, <2>1, UpToNext
<1>8. Unread' = Unread
  BY <1>1 DEF Unread
<1>9. /\ Stream(buf, 0, remaining - 1)' /\ Unread' = buf'[remaining' - 1][1] + 1
      /\ \A p \in 0 .. remaining' - 1 :
           sizes'[buf'[p][1]] > 0 => EndOf(buf[p], p)' = remaining' - 1
      /\ remaining' > 0
  BY <1>1, <1>2, <1>8, SameSizes DEF WithinRound, Stream, EndOf
<1>10. readPos' \in 0 .. remaining'
  BY <1>1, <1>3, <1>4, <1>5, <1>6, SMTT(30)
<1>11. readPos' < remaining' => buf'[readPos'] = <<At + 1, 0>>
  <2> SUFFICES ASSUME readPos' < remaining' PROVE buf[e + 1] = <<At + 1, 0>>
    BY <1>1, <1>5
  <2>1. e + 1 < remaining
    BY <1>1, <1>5
  <2> HIDE DEF e
  <2>2. e < last
    BY <1>3, <1>6, <2>1
  <2> QED  BY <1>4, <2>2
<1>12. ~(readPos' < remaining') => Unread' = At + 1
  <2> SUFFICES ASSUME ~(readPos' < remaining') PROVE buf[last] = <<At, last - r>>
    BY <1>1, <1>9
  <2>1. last \in r .. e
    BY <1>1, <1>3, <1>4, <1>5, <1>6
  <2> QED  BY <1>4, <2>1
<1>13. WithinRound'
  BY <1>7, <1>9, <1>10, <1>11, <1>12 DEF WithinRound, UpTo
<1>14. \A j \in 1 .. q.size : q.body[j][2] = HeaderSize + j - 1
  <2> SUFFICES ASSUME NEW j \in 1 .. s PROVE CellsAt(BodyPos, s)[j][2] = HeaderSize + j - 1
    BY <1>5
  <2>1. /\ BodyPos + j - 1 \in r .. e
        /\ (BodyPos + j - 1) - r = HeaderSize + j - 1
    BY <1>3, <1>4, <1>5
  <2>2. CellsAt(BodyPos, s)[j] = buf[BodyPos + j - 1]
    BY DEF CellsAt
  <2>3. buf[BodyPos + j - 1] = <<At, HeaderSize + j - 1>>
    BY <1>4, <2>1
  <2> QED  BY <2>2, <2>3
<1> HIDE DEF q
<1>15. \A k \in 1 .. Len(queue') :
         queue'[k] = q \/ (k \in 1 .. Len(queue) /\ queue'[k] = queue[k])
  <2>1. queue \in Seq(Queued)
    BY DEF IInv, TypeOK, Queued
  <2> QED  BY <1>1, <2>1
<1>16. BodiesExact'
  BY <1>2, <1>14, <1>15 DEF BodiesExact
<1> QED  BY <1>1, <1>2, <1>13, <1>16 DEF AlignedInv

\* The processing ends only behind the last packet: none is held back.
LEMMA EndProcessKeepsAligned ==
    ASSUME IInv, AlignedInv, EndProcess PROVE AlignedInv'
<1> SUFFICES ASSUME aligned' PROVE AlignedInv'
  BY DEF AlignedInv
<1>1. /\ stage = "parse" /\ stage' = "handle" /\ remaining' = remaining - readPos
      /\ HeaderFits => HeaderRead /\ HeldBack
      /\ sizes' = sizes /\ wire' = wire /\ queue' = queue
      /\ delivered' = delivered /\ aligned' = aligned
  BY RestShown DEF EndProcess
<1>2. WithinRound /\ BodiesExact /\ (wire # <<>> => wire[1][2] = 0)
  BY <1>1 DEF AlignedInv
<1>3. HeaderSize \in Nat /\ remaining \in Int /\ readPos \in Nat
  BY Numbers
<1>4. ~(readPos < remaining)
  <2> SUFFICES ASSUME readPos < remaining PROVE FALSE
    OBVIOUS
  <2>1. /\ sizes[At] \in Nat
        /\ readPos + HeaderSize + sizes[At] - 1 <= remaining - 1
        /\ sizes[At] > 0 => readPos + HeaderSize + sizes[At] - 1 = remaining - 1
    BY <1>2, PacketInBuffer DEF At
  <2>2. HeaderFits
    BY <1>3, <2>1 DEF HeaderFits
  <2>3. sizes[At] > 0 /\ sizes[At] < remaining - (readPos + HeaderSize)
    BY <1>1, <2>2 DEF HeldBack, BodySize, BodyPos
  <2> QED  BY <1>3, <2>1, <2>3
<1>5. remaining' = 0 /\ delivered = UpTo(Unread)
  BY <1>1, <1>2, <1>3, <1>4 DEF WithinRound
<1>6. Unread' = Unread
  BY <1>1 DEF Unread
<1>7. BetweenRounds'
  BY <1>1, <1>5, <1>6 DEF BetweenRounds, UpTo
<1>8. BodiesExact'
  BY <1>1, <1>2 DEF BodiesExact
<1> QED  BY <1>1, <1>2, <1>7, <1>8 DEF AlignedInv

LEMMA EmptyIsAligned ==
    ASSUME wire = <<>>, sizes = <<>>, delivered = <<>>, queue = <<>>,
           remaining = 0, stage = "select"
    PROVE  AlignedInv
<1>1. Len(sizes) = 0 /\ Len(queue) = 0
  OBVIOUS
<1>2. BetweenRounds
  BY <1>1, UpToNothing DEF BetweenRounds, Unread
<1> QED  BY <1>1, <1>2 DEF AlignedInv, BodiesExact

LEMMA CloseKeepsAligned == ASSUME CloseSession PROVE AlignedInv'
<1>1. /\ wire' = <<>> /\ sizes' = <<>> /\ delivered' = <<>> /\ queue' = <<>>
      /\ remaining' = 0 /\ stage' = "select"
  BY DEF CloseSession
<1>2. Len(sizes') = 0 /\ Len(queue') = 0
  BY <1>1
<1>3. Unread' = 1
  BY <1>1, <1>2 DEF Unread
<1>4. UpTo(Unread)' = UpTo(1)
  BY <1>3 DEF UpTo
<1>5. BetweenRounds'
  BY <1>1, <1>4, UpToNothing DEF BetweenRounds
<1> QED  BY <1>1, <1>2, <1>5 DEF AlignedInv, BodiesExact

LEMMA OthersKeepAligned ==
    ASSUME AlignedInv, RecvNothing \/ TooLarge \/ Garble \/ Process \/ UNCHANGED vars
    PROVE  AlignedInv'
<1> SUFFICES ASSUME aligned' PROVE AlignedInv'
  BY DEF AlignedInv
<1>1. sizes' = sizes /\ wire' = wire /\ buf' = buf /\ delivered' = delivered
      /\ aligned' = aligned /\ readPos' = readPos
  BY DEF RecvNothing, TooLarge, Garble, Process, vars
<1>2. Unread' = Unread
  BY <1>1 DEF Unread
<1>3. CASE RecvNothing
  BY <1>1, <1>3 DEF RecvNothing, AlignedInv, BetweenRounds
<1>4. CASE TooLarge \/ Garble
  BY <1>1, <1>4 DEF TooLarge, Garble, AlignedInv, BodiesExact
<1>5. CASE Process
  <2>1. /\ stage = "handle" /\ stage' = "select" /\ remaining' = remaining
        /\ queue' = <<>> /\ Len(queue') = 0
    BY <1>5 DEF Process
  <2> QED
    BY <1>1, <1>2, <2>1 DEF AlignedInv, BetweenRounds, BodiesExact, UpTo
<1>6. CASE UNCHANGED vars
  <2>1. stage' = stage /\ remaining' = remaining /\ queue' = queue
    BY <1>6 DEF vars
  <2>2. BetweenRounds' = BetweenRounds
    BY <1>1, <1>2, <2>1 DEF BetweenRounds, UpTo
  <2>3. WithinRound => WithinRound'
    BY <1>1, <1>2, <2>1, SameSizes DEF WithinRound, Stream, EndOf, UpTo
  <2>4. BodiesExact' = BodiesExact
    BY <2>1 DEF BodiesExact
  <2> QED  BY <1>1, <2>1, <2>2, <2>3, <2>4 DEF AlignedInv
<1> QED  BY <1>3, <1>4, <1>5, <1>6

LEMMA StepKeepsAligned ==
    ASSUME IInv, WireInv, AlignedInv, [Next]_vars PROVE AlignedInv'
BY SendKeepsAligned, RecvSocketKeepsAligned, AddPacketQueueKeepsAligned,
   EndProcessKeepsAligned, CloseKeepsAligned, OthersKeepAligned DEF Next, Round

-----------------------------------------------------------------------------

\* The invariants of the receive buffer, with what they rest on, hold for any
\* sizes and any way TCP cuts the stream.
THEOREM FramingInvariance == Spec => []IInv
BY InitHolds, StepKeeps, PTL DEF Spec

\* Every variable keeps its type.
THEOREM FramingTypeCorrect == Spec => []TypeOK
<1>1. IInv => TypeOK  BY DEF IInv
<1> QED  BY <1>1, FramingInvariance, PTL

\* No read and no body goes beyond the buffer, if it holds four packets.
THEOREM BufferIsLargeEnough == Spec => []InBounds
<1>1. IInv => InBounds
  <2> SUFFICES ASSUME IInv PROVE InBounds
    OBVIOUS
  <2>1. /\ MaxPacket \in Nat /\ BufferSize \in Nat /\ 4 * MaxPacket <= BufferSize
        /\ remaining \in Int /\ remaining <= 2 * MaxPacket
    BY FramingAssumption DEF IInv, TypeOK, RestSmall
  <2>2. RecvPos + 2 * MaxPacket <= BufferSize  BY <2>1 DEF RecvPos
  <2>3. ASSUME NEW k \in 1 .. Len(queue) PROVE queue[k].pos + queue[k].size <= BufferSize
    <3>1. queue[k] \in Queued  BY QueueEntries
    <3>2. queue[k].pos + queue[k].size <= 3 * MaxPacket  BY DEF IInv, RestSmall
    <3> QED  BY <2>1, <3>1, <3>2 DEF Queued
  <2> QED  BY <2>2, <2>3 DEF InBounds
<1> QED  BY <1>1, FramingInvariance, PTL

\* Handlers see the bodies as they were queued.
THEOREM BodiesStayIntact == Spec => []QueuedBodiesIntact
<1>1. IInv => QueuedBodiesIntact  BY DEF IInv
<1> QED  BY <1>1, FramingInvariance, PTL

\* However the stream is cut, no packet is delivered twice or out of order.
THEOREM PacketsInOrder == Spec => []InOrderOnce
<1>1. Init => OrderInv
  BY EmptyInOrder DEF Init
<1>2. OrderInv => InOrderOnce
  BY DEF OrderInv
<1> QED  BY <1>1, <1>2, StepKeepsOrder, FramingInvariance, PTL DEF Spec

\* As long as every read ends with a packet and holds at most one body, its last,
\* each packet that was read is delivered, complete and in order: the reading of
\* RecvBufferProcess that is right for the streams it was written for.
THEOREM AlignedStreamsAreExact == Spec => []ExactWhileAligned
<1>1. Init => AlignedInv
  BY EmptyIsAligned DEF Init
<1>2. AlignedInv => ExactWhileAligned
  BY DEF AlignedInv, ExactWhileAligned, BetweenRounds, BodiesExact, Unread, UpTo
<1>3. IInv /\ (WireInv /\ AlignedInv) /\ [Next]_vars => (WireInv /\ AlignedInv)'
  BY StepKeepsWire, StepKeepsAligned
<1> QED  BY <1>1, <1>2, <1>3, InitWire, FramingInvariance, PTL DEF Spec

=============================================================================
