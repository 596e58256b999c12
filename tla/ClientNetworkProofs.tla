------------------------- MODULE ClientNetworkProofs -------------------------
(***************************************************************************)
(* What holds of the client's two threads for any sizes and any number of  *)
(* connections: the thread is joined before the next is started, what      *)
(* DisConnect leaves behind comes from the round it interrupted, and a     *)
(* connection that began clean hands on what was sent.  The last follows   *)
(* what is Ahead of the thread, in the buffer, in its hand and on the      *)
(* wire: the rest of what the server sent, from the byte after the last    *)
(* packet that was queued.                                                 *)
(***************************************************************************)
EXTENDS ClientNetwork, SequenceTheorems, TLAPS

\* The UI thread is idle without a connection only when no thread is left.
JoinedFirst ==
    /\ ui = "idle" /\ ~connected => thread = "none"
    /\ ui \in {"notConnected", "empty", "join"} => ~connected

\* Once Clear has zeroed the size outside a round, it stays zero: the thread has
\* nothing in hand, and the closed socket gives it nothing.
Drained ==
    /\ recvSize = 0
    /\ thread \notin {"load", "store"}
    /\ thread \in {"parse", "loadRest", "storeRest"} => dataSize = 0 /\ readPos = 0
    /\ thread = "storeRest" => reg = 0

StaysDrained ==
    /\ ui # "idle" => wire = <<>>
    /\ ui \in {"empty", "join"} => caught \/ Drained
    /\ ui = "join" => caught \/ queue = <<>>
    /\ CleanStart

Inv == NeverTerminated /\ JoinedFirst /\ StaysDrained

-----------------------------------------------------------------------------
(* What the thread works on *)

Cells == Nat \X Nat \X Nat
Nothing == <<0, 0, 0>>

\* A cell is one the server has sent, or none.
Sound(c) ==
    c = Nothing \/ (c[1] \in 1 .. Conn /\ c[2] \in 1 .. Len(sent[c[1]]))

CellsSound ==
    /\ buffer \in [0 .. BufferSize - 1 -> Cells]
    /\ wire \in Seq(Cells) /\ got \in Seq(Cells)
    /\ \A i \in 0 .. BufferSize - 1 : Sound(buffer[i])
    /\ \A k \in 1 .. Len(wire) : Sound(wire[k])
    /\ \A k \in 1 .. Len(got) : Sound(got[k])

\* What the thread has in hand is what m_recvSize was when it read it, or what
\* Clear has made of it since; the positions it computes lie in the buffer.
InBuffer ==
    /\ thread = "store" => reg >= 0 /\ reg + Len(got) < BufferSize
    /\ readPos = 0 \/ readPos <= dataSize
    /\ thread \in {"none", "test", "recv", "load", "store", "size", "ended"} => readPos = 0
    /\ thread \in {"parse", "loadRest"} => recvSize \in {dataSize, 0}
    /\ thread = "storeRest" => reg \in {dataSize, 0}
    /\ thread = "shift" => recvSize + readPos <= BufferSize
    /\ connected => Conn > 0

\* What the thread queues and the scenes get.
Packets == [conn : Nat, packet : Nat, intact : BOOLEAN]
QueuesTyped == queue \in Seq(Packets) /\ handled \in Seq(Packets)

TypeInv == TypeOK /\ CellsSound /\ InBuffer /\ QueuesTyped

\* What the scenes have got and will get.
Seen == handled \o queue

\* Where the data in the buffer ends, and what comes behind it.
DataEnd == IF thread = "shift" THEN readPos + recvSize ELSE recvSize
InHand == IF thread \in {"load", "store"} THEN got ELSE <<>>
End == DataEnd + Len(InHand) + Len(wire)

\* What the thread has still to look at, from readPos to End - 1.
Ahead == [k \in Nat |->
            IF k < DataEnd THEN buffer[k]
            ELSE IF k < DataEnd + Len(InHand) THEN InHand[k - DataEnd + 1]
            ELSE wire[k - DataEnd - Len(InHand) + 1]]

\* The position of the last cell of a packet that has cell c at position k.
EndOf(c, k) == k + HeaderSize + sent[Conn][c[2]] - c[3]

\* In f, read up to position `to`, the packet of the cell at position k is whole
\* from that cell on, and the next packet follows it.
Placed(f, k, to) ==
    LET p == f[k][2]
        e == EndOf(f[k], k)
    IN /\ f[k][1] = Conn /\ p \in 1 .. Len(sent[Conn])
       /\ f[k][3] \in 1 .. HeaderSize + sent[Conn][p]
       /\ e <= to
       /\ \A m \in k .. e : f[m] = <<Conn, p, f[k][3] + m - k>>
       /\ e < to => f[e + 1] = <<Conn, p + 1, 1>>

\* What is ahead is the rest of what was sent, from the packet after those seen.
RestAhead ==
    /\ \A k \in readPos .. End - 1 : Placed(Ahead, k, End - 1)
    /\ IF readPos < End
         THEN /\ Ahead[readPos] = <<Conn, Len(Seen) + 1, 1>>
              /\ Ahead[End - 1][2] = Len(sent[Conn])
         ELSE Len(Seen) = Len(sent[Conn])

\* Outside a round no more than a header is left in the buffer, and in a round the
\* thread works with the size that m_recvSize has.
InStep ==
    /\ thread \notin {"none", "ended", "wild"}
    /\ recvSize >= 0 /\ readPos <= DataEnd
    /\ thread \in {"test", "recv", "load", "store"} => recvSize <= HeaderSize
    /\ thread = "store" => reg = recvSize
    /\ thread \in {"parse", "loadRest", "storeRest"} => dataSize = recvSize
    /\ thread = "storeRest" => reg = recvSize
    /\ thread \in {"loadRest", "storeRest", "shift"} => DataEnd - readPos <= HeaderSize

AllIntact == \A p \in 1 .. Len(Seen) : Seen[p] = Intact(Conn, p)

ExactNow == EndsWell(wire) /\ InStep /\ RestAhead /\ AllIntact

Exact == clean /\ connected /\ ui = "idle" => ExactNow

\* The part of TypeOK that says something of numbers.
Bounds ==
    /\ {recvSize, reg, dataSize} \subseteq -BufferSize .. BufferSize
    /\ readPos \in 0 .. BufferSize
    /\ Len(got) <= ReadMax
    /\ sent \in Seq(Seq(BodySizes)) /\ Conn <= MaxConns

Control ==
    /\ ui \in {"idle", "closed", "notConnected", "empty", "join"}
    /\ thread \in {"load", "store", "parse", "loadRest", "storeRest", "none", "test",
                   "recv", "size", "shift", "ended", "wild"}
    /\ {connected, gone, clean, caught, terminated} \subseteq BOOLEAN

\* What a step owes to the types beside the control.
DataInv == Bounds /\ CellsSound /\ InBuffer

-----------------------------------------------------------------------------

LEMMA InitInv == Init => Inv
  BY DEF Init, Inv, NeverTerminated, JoinedFirst, StaysDrained, CleanStart, Drained

\* The server and the socket do not touch what the two threads share.
LEMMA ServerStep ==
  ASSUME Inv, Send \/ ServerCloses
  PROVE  Inv'
  BY DEF Inv, NeverTerminated, JoinedFirst, StaysDrained, CleanStart, Drained,
         Send, ServerCloses, mem, local, log

LEMMA UIStep ==
  ASSUME Inv, ConnectTo \/ PacketProcess \/ CloseSocket \/ DisConnectStep
  PROVE  Inv'
<1>1. CASE ConnectTo
  BY <1>1 DEF Inv, NeverTerminated, JoinedFirst, StaysDrained, CleanStart, Drained,
              ConnectTo, local
<1>2. CASE PacketProcess
  BY <1>2 DEF Inv, NeverTerminated, JoinedFirst, StaysDrained, CleanStart, Drained,
              PacketProcess, local, peer
<1>3. CASE CloseSocket
  BY <1>3 DEF Inv, NeverTerminated, JoinedFirst, StaysDrained, CleanStart, Drained,
              CloseSocket, mem, local, log
<1>4. CASE ClearConnected
  BY <1>4 DEF Inv, NeverTerminated, JoinedFirst, StaysDrained, CleanStart, Drained,
              ClearConnected, local, peer, log
<1>5. CASE ClearSize
  BY <1>5 DEF Inv, NeverTerminated, JoinedFirst, StaysDrained, CleanStart, Drained,
              ClearSize, InRound, local, peer
<1>6. CASE ClearQueue
  BY <1>6 DEF Inv, NeverTerminated, JoinedFirst, StaysDrained, CleanStart, Drained,
              ClearQueue, local, peer, log
<1>7. CASE Join
  BY <1>7 DEF Inv, NeverTerminated, JoinedFirst, StaysDrained, CleanStart, Drained,
              Join, mem, local, peer, log
<1> QED BY <1>1, <1>2, <1>3, <1>4, <1>5, <1>6, <1>7 DEF DisConnectStep

\* A thread that runs is none of the UI thread's business.
LEMMA ThreadKeepsJoined ==
  ASSUME Inv, ThreadStep
  PROVE  NeverTerminated' /\ JoinedFirst'
<1>1. thread # "none" /\ ui' = ui /\ connected' = connected /\ terminated' = terminated
  BY DEF ThreadStep, Update, RecvSome, RecvNothing, LoadSize, StoreData, ReadSize, Parse,
         LoadRest, StoreRest, Shift, mem, log
<1> QED BY <1>1 DEF Inv, NeverTerminated, JoinedFirst

LEMMA ThreadStaysDrained ==
  ASSUME Inv, ThreadStep
  PROVE  StaysDrained'
<1>1. thread # "none" /\ ui' = ui /\ connected' = connected /\ caught' = caught
  BY DEF ThreadStep, Update, RecvSome, RecvNothing, LoadSize, StoreData, ReadSize, Parse,
         LoadRest, StoreRest, Shift, mem, log
<1>2. ~(ui = "idle" /\ ~connected)
  BY <1>1 DEF Inv, JoinedFirst
<1>3. CleanStart'
  BY <1>1, <1>2 DEF CleanStart
<1>4. ui # "idle" => wire' = <<>>
  <2>1. ui # "idle" => ~RecvSome
    BY DEF Inv, StaysDrained, RecvSome
  <2> QED BY <2>1 DEF Inv, StaysDrained, ThreadStep, Update, RecvNothing, LoadSize,
           StoreData, ReadSize, Parse, LoadRest, StoreRest, Shift, peer
<1>5. ASSUME ui \in {"empty", "join"}, ~caught
      PROVE  Drained' /\ (ui = "join" => queue' = <<>>)
  <2>1. Drained /\ wire = <<>> /\ (ui = "join" => queue = <<>>)
    BY <1>5 DEF Inv, StaysDrained
  <2>2. ~RecvSome /\ ~LoadSize /\ ~StoreData
    BY <2>1 DEF Drained, RecvSome, LoadSize, StoreData
  <2>3. CASE Update
    BY <2>1, <2>3 DEF Drained, Update, mem, local
  <2>4. CASE RecvNothing
    BY <2>1, <2>4 DEF Drained, RecvNothing, mem, local
  <2>5. CASE ReadSize
    BY <2>1, <2>5 DEF Drained, ReadSize, mem
  <2>6. CASE Parse
    <3>1. ~HeaderFits
      BY <2>1, <2>6, ClientAssumption DEF Drained, Parse, HeaderFits
    <3> QED BY <2>1, <2>6, <3>1 DEF Drained, Parse
  <2>7. CASE LoadRest
    BY <2>1, <2>7 DEF Drained, LoadRest, mem
  <2>8. CASE StoreRest
    BY <2>1, <2>8 DEF Drained, StoreRest, local
  <2>9. CASE Shift
    BY <2>1, <2>9 DEF Drained, Shift
  <2> QED BY <2>2, <2>3, <2>4, <2>5, <2>6, <2>7, <2>8, <2>9 DEF ThreadStep
<1> QED BY <1>1, <1>3, <1>4, <1>5 DEF StaysDrained

LEMMA NextInv == Inv /\ [Next]_vars => Inv'
<1> SUFFICES ASSUME Inv, [Next]_vars PROVE Inv'
  OBVIOUS
<1>1. CASE Send \/ ServerCloses
  BY <1>1, ServerStep
<1>2. CASE ConnectTo \/ PacketProcess \/ CloseSocket \/ DisConnectStep
  BY <1>2, UIStep
<1>3. CASE ThreadStep
  BY <1>3, ThreadKeepsJoined, ThreadStaysDrained DEF Inv
<1>4. CASE UNCHANGED vars
  BY <1>4 DEF Inv, NeverTerminated, JoinedFirst, StaysDrained, CleanStart, Drained,
              vars, mem, local, peer, log
<1> QED BY <1>1, <1>2, <1>3, <1>4 DEF Next

-----------------------------------------------------------------------------
(* Types, and what the cells in the buffer, on the wire and in hand are *)

LEMMA Sizes ==
    /\ HeaderSize \in Nat \ {0} /\ ReadMax \in Nat \ {0} /\ BufferSize \in Nat
    /\ MaxSent \in Nat /\ MaxConns \in Nat
    /\ HeaderSize + ReadMax < BufferSize
    /\ \A n \in BodySizes : n \in Nat /\ 1 <= n /\ n <= ReadMax
BY ClientAssumption

LEMMA TypeFacts ==
    ASSUME TypeInv
    PROVE  /\ recvSize \in Int /\ -BufferSize <= recvSize /\ recvSize <= BufferSize
           /\ reg \in Int /\ -BufferSize <= reg /\ reg <= BufferSize
           /\ dataSize \in Int /\ -BufferSize <= dataSize /\ dataSize <= BufferSize
           /\ readPos \in Nat /\ readPos <= BufferSize
           /\ buffer \in [0 .. BufferSize - 1 -> Cells]
           /\ wire \in Seq(Cells) /\ got \in Seq(Cells)
           /\ Len(wire) \in Nat /\ Len(got) \in Nat /\ Len(got) <= ReadMax
           /\ sent \in Seq(Seq(BodySizes)) /\ Conn \in Nat /\ Conn <= MaxConns
           /\ \A c \in 1 .. Conn : sent[c] \in Seq(BodySizes) /\ Len(sent[c]) \in Nat
<1>1. /\ recvSize \in -BufferSize .. BufferSize /\ reg \in -BufferSize .. BufferSize
      /\ dataSize \in -BufferSize .. BufferSize /\ readPos \in 0 .. BufferSize
      /\ Len(got) <= ReadMax /\ sent \in Seq(Seq(BodySizes)) /\ Conn <= MaxConns
  BY DEF TypeInv, TypeOK
<1>2. /\ buffer \in [0 .. BufferSize - 1 -> Cells]
      /\ wire \in Seq(Cells) /\ got \in Seq(Cells)
  BY DEF TypeInv, CellsSound
<1>3. /\ Conn \in Nat
      /\ \A c \in 1 .. Conn : sent[c] \in Seq(BodySizes) /\ Len(sent[c]) \in Nat
  BY <1>1 DEF Conn
<1>4. /\ recvSize \in Int /\ -BufferSize <= recvSize /\ recvSize <= BufferSize
      /\ reg \in Int /\ -BufferSize <= reg /\ reg <= BufferSize
      /\ dataSize \in Int /\ -BufferSize <= dataSize /\ dataSize <= BufferSize
      /\ readPos \in Nat /\ readPos <= BufferSize
  BY <1>1, Sizes
<1> QED  BY <1>1, <1>2, <1>3, <1>4

LEMMA TypeSplit == TypeOK <=> Control /\ Bounds
BY DEF TypeOK, Control, Bounds, InRound

LEMMA StepKeepsControl == ASSUME Control, [Next]_vars PROVE Control'
<1>1. /\ ui \in {"idle", "closed", "notConnected", "empty", "join"}
      /\ thread \in {"load", "store", "parse", "loadRest", "storeRest", "none", "test",
                     "recv", "size", "shift", "ended", "wild"}
      /\ connected \in BOOLEAN /\ gone \in BOOLEAN /\ clean \in BOOLEAN
      /\ caught \in BOOLEAN /\ terminated \in BOOLEAN
  BY DEF Control
<1>2. ui' \in {"idle", "closed", "notConnected", "empty", "join"}
  BY <1>1 DEF Next, vars, Send, ServerCloses, ConnectTo, PacketProcess, CloseSocket,
     DisConnectStep, ClearConnected, ClearSize, ClearQueue, Join, ThreadStep, Update,
     RecvSome, RecvNothing, LoadSize, StoreData, ReadSize, Parse, LoadRest, StoreRest, Shift
<1>3. thread' \in {"load", "store", "parse", "loadRest", "storeRest", "none", "test",
                   "recv", "size", "shift", "ended", "wild"}
  BY <1>1 DEF Next, vars, Send, ServerCloses, ConnectTo, PacketProcess, CloseSocket,
     DisConnectStep, ClearConnected, ClearSize, ClearQueue, Join, ThreadStep, Update,
     RecvSome, RecvNothing, LoadSize, StoreData, ReadSize, Parse, LoadRest, StoreRest, Shift
<1>4. connected' \in BOOLEAN /\ gone' \in BOOLEAN
  BY <1>1 DEF Next, vars, Send, ServerCloses, ConnectTo, PacketProcess, CloseSocket,
     DisConnectStep, ClearConnected, ClearSize, ClearQueue, Join, ThreadStep, Update,
     RecvSome, RecvNothing, LoadSize, StoreData, ReadSize, Parse, LoadRest, StoreRest,
     Shift,
     mem, peer
<1>5. clean' \in BOOLEAN
  <2>1. \/ clean' = clean
        \/ clean' = (recvSize = 0 /\ queue = <<>>)
        \/ clean' = (clean /\ EndsWell(wire'))
    BY DEF Next, vars, Send, ServerCloses, ConnectTo, PacketProcess, CloseSocket,
       DisConnectStep, ClearConnected, ClearSize, ClearQueue, Join, ThreadStep, Update,
       RecvSome, RecvNothing, LoadSize, StoreData, ReadSize, Parse, LoadRest, StoreRest,
       Shift, log
  <2>2. \A b : (clean /\ b) \in BOOLEAN /\ (recvSize = 0 /\ b) \in BOOLEAN
    OBVIOUS
  <2> QED  BY <1>1, <2>1, <2>2, Zenon
<1>6. caught' \in BOOLEAN /\ terminated' \in BOOLEAN
  <2>1. caught' = caught \/ caught' = (thread \in InRound)
    BY DEF Next, vars, Send, ServerCloses, ConnectTo, PacketProcess, CloseSocket,
       DisConnectStep, ClearConnected, ClearSize, ClearQueue, Join, ThreadStep, Update,
       RecvSome, RecvNothing, LoadSize, StoreData, ReadSize, Parse, LoadRest, StoreRest,
       Shift, log
  <2>2. terminated' = terminated \/ terminated' = (terminated \/ thread # "none")
    BY DEF Next, vars, Send, ServerCloses, ConnectTo, PacketProcess, CloseSocket,
       DisConnectStep, ClearConnected, ClearSize, ClearQueue, Join, ThreadStep, Update,
       RecvSome, RecvNothing, LoadSize, StoreData, ReadSize, Parse, LoadRest, StoreRest,
       Shift, log
  <2>3. (thread \in InRound) \in BOOLEAN /\ (terminated \/ thread # "none") \in BOOLEAN
    OBVIOUS
  <2> QED  BY <1>1, <2>1, <2>2, <2>3, Zenon
<1> QED  BY <1>2, <1>3, <1>4, <1>5, <1>6 DEF Control

LEMMA JunkIsCell == Nothing \in Cells /\ Sound(Nothing)
BY DEF Nothing, Cells, Sound

LEMMA InitTypes == Init => TypeInv
<1> SUFFICES ASSUME Init PROVE TypeInv
  OBVIOUS
<1>1. Control
  BY DEF Init, Control
<1>2. sent \in Seq(Seq(BodySizes)) /\ Conn = 0 /\ Len(got) = 0 /\ Len(wire) = 0
      /\ wire \in Seq(Cells) /\ got \in Seq(Cells)
  BY DEF Init, Conn
<1>3. Bounds
  BY <1>2, Sizes DEF Init, Bounds
<1>4. buffer \in [0 .. BufferSize - 1 -> Cells]
      /\ \A i \in 0 .. BufferSize - 1 : buffer[i] = Nothing
  BY JunkIsCell DEF Init, Nothing
<1>5. CellsSound
  BY <1>2, <1>4, JunkIsCell DEF CellsSound
<1>6. InBuffer
  BY DEF Init, InBuffer
<1>7. QueuesTyped
  BY DEF Init, QueuesTyped
<1> QED  BY <1>1, <1>3, <1>5, <1>6, <1>7, TypeSplit DEF TypeInv

\* As long as nothing is sent or copied, what is a cell remains one.
LEMMA SameCells ==
    ASSUME CellsSound, UNCHANGED <<buffer, wire, got, sent>>
    PROVE  CellsSound'
BY DEF CellsSound, Sound, Conn

\* What was sent stays sent.
LEMMA StaysSound ==
    ASSUME TypeInv, Conn <= Conn', Conn' \in Nat,
           \A c \in 1 .. Conn : Len(sent'[c]) \in Nat /\ Len(sent[c]) <= Len(sent'[c])
    PROVE  \A c \in Cells : Sound(c) => Sound(c)'
<1> SUFFICES ASSUME NEW c \in Cells, Sound(c), c # Nothing
             PROVE  c[1] \in 1 .. Conn' /\ c[2] \in 1 .. Len(sent'[c[1]])
  BY DEF Sound
<1>1. c[1] \in 1 .. Conn /\ c[2] \in 1 .. Len(sent[c[1]])
  BY DEF Sound
<1>2. Conn \in Nat /\ Len(sent[c[1]]) \in Nat
  BY <1>1, TypeFacts
<1>3. Len(sent'[c[1]]) \in Nat /\ Len(sent[c[1]]) <= Len(sent'[c[1]])
  BY <1>1
<1> HIDE DEF Conn
<1> QED  BY <1>1, <1>2, <1>3

LEMMA SendShown ==
    ASSUME TypeInv, Send
    PROVE  /\ ui = "idle" /\ connected /\ Conn \in Nat \ {0} /\ Conn' = Conn
           /\ \E n \in BodySizes :
                /\ sent' \in Seq(Seq(BodySizes))
                /\ \A c \in 1 .. Conn : c # Conn => sent'[c] = sent[c]
                /\ sent'[Conn] \in Seq(BodySizes)
                /\ Len(sent'[Conn]) = Len(sent[Conn]) + 1
                /\ \A p \in 1 .. Len(sent[Conn]) : sent'[Conn][p] = sent[Conn][p]
                /\ sent'[Conn][Len(sent[Conn]) + 1] = n
                /\ wire' \in Seq(Cells)
                /\ Len(wire') = Len(wire) + HeaderSize + n
                /\ \A k \in 1 .. Len(wire) : wire'[k] = wire[k]
                /\ \A k \in Len(wire) + 1 .. Len(wire') :
                     wire'[k] = <<Conn, Len(sent[Conn]) + 1, k - Len(wire)>>
           /\ UNCHANGED <<ui, thread, mem, local, gone, log>>
<1> DEFINE s == Len(sent[Conn])
           packet(n) == [o \in 1 .. HeaderSize + n |-> <<Conn, s + 1, o>>]
<1>1. ui = "idle" /\ connected /\ UNCHANGED <<ui, thread, mem, local, gone, log>>
  BY DEF Send
<1>2. Conn \in Nat \ {0}
  BY <1>1, TypeFacts DEF TypeInv, InBuffer
<1>3. /\ sent \in Seq(Seq(BodySizes)) /\ Conn \in 1 .. Conn /\ s \in Nat
      /\ sent[Conn] \in Seq(BodySizes) /\ wire \in Seq(Cells)
  BY <1>2, TypeFacts
<1>4. PICK n \in BodySizes :
        /\ sent' = [sent EXCEPT ![Conn] = Append(@, n)]
        /\ wire' = wire \o packet(n)
  BY DEF Send
<1>5. n \in Nat /\ HeaderSize \in Nat /\ HeaderSize + n \in Nat
  BY Sizes
<1>6. Append(sent[Conn], n) \in Seq(BodySizes)
      /\ Len(Append(sent[Conn], n)) = s + 1
      /\ \A p \in 1 .. s : Append(sent[Conn], n)[p] = sent[Conn][p]
      /\ Append(sent[Conn], n)[s + 1] = n
  BY <1>3
<1>7. /\ sent' \in Seq(Seq(BodySizes)) /\ Conn' = Conn
      /\ sent'[Conn] = Append(sent[Conn], n)
      /\ \A c \in 1 .. Conn : c # Conn => sent'[c] = sent[c]
  <2> DEFINE a == Append(sent[Conn], n)
  <2>1. a \in Seq(BodySizes)
    BY <1>6
  <2>2. sent' = [sent EXCEPT ![Conn] = a]
    BY <1>4
  <2> HIDE DEF a
  <2>3. DOMAIN sent = 1 .. Conn
    BY <1>3 DEF Conn
  <2>4. sent' \in [1 .. Conn -> Seq(BodySizes)]
    BY <1>3, <2>1, <2>2, <2>3 DEF Conn
  <2>5. sent' \in Seq(Seq(BodySizes)) /\ Len(sent') = Conn
    BY <1>2, <2>4
  <2> QED  BY <1>3, <2>2, <2>3, <2>5 DEF Conn, a
<1>8. /\ packet(n) \in Seq(Cells) /\ Len(packet(n)) = HeaderSize + n
      /\ \A o \in 1 .. HeaderSize + n : packet(n)[o] = <<Conn, s + 1, o>>
  <2>1. \A o \in 1 .. HeaderSize + n : <<Conn, s + 1, o>> \in Cells
    BY <1>2, <1>3, <1>5, SMTT(30) DEF Cells
  <2>2. packet(n) \in [1 .. HeaderSize + n -> Cells]
    BY <2>1
  <2> QED  BY <1>5, <2>2
<1> HIDE DEF packet
<1>9. /\ wire' \in Seq(Cells) /\ Len(wire') = Len(wire) + Len(packet(n))
      /\ \A k \in 1 .. Len(wire') :
           wire'[k] = IF k <= Len(wire) THEN wire[k] ELSE packet(n)[k - Len(wire)]
  BY <1>3, <1>4, <1>8
<1>10. Len(wire) \in Nat
  BY <1>3
<1>11. \A k \in 1 .. Len(wire) : wire'[k] = wire[k]
  BY <1>5, <1>8, <1>9, <1>10
<1>12. ASSUME NEW k \in Len(wire) + 1 .. Len(wire')
       PROVE  wire'[k] = <<Conn, s + 1, k - Len(wire)>>
  <2>1. k - Len(wire) \in 1 .. HeaderSize + n /\ wire'[k] = packet(n)[k - Len(wire)]
    BY <1>5, <1>8, <1>9, <1>10
  <2> QED  BY <1>8, <2>1
<1>13. Len(wire') = Len(wire) + HeaderSize + n
  BY <1>5, <1>8, <1>9, <1>10
<1>14. \E m \in BodySizes :
         /\ Len(wire') = Len(wire) + HeaderSize + m /\ sent'[Conn][s + 1] = m
  BY <1>6, <1>7, <1>13
<1>15. sent'[Conn] \in Seq(BodySizes) /\ Len(sent'[Conn]) = s + 1
       /\ \A p \in 1 .. s : sent'[Conn][p] = sent[Conn][p]
  BY <1>6, <1>7
<1> HIDE DEF s
<1> QED
  BY <1>1, <1>2, <1>7, <1>9, <1>11, <1>12, <1>14, <1>15 DEF s

LEMMA SendTypes == ASSUME TypeInv, Send PROVE DataInv'
<1> DEFINE s == Len(sent[Conn])
<1>1. PICK n \in BodySizes :
        /\ sent' \in Seq(Seq(BodySizes))
        /\ \A c \in 1 .. Conn : c # Conn => sent'[c] = sent[c]
        /\ Len(sent'[Conn]) = s + 1
        /\ wire' \in Seq(Cells)
        /\ Len(wire') = Len(wire) + HeaderSize + n
        /\ \A k \in 1 .. Len(wire) : wire'[k] = wire[k]
        /\ \A k \in Len(wire) + 1 .. Len(wire') : wire'[k] = <<Conn, s + 1, k - Len(wire)>>
  BY SendShown
<1>2. /\ Conn \in Nat \ {0} /\ Conn' = Conn /\ connected' = connected
      /\ thread' = thread /\ recvSize' = recvSize /\ buffer' = buffer
      /\ got' = got /\ reg' = reg /\ dataSize' = dataSize /\ readPos' = readPos
  BY SendShown DEF mem, local
<1>3. Len(wire) \in Nat /\ s \in Nat
  BY <1>2, TypeFacts
<1>4. \A c \in Cells : Sound(c) => Sound(c)'
  <2>1. \A c \in 1 .. Conn : Len(sent'[c]) \in Nat /\ Len(sent[c]) <= Len(sent'[c])
    <3> SUFFICES ASSUME NEW c \in 1 .. Conn
                 PROVE  Len(sent'[c]) \in Nat /\ Len(sent[c]) <= Len(sent'[c])
      OBVIOUS
    <3>1. Len(sent[c]) \in Nat
      BY TypeFacts
    <3>2. CASE c = Conn
      BY <1>1, <1>3, <3>2
    <3>3. CASE c # Conn
      BY <1>1, <3>1, <3>3
    <3> QED  BY <3>2, <3>3
  <2> QED  BY <1>2, <2>1, StaysSound
<1>5. Bounds'
  BY <1>1, <1>2, TypeSplit DEF TypeInv, Bounds
<1>6. \A k \in 1 .. Len(wire') : Sound(wire[k])'
  <2> SUFFICES ASSUME NEW k \in 1 .. Len(wire') PROVE Sound(wire[k])'
    OBVIOUS
  <2>1. CASE k \in 1 .. Len(wire)
    <3>1. Sound(wire[k]) /\ wire[k] \in Cells /\ wire'[k] = wire[k]
      BY <1>1, <2>1, TypeFacts, SMTT(30) DEF TypeInv, CellsSound
    <3> QED  BY <1>4, <3>1 DEF Sound
  <2>2. CASE k \notin 1 .. Len(wire)
    <3>1. k \in Len(wire) + 1 .. Len(wire')
      BY <1>3, <2>2
    <3>2. wire'[k] = <<Conn, s + 1, k - Len(wire)>>
      BY <1>1, <3>1
    <3> HIDE DEF s
    <3>3. wire'[k][1] = Conn /\ wire'[k][2] = s + 1
      BY <3>2
    <3>4. Conn \in 1 .. Conn' /\ s + 1 \in 1 .. Len(sent'[Conn])
      BY <1>1, <1>2, <1>3
    <3> QED  BY <3>3, <3>4 DEF Sound
  <2> QED  BY <2>1, <2>2
<1>7. CellsSound'
  <2>1. \A i \in 0 .. BufferSize - 1 : Sound(buffer[i]) /\ buffer[i] \in Cells
    BY TypeFacts DEF TypeInv, CellsSound
  <2>2. \A k \in 1 .. Len(got) : Sound(got[k]) /\ got[k] \in Cells
    BY TypeFacts DEF TypeInv, CellsSound
  <2>3. \A i \in 0 .. BufferSize - 1 : Sound(buffer[i])'
    BY <1>2, <1>4, <2>1 DEF Sound
  <2>4. \A k \in 1 .. Len(got') : Sound(got[k])'
    BY <1>2, <1>4, <2>2 DEF Sound
  <2> QED  BY <1>1, <1>2, <1>6, <2>3, <2>4, TypeFacts DEF CellsSound
<1>8. InBuffer'
  BY <1>2 DEF TypeInv, InBuffer
<1> QED  BY <1>5, <1>7, <1>8 DEF DataInv

LEMMA ConnectTypes == ASSUME Inv, TypeInv, ConnectTo PROVE DataInv'
<1>1. /\ Conn < MaxConns /\ sent' = Append(sent, <<>>) /\ wire' = <<>>
      /\ thread' = "test" /\ recvSize' = recvSize /\ buffer' = buffer
      /\ got' = got /\ reg' = reg /\ dataSize' = dataSize /\ readPos' = readPos
  BY DEF ConnectTo, local
<1>2. sent \in Seq(Seq(BodySizes)) /\ Conn \in Nat /\ <<>> \in Seq(BodySizes)
      /\ \A c \in 1 .. Conn : Len(sent[c]) \in Nat
  BY TypeFacts
<1>3. /\ sent' \in Seq(Seq(BodySizes)) /\ Conn' = Conn + 1
      /\ \A c \in 1 .. Conn : sent'[c] = sent[c]
  BY <1>1, <1>2 DEF Conn
<1>4. \A c \in Cells : Sound(c) => Sound(c)'
  BY <1>2, <1>3, StaysSound
<1>5. Bounds'
  <2>1. Conn' <= MaxConns
    BY <1>1, <1>2, <1>3, Sizes
  <2> QED  BY <1>1, <1>3, <2>1, TypeSplit DEF TypeInv, Bounds
<1>6. CellsSound'
  <2>1. \A i \in 0 .. BufferSize - 1 : Sound(buffer[i]) /\ buffer[i] \in Cells
    BY TypeFacts DEF TypeInv, CellsSound
  <2>2. \A k \in 1 .. Len(got) : Sound(got[k]) /\ got[k] \in Cells
    BY TypeFacts DEF TypeInv, CellsSound
  <2>3. \A i \in 0 .. BufferSize - 1 : Sound(buffer[i])'
    BY <1>1, <1>4, <2>1 DEF Sound
  <2>4. \A k \in 1 .. Len(got') : Sound(got[k])'
    BY <1>1, <1>4, <2>2 DEF Sound
  <2>5. wire' \in Seq(Cells) /\ Len(wire') = 0
    BY <1>1
  <2> QED  BY <1>1, <2>3, <2>4, <2>5, TypeFacts DEF CellsSound
<1>7. InBuffer'
  <2>1. Conn' > 0
    BY <1>2, <1>3
  <2>2. thread = "none"
    BY DEF Inv, JoinedFirst, ConnectTo
  <2> QED  BY <1>1, <2>1, <2>2 DEF TypeInv, InBuffer
<1> QED  BY <1>5, <1>6, <1>7 DEF DataInv

\* DisConnect gives the thread nothing but less.
LEMMA UITypes ==
    ASSUME TypeInv, ServerCloses \/ PacketProcess \/ CloseSocket \/ DisConnectStep
    PROVE  DataInv'
<1>1. /\ sent' = sent /\ buffer' = buffer /\ got' = got /\ reg' = reg
      /\ dataSize' = dataSize /\ readPos' = readPos
      /\ wire' = wire \/ wire' = <<>>
      /\ recvSize' = recvSize \/ recvSize' = 0
      /\ thread' = thread \/ (thread = "ended" /\ thread' = "none")
      /\ connected' = connected \/ connected' = FALSE
  BY DEF ServerCloses, PacketProcess, CloseSocket, DisConnectStep, ClearConnected,
         ClearSize, ClearQueue, Join, mem, local, peer
<1>2. Bounds'
  <2>1. 0 \in -BufferSize .. BufferSize
    BY Sizes
  <2> QED  BY <1>1, <2>1, TypeSplit DEF TypeInv, Bounds, Conn
<1>3. CellsSound'
  <2>1. wire' \in Seq(Cells) /\ \A k \in 1 .. Len(wire') : Sound(wire'[k])
    <3>1. CASE wire' = wire
      BY <3>1 DEF TypeInv, CellsSound
    <3>2. CASE wire' = <<>>
      BY <3>2
    <3> QED  BY <1>1, <3>1, <3>2
  <2> QED  BY <1>1, <2>1 DEF TypeInv, CellsSound, Sound, Conn
<1>4. InBuffer'
  <2>1. thread' = "shift" => recvSize' + readPos' <= BufferSize
    BY <1>1, TypeFacts DEF TypeInv, InBuffer
  <2> QED  BY <1>1, <2>1 DEF TypeInv, InBuffer, Conn
<1> QED  BY <1>2, <1>3, <1>4 DEF DataInv

LEMMA RecvShown ==
    ASSUME TypeInv, RecvSome
    PROVE  /\ thread = "recv" /\ thread' = "load"
           /\ UNCHANGED <<ui, mem, reg, dataSize, readPos, gone, sent, handled>>
           /\ clean' = (clean /\ EndsWell(wire'))
           /\ got' \in Seq(Cells) /\ wire' \in Seq(Cells)
           /\ Len(got') \in 1 .. ReadMax
           /\ Len(wire') = Len(wire) - Len(got') /\ Len(wire') \in Nat
           /\ \A k \in 1 .. Len(got') : k \in 1 .. Len(wire) /\ got'[k] = wire[k]
           /\ \A k \in 1 .. Len(wire') :
                k + Len(got') \in 1 .. Len(wire) /\ wire'[k] = wire[k + Len(got')]
<1>1. /\ thread = "recv" /\ thread' = "load"
      /\ UNCHANGED <<ui, mem, reg, dataSize, readPos, gone, sent, handled>>
      /\ clean' = (clean /\ EndsWell(wire'))
  BY DEF RecvSome
<1>2. PICK n \in 1 .. ReadMax :
        /\ n <= Len(wire)
        /\ got' = SubSeq(wire, 1, n)
        /\ wire' = SubSeq(wire, n + 1, Len(wire))
  BY DEF RecvSome
<1>3. wire \in Seq(Cells) /\ Len(wire) \in Nat /\ n \in Nat
  BY TypeFacts, Sizes
<1>4. /\ got' \in Seq(Cells) /\ Len(got') = n
      /\ \A k \in 1 .. n : k \in 1 .. Len(wire) /\ got'[k] = wire[k]
  BY <1>2, <1>3
<1>5. /\ wire' \in Seq(Cells) /\ Len(wire') = Len(wire) - n
      /\ \A k \in 1 .. Len(wire') : k + n \in 1 .. Len(wire) /\ wire'[k] = wire[k + n]
  BY <1>2, <1>3
<1> QED  BY <1>1, <1>4, <1>5, <1>3, <1>2

LEMMA RecvTypes == ASSUME TypeInv, RecvSome PROVE DataInv'
<1>1. /\ thread = "recv" /\ thread' = "load"
      /\ recvSize' = recvSize /\ buffer' = buffer /\ sent' = sent
      /\ reg' = reg /\ dataSize' = dataSize /\ readPos' = readPos
      /\ connected' = connected
      /\ got' \in Seq(Cells) /\ wire' \in Seq(Cells) /\ Len(got') <= ReadMax
      /\ \A k \in 1 .. Len(got') : \E m \in 1 .. Len(wire) : got'[k] = wire[m]
      /\ \A k \in 1 .. Len(wire') : \E m \in 1 .. Len(wire) : wire'[k] = wire[m]
  <2>1. Len(got') <= ReadMax
    BY RecvShown, Sizes
  <2> QED  BY <2>1, RecvShown DEF mem
<1>2. Bounds'
  BY <1>1, TypeSplit DEF TypeInv, Bounds, Conn
<1>3. CellsSound'
  BY <1>1 DEF TypeInv, CellsSound, Sound, Conn
<1>4. InBuffer'
  BY <1>1 DEF TypeInv, InBuffer, Conn
<1> QED  BY <1>2, <1>3, <1>4 DEF DataInv

\* What moves through the thread's locals.
LEMMA LocalTypes ==
    ASSUME TypeInv, Update \/ RecvNothing \/ LoadSize \/ ReadSize \/ LoadRest \/ StoreRest
    PROVE  DataInv'
<1>1. /\ sent' = sent /\ buffer' = buffer /\ wire' = wire /\ got' = got
      /\ connected' = connected
  BY DEF Update, RecvNothing, LoadSize, ReadSize, LoadRest, StoreRest, mem, local, peer
<1>2. CellsSound'
  BY <1>1, SameCells DEF TypeInv
<1>3. /\ reg' \in {reg, recvSize} /\ dataSize' \in {dataSize, recvSize}
      /\ readPos' \in {readPos, 0} /\ recvSize' \in {recvSize, reg - readPos}
  BY DEF Update, RecvNothing, LoadSize, ReadSize, LoadRest, StoreRest, mem, local
<1>4. recvSize' \in -BufferSize .. BufferSize
  <2>1. CASE StoreRest
    <3>1. /\ recvSize' = reg - readPos /\ reg \in {dataSize, 0}
          /\ readPos = 0 \/ readPos <= dataSize
      BY <2>1 DEF StoreRest, TypeInv, InBuffer
    <3> QED  BY <3>1, TypeFacts, Sizes, SMTT(30)
  <2>2. CASE ~StoreRest
    <3>1. recvSize' = recvSize
      BY <2>2 DEF Update, RecvNothing, LoadSize, ReadSize, LoadRest, mem
    <3> QED  BY <3>1, TypeFacts, Sizes
  <2> QED  BY <2>1, <2>2
<1>5. Bounds'
  <2>1. 0 \in 0 .. BufferSize
    BY Sizes
  <2> QED  BY <1>1, <1>3, <1>4, <2>1, TypeSplit DEF TypeInv, Bounds, Conn
<1>6. InBuffer'
  <2>1. CASE Update \/ RecvNothing
    BY <2>1 DEF Update, RecvNothing, mem, local, peer, TypeInv, InBuffer, Conn
  <2>2. CASE LoadSize
    <3>1. /\ thread = "load" /\ thread' # "shift" /\ thread' # "storeRest"
          /\ thread' \notin {"parse", "loadRest"}
          /\ thread' = "store" => ~(recvSize + Len(got) >= BufferSize) /\ ~(recvSize < 0)
          /\ reg' = recvSize /\ readPos' = readPos /\ dataSize' = dataSize
      BY <2>2 DEF LoadSize, mem
    <3>2. thread' = "store" => reg' >= 0 /\ reg' + Len(got') < BufferSize
      BY <1>1, <3>1, TypeFacts, Sizes
    <3> QED  BY <1>1, <3>1, <3>2 DEF TypeInv, InBuffer, Conn
  <2>3. CASE ReadSize
    BY <1>1, <2>3 DEF ReadSize, mem, TypeInv, InBuffer, Conn
  <2>4. CASE LoadRest
    BY <1>1, <2>4 DEF LoadRest, mem, TypeInv, InBuffer, Conn
  <2>5. CASE StoreRest
    <3>1. /\ thread' = "shift" /\ recvSize' = reg - readPos /\ readPos' = readPos
          /\ dataSize' = dataSize
      BY <2>5 DEF StoreRest, local
    <3>2. recvSize' + readPos' <= BufferSize
      BY <3>1, TypeFacts
    <3> QED  BY <1>1, <3>1, <3>2 DEF TypeInv, InBuffer, Conn
  <2> QED  BY <2>1, <2>2, <2>3, <2>4, <2>5
<1> QED  BY <1>2, <1>5, <1>6 DEF DataInv

LEMMA StoreTypes == ASSUME TypeInv, StoreData PROVE DataInv'
<1>1. /\ thread = "store" /\ thread' = "size" /\ recvSize' = reg + Len(got)
      /\ buffer' = [i \in DOMAIN buffer |->
           IF i - reg \in 0 .. Len(got) - 1 THEN got[i - reg + 1] ELSE buffer[i]]
      /\ connected' = connected /\ sent' = sent /\ wire' = wire /\ got' = got
      /\ reg' = reg /\ dataSize' = dataSize /\ readPos' = readPos
  BY DEF StoreData, local, peer
<1>2. reg >= 0 /\ reg + Len(got) < BufferSize
  BY <1>1 DEF TypeInv, InBuffer
<1>3. recvSize' \in -BufferSize .. BufferSize
  BY <1>1, <1>2, TypeFacts, Sizes
<1>4. Bounds'
  BY <1>1, <1>3, TypeSplit DEF TypeInv, Bounds, Conn
<1>5. ASSUME NEW i \in 0 .. BufferSize - 1 PROVE buffer'[i] \in Cells /\ Sound(buffer'[i])
  <2>1. CASE i - reg \in 0 .. Len(got) - 1
    <3>1. i - reg + 1 \in 1 .. Len(got)
      BY <2>1, TypeFacts, Sizes, SMTT(30)
    <3>2. buffer'[i] = got[i - reg + 1]
      BY <1>1, <2>1, TypeFacts
    <3> QED  BY <3>1, <3>2, TypeFacts DEF TypeInv, CellsSound
  <2>2. CASE i - reg \notin 0 .. Len(got) - 1
    <3>1. buffer'[i] = buffer[i]
      BY <1>1, <2>2, TypeFacts
    <3> QED  BY <3>1, TypeFacts DEF TypeInv, CellsSound
  <2> QED  BY <2>1, <2>2
<1>6. buffer' \in [0 .. BufferSize - 1 -> Cells]
  BY <1>1, <1>5, TypeFacts
<1>7. CellsSound'
  BY <1>1, <1>5, <1>6 DEF TypeInv, CellsSound, Sound, Conn
<1>8. InBuffer'
  BY <1>1 DEF TypeInv, InBuffer, Conn
<1> QED  BY <1>4, <1>7, <1>8 DEF DataInv

\* What is taken for a header is a cell that was sent.
LEMMA HeaderFacts ==
    ASSUME TypeInv, HeaderFits, IsHeader
    PROVE  /\ BodyPos \in Nat /\ BodyPos < dataSize
           /\ BodySize \in BodySizes /\ BodySize \in Nat
<1>1. /\ HeaderSize \in Nat \ {0} /\ dataSize \in Int /\ dataSize <= BufferSize
      /\ readPos \in Nat /\ BufferSize \in Nat
  BY TypeFacts, Sizes
<1>2. BodyPos \in Nat /\ BodyPos < dataSize
  BY <1>1 DEF BodyPos, HeaderFits
<1>3. readPos \in 0 .. BufferSize - 1
  BY <1>1, <1>2 DEF BodyPos
<1>4. Sound(buffer[readPos])
  BY <1>3 DEF TypeInv, CellsSound
<1>5. buffer[readPos] # Nothing
  <2>1. 1 \in 1 .. HeaderSize /\ readPos + 1 - 1 = readPos
    BY <1>1
  <2>2. buffer[readPos] = <<buffer[readPos][1], buffer[readPos][2], 1>>
    BY <2>1 DEF IsHeader
  <2> QED  BY <2>2 DEF Nothing
<1>6. /\ buffer[readPos][1] \in 1 .. Conn
      /\ buffer[readPos][2] \in 1 .. Len(sent[buffer[readPos][1]])
  BY <1>4, <1>5 DEF Sound
<1>7. sent[buffer[readPos][1]] \in Seq(BodySizes)
  BY <1>6, TypeFacts
<1>8. BodySize \in BodySizes
  BY <1>6, <1>7 DEF BodySize
<1> QED  BY <1>2, <1>8, Sizes

LEMMA ParseShown ==
    ASSUME TypeInv, Parse
    PROVE  /\ thread = "parse"
           /\ thread' \in {"parse", "loadRest", "wild"}
           /\ UNCHANGED <<ui, connected, recvSize, buffer, got, reg, dataSize, peer, log>>
           /\ readPos' \in Nat
           /\ readPos' = readPos \/ readPos' <= dataSize
<1>1. /\ thread = "parse"
      /\ thread' \in {"parse", "loadRest", "wild"}
      /\ UNCHANGED <<ui, connected, recvSize, buffer, got, reg, dataSize, peer, log>>
  BY DEF Parse
<1>2. \/ readPos' = readPos
      \/ HeaderFits /\ IsHeader /\ readPos' = BodyPos
      \/ HeaderFits /\ IsHeader /\ BodyFits /\ readPos' = BodyPos + BodySize
  BY DEF Parse
<1>3. readPos \in Nat /\ dataSize \in Int
  BY TypeFacts
<1>4. CASE readPos' = readPos
  BY <1>1, <1>3, <1>4
<1>5. CASE HeaderFits /\ IsHeader /\ readPos' = BodyPos
  BY <1>1, <1>3, <1>5, HeaderFacts
<1>6. CASE HeaderFits /\ IsHeader /\ BodyFits /\ readPos' = BodyPos + BodySize
  <2>1. BodyPos \in Nat /\ BodySize \in Nat /\ BodySize <= dataSize - BodyPos
    BY <1>6, HeaderFacts DEF BodyFits
  <2>2. readPos' \in Nat /\ readPos' <= dataSize
    <3> HIDE DEF BodyPos, BodySize
    <3> QED  BY <1>3, <1>6, <2>1
  <2> QED  BY <1>1, <2>2
<1> QED  BY <1>2, <1>4, <1>5, <1>6

LEMMA ParseTypes == ASSUME TypeInv, Parse PROVE DataInv'
<1>1. /\ thread = "parse" /\ thread' \in {"parse", "loadRest", "wild"}
      /\ sent' = sent /\ buffer' = buffer /\ wire' = wire /\ got' = got
      /\ connected' = connected /\ recvSize' = recvSize /\ reg' = reg
      /\ dataSize' = dataSize
      /\ readPos' \in Nat
      /\ readPos' = readPos \/ readPos' <= dataSize
  BY ParseShown DEF peer
<1>2. readPos' \in 0 .. BufferSize /\ (readPos' = 0 \/ readPos' <= dataSize)
  BY <1>1, TypeFacts, Sizes DEF TypeInv, InBuffer
<1>3. Bounds'
  BY <1>1, <1>2, TypeSplit DEF TypeInv, Bounds, Conn
<1>4. CellsSound'
  BY <1>1, SameCells DEF TypeInv
<1>5. InBuffer'
  BY <1>1, <1>2 DEF TypeInv, InBuffer, Conn
<1> QED  BY <1>3, <1>4, <1>5 DEF DataInv

LEMMA ShiftTypes == ASSUME TypeInv, Shift PROVE DataInv'
<1>1. /\ thread = "shift" /\ thread' = "test"
      /\ buffer' = [i \in DOMAIN buffer |->
           IF i < recvSize THEN buffer[i + readPos] ELSE buffer[i]]
      /\ got' = <<>> /\ reg' = 0 /\ dataSize' = 0 /\ readPos' = 0
      /\ connected' = connected /\ recvSize' = recvSize /\ sent' = sent /\ wire' = wire
  BY DEF Shift, peer
<1>2. recvSize + readPos <= BufferSize
  BY <1>1 DEF TypeInv, InBuffer
<1>3. ASSUME NEW i \in 0 .. BufferSize - 1
      PROVE  \E o \in 0 .. BufferSize - 1 : buffer'[i] = buffer[o]
  <2>1. CASE i < recvSize
    <3>1. i + readPos \in 0 .. BufferSize - 1
      BY <1>2, <2>1, TypeFacts, Sizes, SMTT(30)
    <3> QED  BY <1>1, <2>1, <3>1, TypeFacts
  <2>2. CASE ~(i < recvSize)
    BY <1>1, <2>2, TypeFacts
  <2> QED  BY <2>1, <2>2
<1>4. ASSUME NEW i \in 0 .. BufferSize - 1 PROVE buffer'[i] \in Cells /\ Sound(buffer'[i])
  BY <1>3, TypeFacts DEF TypeInv, CellsSound
<1>5. buffer' \in [0 .. BufferSize - 1 -> Cells]
  BY <1>1, <1>4, TypeFacts
<1>6. got' \in Seq(Cells) /\ Len(got') = 0
  BY <1>1
<1>7. CellsSound'
  BY <1>1, <1>4, <1>5, <1>6 DEF TypeInv, CellsSound, Sound, Conn
<1>8. Bounds'
  <2>1. 0 \in -BufferSize .. BufferSize /\ 0 \in 0 .. BufferSize /\ 0 <= ReadMax
    BY Sizes
  <2> QED  BY <1>1, <1>6, <2>1, TypeSplit DEF TypeInv, Bounds, Conn
<1>9. InBuffer'
  BY <1>1 DEF TypeInv, InBuffer, Conn
<1> QED  BY <1>7, <1>8, <1>9 DEF DataInv

LEMMA StepKeepsQueues == ASSUME TypeInv, [Next]_vars PROVE QueuesTyped'
<1>1. queue \in Seq(Packets) /\ handled \in Seq(Packets)
  BY DEF TypeInv, QueuesTyped
<1>2. CASE UNCHANGED <<queue, handled>>
  BY <1>1, <1>2 DEF QueuesTyped
<1>3. CASE queue' = <<>> /\ handled' = handled
  BY <1>1, <1>3 DEF QueuesTyped
<1>4. CASE queue' = queue /\ handled' = <<>>
  BY <1>1, <1>4 DEF QueuesTyped
<1>5. CASE PacketProcess
  BY <1>1, <1>5 DEF QueuesTyped, PacketProcess
<1>6. CASE Parse /\ queue' # queue
  <2>1. /\ HeaderFits /\ IsHeader /\ queue' = Append(queue, Found) /\ handled' = handled
    BY <1>6 DEF Parse, log
  <2>2. readPos \in 0 .. BufferSize - 1
    BY <2>1, TypeFacts, Sizes DEF HeaderFits
  <2>3. buffer[readPos] \in Cells
    BY <2>2, TypeFacts
  <2>4. Found \in Packets
    BY <2>3 DEF Found, Packets, Cells
  <2> QED  BY <1>1, <2>1, <2>4 DEF QueuesTyped
<1>7. \/ UNCHANGED <<queue, handled>>
      \/ queue' = <<>> /\ handled' = handled
      \/ queue' = queue /\ handled' = <<>>
      \/ PacketProcess
      \/ Parse /\ queue' # queue
  BY DEF Next, vars, Send, ServerCloses, ConnectTo, CloseSocket, DisConnectStep,
     ClearConnected, ClearSize, ClearQueue, Join, ThreadStep, Update, RecvSome,
     RecvNothing, LoadSize, StoreData, ReadSize, Parse, LoadRest, StoreRest, Shift,
     mem, log
<1> QED  BY <1>2, <1>3, <1>4, <1>5, <1>6, <1>7

LEMMA StepKeepsTypes == ASSUME Inv, TypeInv, [Next]_vars PROVE TypeInv'
<1>1. Control'
  BY StepKeepsControl, TypeSplit DEF TypeInv
<1>2. ASSUME UNCHANGED vars PROVE DataInv'
  <2>1. CellsSound'
    BY <1>2, SameCells DEF TypeInv, vars, mem, local, peer
  <2>2. Bounds' /\ InBuffer'
    BY <1>2, TypeSplit DEF TypeInv, Bounds, InBuffer, Conn, vars, mem, local, peer
  <2> QED  BY <2>1, <2>2 DEF DataInv
<1>3. DataInv'
  BY <1>2, SendTypes, ConnectTypes, UITypes, RecvTypes, LocalTypes, StoreTypes,
     ParseTypes, ShiftTypes DEF Next, ThreadStep
<1>4. TypeOK' <=> Control' /\ Bounds'
  BY DEF TypeOK, Control, Bounds, InRound
<1> QED  BY <1>1, <1>3, <1>4, StepKeepsQueues DEF TypeInv, DataInv

-----------------------------------------------------------------------------
(* What is ahead of the thread on a clean connection *)

\* What there is to say of a cell that lies where its packet should, ...
PlacedSays(f, k, to) ==
    /\ f[k][1] = Conn /\ f[k][2] \in 1 .. Len(sent[Conn]) /\ f[k][2] \in Nat
    /\ sent[Conn][f[k][2]] \in Nat /\ sent[Conn][f[k][2]] > 0
    /\ f[k][3] \in Nat /\ 1 <= f[k][3]
    /\ f[k][3] <= HeaderSize + sent[Conn][f[k][2]]
    /\ EndOf(f[k], k) \in Int /\ k <= EndOf(f[k], k) /\ EndOf(f[k], k) <= to
    /\ EndOf(f[k], k) = k + HeaderSize + sent[Conn][f[k][2]] - f[k][3]
    /\ \A m \in k .. EndOf(f[k], k) : f[m] = <<Conn, f[k][2], f[k][3] + m - k>>
    /\ EndOf(f[k], k) < to => f[EndOf(f[k], k) + 1] = <<Conn, f[k][2] + 1, 1>>

\* ... in numbers.
LEMMA PlacedFacts ==
    ASSUME TypeInv, Conn > 0, NEW f, NEW k \in Int, NEW to \in Int, Placed(f, k, to)
    PROVE  PlacedSays(f, k, to)
<1> DEFINE p == f[k][2]
           o == f[k][3]
           e == EndOf(f[k], k)
           s == sent[Conn]
<1>1. /\ f[k][1] = Conn /\ p \in 1 .. Len(s)
      /\ o \in 1 .. HeaderSize + s[p] /\ e <= to
      /\ \A m \in k .. e : f[m] = <<Conn, p, o + m - k>>
      /\ e < to => f[e + 1] = <<Conn, p + 1, 1>>
  BY DEF Placed
<1>2. e = k + HeaderSize + s[p] - o
  BY DEF EndOf
<1>3. s \in Seq(BodySizes)
  BY TypeFacts
<1> HIDE DEF p, o, e, s
<1>4. s[p] \in BodySizes
  BY <1>1, <1>3
<1>5. s[p] \in Nat /\ s[p] > 0 /\ HeaderSize \in Nat
  BY <1>4, Sizes
<1>6. o \in Nat /\ 1 <= o /\ o <= HeaderSize + s[p] /\ p \in Nat
  BY <1>1, <1>5
<1>7. e \in Int /\ k <= e
  BY <1>2, <1>5, <1>6
<1> QED  BY <1>1, <1>2, <1>5, <1>6, <1>7 DEF PlacedSays, p, o, e, s

\* A piece that was copied to another place is in order there.
LEMMA Copied ==
    ASSUME TypeInv, Conn > 0, NEW f, NEW g,
           NEW d \in Int, NEW k \in Int, NEW to \in Int, NEW top \in Int,
           Placed(f, k + d, top), to + d = top,
           \A m \in k .. to : g[m] = f[m + d]
    PROVE  Placed(g, k, to)
<1> DEFINE c == f[k + d]
           p == c[2]
           o == c[3]
           e == EndOf(c, k + d)
           s == sent[Conn]
<1>1. k + d \in Int
  OBVIOUS
<1>2. /\ c[1] = Conn /\ p \in 1 .. Len(s) /\ s[p] \in Nat
      /\ o \in Nat /\ 1 <= o /\ o <= HeaderSize + s[p]
      /\ e \in Int /\ k + d <= e /\ e <= top
      /\ e = k + d + HeaderSize + s[p] - o
      /\ \A m \in k + d .. e : f[m] = <<Conn, p, o + m - (k + d)>>
      /\ e < top => f[e + 1] = <<Conn, p + 1, 1>>
  <2> DEFINE j == k + d
  <2>1. j \in Int /\ Placed(f, j, top)
    BY <1>1
  <2> HIDE DEF j
  <2>2. PlacedSays(f, j, top)
    BY <2>1, PlacedFacts
  <2> QED  BY <2>2 DEF PlacedSays, j
<1>3. to + d = top /\ HeaderSize \in Nat
  BY Sizes
<1>4. g[k] = c
  <2>1. e \in Int /\ k + d <= e /\ e <= top
    BY <1>2
  <2> HIDE DEF e, p, o, c, s
  <2>2. k \in k .. to
    BY <1>3, <2>1
  <2> QED  BY <2>2 DEF c
<1>5. EndOf(g[k], k) = e - d
  <2>1. EndOf(g[k], k) = k + HeaderSize + s[p] - o
    BY <1>4 DEF EndOf
  <2> HIDE DEF e, p, o, c, s
  <2> QED  BY <1>2, <1>3, <2>1, SMTT(30)
<1> HIDE DEF e, p, o, c, s
<1>6. e \in Int /\ k + d <= e /\ e <= top
  BY <1>2
<1>7. e - d \in Int /\ k <= e - d /\ e - d <= to
  BY <1>3, <1>6
<1>8. ASSUME NEW m \in k .. e - d PROVE g[m] = <<Conn, p, o + m - k>>
  <2>1. m \in k .. to /\ m + d \in k + d .. e
    BY <1>3, <1>6
  <2>2. f[m + d] = <<Conn, p, o + (m + d) - (k + d)>>
    BY <1>2, <2>1
  <2>3. o + (m + d) - (k + d) = o + m - k
    BY <1>2, <2>1
  <2> QED  BY <2>1, <2>2, <2>3
<1>9. ASSUME e - d < to PROVE g[(e - d) + 1] = <<Conn, p + 1, 1>>
  <2>1. (e - d) + 1 \in k .. to /\ (e - d) + 1 + d = e + 1 /\ e < top
    BY <1>3, <1>6, <1>9
  <2>2. g[(e - d) + 1] = f[(e - d) + 1 + d]
    BY <2>1
  <2> QED  BY <1>2, <2>1, <2>2
<1>10. o \in 1 .. HeaderSize + s[p]
  BY <1>2, <1>3
<1>11. g[k][1] = Conn /\ g[k][2] = p /\ g[k][3] = o
  BY <1>2, <1>4 DEF p, o
<1> QED
  BY <1>2, <1>5, <1>7, <1>8, <1>9, <1>10, <1>11 DEF Placed, s

\* Whether a packet is whole depends on what was sent and on nothing else.
LEMMA SameSent ==
    ASSUME sent' = sent
    PROVE  Conn' = Conn /\ \A k, to : Placed(Ahead, k, to)' <=> Placed(Ahead', k, to)
BY DEF Placed, EndOf, Conn

\* What is ahead and where it is.
LEMMA AheadFacts ==
    ASSUME TypeInv, recvSize >= 0
    PROVE  /\ DataEnd \in Nat /\ Len(InHand) \in Nat /\ Len(wire) \in Nat
           /\ End \in Nat /\ End = DataEnd + Len(InHand) + Len(wire)
           /\ \A k \in Nat :
                /\ k < DataEnd => Ahead[k] = buffer[k]
                /\ k >= DataEnd /\ k < DataEnd + Len(InHand) =>
                     Ahead[k] = InHand[k - DataEnd + 1]
                /\ k >= DataEnd + Len(InHand) =>
                     Ahead[k] = wire[k - DataEnd - Len(InHand) + 1]
<1>1. recvSize \in Nat /\ readPos \in Nat /\ Len(wire) \in Nat /\ Len(got) \in Nat
  BY TypeFacts
<1>2. DataEnd \in Nat
  BY <1>1 DEF DataEnd
<1>3. Len(InHand) \in Nat
  BY <1>1 DEF InHand
<1>4. End \in Nat /\ End = DataEnd + Len(InHand) + Len(wire)
  BY <1>1, <1>2, <1>3 DEF End
<1>5. \A k \in Nat :
        Ahead[k] = IF k < DataEnd THEN buffer[k]
                   ELSE IF k < DataEnd + Len(InHand) THEN InHand[k - DataEnd + 1]
                   ELSE wire[k - DataEnd - Len(InHand) + 1]
  BY DEF Ahead
<1> HIDE DEF Ahead, DataEnd, InHand, End
<1> QED  BY <1>1, <1>2, <1>3, <1>4, <1>5, SMTT(30)

\* What is ahead may lie elsewhere after a step, as long as it is the same.
LEMMA RestMoved ==
    ASSUME TypeInv, Conn > 0, RestAhead, recvSize >= 0, readPos <= End,
           NEW d \in Nat, NEW r \in Nat, NEW e \in Nat, NEW g,
           r + d = readPos, e + d = End,
           \A k \in Nat : k < e => g[k] = Ahead[k + d]
    PROVE  /\ \A k \in r .. e - 1 : Placed(g, k, e - 1)
           /\ IF r < e THEN /\ g[r] = <<Conn, Len(Seen) + 1, 1>>
                            /\ g[e - 1][2] = Len(sent[Conn])
                       ELSE Len(Seen) = Len(sent[Conn])
<1> DEFINE top == End - 1
<1>1. readPos \in Nat /\ top \in Int /\ End = top + 1
  BY TypeFacts, AheadFacts
<1>2. \A k \in readPos .. top : Placed(Ahead, k, top)
  BY DEF RestAhead
<1>3. IF readPos < End THEN /\ Ahead[readPos] = <<Conn, Len(Seen) + 1, 1>>
                            /\ Ahead[End - 1][2] = Len(sent[Conn])
                       ELSE Len(Seen) = Len(sent[Conn])
  BY DEF RestAhead
<1>4. r + d = readPos /\ e + d = top + 1
  BY <1>1
<1>5. ASSUME NEW k \in r .. e - 1 PROVE Placed(g, k, e - 1)
  <2>1. /\ k \in Int /\ e - 1 \in Int /\ d \in Int /\ (e - 1) + d = top
    BY <1>1, <1>4
  <2>2. k + d \in readPos .. top
    BY <1>1, <1>4, <2>1
  <2>3. Placed(Ahead, k + d, top)
    BY <1>2, <2>2
  <2>4. \A m \in k .. e - 1 : g[m] = Ahead[m + d]
    OBVIOUS
  <2> HIDE DEF top
  <2> QED  BY <1>1, <2>1, <2>3, <2>4, Copied
<1>6. r < e <=> readPos < End
  BY <1>1, <1>4
<1>7. ASSUME r < e PROVE g[r] = Ahead[readPos] /\ g[e - 1] = Ahead[End - 1]
  <2>1. e - 1 \in Nat /\ e - 1 < e /\ (e - 1) + d = End - 1
    BY <1>1, <1>4, <1>7
  <2> QED  BY <1>4, <1>7, <2>1
<1> QED  BY <1>3, <1>5, <1>6, <1>7

LEMMA AheadMoved ==
    ASSUME TypeInv, Conn > 0, RestAhead, sent' = sent, Len(Seen') = Len(Seen),
           recvSize >= 0, readPos <= End,
           NEW d \in Nat, readPos' \in Nat, End' \in Nat,
           readPos' + d = readPos, End' + d = End,
           \A k \in Nat : k < End' => Ahead'[k] = Ahead[k + d]
    PROVE  RestAhead'
<1>1. /\ \A k \in readPos' .. End' - 1 : Placed(Ahead', k, End' - 1)
      /\ IF readPos' < End' THEN /\ Ahead'[readPos'] = <<Conn, Len(Seen) + 1, 1>>
                                 /\ Ahead'[End' - 1][2] = Len(sent[Conn])
                            ELSE Len(Seen) = Len(sent[Conn])
  BY RestMoved
<1>2. \A k \in readPos' .. End' - 1 : Placed(Ahead, k, End - 1)'
  BY <1>1, SameSent
<1>3. Len(Seen)' = Len(Seen) /\ Conn' = Conn /\ Len(sent[Conn])' = Len(sent[Conn])
  BY SameSent
<1> QED  BY <1>1, <1>2, <1>3 DEF RestAhead

\* What every step on a clean connection starts from.
LEMMA ExactFacts ==
    ASSUME TypeInv, ExactNow, connected
    PROVE  /\ Conn \in Nat /\ Conn > 0
           /\ recvSize \in Nat /\ readPos \in Nat /\ readPos <= DataEnd
           /\ DataEnd \in Nat /\ Len(InHand) \in Nat /\ Len(wire) \in Nat
           /\ End \in Nat /\ End = DataEnd + Len(InHand) + Len(wire)
           /\ DataEnd <= End /\ readPos <= End
           /\ Seen \in Seq(Packets) /\ Len(Seen) \in Nat
           /\ \A k \in Nat :
                /\ k < DataEnd => Ahead[k] = buffer[k]
                /\ k >= DataEnd /\ k < DataEnd + Len(InHand) =>
                     Ahead[k] = InHand[k - DataEnd + 1]
                /\ k >= DataEnd + Len(InHand) =>
                     Ahead[k] = wire[k - DataEnd - Len(InHand) + 1]
<1>1. recvSize >= 0 /\ readPos <= DataEnd
  BY DEF ExactNow, InStep
<1>2. Conn \in Nat /\ Conn > 0 /\ recvSize \in Nat /\ readPos \in Nat
  BY <1>1, TypeFacts DEF TypeInv, InBuffer
<1>3. Seen \in Seq(Packets) /\ Len(Seen) \in Nat
  BY DEF TypeInv, QueuesTyped, Seen
<1>4. /\ DataEnd \in Nat /\ Len(InHand) \in Nat /\ Len(wire) \in Nat
      /\ End \in Nat /\ End = DataEnd + Len(InHand) + Len(wire)
  BY <1>1, AheadFacts
<1>5. DataEnd <= End /\ readPos <= End
  BY <1>1, <1>2, <1>4
<1> QED  BY <1>1, <1>2, <1>3, <1>4, <1>5, AheadFacts

\* A step of the thread that passes on what it has, and changes nothing in it.
LEMMA PassedOn ==
    ASSUME TypeInv, ExactNow, connected, TypeInv',
           UNCHANGED <<sent, queue, handled, readPos>>,
           recvSize' >= 0, End' = End, EndsWell(wire'), InStep',
           \A k \in Nat : k < End => Ahead'[k] = Ahead[k]
    PROVE  ExactNow'
<1>1. Seen' = Seen /\ readPos' = readPos /\ Len(Seen') = Len(Seen)
  BY DEF Seen
<1>2. /\ Conn > 0 /\ readPos \in Nat /\ End \in Nat /\ readPos <= End
      /\ recvSize >= 0
  BY ExactFacts DEF ExactNow, InStep
<1>3. RestAhead'
  <2>1. 0 \in Nat /\ readPos' \in Nat /\ End' \in Nat /\ readPos' + 0 = readPos
        /\ End' + 0 = End
    BY <1>1, <1>2
  <2>2. \A k \in Nat : k < End' => Ahead'[k] = Ahead[k + 0]
    OBVIOUS
  <2> QED  BY <1>1, <1>2, <2>1, <2>2, AheadMoved DEF ExactNow
<1>4. AllIntact'
  <2>1. Conn' = Conn
    BY SameSent
  <2> QED  BY <1>1, <2>1 DEF ExactNow, AllIntact, Intact
<1>5. EndsWell(wire)'
  BY DEF EndsWell
<1> QED  BY <1>3, <1>4, <1>5 DEF ExactNow

\* Steps that touch neither the data nor the positions.
LEMMA IdleKeepsExact ==
    ASSUME TypeInv, ExactNow, connected, TypeInv',
           Update \/ RecvNothing \/ ReadSize \/ LoadRest
    PROVE  ExactNow'
<1>1. /\ UNCHANGED <<sent, queue, handled, buffer, wire, got, recvSize, connected>>
      /\ thread \in {"test", "recv", "size", "loadRest"}
      /\ thread' \in {"recv", "size", "parse", "storeRest"}
  BY DEF Update, RecvNothing, ReadSize, LoadRest, mem, local, peer, log
<1>2. readPos' = readPos
  BY DEF Update, RecvNothing, ReadSize, LoadRest, local, TypeInv, InBuffer
<1>3. DataEnd' = DataEnd /\ InHand' = InHand
  BY <1>1 DEF DataEnd, InHand
<1>4. End' = End /\ Ahead' = Ahead
  BY <1>1, <1>3 DEF End, Ahead
<1>5. InStep'
  <2>1. recvSize \in Nat /\ readPos \in Nat /\ HeaderSize \in Nat
    BY ExactFacts, Sizes
  <2>2. CASE Update
    BY <1>1, <1>2, <1>3, <2>2 DEF Update, local, ExactNow, InStep
  <2>3. CASE RecvNothing
    BY <1>1, <1>2, <1>3, <2>3 DEF RecvNothing, local, ExactNow, InStep
  <2>4. CASE ReadSize
    BY <1>1, <1>2, <1>3, <2>4 DEF ReadSize, ExactNow, InStep
  <2>5. CASE LoadRest
    BY <1>1, <1>2, <1>3, <2>5 DEF LoadRest, ExactNow, InStep
  <2> QED  BY <2>2, <2>3, <2>4, <2>5
<1>6. recvSize' >= 0 /\ EndsWell(wire')
  BY <1>1 DEF ExactNow, InStep
<1> QED  BY <1>1, <1>2, <1>4, <1>5, <1>6, PassedOn

\* A read puts the head of the wire into the thread's hand.
LEMMA RecvKeepsExact ==
    ASSUME TypeInv, ExactNow, connected, TypeInv', clean', RecvSome
    PROVE  ExactNow'
<1>1. /\ thread = "recv" /\ thread' = "load"
      /\ UNCHANGED <<mem, reg, dataSize, readPos, sent, handled>>
      /\ Len(got') \in Nat /\ Len(wire') \in Nat /\ Len(wire') = Len(wire) - Len(got')
      /\ \A k \in 1 .. Len(got') : got'[k] = wire[k]
      /\ \A k \in 1 .. Len(wire') : wire'[k] = wire[k + Len(got')]
  BY RecvShown, Sizes
<1>2. /\ queue' = queue /\ recvSize' = recvSize /\ buffer' = buffer
  BY <1>1 DEF mem
<1>3. /\ DataEnd = recvSize /\ DataEnd' = recvSize
      /\ InHand = <<>> /\ InHand' = got' /\ Len(InHand) = 0
  BY <1>1, <1>2 DEF DataEnd, InHand
<1>4. recvSize \in Nat /\ readPos \in Nat /\ Len(wire) \in Nat
      /\ End = recvSize + Len(wire)
  BY <1>3, ExactFacts
<1>5. End' = End
  BY <1>1, <1>3, <1>4 DEF End
<1>6. ASSUME NEW k \in Nat, k < End PROVE Ahead'[k] = Ahead[k]
  <2>1. Ahead'[k] = IF k < recvSize THEN buffer[k]
                    ELSE IF k < recvSize + Len(got') THEN got'[k - recvSize + 1]
                    ELSE wire'[k - recvSize - Len(got') + 1]
    BY <1>2, <1>3 DEF Ahead
  <2>2. Ahead[k] = IF k < recvSize THEN buffer[k] ELSE wire[k - recvSize + 1]
    BY <1>3, <1>4, ExactFacts
  <2>3. CASE k < recvSize
    BY <2>1, <2>2, <2>3
  <2>4. CASE k >= recvSize /\ k < recvSize + Len(got')
    <3>1. k - recvSize + 1 \in 1 .. Len(got')
      BY <1>1, <1>4, <2>4
    <3> QED  BY <1>1, <1>4, <2>1, <2>2, <2>4, <3>1
  <2>5. CASE k >= recvSize + Len(got')
    <3>1. /\ k - recvSize - Len(got') + 1 \in 1 .. Len(wire')
          /\ k - recvSize - Len(got') + 1 + Len(got') = k - recvSize + 1
          /\ ~(k < recvSize) /\ ~(k < recvSize + Len(got'))
      BY <1>1, <1>4, <1>6, <2>5
    <3> QED  BY <1>1, <2>1, <2>2, <3>1
  <2> QED  BY <1>1, <1>4, <2>3, <2>4, <2>5
<1>7. InStep'
  BY <1>1, <1>2, <1>3, <1>4 DEF ExactNow, InStep
<1>8. EndsWell(wire') /\ recvSize' >= 0
  <2>1. clean' = (clean /\ EndsWell(wire'))
    BY RecvShown
  <2>2. EndsWell(wire')
    BY <2>1, Zenon
  <2> QED  BY <1>2, <1>4, <2>2
<1> QED  BY <1>1, <1>2, <1>5, <1>6, <1>7, <1>8, PassedOn

\* What was read fits into the buffer behind a header.
LEMMA LoadKeepsExact ==
    ASSUME TypeInv, ExactNow, connected, TypeInv', LoadSize
    PROVE  ExactNow'
<1>1. /\ thread = "load" /\ reg' = recvSize
      /\ thread' = IF recvSize + Len(got) >= BufferSize THEN "size"
                   ELSE IF recvSize < 0 THEN "wild" ELSE "store"
      /\ UNCHANGED <<sent, queue, handled, buffer, wire, got, recvSize, readPos, connected>>
  BY DEF LoadSize, mem, peer, log
<1>2. recvSize \in Nat /\ readPos \in Nat /\ recvSize <= HeaderSize
  BY <1>1, ExactFacts DEF ExactNow, InStep
<1>3. thread' = "store"
  <2>1. ~(recvSize + Len(got) >= BufferSize) /\ ~(recvSize < 0)
    BY <1>2, TypeFacts, Sizes
  <2> QED  BY <1>1, <2>1
<1>4. DataEnd' = DataEnd /\ InHand' = InHand
  BY <1>1, <1>3 DEF DataEnd, InHand
<1>5. End' = End /\ Ahead' = Ahead
  BY <1>1, <1>4 DEF End, Ahead
<1>6. InStep'
  BY <1>1, <1>2, <1>3, <1>4 DEF ExactNow, InStep
<1> QED  BY <1>1, <1>2, <1>5, <1>6, PassedOn DEF ExactNow

\* ... and is put there.
LEMMA StoreKeepsExact ==
    ASSUME TypeInv, ExactNow, connected, TypeInv', StoreData
    PROVE  ExactNow'
<1>1. /\ thread = "store" /\ thread' = "size" /\ recvSize' = reg + Len(got)
      /\ buffer' = [i \in DOMAIN buffer |->
           IF i - reg \in 0 .. Len(got) - 1 THEN got[i - reg + 1] ELSE buffer[i]]
      /\ UNCHANGED <<sent, queue, handled, wire, got, readPos, connected>>
  BY DEF StoreData, local, peer, log
<1>2. /\ reg = recvSize /\ recvSize \in Nat /\ readPos \in Nat /\ Len(got) \in Nat
      /\ Len(wire) \in Nat /\ reg + Len(got) < BufferSize /\ readPos = 0
      /\ BufferSize \in Nat
  BY <1>1, ExactFacts, TypeFacts, Sizes DEF ExactNow, InStep, TypeInv, InBuffer
<1>3. /\ DataEnd = recvSize /\ InHand = got
      /\ DataEnd' = recvSize + Len(got) /\ InHand' = <<>> /\ Len(InHand') = 0
  BY <1>1, <1>2 DEF DataEnd, InHand
<1>4. End = recvSize + Len(got) + Len(wire) /\ End' = End
  BY <1>1, <1>2, <1>3 DEF End
<1>5. ASSUME NEW k \in Nat, k < End PROVE Ahead'[k] = Ahead[k]
  <2>1. Ahead'[k] = IF k < recvSize + Len(got) THEN buffer'[k]
                    ELSE wire[k - (recvSize + Len(got)) + 1]
    <3>1. Ahead'[k] = IF k < recvSize + Len(got) THEN buffer'[k]
                      ELSE IF k < recvSize + Len(got) + 0 THEN InHand'[k - DataEnd' + 1]
                      ELSE wire[k - (recvSize + Len(got)) - 0 + 1]
      BY <1>1, <1>3 DEF Ahead
    <3> QED  BY <1>2, <3>1
  <2>2. Ahead[k] = IF k < recvSize THEN buffer[k]
                   ELSE IF k < recvSize + Len(got) THEN got[k - recvSize + 1]
                   ELSE wire[k - recvSize - Len(got) + 1]
    BY <1>3 DEF Ahead
  <2>3. CASE k < recvSize
    <3>1. k \in DOMAIN buffer /\ k - reg \notin 0 .. Len(got) - 1
      BY <1>2, <2>3, TypeFacts
    <3> QED  BY <1>1, <1>2, <2>1, <2>2, <2>3, <3>1
  <2>4. CASE k >= recvSize /\ k < recvSize + Len(got)
    <3>1. k \in DOMAIN buffer /\ k - reg \in 0 .. Len(got) - 1
      BY <1>2, <2>4, TypeFacts
    <3> QED  BY <1>1, <1>2, <2>1, <2>2, <2>4, <3>1
  <2>5. CASE k >= recvSize + Len(got)
    <3>1. k - (recvSize + Len(got)) + 1 = k - recvSize - Len(got) + 1
          /\ ~(k < recvSize) /\ ~(k < recvSize + Len(got))
      BY <1>2, <2>5
    <3> QED  BY <2>1, <2>2, <3>1
  <2> QED  BY <1>2, <2>3, <2>4, <2>5
<1>6. InStep'
  BY <1>1, <1>2, <1>3 DEF InStep
<1>7. recvSize' >= 0
  BY <1>1, <1>2
<1> QED  BY <1>1, <1>4, <1>5, <1>6, <1>7, PassedOn DEF ExactNow

LEMMA StoreRestKeepsExact ==
    ASSUME TypeInv, ExactNow, connected, TypeInv', StoreRest
    PROVE  ExactNow'
<1>1. /\ thread = "storeRest" /\ thread' = "shift" /\ recvSize' = reg - readPos
      /\ UNCHANGED <<sent, queue, handled, buffer, wire, readPos, connected>>
  BY DEF StoreRest, local, peer, log
<1>2. /\ reg = recvSize /\ recvSize \in Nat /\ readPos \in Nat /\ readPos <= DataEnd
      /\ DataEnd - readPos <= HeaderSize
  BY <1>1, ExactFacts DEF ExactNow, InStep
<1>3. /\ DataEnd = recvSize /\ DataEnd' = recvSize /\ InHand' = InHand
      /\ recvSize' >= 0
  BY <1>1, <1>2 DEF DataEnd, InHand
<1>4. End' = End /\ Ahead' = Ahead
  BY <1>1, <1>3 DEF End, Ahead
<1>5. InStep'
  BY <1>1, <1>2, <1>3 DEF InStep
<1> QED  BY <1>1, <1>3, <1>4, <1>5, PassedOn DEF ExactNow

\* The rest is moved to the front.
LEMMA ShiftKeepsExact ==
    ASSUME TypeInv, ExactNow, connected, TypeInv', Shift
    PROVE  ExactNow'
<1>1. /\ thread = "shift" /\ thread' = "test" /\ readPos' = 0
      /\ buffer' = [i \in DOMAIN buffer |->
           IF i < recvSize THEN buffer[i + readPos] ELSE buffer[i]]
      /\ UNCHANGED <<sent, queue, handled, wire, recvSize, connected>>
  BY DEF Shift, peer, log
<1>2. /\ recvSize \in Nat /\ readPos \in Nat /\ Len(wire) \in Nat
      /\ recvSize + readPos <= BufferSize /\ BufferSize \in Nat
      /\ DataEnd - readPos <= HeaderSize
      /\ Conn > 0 /\ End \in Nat /\ readPos <= End
  BY <1>1, ExactFacts, TypeFacts, Sizes DEF ExactNow, InStep, TypeInv, InBuffer
<1>3. /\ DataEnd = readPos + recvSize /\ DataEnd' = recvSize
      /\ InHand = <<>> /\ InHand' = <<>> /\ Len(InHand) = 0
  BY <1>1 DEF DataEnd, InHand
<1>4. /\ End = readPos + recvSize + Len(wire) /\ End' = recvSize + Len(wire)
      /\ End' \in Nat /\ End' + readPos = End
  BY <1>1, <1>2, <1>3 DEF End
<1>5. ASSUME NEW k \in Nat, k < End' PROVE Ahead'[k] = Ahead[k + readPos]
  <2>1. Ahead'[k] = IF k < recvSize THEN buffer'[k] ELSE wire[k - recvSize + 1]
    <3>1. Ahead'[k] = IF k < recvSize THEN buffer'[k]
                      ELSE IF k < recvSize + 0 THEN InHand'[k - DataEnd' + 1]
                      ELSE wire[k - recvSize - 0 + 1]
      BY <1>1, <1>3 DEF Ahead
    <3> QED  BY <1>2, <3>1
  <2>2. Ahead[k + readPos] = IF k < recvSize THEN buffer[k + readPos]
                             ELSE wire[k - recvSize + 1]
    <3> DEFINE j == k + readPos
    <3>1. /\ j \in Nat /\ (j < DataEnd <=> k < recvSize)
          /\ j - DataEnd - 0 + 1 = k - recvSize + 1
          /\ (k >= recvSize => j >= DataEnd + 0)
      BY <1>2, <1>3
    <3> HIDE DEF j
    <3>2. /\ j < DataEnd => Ahead[j] = buffer[j]
          /\ j >= DataEnd + Len(InHand) => Ahead[j] = wire[j - DataEnd - Len(InHand) + 1]
      BY <3>1, ExactFacts
    <3>3. DataEnd + Len(InHand) = DataEnd + 0
      BY <1>3
    <3>4. j - DataEnd - Len(InHand) + 1 = k - recvSize + 1
      BY <1>3, <3>1
    <3>5. CASE k < recvSize
      BY <3>1, <3>2, <3>5 DEF j
    <3>6. CASE ~(k < recvSize)
      <4>1. j >= DataEnd + Len(InHand)
        BY <1>2, <3>1, <3>3, <3>6
      <4> QED  BY <3>2, <3>4, <3>6, <4>1 DEF j
    <3> QED  BY <3>5, <3>6
  <2>3. k < recvSize => buffer'[k] = buffer[k + readPos]
    BY <1>1, <1>2, TypeFacts
  <2> QED  BY <2>1, <2>2, <2>3
<1>6. Seen' = Seen /\ Len(Seen') = Len(Seen)
  BY <1>1 DEF Seen
<1>7. RestAhead'
  <2>1. readPos \in Nat /\ readPos' \in Nat /\ readPos' + readPos = readPos
        /\ recvSize >= 0
    BY <1>1, <1>2
  <2> QED  BY <1>1, <1>2, <1>4, <1>5, <1>6, <2>1, AheadMoved DEF ExactNow
<1>8. InStep'
  BY <1>1, <1>2, <1>3 DEF InStep
<1>9. AllIntact'
  BY <1>1, <1>6, SameSent DEF ExactNow, AllIntact, Intact
<1> QED  BY <1>1, <1>7, <1>8, <1>9 DEF ExactNow, EndsWell

\* Where a header fits into the data, the whole packet does: no read has ended in
\* its body, and the next packet is the one the scenes are waiting for.
LEMMA PacketAhead ==
    ASSUME TypeInv, ExactNow, connected, thread = "parse", HeaderFits,
           NEW p, p = Len(Seen) + 1, NEW e, e = readPos + HeaderSize + sent[Conn][p] - 1
    PROVE  /\ p \in 1 .. Len(sent[Conn]) /\ p \in Nat
           /\ sent[Conn][p] \in Nat /\ sent[Conn][p] > 0
           /\ e \in Nat /\ readPos <= e /\ e <= End - 1 /\ e < dataSize
           /\ readPos < End
           /\ \A m \in readPos .. e : Ahead[m] = <<Conn, p, 1 + m - readPos>>
           /\ \A m \in readPos .. e : buffer[m] = <<Conn, p, 1 + m - readPos>>
           /\ e < End - 1 => Ahead[e + 1] = <<Conn, p + 1, 1>>
<1>1. /\ dataSize = recvSize /\ DataEnd = recvSize /\ InHand = <<>> /\ Len(InHand) = 0
  BY DEF DataEnd, InHand, ExactNow, InStep
<1>2. /\ readPos \in Nat /\ DataEnd \in Nat /\ End \in Nat /\ Len(wire) \in Nat
      /\ End = DataEnd + Len(wire) /\ HeaderSize \in Nat /\ HeaderSize > 0
      /\ DataEnd - readPos > HeaderSize /\ Conn > 0
  BY <1>1, ExactFacts, Sizes DEF HeaderFits
<1>3. readPos < End /\ readPos \in readPos .. End - 1 /\ readPos \in Int /\ End - 1 \in Int
  BY <1>2
<1>4. Ahead[readPos] = <<Conn, p, 1>> /\ Placed(Ahead, readPos, End - 1)
  BY <1>3 DEF ExactNow, RestAhead
<1>5. /\ p \in 1 .. Len(sent[Conn]) /\ p \in Nat
      /\ sent[Conn][p] \in Nat /\ sent[Conn][p] > 0
      /\ readPos <= EndOf(Ahead[readPos], readPos)
      /\ EndOf(Ahead[readPos], readPos) <= End - 1
      /\ EndOf(Ahead[readPos], readPos) = readPos + HeaderSize + sent[Conn][p] - 1
      /\ \A m \in readPos .. EndOf(Ahead[readPos], readPos) :
           Ahead[m] = <<Conn, p, 1 + m - readPos>>
      /\ EndOf(Ahead[readPos], readPos) < End - 1 =>
           Ahead[EndOf(Ahead[readPos], readPos) + 1] = <<Conn, p + 1, 1>>
  <2> DEFINE f == Ahead
             k == readPos
             to == End - 1
  <2>1. k \in Int /\ to \in Int /\ Placed(f, k, to) /\ f[k] = <<Conn, p, 1>>
    BY <1>3, <1>4
  <2> HIDE DEF f, k, to
  <2>2. f[k][1] = Conn /\ f[k][2] = p /\ f[k][3] = 1
    BY <2>1
  <2>3. /\ f[k][2] \in 1 .. Len(sent[Conn]) /\ f[k][2] \in Nat
        /\ sent[Conn][f[k][2]] \in Nat /\ sent[Conn][f[k][2]] > 0
        /\ k <= EndOf(f[k], k) /\ EndOf(f[k], k) <= to
        /\ EndOf(f[k], k) = k + HeaderSize + sent[Conn][f[k][2]] - f[k][3]
        /\ \A m \in k .. EndOf(f[k], k) : f[m] = <<Conn, f[k][2], f[k][3] + m - k>>
        /\ EndOf(f[k], k) < to => f[EndOf(f[k], k) + 1] = <<Conn, f[k][2] + 1, 1>>
    BY <1>2, <2>1, PlacedFacts DEF PlacedSays
  <2> QED  BY <2>2, <2>3 DEF f, k, to
<1>6. /\ e \in Nat /\ readPos <= e /\ e <= End - 1
      /\ \A m \in readPos .. e : Ahead[m] = <<Conn, p, 1 + m - readPos>>
      /\ e < End - 1 => Ahead[e + 1] = <<Conn, p + 1, 1>>
  <2>1. e = EndOf(Ahead[readPos], readPos)
    BY <1>5
  <2>2. readPos <= e /\ e <= End - 1 /\ sent[Conn][p] \in Nat
    BY <1>5, <2>1
  <2>3. e \in Nat
    BY <1>2, <2>2
  <2> QED  BY <1>5, <2>1, <2>2, <2>3
<1>7. e < DataEnd
  <2> SUFFICES ASSUME e >= DataEnd PROVE FALSE
    BY <1>2, <1>6
  <2>1. DataEnd \in readPos .. e /\ Len(wire) > 0
    BY <1>2, <1>6
  <2>2. Ahead[DataEnd] = wire[DataEnd - DataEnd - Len(InHand) + 1]
    BY <1>1, <1>2, ExactFacts
  <2>3. DataEnd - DataEnd - Len(InHand) + 1 = 1
    BY <1>1, <1>2
  <2>4. wire[1] = <<Conn, p, 1 + DataEnd - readPos>>
    BY <1>6, <2>1, <2>2, <2>3
  <2>5. wire # <<>> /\ Head(wire) = wire[1]
    BY <1>2, <2>1, TypeFacts
  <2>6. wire[1][3] = 1 + DataEnd - readPos
    BY <2>4
  <2>7. wire[1][3] <= HeaderSize + 1
    BY <2>5 DEF ExactNow, EndsWell
  <2> QED  BY <1>2, <2>6, <2>7
<1>8. ASSUME NEW m \in readPos .. e PROVE buffer[m] = <<Conn, p, 1 + m - readPos>>
  <2>1. m \in Nat /\ m < DataEnd
    BY <1>2, <1>6, <1>7
  <2>2. Ahead[m] = buffer[m]
    BY <2>1, ExactFacts
  <2> QED  BY <1>6, <2>2
<1> QED  BY <1>1, <1>3, <1>5, <1>6, <1>7, <1>8

\* The thread takes it for a packet, and whole.
LEMMA PacketTaken ==
    ASSUME TypeInv, ExactNow, connected, thread = "parse", HeaderFits,
           NEW p, p = Len(Seen) + 1, NEW e, e = readPos + HeaderSize + sent[Conn][p] - 1
    PROVE  /\ IsHeader /\ BodyFits /\ Found = Intact(Conn, p)
           /\ BodyPos + BodySize = e + 1
<1>1. /\ p \in Nat /\ sent[Conn][p] \in Nat /\ sent[Conn][p] > 0
      /\ e \in Nat /\ readPos <= e /\ e < dataSize
      /\ \A m \in readPos .. e : buffer[m] = <<Conn, p, 1 + m - readPos>>
  BY PacketAhead
<1>2. HeaderSize \in Nat /\ HeaderSize > 0 /\ readPos \in Nat /\ dataSize \in Int
  BY Sizes, TypeFacts
<1>3. buffer[readPos] = <<Conn, p, 1>>
  <2>1. readPos \in readPos .. e /\ 1 + readPos - readPos = 1
    BY <1>1, <1>2
  <2> QED  BY <1>1, <2>1
<1>4. buffer[readPos][1] = Conn /\ buffer[readPos][2] = p
  BY <1>3
<1>5. IsHeader
  <2> SUFFICES ASSUME NEW k \in 1 .. HeaderSize
               PROVE  buffer[readPos + k - 1] = <<Conn, p, k>>
    BY <1>4 DEF IsHeader
  <2>1. readPos + k - 1 \in readPos .. e /\ 1 + (readPos + k - 1) - readPos = k
    BY <1>1, <1>2
  <2> QED  BY <1>1, <2>1
<1>6. BodySize = sent[Conn][p]
  BY <1>4 DEF BodySize
<1>7. BodyPos = readPos + HeaderSize
  BY DEF BodyPos
<1>8. BodyFits /\ BodyPos + BodySize = e + 1
  BY <1>1, <1>2, <1>6, <1>7 DEF BodyFits
<1>9. \A k \in 1 .. BodySize : buffer[BodyPos + k - 1] = <<Conn, p, HeaderSize + k>>
  <2> SUFFICES ASSUME NEW k \in 1 .. sent[Conn][p]
               PROVE  buffer[BodyPos + k - 1] = <<Conn, p, HeaderSize + k>>
    BY <1>6
  <2>1. /\ BodyPos + k - 1 \in readPos .. e
        /\ 1 + (BodyPos + k - 1) - readPos = HeaderSize + k
    BY <1>1, <1>2, <1>7, SMTT(30)
  <2> QED  BY <1>1, <2>1
<1>10. Found = Intact(Conn, p)
  <2> HIDE DEF BodySize, BodyPos
  <2> QED  BY <1>4, <1>9 DEF Found, Intact
<1> QED  BY <1>5, <1>8, <1>10

LEMMA ParseKeepsExact ==
    ASSUME TypeInv, ExactNow, connected, TypeInv', Parse
    PROVE  ExactNow'
<1>1. /\ thread = "parse"
      /\ UNCHANGED <<sent, handled, buffer, wire, recvSize, dataSize, connected>>
  BY DEF Parse, peer, log
<1>2. /\ dataSize = recvSize /\ DataEnd = recvSize /\ InHand = <<>> /\ Len(InHand) = 0
  BY <1>1 DEF DataEnd, InHand, ExactNow, InStep
<1>3. CASE ~HeaderFits
  <2>1. thread' = "loadRest" /\ queue' = queue /\ readPos' = readPos
    BY <1>3 DEF Parse
  <2>2. DataEnd' = DataEnd /\ InHand' = InHand
    BY <1>1, <1>2, <2>1 DEF DataEnd, InHand
  <2>3. End' = End /\ Ahead' = Ahead
    BY <1>1, <2>2 DEF End, Ahead
  <2>4. DataEnd - readPos <= HeaderSize
    BY <1>2, <1>3, ExactFacts, Sizes DEF HeaderFits
  <2>5. InStep'
    BY <1>1, <1>2, <2>1, <2>2, <2>4 DEF ExactNow, InStep
  <2>6. recvSize' >= 0
    BY <1>1 DEF ExactNow, InStep
  <2> QED  BY <1>1, <2>1, <2>3, <2>5, <2>6, PassedOn DEF ExactNow
<1>4. CASE HeaderFits
  <2> DEFINE p == Len(Seen) + 1
             e == readPos + HeaderSize + sent[Conn][p] - 1
  <2>1. /\ IsHeader /\ BodyFits /\ Found = Intact(Conn, p)
        /\ BodyPos + BodySize = e + 1
    BY <1>1, <1>4, PacketTaken
  <2>2. /\ queue' = Append(queue, Intact(Conn, p)) /\ readPos' = e + 1
        /\ thread' = "parse"
    <3> HIDE DEF p, e
    <3> QED  BY <1>1, <1>4, <2>1 DEF Parse
  <2>3. /\ p \in 1 .. Len(sent[Conn]) /\ p \in Nat
        /\ e \in Nat /\ readPos <= e /\ e <= End - 1 /\ e < dataSize
        /\ readPos < End
        /\ \A m \in readPos .. e : Ahead[m] = <<Conn, p, 1 + m - readPos>>
        /\ e < End - 1 => Ahead[e + 1] = <<Conn, p + 1, 1>>
    BY <1>1, <1>4, PacketAhead
  <2>4. /\ Len(Seen') = p /\ Seen'[p] = Intact(Conn, p)
        /\ \A q \in 1 .. Len(Seen) : Seen'[q] = Seen[q]
        /\ Len(Seen) = p - 1 /\ Len(Seen) \in Nat
    <3>1. queue \in Seq(Packets) /\ handled \in Seq(Packets)
          /\ Len(queue) \in Nat /\ Len(handled) \in Nat
      BY DEF TypeInv, QueuesTyped
    <3> DEFINE x == Intact(Conn, p)
    <3>2. /\ Len(Append(queue, x)) = Len(queue) + 1
          /\ Append(queue, x)[Len(queue) + 1] = x
          /\ \A q \in 1 .. Len(queue) : Append(queue, x)[q] = queue[q]
      BY <3>1
    <3>3. x \in Packets
      BY <2>3, ExactFacts DEF Intact, Packets
    <3>4. queue' = Append(queue, x) /\ handled' = handled /\ queue' \in Seq(Packets)
      BY <1>1, <2>2 DEF TypeInv, QueuesTyped
    <3> HIDE DEF x, p
    <3>5. /\ Len(Seen) = Len(handled) + Len(queue)
          /\ \A q \in 1 .. Len(Seen) :
               Seen[q] = IF q <= Len(handled) THEN handled[q] ELSE queue[q - Len(handled)]
      BY <3>1 DEF Seen
    <3>6. /\ Len(Seen') = Len(handled) + Len(queue')
          /\ \A q \in 1 .. Len(Seen') :
               Seen'[q] = IF q <= Len(handled) THEN handled[q] ELSE queue'[q - Len(handled)]
      BY <3>1, <3>4 DEF Seen
    <3>7. Len(queue') = Len(queue) + 1 /\ queue'[Len(queue) + 1] = x
          /\ \A q \in 1 .. Len(queue) : queue'[q] = queue[q]
      BY <3>2, <3>4
    <3>8. Len(Seen') = Len(Seen) + 1 /\ Seen'[Len(Seen) + 1] = x
      BY <3>1, <3>5, <3>6, <3>7
    <3>9. ASSUME NEW q \in 1 .. Len(Seen) PROVE Seen'[q] = Seen[q]
      <4>1. q \in 1 .. Len(Seen')
        BY <3>1, <3>5, <3>8
      <4>2. q > Len(handled) => q - Len(handled) \in 1 .. Len(queue)
        BY <3>1, <3>5
      <4>3. Seen[q] = IF q <= Len(handled) THEN handled[q] ELSE queue[q - Len(handled)]
        BY <3>5
      <4>4. Seen'[q] = IF q <= Len(handled) THEN handled[q] ELSE queue'[q - Len(handled)]
        BY <3>6, <4>1
      <4>5. q > Len(handled) => queue'[q - Len(handled)] = queue[q - Len(handled)]
        BY <3>7, <4>2
      <4>6. q \in Int /\ Len(handled) \in Int
        BY <3>1
      <4> QED  BY <4>3, <4>4, <4>5, <4>6
    <3> QED  BY <3>1, <3>5, <3>8, <3>9 DEF x, p
  <2> HIDE DEF p, e
  <2>5. DataEnd' = DataEnd /\ InHand' = InHand
    BY <1>1, <1>2, <2>2 DEF DataEnd, InHand
  <2>6. End' = End /\ Ahead' = Ahead
    BY <1>1, <2>5 DEF End, Ahead
  <2>7. Conn' = Conn
    BY <1>1, SameSent
  <2>8. InStep'
    <3>1. readPos' <= DataEnd
      BY <1>2, <2>2, <2>3, ExactFacts
    <3> QED  BY <1>1, <1>2, <2>2, <2>5, <3>1 DEF ExactNow, InStep
  <2>9. AllIntact'
    <3>1. ASSUME NEW q \in 1 .. Len(Seen') PROVE Seen'[q] = Intact(Conn, q)
      <4>1. q = p \/ q \in 1 .. Len(Seen)
        BY <2>3, <2>4
      <4> QED  BY <2>4, <4>1 DEF ExactNow, AllIntact
    <3> QED  BY <2>7, <3>1 DEF AllIntact, Intact
  <2>10. RestAhead'
    <3>1. readPos \in Nat /\ End \in Nat
      BY ExactFacts
    <3>2. ASSUME NEW k \in readPos' .. End' - 1 PROVE Placed(Ahead, k, End - 1)'
      <4>1. k \in readPos .. End - 1
        BY <2>2, <2>3, <2>6, <3>1
      <4>2. Placed(Ahead, k, End - 1)
        BY <4>1 DEF ExactNow, RestAhead
      <4> QED  BY <1>1, <2>6, <4>2, SameSent
    <3>3. /\ readPos' < End' <=> e < End - 1
          /\ e < End - 1 \/ e = End - 1
      BY <2>2, <2>3, <2>6, <3>1
    <3>4. Ahead[End - 1][2] = Len(sent[Conn])
      BY <2>3 DEF ExactNow, RestAhead
    <3>5. e = End - 1 => p = Len(sent[Conn])
      <4>1. e \in readPos .. e
        BY <2>3, <3>1
      <4>2. Ahead[e][2] = p
        BY <2>3, <4>1
      <4> QED  BY <3>4, <4>2
    <3>6. IF readPos' < End' THEN /\ Ahead[readPos'] = <<Conn, Len(Seen') + 1, 1>>
                                  /\ Ahead[End - 1][2] = Len(sent[Conn])
                             ELSE Len(Seen') = Len(sent[Conn])
      BY <2>2, <2>3, <2>4, <3>3, <3>4, <3>5
    <3> QED  BY <1>1, <2>6, <2>7, <3>2, <3>6 DEF RestAhead
  <2> QED  BY <1>1, <2>8, <2>9, <2>10 DEF ExactNow, EndsWell
<1> QED  BY <1>3, <1>4

\* What the server sends comes behind all that is ahead.
LEMMA SendKeepsExact ==
    ASSUME TypeInv, ExactNow, connected, TypeInv', Send
    PROVE  ExactNow'
<1> DEFINE p == Len(sent[Conn]) + 1
           top == End - 1
<1>1. /\ Conn \in Nat \ {0} /\ Conn' = Conn /\ UNCHANGED <<thread, mem, local, log>>
      /\ \E n \in BodySizes :
           /\ sent' \in Seq(Seq(BodySizes))
           /\ sent'[Conn] \in Seq(BodySizes)
           /\ Len(sent'[Conn]) = Len(sent[Conn]) + 1
           /\ \A q \in 1 .. Len(sent[Conn]) : sent'[Conn][q] = sent[Conn][q]
           /\ sent'[Conn][Len(sent[Conn]) + 1] = n
           /\ Len(wire') = Len(wire) + HeaderSize + n
           /\ \A k \in 1 .. Len(wire) : wire'[k] = wire[k]
           /\ \A k \in Len(wire) + 1 .. Len(wire') :
                wire'[k] = <<Conn, Len(sent[Conn]) + 1, k - Len(wire)>>
  BY SendShown
<1>2. PICK n \in BodySizes :
        /\ Len(sent'[Conn]) = p
        /\ \A q \in 1 .. Len(sent[Conn]) : sent'[Conn][q] = sent[Conn][q]
        /\ sent'[Conn][p] = n
        /\ Len(wire') = Len(wire) + HeaderSize + n
        /\ \A k \in 1 .. Len(wire) : wire'[k] = wire[k]
        /\ \A k \in Len(wire) + 1 .. Len(wire') : wire'[k] = <<Conn, p, k - Len(wire)>>
  BY <1>1
<1>3. n \in Nat /\ n > 0 /\ HeaderSize \in Nat /\ HeaderSize > 0
  BY Sizes
<1>4. /\ UNCHANGED <<recvSize, buffer, queue, got, reg, dataSize, readPos, handled,
                    connected>>
      /\ DataEnd' = DataEnd /\ InHand' = InHand /\ Seen' = Seen
  BY <1>1 DEF mem, local, log, DataEnd, InHand, Seen
<1>5. /\ Conn > 0 /\ DataEnd \in Nat /\ Len(InHand) \in Nat /\ Len(wire) \in Nat
      /\ End \in Nat /\ End = DataEnd + Len(InHand) + Len(wire)
      /\ readPos \in Nat /\ readPos <= End /\ Len(Seen) \in Nat
  BY ExactFacts
<1>6. Len(sent[Conn]) \in Nat /\ p \in Nat /\ p = Len(sent[Conn]) + 1
  BY <1>1, TypeFacts, SMTT(30)
<1> HIDE DEF p
<1>7. End' = End + HeaderSize + n /\ End' \in Nat
  <2>1. End' = DataEnd + Len(InHand) + Len(wire')
    BY <1>4 DEF End
  <2> QED  BY <1>2, <1>3, <1>5, <2>1
<1>8. \A k \in Nat :
        Ahead'[k] = IF k < DataEnd THEN buffer[k]
                    ELSE IF k < DataEnd + Len(InHand) THEN InHand[k - DataEnd + 1]
                    ELSE wire'[k - DataEnd - Len(InHand) + 1]
  BY <1>4 DEF Ahead
<1>9. \A k \in Nat :
        Ahead[k] = IF k < DataEnd THEN buffer[k]
                   ELSE IF k < DataEnd + Len(InHand) THEN InHand[k - DataEnd + 1]
                   ELSE wire[k - DataEnd - Len(InHand) + 1]
  BY DEF Ahead
<1> DEFINE ahead2 == Ahead'
<1>10. \A k \in Nat : k < End => ahead2[k] = Ahead[k]
  <2> TAKE k \in Nat
  <2> HAVE k < End
  <2>1. CASE k < DataEnd + Len(InHand)
    BY <1>5, <1>8, <1>9, <2>1
  <2>2. CASE k >= DataEnd + Len(InHand)
    <3>1. /\ k - DataEnd - Len(InHand) + 1 \in 1 .. Len(wire)
          /\ ~(k < DataEnd) /\ ~(k < DataEnd + Len(InHand))
      BY <1>5, <2>2
    <3>2. wire'[k - DataEnd - Len(InHand) + 1] = wire[k - DataEnd - Len(InHand) + 1]
      BY <1>2, <3>1
    <3> QED  BY <1>8, <1>9, <3>1, <3>2
  <2> QED  BY <1>5, <2>1, <2>2
<1>11. \A k \in Nat : k >= End /\ k < End' => ahead2[k] = <<Conn, p, k - End + 1>>
  <2> TAKE k \in Nat
  <2> HAVE k >= End /\ k < End'
  <2>1. /\ k - DataEnd - Len(InHand) + 1 \in Len(wire) + 1 .. Len(wire')
        /\ ~(k < DataEnd) /\ ~(k < DataEnd + Len(InHand))
        /\ k - DataEnd - Len(InHand) + 1 - Len(wire) = k - End + 1
    BY <1>2, <1>3, <1>5, <1>7
  <2> DEFINE i == k - DataEnd - Len(InHand) + 1
  <2>2. wire'[i] = <<Conn, p, i - Len(wire)>>
    <3>1. i \in Len(wire) + 1 .. Len(wire')
      BY <2>1
    <3> HIDE DEF i
    <3> QED  BY <1>2, <3>1
  <2>3. ahead2[k] = wire'[i]
    BY <1>8, <2>1
  <2>4. i - Len(wire) = k - End + 1
    BY <1>5, <2>1
  <2> HIDE DEF i
  <2> QED  BY <2>2, <2>3, <2>4
<1> HIDE DEF ahead2
<1>12. ASSUME NEW k \in readPos .. End' - 1
       PROVE  LET c == ahead2[k]
                  e == k + HeaderSize + sent'[Conn][c[2]] - c[3]
              IN /\ c[1] = Conn /\ c[2] \in 1 .. Len(sent'[Conn])
                 /\ c[3] \in 1 .. HeaderSize + sent'[Conn][c[2]]
                 /\ e <= End' - 1
                 /\ \A m \in k .. e : ahead2[m] = <<Conn, c[2], c[3] + m - k>>
                 /\ e < End' - 1 => ahead2[e + 1] = <<Conn, c[2] + 1, 1>>
  <2>1. k \in Nat /\ k < End' /\ k \in Int
    BY <1>5, <1>7
  <2>2. CASE k < End
    <3> DEFINE f == Ahead
               q == f[k][2]
               o == f[k][3]
               e == EndOf(f[k], k)
    <3>1. Placed(f, k, top) /\ top \in Int
      BY <1>5, <2>1, <2>2 DEF ExactNow, RestAhead
    <3> HIDE DEF f, top
    <3>2. /\ f[k][1] = Conn /\ q \in 1 .. Len(sent[Conn]) /\ q \in Nat
          /\ sent[Conn][q] \in Nat /\ sent[Conn][q] > 0
          /\ o \in Nat /\ 1 <= o /\ o <= HeaderSize + sent[Conn][q]
          /\ e \in Int /\ k <= e /\ e <= top
          /\ e = k + HeaderSize + sent[Conn][q] - o
          /\ \A m \in k .. e : f[m] = <<Conn, q, o + m - k>>
          /\ e < top => f[e + 1] = <<Conn, q + 1, 1>>
      BY <1>5, <2>1, <3>1, PlacedFacts DEF PlacedSays
    <3>3. ahead2[k] = f[k]
      BY <1>10, <2>1, <2>2 DEF f
    <3>4. sent'[Conn][q] = sent[Conn][q] /\ q \in 1 .. Len(sent'[Conn])
      <4>1. q \in 1 .. Len(sent[Conn])
        BY <3>2
      <4> HIDE DEF q
      <4>2. sent'[Conn][q] = sent[Conn][q]
        BY <1>2, <4>1
      <4> QED  BY <1>2, <1>6, <4>1, <4>2
    <3>5. ahead2[k][1] = Conn /\ ahead2[k][2] = q /\ ahead2[k][3] = o
      BY <3>2, <3>3
    <3> HIDE DEF q, o, e
    <3>6. e < End /\ e \in Nat /\ e <= End' - 1 /\ e + 1 \in Nat
      <4>1. e \in Int /\ k <= e /\ e <= End - 1
        BY <3>2 DEF top
      <4> QED  BY <1>3, <1>5, <1>7, <2>1, <4>1
    <3>7. ASSUME NEW m \in k .. e PROVE ahead2[m] = <<Conn, q, o + m - k>>
      <4>1. m \in Nat /\ m < End
        BY <1>5, <2>1, <3>6
      <4>2. ahead2[m] = f[m]
        BY <1>10, <4>1 DEF f
      <4> QED  BY <3>2, <4>2
    <3>8. ASSUME e < End' - 1 PROVE ahead2[e + 1] = <<Conn, q + 1, 1>>
      <4>1. CASE e < top
        <5>1. e + 1 < End
          BY <1>5, <3>6, <4>1 DEF top
        <5>2. ahead2[e + 1] = f[e + 1]
          BY <1>10, <3>6, <5>1 DEF f
        <5> QED  BY <3>2, <4>1, <5>2
      <4>2. CASE ~(e < top)
        <5>1. e = End - 1 /\ e + 1 = End /\ readPos < End /\ e + 1 - End + 1 = 1
          <6>1. e \in Nat /\ e <= top /\ k \in readPos .. End' - 1
            BY <3>2, <3>6
          <6> QED  BY <1>5, <2>1, <2>2, <4>2, <6>1 DEF top
        <5>2. Ahead[End - 1][2] = Len(sent[Conn])
          BY <5>1 DEF ExactNow, RestAhead
        <5>3. e \in k .. e
          BY <3>2
        <5>4. Ahead[e][2] = q
          BY <3>2, <5>3 DEF f
        <5>5. q = Len(sent[Conn])
          BY <5>1, <5>2, <5>4
        <5>6. ahead2[e + 1] = <<Conn, p, e + 1 - End + 1>>
          BY <1>3, <1>5, <1>7, <1>11, <3>6, <5>1
        <5> QED  BY <1>6, <5>1, <5>5, <5>6
      <4> QED  BY <4>1, <4>2
    <3>9. o \in 1 .. HeaderSize + sent'[Conn][q]
      BY <1>3, <3>2, <3>4
    <3>10. e = k + HeaderSize + sent'[Conn][q] - o
      BY <3>2, <3>4
    <3> QED  BY <3>4, <3>5, <3>6, <3>7, <3>8, <3>9, <3>10
  <2>3. CASE k >= End
    <3>1. ahead2[k] = <<Conn, p, k - End + 1>>
      BY <1>11, <2>1, <2>3
    <3>2. ahead2[k][1] = Conn /\ ahead2[k][2] = p /\ ahead2[k][3] = k - End + 1
      BY <3>1
    <3>3. /\ k + HeaderSize + n - (k - End + 1) = End' - 1
          /\ k - End + 1 \in 1 .. HeaderSize + n
      BY <1>3, <1>5, <1>7, <2>1, <2>3
    <3>4. ASSUME NEW m \in k .. End' - 1
          PROVE  ahead2[m] = <<Conn, p, (k - End + 1) + m - k>>
      <4>1. m \in Nat /\ m >= End /\ m < End' /\ m - End + 1 = (k - End + 1) + m - k
        BY <1>5, <1>7, <2>1, <2>3
      <4>2. ahead2[m] = <<Conn, p, m - End + 1>>
        BY <1>11, <4>1
      <4> QED  BY <4>1, <4>2
    <3>5. End' - 1 <= End' - 1 /\ ~(End' - 1 < End' - 1)
      BY <1>7
    <3>6. p \in 1 .. Len(sent'[Conn]) /\ sent'[Conn][p] = n
      BY <1>2, <1>6
    <3> QED  BY <3>2, <3>3, <3>4, <3>5, <3>6
  <2> QED  BY <1>5, <2>1, <2>2, <2>3, SMTT(30)
<1>13. readPos < End' /\ ahead2[readPos] = <<Conn, Len(Seen) + 1, 1>>
  <2>1. readPos < End'
    BY <1>3, <1>5, <1>7
  <2>2. CASE readPos < End
    <3>1. Ahead[readPos] = <<Conn, Len(Seen) + 1, 1>>
      BY <2>2 DEF ExactNow, RestAhead
    <3> QED  BY <1>5, <1>10, <2>1, <2>2, <3>1
  <2>3. CASE ~(readPos < End)
    <3>1. Len(Seen) = Len(sent[Conn]) /\ readPos = End /\ readPos - End + 1 = 1
      BY <1>5, <2>3 DEF ExactNow, RestAhead
    <3>2. ahead2[readPos] = <<Conn, p, readPos - End + 1>>
      BY <1>5, <1>11, <2>1, <3>1
    <3> QED  BY <1>6, <2>1, <3>1, <3>2
  <2> QED  BY <2>2, <2>3
<1>14. ahead2[End' - 1][2] = Len(sent'[Conn])
  <2>1. End' - 1 \in Nat /\ End' - 1 >= End /\ End' - 1 < End'
    BY <1>3, <1>5, <1>7
  <2>2. ahead2[End' - 1] = <<Conn, p, (End' - 1) - End + 1>>
    BY <1>11, <2>1
  <2> QED  BY <1>2, <2>2
<1>15. RestAhead'
  <2>1. \A k \in readPos' .. End' - 1 : Placed(Ahead, k, End - 1)'
    BY <1>1, <1>4, <1>12 DEF Placed, EndOf, ahead2
  <2> QED  BY <1>1, <1>4, <1>13, <1>14, <2>1 DEF RestAhead, ahead2
<1>16. InStep'
  BY <1>1, <1>4 DEF ExactNow, InStep
<1>17. AllIntact'
  BY <1>1, <1>4 DEF ExactNow, AllIntact, Intact
<1>18. EndsWell(wire')
  <2>1. CASE Len(wire) > 0
    <3>1. wire'[1] = wire[1] /\ Head(wire) = wire[1] /\ Head(wire') = wire'[1]
          /\ wire # <<>>
      BY <1>2, <1>5, <2>1
    <3> QED  BY <3>1 DEF ExactNow, EndsWell
  <2>2. CASE Len(wire) = 0
    <3>1. 1 \in Len(wire) + 1 .. Len(wire') /\ 1 - Len(wire) = 1
      BY <1>2, <1>3, <2>2
    <3>2. Head(wire') = <<Conn, p, 1>>
      BY <1>2, <3>1
    <3>3. Head(wire')[3] = 1
      BY <3>2
    <3> QED  BY <1>3, <3>3 DEF EndsWell
  <2> QED  BY <1>5, <2>1, <2>2
<1> QED  BY <1>15, <1>16, <1>17, <1>18 DEF ExactNow, EndsWell

\* A connection that begins with nothing left begins with nothing ahead.
LEMMA ConnectKeepsExact ==
    ASSUME Inv, TypeInv, clean', ConnectTo
    PROVE  ExactNow'
<1>1. /\ ui = "idle" /\ ~connected /\ thread' = "test" /\ handled' = <<>>
      /\ sent' = Append(sent, <<>>) /\ wire' = <<>>
      /\ UNCHANGED <<recvSize, queue, readPos>>
      /\ clean' = (recvSize = 0 /\ queue = <<>>)
  BY DEF ConnectTo, local
<1>2. recvSize = 0 /\ queue = <<>>
  BY <1>1, Zenon
<1>3. thread = "none"
  BY <1>1 DEF Inv, JoinedFirst
<1>4. readPos' = 0
  BY <1>1, <1>3 DEF TypeInv, InBuffer
<1>5. DataEnd' = 0 /\ InHand' = <<>> /\ Len(InHand') = 0 /\ Len(wire') = 0
  BY <1>1, <1>2 DEF DataEnd, InHand
<1>6. End' = 0
  BY <1>5 DEF End
<1>7. Seen' = <<>> /\ Len(Seen') = 0
  BY <1>1, <1>2 DEF Seen
<1>8. Len(sent'[Conn']) = 0
  <2>1. sent \in Seq(Seq(BodySizes)) /\ <<>> \in Seq(BodySizes)
    BY TypeFacts
  <2>2. Len(sent') = Len(sent) + 1 /\ sent'[Len(sent) + 1] = <<>>
    BY <1>1, <2>1
  <2> QED  BY <2>2 DEF Conn
<1>9. RestAhead'
  <2>1. ~(readPos' < End') /\ readPos' .. End' - 1 = {}
    BY <1>4, <1>6
  <2> QED  BY <1>7, <1>8, <2>1 DEF RestAhead
<1>10. InStep'
  BY <1>1, <1>2, <1>4, <1>5, Sizes DEF InStep
<1>11. AllIntact' /\ EndsWell(wire)'
  BY <1>1, <1>7 DEF AllIntact, EndsWell
<1> QED  BY <1>9, <1>10, <1>11 DEF ExactNow

\* The head of a queue moved to the end of what came before it.
LEMMA HeadMoved ==
    ASSUME NEW S, NEW before \in Seq(S), NEW q \in Seq(S), q # <<>>
    PROVE  Append(before, Head(q)) \o Tail(q) = before \o q
<1> DEFINE h == Head(q)
           t == Tail(q)
           a == Append(before, h)
<1>1. /\ h \in S /\ t \in Seq(S) /\ h = q[1]
      /\ Len(t) = Len(q) - 1 /\ Len(q) \in Nat /\ Len(q) > 0
      /\ Len(before) \in Nat
      /\ \A i \in 1 .. Len(q) - 1 : t[i] = q[i + 1]
  OBVIOUS
<1>2. /\ a \in Seq(S) /\ Len(a) = Len(before) + 1
      /\ \A i \in 1 .. Len(before) : a[i] = before[i]
      /\ a[Len(before) + 1] = h
  BY <1>1
<1> HIDE DEF h, t, a
<1>3. a \in Seq(S) /\ t \in Seq(S)
  BY <1>1, <1>2
<1>4. /\ a \o t \in Seq(S) /\ Len(a \o t) = Len(a) + Len(t)
      /\ \A i \in 1 .. Len(a) + Len(t) :
           (a \o t)[i] = IF i <= Len(a) THEN a[i] ELSE t[i - Len(a)]
  BY <1>3
<1>5. /\ before \o q \in Seq(S) /\ Len(before \o q) = Len(before) + Len(q)
      /\ \A i \in 1 .. Len(before) + Len(q) :
           (before \o q)[i] = IF i <= Len(before) THEN before[i] ELSE q[i - Len(before)]
  OBVIOUS
<1>6. Len(a \o t) = Len(before) + Len(q) /\ Len(a) + Len(t) = Len(before) + Len(q)
  BY <1>1, <1>2, <1>4
<1>7. ASSUME NEW i \in 1 .. Len(before) + Len(q) PROVE (a \o t)[i] = (before \o q)[i]
  <2>1. (a \o t)[i] = IF i <= Len(before) + 1 THEN a[i] ELSE t[i - (Len(before) + 1)]
    BY <1>2, <1>4, <1>6
  <2>2. (before \o q)[i] = IF i <= Len(before) THEN before[i] ELSE q[i - Len(before)]
    BY <1>5
  <2>3. i \in Int /\ Len(before) \in Int
    BY <1>1
  <2>4. CASE i <= Len(before)
    <3>1. i \in 1 .. Len(before) /\ i <= Len(before) + 1
      BY <1>1, <2>4
    <3> QED  BY <1>2, <2>1, <2>2, <2>4, <3>1
  <2>5. CASE i = Len(before) + 1
    <3>1. i <= Len(before) + 1 /\ ~(i <= Len(before)) /\ i - Len(before) = 1
      BY <1>1, <2>5
    <3> QED  BY <1>1, <1>2, <2>1, <2>2, <2>5, <3>1
  <2>6. CASE i > Len(before) + 1
    <3> DEFINE j == i - (Len(before) + 1)
    <3>1. /\ j \in 1 .. Len(q) - 1 /\ j + 1 = i - Len(before)
          /\ ~(i <= Len(before) + 1) /\ ~(i <= Len(before))
      BY <1>1, <2>6
    <3>2. (a \o t)[i] = t[j]
      BY <2>1, <3>1
    <3> HIDE DEF j
    <3>3. t[j] = q[j + 1]
      BY <1>1, <3>1
    <3> QED  BY <2>2, <3>1, <3>2, <3>3
  <2>7. i <= Len(before) \/ i = Len(before) + 1 \/ i > Len(before) + 1
    BY <2>3
  <2> QED  BY <2>4, <2>5, <2>6, <2>7, Zenon
<1>8. a \o t = before \o q
  BY <1>4, <1>5, <1>6, <1>7, SeqEqual
<1> QED  BY <1>8 DEF h, t, a

\* What a scene gets it gets from the head of the queue.
LEMMA ProcessKeepsExact ==
    ASSUME TypeInv, ExactNow, connected, TypeInv', PacketProcess
    PROVE  ExactNow'
<1>1. /\ queue # <<>> /\ handled' = Append(handled, Head(queue)) /\ queue' = Tail(queue)
      /\ UNCHANGED <<thread, connected, recvSize, buffer, got, reg, dataSize, readPos,
                     wire, sent>>
  BY DEF PacketProcess, local, peer
<1>2. queue \in Seq(Packets) /\ handled \in Seq(Packets)
  BY DEF TypeInv, QueuesTyped
<1>3. Seen' = Seen
  <2>1. Append(handled, Head(queue)) \o Tail(queue) = handled \o queue
    BY <1>1, <1>2, HeadMoved
  <2>2. handled' = Append(handled, Head(queue)) /\ queue' = Tail(queue)
    BY <1>1
  <2> QED  BY <2>1, <2>2, Zenon DEF Seen
<1>4. DataEnd' = DataEnd /\ InHand' = InHand
  BY <1>1 DEF DataEnd, InHand
<1>5. End' = End /\ Ahead' = Ahead
  BY <1>1, <1>4 DEF End, Ahead
<1>6. Conn' = Conn
  BY <1>1, SameSent
<1>7. RestAhead'
  <2>1. \A k \in readPos' .. End' - 1 : Placed(Ahead, k, End - 1)'
    BY <1>1, <1>5, SameSent DEF ExactNow, RestAhead
  <2> QED  BY <1>1, <1>3, <1>5, <1>6, <2>1 DEF ExactNow, RestAhead
<1>8. InStep' /\ AllIntact' /\ EndsWell(wire)'
  BY <1>1, <1>3, <1>4, <1>6 DEF ExactNow, InStep, AllIntact, Intact, EndsWell
<1> QED  BY <1>7, <1>8 DEF ExactNow

LEMMA StillKeepsExact ==
    ASSUME TypeInv, ExactNow, connected, TypeInv', ServerCloses \/ UNCHANGED vars
    PROVE  ExactNow'
<1>1. UNCHANGED <<thread, connected, recvSize, buffer, queue, got, reg, dataSize,
                  readPos, wire, sent, handled>>
  BY DEF ServerCloses, vars, mem, local, peer, log
<1>2. DataEnd' = DataEnd /\ InHand' = InHand
  BY <1>1 DEF DataEnd, InHand
<1>3. End' = End /\ Ahead' = Ahead
  BY <1>1, <1>2 DEF End, Ahead
<1>4. InStep' /\ EndsWell(wire') /\ recvSize' >= 0
  BY <1>1, <1>2 DEF ExactNow, InStep, EndsWell
<1> QED  BY <1>1, <1>3, <1>4, PassedOn

LEMMA StepKeepsExact ==
    ASSUME Inv, TypeInv, TypeInv', Exact, [Next]_vars
    PROVE  Exact'
<1> SUFFICES ASSUME clean', connected', ui' = "idle" PROVE ExactNow'
  BY DEF Exact
<1>1. CASE ConnectTo
  BY <1>1, ConnectKeepsExact
<1>2. ~CloseSocket /\ ~ClearConnected /\ ~ClearSize /\ ~ClearQueue
  BY DEF CloseSocket, ClearConnected, ClearSize, ClearQueue
<1>3. ~Join
  BY DEF Join, mem, Inv, JoinedFirst
<1>4. CASE Send \/ ServerCloses \/ PacketProcess \/ ThreadStep \/ UNCHANGED vars
  <2>1. connected' = connected /\ ui' = ui
    BY <1>4 DEF Send, ServerCloses, PacketProcess, ThreadStep, Update, RecvSome,
       RecvNothing, LoadSize, StoreData, ReadSize, Parse, LoadRest, StoreRest, Shift,
       vars, mem
  <2>2. clean
    <3>1. clean' = clean \/ clean' = (clean /\ EndsWell(wire'))
      BY <1>4 DEF Send, ServerCloses, PacketProcess, ThreadStep, Update, RecvSome,
         RecvNothing, LoadSize, StoreData, ReadSize, Parse, LoadRest, StoreRest, Shift,
         vars, log
    <3> QED  BY <3>1, Zenon
  <2>3. connected /\ ExactNow
    BY <2>1, <2>2 DEF Exact
  <2> QED
    BY <1>4, <2>3, SendKeepsExact, StillKeepsExact, ProcessKeepsExact, IdleKeepsExact,
       RecvKeepsExact, LoadKeepsExact, StoreKeepsExact, ParseKeepsExact,
       StoreRestKeepsExact, ShiftKeepsExact DEF ThreadStep
<1> QED  BY <1>1, <1>2, <1>3, <1>4 DEF Next, DisConnectStep

\* What the thread and the scenes know of such a connection says what they got.
LEMMA ExactSuffices == TypeInv /\ Exact => ExactWhileClean
<1> SUFFICES ASSUME TypeInv, Exact, clean, connected, ui = "idle"
             PROVE  /\ thread # "wild"
                    /\ Len(Seen) <= Len(sent[Conn])
                    /\ \A p \in DOMAIN Seen : Seen[p] = Intact(Conn, p)
  BY DEF ExactWhileClean, Seen
<1>1. ExactNow
  BY DEF Exact
<1>2. thread # "wild"
  BY <1>1 DEF ExactNow, InStep
<1>3. /\ Conn \in Nat /\ Conn > 0 /\ readPos \in Nat /\ End \in Nat
      /\ Seen \in Seq(Packets) /\ Len(Seen) \in Nat
  BY <1>1, ExactFacts
<1>4. Len(Seen) <= Len(sent[Conn])
  <2>1. CASE readPos < End
    <3> DEFINE to == End - 1
    <3>1. to \in Int /\ readPos \in readPos .. to /\ readPos \in Int
      BY <1>3, <2>1
    <3>2. Placed(Ahead, readPos, to) /\ Ahead[readPos] = <<Conn, Len(Seen) + 1, 1>>
      BY <1>1, <2>1, <3>1 DEF ExactNow, RestAhead
    <3>3. Ahead[readPos][2] \in 1 .. Len(sent[Conn])
      BY <3>2 DEF Placed
    <3>4. Ahead[readPos][2] = Len(Seen) + 1
      BY <3>2
    <3>5. Len(sent[Conn]) \in Nat
      BY <1>3, TypeFacts
    <3> QED  BY <1>3, <3>3, <3>4, <3>5
  <2>2. CASE ~(readPos < End)
    BY <1>1, <1>3, <2>2 DEF ExactNow, RestAhead
  <2> QED  BY <2>1, <2>2
<1>5. DOMAIN Seen = 1 .. Len(Seen)
  BY <1>3
<1> QED  BY <1>1, <1>2, <1>4, <1>5 DEF ExactNow, AllIntact

-----------------------------------------------------------------------------
(* Theorems *)

\* The two threads keep to the invariant in every execution.
THEOREM ClientInvariance == Spec => []Inv
  BY InitInv, NextInv, PTL DEF Spec

\* ConnectTo never starts a thread while the last can still be joined
\* (TcpNetwork.cpp:44).
THEOREM OneReceiver == Spec => []NeverTerminated
<1>1. Inv => NeverTerminated
  BY DEF Inv
<1> QED BY <1>1, ClientInvariance, PTL

\* A connection finds leftovers only if DisConnect met the thread between its
\* receiving and its writing the size back (TcpNetwork.cpp:55).
THEOREM LeftoversAreCaught == Spec => []CleanStart
<1>1. Inv => CleanStart
  BY DEF Inv, StaysDrained
<1> QED BY <1>1, ClientInvariance, PTL

\* Cells, positions and packets have their types in every execution.
LEMMA TypesHold == Spec => []TypeInv
<1>1. Inv /\ TypeInv /\ [Next]_vars => TypeInv'
  BY StepKeepsTypes
<1> QED  BY <1>1, InitTypes, ClientInvariance, PTL DEF Spec

\* Whatever Clear does to m_recvSize in the middle of a round, every position the
\* thread computes and every size it keeps stays within the buffer
\* (TcpNetwork.cpp:149, 165, 180).
THEOREM ClientTypeCorrect == Spec => []TypeOK
<1>1. TypeInv => TypeOK
  BY DEF TypeInv
<1> QED  BY <1>1, TypesHold, PTL

\* On a connection that began with nothing left, and while no read ends in a body,
\* the scenes get what the server sent, whole and in order, and the thread takes
\* nothing else for a header (TcpNetwork.cpp:149, 165).
THEOREM CleanConnectionsAreExact == Spec => []ExactWhileClean
<1>1. Init => Exact
  BY DEF Init, Exact
<1>2. Inv /\ TypeInv /\ TypeInv' /\ Exact /\ [Next]_vars => Exact'
  BY StepKeepsExact
<1>3. TypeInv /\ Exact => ExactWhileClean
  BY ExactSuffices
<1> QED  BY <1>1, <1>2, <1>3, ClientInvariance, TypesHold, PTL DEF Spec

=============================================================================
