-------------------------- MODULE SessionPoolProofs --------------------------
(***************************************************************************)
(* Proofs about SessionPool, for any number of sessions, connections,      *)
(* buffer sizes and packets per read: its invariants, and that it          *)
(* implements SessionFeed.                                                 *)
(***************************************************************************)
EXTENDS SessionPool, SequenceLemmas

\* Where the loop is, there is something to do.
LoopSound ==
    /\ pc = "accept" => backLog # <<>>
    /\ pc = "clients" => cursor \in Sessions

\* A connection that waits has left no trace yet.
CallersNew ==
    /\ IsInjective(backLog)
    /\ \A c \in Range(backLog), s \in Sessions :
            /\ socket[s] # c
            /\ owner[s] # c
            /\ \A i \in 1 .. Len(sendBuffer[s]) : sendBuffer[s][i] # c

IInv ==
    /\ TypeOK
    /\ LoopSound
    /\ PoolExact
    /\ QueueSound
    /\ StaleDataFirst
    /\ CallersNew

\* What QueueSound says of a queue q, given the owners own and the sockets sock.
QueueFor(q, own, sock) ==
    /\ \A i \in 1 .. Len(q) : q[i].conn = own[q[i].session]
    /\ \A i, j \in 1 .. Len(q) :
            q[i].kind = "close" /\ q[i].session = q[j].session => j <= i
    /\ \A s \in Sessions : sock[s] \in Conns => own[s] = sock[s]
    /\ \A s \in Sessions :
            (sock[s] \notin Conns /\ own[s] # NoSocket)
                <=> \E i \in 1 .. Len(q) : q[i].kind = "close" /\ q[i].session = s

\* QueueSound is QueueFor of the state, and what holds of pc and users.
LEMMA QueueParts ==
    ASSUME packetQueue \in Seq(Packets)
    PROVE  QueueSound <=> /\ QueueFor(packetQueue, owner, socket)
                          /\ pc \in {"select", "accept"} => packetQueue = <<>>
                          /\ \A s \in users : owner[s] # NoSocket
<1>1. DOMAIN packetQueue = 1 .. Len(packetQueue)
  BY LenProperties
<1> QED
  BY <1>1 DEF QueueSound, QueueFor, IsConnected

-----------------------------------------------------------------------------
(* Queues *)

\* A read appends requests of its session.
LEMMA ReceivedFacts ==
    ASSUME TypeOK, NEW s \in Sessions, IsConnected(s), NEW n \in Nat
    PROVE  /\ Received(s, n) \in Seq(Packets)
           /\ Len(Received(s, n)) = Len(packetQueue) + n
           /\ \A i \in 1 .. Len(packetQueue) + n :
                Received(s, n)[i] = IF i <= Len(packetQueue) THEN packetQueue[i]
                                    ELSE Feed!Request(s, socket[s])
<1> DEFINE r == Feed!Request(s, socket[s])
           t == [i \in 1 .. n |-> r]
<1>1. r \in Packets
  BY DEF Feed!Request, Packets, IsConnected
<1>2. t \in Seq(Packets) /\ Len(t) = n /\ \A i \in 1 .. n : t[i] = r
  <2> HIDE DEF r
  <2> QED
    BY <1>1
<1>3. packetQueue \in Seq(Packets) /\ Len(packetQueue) \in Nat
  BY LenProperties DEF TypeOK
<1>4. Received(s, n) = packetQueue \o t
  BY DEF Received
<1> HIDE DEF r, t
<1>5. /\ packetQueue \o t \in Seq(Packets)
      /\ Len(packetQueue \o t) = Len(packetQueue) + Len(t)
      /\ \A i \in 1 .. Len(packetQueue) + Len(t) :
            (packetQueue \o t)[i] = IF i <= Len(packetQueue) THEN packetQueue[i]
                                    ELSE t[i - Len(packetQueue)]
  BY <1>2, <1>3, ConcatProperties
<1> QED
  BY <1>2, <1>3, <1>4, <1>5 DEF r

\* These requests come from the owner of a session that has no close queued.
LEMMA ReceivedKeeps ==
    ASSUME TypeOK, NEW s \in Sessions, IsConnected(s), NEW n \in Nat,
           QueueFor(packetQueue, owner, socket)
    PROVE  QueueFor(Received(s, n), owner, socket)
<1> DEFINE p == packetQueue
           q == Received(s, n)
           r == Feed!Request(s, socket[s])
<1>1. /\ Len(q) = Len(p) + n
      /\ \A i \in 1 .. Len(p) + n : q[i] = IF i <= Len(p) THEN p[i] ELSE r
  BY ReceivedFacts
<1>2. Len(p) \in Nat
  BY LenProperties DEF TypeOK
<1>3. r.kind = "request" /\ r.session = s /\ r.conn = owner[s] /\ r.kind # "close"
  BY DEF QueueFor, IsConnected, Feed!Request
<1>4. \A i \in 1 .. Len(p) : p[i].kind = "close" => p[i].session # s
  BY DEF QueueFor, IsConnected
<1> HIDE DEF r, q
<1>5. \A i \in 1 .. Len(q) : q[i].conn = owner[q[i].session]
  BY <1>1, <1>2, <1>3 DEF QueueFor
<1>6. \A i, j \in 1 .. Len(q) :
        q[i].kind = "close" /\ q[i].session = q[j].session => j <= i
  <2> SUFFICES ASSUME NEW i \in 1 .. Len(q), NEW j \in 1 .. Len(q),
                      q[i].kind = "close", q[i].session = q[j].session
               PROVE  j <= i
    OBVIOUS
  <2>1. i <= Len(p) /\ q[i] = p[i]
    BY <1>1, <1>2, <1>3
  <2>2. j <= Len(p) /\ q[j] = p[j]
    BY <2>1, <1>1, <1>2, <1>3, <1>4
  <2> QED
    BY <2>1, <2>2, <1>2 DEF QueueFor
<1>7. \A t \in Sessions :
        (\E i \in 1 .. Len(q) : q[i].kind = "close" /\ q[i].session = t)
            <=> \E i \in 1 .. Len(p) : p[i].kind = "close" /\ p[i].session = t
  BY <1>1, <1>2, <1>3
<1> HIDE DEF p
<1>8. QueueFor(p, owner, socket)
  BY DEF p
<1>9. QueueFor(q, owner, socket)
  BY <1>5, <1>6, <1>7, <1>8 DEF QueueFor
<1> QED
  BY <1>9 DEF q

\* A session that ends leaves one close, behind everything it sent.
LEMMA ClosedKeeps ==
    ASSUME TypeOK, NEW s \in Sessions, IsConnected(s),
           NEW q \in Seq(Packets), QueueFor(q, owner, socket)
    PROVE  /\ Append(q, Feed!Close(s, socket[s])) \in Seq(Packets)
           /\ QueueFor(Append(q, Feed!Close(s, socket[s])), owner,
                       [socket EXCEPT ![s] = NoSocket])
<1> DEFINE r == Feed!Close(s, socket[s])
           a == Append(q, r)
           k == [socket EXCEPT ![s] = NoSocket]
<1>1. r \in Packets /\ r.kind = "close" /\ r.session = s /\ r.conn = owner[s]
  BY DEF Feed!Close, Packets, IsConnected, QueueFor
<1>2. Len(q) \in Nat /\ \A i \in 1 .. Len(q) : q[i] \in Packets
  BY LenProperties, ElementOfSeq
<1>3. owner[s] # NoSocket
  BY NetworkAssumption DEF QueueFor, IsConnected
<1>4. \A t \in Sessions : k[t] = IF t = s THEN NoSocket ELSE socket[t]
  BY DEF TypeOK
<1>5. socket[s] \in Conns
  BY DEF IsConnected
<1> HIDE DEF r
<1>6. /\ a \in Seq(Packets)
      /\ Len(a) = Len(q) + 1
      /\ \A i \in 1 .. Len(q) : a[i] = q[i]
      /\ a[Len(q) + 1] = r
  BY <1>1, AppendProperties
<1> HIDE DEF a, k
<1>7. \A i \in 1 .. Len(a) : a[i].conn = owner[a[i].session]
  BY <1>1, <1>2, <1>6 DEF QueueFor
<1>8. \A i, j \in 1 .. Len(a) :
        a[i].kind = "close" /\ a[i].session = a[j].session => j <= i
  <2> SUFFICES ASSUME NEW i \in 1 .. Len(a), NEW j \in 1 .. Len(a),
                      a[i].kind = "close", a[i].session = a[j].session
               PROVE  j <= i
    OBVIOUS
  <2>1. CASE i = Len(q) + 1
    BY <2>1, <1>2, <1>6
  <2>2. CASE i # Len(q) + 1
    <3>1. i \in 1 .. Len(q) /\ a[i] = q[i]
      BY <2>2, <1>2, <1>6
    <3>2. q[i].session \in Sessions
      BY <3>1, <1>2 DEF Packets
    <3>3. q[i].session # s
      BY <3>1, <3>2, <1>5 DEF QueueFor
    <3>4. j \in 1 .. Len(q) /\ a[j] = q[j]
      BY <3>1, <3>3, <1>1, <1>2, <1>6
    <3> QED
      BY <3>1, <3>4 DEF QueueFor
  <2> QED
    BY <2>1, <2>2
<1>9. \A t \in Sessions :
        (\E i \in 1 .. Len(a) : a[i].kind = "close" /\ a[i].session = t)
            <=> \/ t = s
                \/ \E i \in 1 .. Len(q) : q[i].kind = "close" /\ q[i].session = t
  BY <1>1, <1>2, <1>6
<1>10. QueueFor(a, owner, k)
  BY <1>3, <1>4, <1>5, <1>7, <1>8, <1>9, NetworkAssumption DEF QueueFor
<1> QED
  BY <1>6, <1>10 DEF a, k, r

\* The logic takes the first packet: a request changes nothing the rest of the
\* queue needs, after a close nothing of its session is left.
LEMMA TakenKeeps ==
    ASSUME TypeOK, packetQueue # <<>>, QueueFor(packetQueue, owner, socket)
    PROVE  LET h == Head(packetQueue)
               t == Tail(packetQueue)
           IN  /\ h \in Packets
               /\ t \in Seq(Packets)
               /\ h.conn = owner[h.session]
               /\ h.kind = "request" => QueueFor(t, owner, socket)
               /\ h.kind = "close" =>
                    QueueFor(t, [owner EXCEPT ![h.session] = NoSocket], socket)
<1> DEFINE q == packetQueue
           h == Head(q)
           t == Tail(q)
           o == [owner EXCEPT ![h.session] = NoSocket]
<1>1. /\ q \in Seq(Packets)
      /\ Len(q) \in Nat
      /\ q # <<>> => Len(q) >= 1
  BY LenProperties, EmptySeq DEF TypeOK
<1>2. /\ h \in Packets
      /\ t \in Seq(Packets)
      /\ Len(t) = Len(q) - 1
      /\ \A i \in 1 .. Len(t) : t[i] = q[i + 1]
      /\ h = q[1]
  BY <1>1, HeadTailProperties
<1>3. \A i \in 1 .. Len(q) : q[i] \in Packets
  BY <1>1, ElementOfSeq
<1>4. h.session \in Sessions
  BY <1>2 DEF Packets
<1>5. \A s \in Sessions : o[s] = IF s = h.session THEN NoSocket ELSE owner[s]
  BY <1>4 DEF TypeOK
<1>6. QueueFor(q, owner, socket) /\ q # <<>>
  OBVIOUS
<1> HIDE DEF q, h, t, o
<1>7. h.conn = owner[h.session]
  BY <1>1, <1>2, <1>6 DEF QueueFor
<1>8. \A i, j \in 1 .. Len(t) :
        t[i].kind = "close" /\ t[i].session = t[j].session => j <= i
  <2> SUFFICES ASSUME NEW i \in 1 .. Len(t), NEW j \in 1 .. Len(t),
                      t[i].kind = "close", t[i].session = t[j].session
               PROVE  j <= i
    OBVIOUS
  <2>1. i + 1 \in 1 .. Len(q) /\ j + 1 \in 1 .. Len(q)
    BY <1>1, <1>2
  <2>2. q[i + 1].kind = "close" /\ q[i + 1].session = q[j + 1].session
    BY <1>2
  <2>3. j + 1 <= i + 1
    BY <2>1, <2>2, <1>6 DEF QueueFor
  <2> QED
    BY <2>3
<1>9. \A i \in 1 .. Len(t) : t[i].conn = owner[t[i].session]
  BY <1>1, <1>2, <1>6 DEF QueueFor
<1>10. ASSUME NEW s \in Sessions
       PROVE  (\E i \in 1 .. Len(q) : q[i].kind = "close" /\ q[i].session = s)
                <=> \/ h.kind = "close" /\ h.session = s
                    \/ \E i \in 1 .. Len(t) : t[i].kind = "close" /\ t[i].session = s
  <2>1. ASSUME NEW i \in 1 .. Len(q), q[i].kind = "close", q[i].session = s, i # 1
        PROVE  \E j \in 1 .. Len(t) : t[j].kind = "close" /\ t[j].session = s
    <3>1. i - 1 \in 1 .. Len(t) /\ t[i - 1] = q[i]
      BY <2>1, <1>1, <1>2
    <3> QED
      BY <3>1, <2>1
  <2>2. ASSUME NEW i \in 1 .. Len(t), t[i].kind = "close", t[i].session = s
        PROVE  \E j \in 1 .. Len(q) : q[j].kind = "close" /\ q[j].session = s
    <3>1. i + 1 \in 1 .. Len(q) /\ t[i] = q[i + 1]
      BY <1>1, <1>2
    <3> QED
      BY <3>1, <2>2
  <2>3. 1 \in 1 .. Len(q) /\ h = q[1]
    BY <1>1, <1>2, <1>6
  <2> QED
    BY <2>1, <2>2, <2>3
<1>11. ASSUME h.kind = "request"
       PROVE  QueueFor(t, owner, socket)
  BY <1>6, <1>8, <1>9, <1>11, <1>10 DEF QueueFor
<1>12. ASSUME h.kind = "close"
       PROVE  QueueFor(t, o, socket)
  <2>1. \A i \in 1 .. Len(t) : t[i].session # h.session /\ t[i].session \in Sessions
    <3> SUFFICES ASSUME NEW i \in 1 .. Len(t)
                 PROVE  t[i].session # h.session /\ t[i].session \in Sessions
      OBVIOUS
    <3>1. i + 1 \in 1 .. Len(q) /\ t[i] = q[i + 1] /\ 1 \in 1 .. Len(q)
      BY <1>1, <1>2, <1>6
    <3>2. q[1].session = q[i + 1].session => i + 1 <= 1
      BY <3>1, <1>2, <1>6, <1>12 DEF QueueFor
    <3> QED
      BY <3>1, <3>2, <1>2, <1>3 DEF Packets
  <2>2. socket[h.session] \notin Conns
    BY <1>1, <1>2, <1>4, <1>6, <1>12 DEF QueueFor
  <2>3. \A i \in 1 .. Len(t) : t[i].conn = o[t[i].session]
    BY <2>1, <1>5, <1>9
  <2>4. \A s \in Sessions : socket[s] \in Conns => o[s] = socket[s]
    BY <2>2, <1>5, <1>6 DEF QueueFor
  <2>5. \A s \in Sessions :
          (socket[s] \notin Conns /\ o[s] # NoSocket)
              <=> \E i \in 1 .. Len(t) : t[i].kind = "close" /\ t[i].session = s
    BY <2>1, <2>2, <1>2, <1>4, <1>5, <1>6, <1>10 DEF QueueFor
  <2> QED
    BY <2>3, <2>4, <2>5, <1>8 DEF QueueFor
<1> QED
  BY <1>2, <1>7, <1>11, <1>12 DEF h, t, q, o

-----------------------------------------------------------------------------
(* Buffers *)

\* A handler adds at most one piece to a buffer, at its end, for the owner of
\* the session.
LEMMA SendDataFacts ==
    ASSUME TypeOK, NEW to \in SUBSET Sessions, SendData(to),
           \A s \in to : owner[s] # NoSocket
    PROVE  /\ sendBuffer' \in [Sessions -> Seq(Conns)]
           /\ \A s \in Sessions :
                /\ Len(sendBuffer[s]) \in Nat
                /\ Len(sendBuffer'[s]) \in Nat
                /\ Len(sendBuffer'[s]) <= SendBufferSize
                /\ \A i \in 1 .. Len(sendBuffer'[s]) :
                     \/ i <= Len(sendBuffer[s]) /\ sendBuffer'[s][i] = sendBuffer[s][i]
                     \/ i = Len(sendBuffer'[s]) /\ sendBuffer'[s][i] = owner[s]
<1>1. ASSUME NEW s \in Sessions
      PROVE  LET b == sendBuffer'[s]
             IN  /\ b \in Seq(Conns)
                 /\ Len(sendBuffer[s]) \in Nat
                 /\ Len(b) \in Nat
                 /\ Len(b) <= SendBufferSize
                 /\ \A i \in 1 .. Len(b) :
                      \/ i <= Len(sendBuffer[s]) /\ b[i] = sendBuffer[s][i]
                      \/ i = Len(b) /\ b[i] = owner[s]
  <2> DEFINE b == sendBuffer[s]
  <2>1. b \in Seq(Conns) /\ Len(b) <= SendBufferSize
    BY DEF TypeOK
  <2>2. Len(b) \in Nat
    BY <2>1, LenProperties
  <2>3. CASE s \in to /\ Len(b) < SendBufferSize
    <3>1. owner[s] \in Conns
      BY <2>3 DEF TypeOK
    <3>2. sendBuffer'[s] = Append(b, owner[s])
      BY <2>3 DEF SendData
    <3> DEFINE o == owner[s]
    <3> HIDE DEF b, o
    <3>3. /\ Append(b, o) \in Seq(Conns)
          /\ Len(Append(b, o)) = Len(b) + 1
          /\ \A i \in 1 .. Len(b) : Append(b, o)[i] = b[i]
          /\ Append(b, o)[Len(b) + 1] = o
      BY <2>1, <3>1, AppendProperties DEF o
    <3>4. Len(b) + 1 <= SendBufferSize
      BY <2>2, <2>3, NetworkAssumption
    <3> QED
      BY <2>2, <3>2, <3>3, <3>4 DEF b, o
  <2>4. CASE ~ (s \in to /\ Len(b) < SendBufferSize)
    <3>1. sendBuffer'[s] = b
      BY <2>4 DEF SendData
    <3> QED
      BY <2>1, <2>2, <3>1
  <2> QED
    BY <2>3, <2>4
<1>2. sendBuffer' = [s \in Sessions |-> sendBuffer'[s]]
  BY DEF SendData
<1>3. sendBuffer' \in [Sessions -> Seq(Conns)]
  BY <1>1, <1>2
<1> QED
  BY <1>1, <1>3

-----------------------------------------------------------------------------
(* What a round of TcpNetwork::Run has to keep *)

\* The parts of IInv that CloseSession, FlushSendBuff and a read can disturb.
PoolOK ==
    /\ socket \in [Sessions -> Conns \union {NoSocket, InvalidSocket}]
    /\ sendBuffer \in [Sessions -> Seq(Conns)]
    /\ \A s \in Sessions : Len(sendBuffer[s]) <= SendBufferSize
    /\ poolIndex \in Seq(Sessions)
    /\ packetQueue \in Seq(Packets)
    /\ QueueFor(packetQueue, owner, socket)
    /\ PoolExact
    /\ StaleDataFirst
    /\ CallersNew

\* The invariant has all of it.
LEMMA PoolOKFacts == IInv => PoolOK
  BY QueueParts DEF IInv, PoolOK, TypeOK

\* CloseSession: the session is free and empty, its index is at the end of the
\* free list, where it was not before.
LEMMA CloseSessionKeeps ==
    ASSUME IInv, NEW s \in Sessions, IsConnected(s),
           NEW q \in Seq(Packets), QueueFor(q, owner, socket),
           CloseSession(s, q), UNCHANGED <<backLog, owner>>
    PROVE  PoolOK'
<1>1. TypeOK /\ PoolExact /\ StaleDataFirst /\ CallersNew
  BY DEF IInv
<1>2. \A t \in Sessions :
        /\ socket'[t] = IF t = s THEN NoSocket ELSE socket[t]
        /\ sendBuffer'[t] = IF t = s THEN <<>> ELSE sendBuffer[t]
  BY <1>1 DEF CloseSession, TypeOK
<1>3. packetQueue' \in Seq(Packets) /\ QueueFor(packetQueue', owner', socket')
  BY <1>1, ClosedKeeps DEF CloseSession
<1>4. /\ socket' \in [Sessions -> Conns \union {NoSocket, InvalidSocket}]
      /\ sendBuffer' \in [Sessions -> Seq(Conns)]
      /\ \A t \in Sessions : Len(sendBuffer'[t]) <= SendBufferSize
  BY <1>1, <1>2, EmptySeq, NetworkAssumption DEF CloseSession, TypeOK
<1>5. socket[s] \in Conns
  BY DEF IsConnected
<1>6. s \notin Range(poolIndex)
  BY <1>1, <1>5, NetworkAssumption DEF PoolExact
<1>7. /\ poolIndex' \in Seq(Sessions)
      /\ Range(poolIndex') = Range(poolIndex) \union {s}
      /\ IsInjective(poolIndex')
  BY <1>1, <1>6, AppendNew DEF CloseSession, TypeOK, PoolExact
<1>8. PoolExact'
  <2>1. Range(poolIndex') = {t \in Sessions : socket'[t] = NoSocket}
    BY <1>1, <1>2, <1>7 DEF PoolExact
  <2>2. \A t, u \in Sessions : socket'[t] \in Conns /\ socket'[t] = socket'[u] => t = u
    BY <1>1, <1>2, NetworkAssumption DEF PoolExact, IsConnected
  <2> QED
    BY <1>7, <2>1, <2>2 DEF PoolExact, IsConnected
<1>9. StaleDataFirst'
  BY <1>1, <1>2, NetworkAssumption DEF StaleDataFirst, IsConnected
<1>10. CallersNew'
  <2>1. Range(backLog) \subseteq Conns
    BY <1>1, InRange DEF TypeOK
  <2>2. Len(<<>>) = 0
    BY EmptySeq
  <2>3. NoSocket \notin Conns
    BY NetworkAssumption
  <2> QED
    BY <1>1, <1>2, <2>1, <2>2, <2>3 DEF CallersNew
<1> QED
  BY <1>3, <1>4, <1>7, <1>8, <1>9, <1>10 DEF PoolOK

\* Nothing but the queue changes.
LEMMA QueueOnlyKeeps ==
    ASSUME IInv, packetQueue' \in Seq(Packets),
           QueueFor(packetQueue', owner, socket), UNCHANGED <<backLog, owner, pool>>
    PROVE  PoolOK'
<1>1. UNCHANGED <<backLog, owner, socket, sendBuffer, poolIndex>>
  BY DEF pool
<1> QED
  BY <1>1 DEF IInv, TypeOK, PoolOK, PoolExact, StaleDataFirst, CallersNew, IsConnected

\* The front of a buffer is sent: the rest is in the order it was.
LEMMA FlushKeeps ==
    ASSUME IInv, NEW s \in Sessions, packetQueue' \in Seq(Packets),
           QueueFor(packetQueue', owner, socket),
           NEW k \in Nat, NEW c \in Seq(Conns), Len(c) + k = Len(sendBuffer[s]),
           \A i \in 1 .. Len(c) : c[i] = sendBuffer[s][i + k],
           sendBuffer' = [sendBuffer EXCEPT ![s] = c],
           UNCHANGED <<backLog, owner, socket, poolIndex>>
    PROVE  PoolOK'
<1> DEFINE b == sendBuffer[s]
<1>1. TypeOK /\ PoolExact /\ StaleDataFirst /\ CallersNew
  BY DEF IInv
<1>2. b \in Seq(Conns) /\ Len(b) <= SendBufferSize
  BY <1>1 DEF TypeOK
<1>3. Len(b) \in Nat /\ DOMAIN b = 1 .. Len(b) /\ Len(c) \in Nat
  BY <1>2, LenProperties
<1>4. \A t \in Sessions : sendBuffer'[t] = IF t = s THEN c ELSE sendBuffer[t]
  BY <1>1 DEF TypeOK
<1>5. sendBuffer' = [t \in Sessions |-> IF t = s THEN c ELSE sendBuffer[t]]
  BY <1>1 DEF TypeOK
<1>6. \A i \in 1 .. Len(c) : c[i] = b[i + k] /\ i + k \in 1 .. Len(b)
  BY <1>3
<1>7. DOMAIN c = 1 .. Len(c)
  BY LenProperties
<1>8. /\ sendBuffer' \in [Sessions -> Seq(Conns)]
       /\ \A t \in Sessions : Len(sendBuffer'[t]) <= SendBufferSize
  <2>1. Len(c) <= SendBufferSize
    BY <1>2, <1>3, <1>6, NetworkAssumption
  <2>2. sendBuffer \in [Sessions -> Seq(Conns)] /\ c \in Seq(Conns)
    BY <1>1 DEF TypeOK
  <2>3. sendBuffer' \in [Sessions -> Seq(Conns)]
    BY <2>2, <1>5
  <2>4. \A t \in Sessions : Len(sendBuffer[t]) <= SendBufferSize
    BY <1>1 DEF TypeOK
  <2> QED
    BY <2>1, <2>3, <2>4, <1>4
<1>9. PoolExact'
  BY <1>1 DEF PoolExact, IsConnected
<1>10. StaleDataFirst'
  <2>1. ASSUME socket[s] \in Conns, NEW i \in DOMAIN c, NEW j \in DOMAIN c,
               i < j, c[i] = socket[s]
        PROVE  c[j] = socket[s]
    <3>1. i \in 1 .. Len(c) /\ j \in 1 .. Len(c)
      BY <1>7
    <3>2. /\ i + k \in DOMAIN b /\ j + k \in DOMAIN b
          /\ b[i + k] = c[i] /\ b[j + k] = c[j]
          /\ i + k < j + k
      BY <3>1, <2>1, <1>3, <1>6, SMTT(30)
    <3> QED
      BY <3>2, <2>1, <1>1 DEF StaleDataFirst, IsConnected, b
  <2>2. ASSUME NEW t \in Sessions, socket[t] \in Conns,
               NEW i \in DOMAIN sendBuffer'[t], NEW j \in DOMAIN sendBuffer'[t],
               i < j, sendBuffer'[t][i] = socket[t]
        PROVE  sendBuffer'[t][j] = socket[t]
    <3>1. CASE t # s
      <4>1. sendBuffer'[t] = sendBuffer[t]
        BY <3>1, <1>4
      <4> QED
        BY <4>1, <2>2, <1>1 DEF StaleDataFirst, IsConnected
    <3>2. CASE t = s
      <4>1. sendBuffer'[t] = c
        BY <3>2, <1>4
      <4> QED
        BY <4>1, <3>2, <2>1, <2>2
    <3> QED
      BY <3>1, <3>2
  <2>3. socket' = socket
    OBVIOUS
  <2>4. \A t \in Sessions : socket'[t] \in Conns =>
          \A i, j \in DOMAIN sendBuffer'[t] :
            i < j /\ sendBuffer'[t][i] = socket'[t] => sendBuffer'[t][j] = socket'[t]
    BY <2>2, <2>3
  <2> QED
    BY <2>4 DEF StaleDataFirst, IsConnected
<1>11. CallersNew'
  <2>1. \A d \in Range(backLog) : \A i \in 1 .. Len(c) : c[i] # d
    BY <1>1, <1>3, <1>6, SMTT(30) DEF CallersNew, b
  <2> QED
    BY <1>1, <1>4, <2>1 DEF CallersNew
<1> QED
  BY <1>1, <1>8, <1>9, <1>10, <1>11 DEF PoolOK, TypeOK

-----------------------------------------------------------------------------
(* The steps *)

\* All sessions free, nothing queued, nobody known.
LEMMA InitHolds == Init => IInv
<1> SUFFICES ASSUME Init PROVE IInv
  OBVIOUS
<1> USE NetworkAssumption
<1> DEFINE q == [i \in 1 .. SessionCount |-> i - 1]
<1>1. q \in Seq(Sessions)
  BY DEF Sessions
<1>2. IsInjective(q) /\ Range(q) = Sessions
  <2>1. DOMAIN q = 1 .. SessionCount /\ \A i \in 1 .. SessionCount : q[i] = i - 1
    OBVIOUS
  <2>2. \A i \in 1 .. SessionCount : i - 1 \in Sessions
    BY DEF Sessions
  <2>3. \A n \in Sessions : n + 1 \in 1 .. SessionCount /\ q[n + 1] = n
    BY DEF Sessions
  <2> HIDE DEF q
  <2>4. IsInjective(q)
    BY <2>1 DEF IsInjective
  <2>5. Range(q) = Sessions
    BY <2>1, <2>2, <2>3 DEF Range
  <2> QED
    BY <2>4, <2>5
<1>3. Len(<<>>) = 0 /\ DOMAIN <<>> = {} /\ Range(<<>>) = {} /\ IsInjective(<<>>)
  BY EmptySeq DEF Range, IsInjective
<1>4. \A s \in Sessions : socket[s] = NoSocket /\ sendBuffer[s] = <<>> /\ owner[s] = NoSocket
  BY DEF Init
<1>5. TypeOK
  BY <1>1, <1>3 DEF Init, TypeOK, Feed!Nothing
<1>6. PoolExact
  BY <1>2, <1>4 DEF Init, PoolExact, IsConnected
<1>7. QueueSound
  BY <1>3, <1>4 DEF Init, QueueSound, IsConnected
<1>8. StaleDataFirst
  BY <1>3, <1>4 DEF StaleDataFirst, IsConnected
<1>9. CallersNew /\ LoopSound
  BY <1>3, <1>4 DEF Init, CallersNew, LoopSound
<1> QED
  BY <1>5, <1>6, <1>7, <1>8, <1>9 DEF IInv

\* Nothing of the pool, the queue and the logic changes: what has to be shown
\* is about the peers and the loop.
LEMMA PoolUnchanged ==
    ASSUME IInv, UNCHANGED <<pool, packetQueue, users, owner>>
    PROVE  /\ PoolExact' /\ StaleDataFirst'
           /\ (pc' \in {"select", "accept"} => packetQueue = <<>>) => QueueSound'
<1>1. UNCHANGED <<socket, sendBuffer, poolIndex, packetQueue, users, owner>>
  BY DEF pool
<1>2. PoolExact /\ StaleDataFirst /\ QueueSound
  BY DEF IInv
<1> QED
  BY <1>1, <1>2 DEF PoolExact, StaleDataFirst, QueueSound, IsConnected

\* A caller is unknown to everything (Unused).
LEMMA CallKeeps == ASSUME IInv, NEW c \in Conns, Call(c) PROVE IInv'
<1>1. TypeOK /\ LoopSound /\ CallersNew /\ QueueSound
  BY DEF IInv
<1>2. UNCHANGED <<pool, packetQueue, users, owner, pc, cursor, hungUp, handled>>
  BY DEF Call, loop, logic
<1>3. UNCHANGED <<socket, sendBuffer, poolIndex>>
  BY <1>2 DEF pool
<1>4. DOMAIN backLog = 1 .. Len(backLog) /\ backLog \in Seq(Conns)
  BY <1>1, LenProperties DEF TypeOK
<1>5. c \notin Range(backLog)
  BY DEF Call, Unused, Range
<1>6. /\ backLog' \in Seq(Conns)
      /\ backLog' # <<>>
      /\ Range(backLog') = Range(backLog) \union {c}
      /\ IsInjective(backLog')
  BY <1>1, <1>4, <1>5, AppendNew DEF Call, CallersNew
<1>7. TypeOK'
  BY <1>1, <1>2, <1>3, <1>6 DEF TypeOK, Call
<1>8. LoopSound'
  BY <1>1, <1>2, <1>6 DEF LoopSound
<1>9. QueueSound' /\ PoolExact' /\ StaleDataFirst'
  BY <1>1, <1>2, PoolUnchanged DEF QueueSound
<1>10. \A s \in Sessions : DOMAIN sendBuffer[s] = 1 .. Len(sendBuffer[s])
  BY <1>1, LenProperties DEF TypeOK
<1>11. CallersNew'
  BY <1>1, <1>2, <1>3, <1>6, <1>10 DEF CallersNew, Call, Unused
<1> QED
  BY <1>7, <1>8, <1>9, <1>11 DEF IInv

\* A peer that goes changes nothing the server has yet seen.
LEMMA HangUpKeeps == ASSUME IInv, NEW c \in Conns, HangUp(c) PROVE IInv'
<1>1. TypeOK /\ LoopSound /\ CallersNew /\ QueueSound
  BY DEF IInv
<1>2. /\ UNCHANGED <<pool, packetQueue, users, owner, pc, cursor, hungUp, handled>>
      /\ UNCHANGED <<backLog, socket, sendBuffer, poolIndex>>
  BY DEF HangUp, pool, loop, logic
<1>3. QueueSound' /\ PoolExact' /\ StaleDataFirst'
  BY <1>1, <1>2, PoolUnchanged DEF QueueSound
<1>4. TypeOK' /\ LoopSound' /\ CallersNew'
  BY <1>1, <1>2 DEF TypeOK, LoopSound, CallersNew, HangUp
<1> QED
  BY <1>3, <1>4 DEF IInv

\* select only says where the loop goes.
LEMMA SelectKeeps ==
    ASSUME IInv, SelectNothing \/ SelectAccept \/ SelectClients
    PROVE  IInv'
<1> USE NetworkAssumption
<1>1. TypeOK /\ LoopSound /\ CallersNew /\ QueueSound
  BY DEF IInv
<1>2. /\ UNCHANGED <<backLog, gone, pool, packetQueue, users, owner, handled>>
      /\ UNCHANGED <<socket, sendBuffer, poolIndex>>
      /\ pc = "select"
  BY DEF SelectNothing, SelectAccept, SelectClients, peers, pool, logic
<1>3. packetQueue = <<>>
  BY <1>1, <1>2 DEF QueueSound
<1>4. QueueSound' /\ PoolExact' /\ StaleDataFirst'
  BY <1>2, <1>3, PoolUnchanged
<1>5. /\ pc' \in {"accept", "clients", "packets"}
      /\ pc' = "accept" => backLog # <<>>
      /\ pc' = "clients" => cursor' \in Sessions
      /\ cursor' \in 0 .. SessionCount /\ hungUp' \subseteq Sessions
  <2>1. hungUp \subseteq Sessions /\ cursor \in 0 .. SessionCount /\ 0 \in Sessions
    BY <1>1 DEF TypeOK, Sessions
  <2>2. CASE SelectNothing
    BY <2>1, <2>2 DEF SelectNothing
  <2>3. CASE SelectAccept
    BY <2>1, <2>3 DEF SelectAccept, ServerSocketReady
  <2>4. CASE SelectClients
    <3>1. pc' = "clients" /\ cursor' = 0 /\ hungUp' \subseteq Sessions
      BY <2>4 DEF SelectClients
    <3>2. 0 \in 0 .. SessionCount
      OBVIOUS
    <3> QED
      BY <3>1, <3>2, <2>1
  <2> QED
    BY <2>2, <2>3, <2>4
<1>6. TypeOK' /\ LoopSound' /\ CallersNew'
  BY <1>1, <1>2, <1>5 DEF TypeOK, LoopSound, CallersNew
<1> QED
  BY <1>4, <1>6 DEF IInv

\* The connection that is accepted was new: its session was free, no other
\* session has it, and what the session's buffer still holds is not for it.
LEMMA NewSessionKeeps == ASSUME IInv, NewSession PROVE IInv'
<1> USE NetworkAssumption
<1> DEFINE c == Head(backLog)
<1>1. TypeOK /\ LoopSound /\ PoolExact /\ QueueSound /\ StaleDataFirst /\ CallersNew
  BY DEF IInv
<1>2. /\ pc = "accept" /\ pc' = "packets" /\ backLog' = Tail(backLog)
      /\ UNCHANGED <<gone, sendBuffer, packetQueue, cursor, hungUp, users, handled>>
  BY DEF NewSession
<1>3. backLog # <<>> /\ backLog \in Seq(Conns) /\ packetQueue = <<>>
  BY <1>1, <1>2 DEF LoopSound, TypeOK, QueueSound
<1>4. /\ c \in Range(backLog) /\ c \in Conns
      /\ backLog' \in Seq(Conns)
      /\ Range(backLog') = Range(backLog) \ {c}
      /\ IsInjective(backLog')
  BY <1>1, <1>2, <1>3, TakeFirst DEF CallersNew
<1>5. \A s \in Sessions :
        /\ DOMAIN sendBuffer[s] = 1 .. Len(sendBuffer[s])
        /\ socket[s] # c /\ owner[s] # c
        /\ \A i \in 1 .. Len(sendBuffer[s]) : sendBuffer[s][i] # c
  BY <1>1, <1>4, LenProperties DEF TypeOK, CallersNew
<1>6. Len(packetQueue) = 0 /\ DOMAIN packetQueue = {}
  BY <1>3, EmptySeq
<1>7. \A s \in Sessions : ~ IsConnected(s) => owner[s] = NoSocket
  BY <1>1, <1>6 DEF QueueSound
<1>8. LoopSound'
  BY <1>2 DEF LoopSound
<1>9. CASE poolIndex = <<>>
  <2>1. UNCHANGED <<socket, poolIndex, owner>>
    BY <1>9 DEF NewSession
  <2>2. PoolExact' /\ StaleDataFirst' /\ QueueSound'
    BY <2>1, <1>2, PoolUnchanged DEF pool
  <2>3. TypeOK' /\ CallersNew'
    BY <2>1, <1>1, <1>2, <1>4 DEF TypeOK, CallersNew
  <2> QED
    BY <2>2, <2>3, <1>8 DEF IInv
<1>10. CASE poolIndex # <<>>
  <2> DEFINE s == Head(poolIndex)
  <2>1. PICK fd \in {c, InvalidSocket} :
          /\ poolIndex' = Tail(poolIndex)
          /\ socket' = [socket EXCEPT ![s] = fd]
          /\ owner' = IF fd = InvalidSocket THEN owner ELSE [owner EXCEPT ![s] = c]
    BY <1>10 DEF NewSession, AllocClientSessionIndex
  <2>2. /\ s \in Range(poolIndex) /\ s \in Sessions
        /\ poolIndex' \in Seq(Sessions)
        /\ Range(poolIndex') = Range(poolIndex) \ {s}
        /\ IsInjective(poolIndex')
    BY <2>1, <1>1, <1>10, TakeFirst DEF TypeOK, PoolExact
  <2>3. socket[s] = NoSocket /\ ~ IsConnected(s) /\ owner[s] = NoSocket
    BY <2>2, <1>1, <1>7 DEF PoolExact, IsConnected
  <2> HIDE DEF c, s
  <2>4. fd # NoSocket /\ (fd \in Conns => fd = c) /\ (fd \notin Conns => fd = InvalidSocket)
    BY <2>1, <1>4
  <2>5. \A t \in Sessions :
          /\ socket'[t] = IF t = s THEN fd ELSE socket[t]
          /\ owner'[t] = IF t = s /\ fd \in Conns THEN c ELSE owner[t]
    BY <2>1, <2>2, <2>4, <1>1 DEF TypeOK
  <2>6. TypeOK'
    BY <2>1, <2>2, <2>4, <1>1, <1>2, <1>4 DEF TypeOK
  <2>7. PoolExact'
    <3>1. Range(poolIndex') = {t \in Sessions : socket'[t] = NoSocket}
      BY <2>2, <2>4, <2>5, <1>1 DEF PoolExact
    <3>2. \A t, u \in Sessions : socket'[t] \in Conns /\ socket'[t] = socket'[u] => t = u
      BY <2>4, <2>5, <1>1, <1>5 DEF PoolExact, IsConnected
    <3> QED
      BY <2>2, <3>1, <3>2 DEF PoolExact, IsConnected
  <2>8. QueueSound'
    <3>1. DOMAIN packetQueue' = {} /\ packetQueue' = <<>>
      BY <1>2, <1>3, <1>6
    <3>2. \A t \in Sessions : socket'[t] \in Conns => owner'[t] = socket'[t]
      BY <2>4, <2>5, <1>1 DEF QueueSound, IsConnected
    <3>3. \A t \in Sessions : socket'[t] \notin Conns => owner'[t] = NoSocket
      BY <2>3, <2>4, <2>5, <1>7 DEF IsConnected
    <3>4. \A t \in users' : owner'[t] # NoSocket
      BY <2>5, <1>1, <1>2, <1>4 DEF QueueSound, TypeOK
    <3> QED
      BY <3>1, <3>2, <3>3, <3>4 DEF QueueSound, IsConnected
  <2>9. StaleDataFirst'
    BY <2>4, <2>5, <1>1, <1>2, <1>5 DEF StaleDataFirst, IsConnected
  <2>10. CallersNew'
    <3>1. Range(backLog) \subseteq Conns
      BY <1>3, InRange
    <3> QED
      BY <2>4, <2>5, <3>1, <1>1, <1>2, <1>4 DEF CallersNew
  <2> QED
    BY <2>6, <2>7, <2>8, <2>9, <2>10, <1>8 DEF IInv
<1> QED
  BY <1>9, <1>10

\* One session of a round: it is read, and written, or it is closed.
LEMMA RunCheckSelectClientsKeeps ==
    ASSUME IInv, RunCheckSelectClients
    PROVE  IInv'
<1> USE NetworkAssumption
<1> DEFINE s == cursor
<1>1. TypeOK /\ LoopSound /\ PoolExact /\ QueueSound /\ StaleDataFirst /\ CallersNew
  BY DEF IInv
<1>2. s \in Sessions /\ pc = "clients"
  BY <1>1 DEF RunCheckSelectClients, LoopSound
<1>3. UNCHANGED <<backLog, gone, users, owner, handled>>
  BY DEF RunCheckSelectClients, peers, logic
<1>4. packetQueue \in Seq(Packets) /\ QueueFor(packetQueue, owner, socket)
  BY <1>1, QueueParts DEF TypeOK
<1>5. ASSUME IsConnected(s), NEW n \in PacketCounts(s)
      PROVE  Received(s, n) \in Seq(Packets) /\ QueueFor(Received(s, n), owner, socket)
  <2>1. n \in Nat
    BY DEF PacketCounts
  <2> QED
    BY <2>1, <1>1, <1>2, <1>4, <1>5, ReceivedFacts, ReceivedKeeps
<1>6. PoolOK'
  <2>1. CASE Skip(s)
    <3>1. UNCHANGED <<pool, packetQueue>>
      BY <2>1 DEF Skip
    <3> QED
      BY <3>1, <1>3, <1>4, QueueOnlyKeeps
  <2>2. CASE ReadFails(s)
    <3>1. IsConnected(s)
      BY <2>2 DEF ReadFails
    <3>2. PICK n \in PacketCounts(s) : CloseSession(s, Received(s, n))
      BY <2>2 DEF ReadFails
    <3> QED
      BY <3>1, <3>2, <1>2, <1>3, <1>5, CloseSessionKeeps
  <2>3. CASE ReadAndWrite(s)
    <3>1. IsConnected(s)
      BY <2>3 DEF ReadAndWrite
    <3>2. PICK n \in PacketCounts(s) : FlushSendBuff(s, Received(s, n))
      BY <2>3 DEF ReadAndWrite
    <3>3. Received(s, n) \in Seq(Packets) /\ QueueFor(Received(s, n), owner, socket)
      BY <3>1, <1>5
    <3> DEFINE q == Received(s, n)
    <3> HIDE DEF q
    <3>4. q \in Seq(Packets) /\ QueueFor(q, owner, socket) /\ FlushSendBuff(s, q)
      BY <3>2, <3>3 DEF q
    <3>5. CASE packetQueue' = q /\ UNCHANGED pool
      BY <3>4, <3>5, <1>3, QueueOnlyKeeps
    <3>6. ASSUME NEW k \in 1 .. Len(sendBuffer[s]),
                 sendBuffer' = [sendBuffer EXCEPT ![s] = SubSeq(@, k + 1, Len(@))],
                 packetQueue' = q, UNCHANGED <<socket, poolIndex>>
          PROVE  PoolOK'
      <4> DEFINE b == sendBuffer[s]
                 c == SubSeq(b, k + 1, Len(b))
      <4>1. b \in Seq(Conns) /\ k \in 1 .. Len(b)
        BY <1>1, <1>2 DEF TypeOK
      <4>2. sendBuffer' = [sendBuffer EXCEPT ![s] = c]
        BY <3>6
      <4> HIDE DEF b
      <4>3. /\ c \in Seq(Conns)
            /\ Len(c) = Len(b) - k
            /\ \A i \in 1 .. Len(c) : i + k \in 1 .. Len(b) /\ c[i] = b[i + k]
        BY <4>1, DropFirst
      <4>4. Len(b) \in Nat
        BY <4>1, LenProperties
      <4> HIDE DEF c
      <4>5. Len(c) + k = Len(b) /\ k \in Nat
        BY <4>1, <4>3, <4>4
      <4>6. packetQueue' \in Seq(Packets) /\ QueueFor(packetQueue', owner, socket)
        BY <3>4, <3>6
      <4>7. Len(c) + k = Len(sendBuffer[s]) /\ \A i \in 1 .. Len(c) : c[i] = sendBuffer[s][i + k]
        BY <4>3, <4>5 DEF b
      <4>8. UNCHANGED <<backLog, owner, socket, poolIndex>>
        BY <3>6, <1>3
      <4> QED
        BY <4>2, <4>3, <4>5, <4>6, <4>7, <4>8, <1>2, FlushKeeps
    <3>7. CASE CloseSession(s, q)
      BY <3>1, <3>4, <3>7, <1>2, <1>3, CloseSessionKeeps
    <3> QED
      BY <3>4, <3>5, <3>6, <3>7 DEF FlushSendBuff
  <2> QED
    BY <2>1, <2>2, <2>3 DEF RunCheckSelectClients
<1>7. /\ pc' \in {"clients", "packets"}
      /\ pc' = "clients" => cursor' \in Sessions
      /\ cursor' \in 0 .. SessionCount
      /\ hungUp' \subseteq Sessions
  BY <1>1, <1>2 DEF RunCheckSelectClients, Advance, TypeOK, Sessions
<1>8. TypeOK'
  BY <1>1, <1>3, <1>6, <1>7 DEF TypeOK, PoolOK
<1>9. LoopSound'
  BY <1>7 DEF LoopSound
<1>10. QueueSound'
  <2>1. \A t \in users' : owner'[t] # NoSocket
    BY <1>1, <1>3 DEF QueueSound
  <2>2. pc' \notin {"select", "accept"}
    BY <1>7
  <2>3. DOMAIN packetQueue' = 1 .. Len(packetQueue')
    BY <1>6, LenProperties DEF PoolOK
  <2>4. QueueFor(packetQueue', owner', socket')
    BY <1>6 DEF PoolOK
  <2> QED
    BY <2>1, <2>2, <2>3, <2>4 DEF QueueSound, QueueFor, IsConnected
<1> QED
  BY <1>6, <1>8, <1>9, <1>10 DEF IInv, PoolOK

\* What a handler of a packet of session s sends goes to sessions with an owner:
\* a connected one gets data for its connection, and no connection that waits is
\* named.
LEMMA HandleKeeps ==
    ASSUME IInv, pc = "packets", NEW to \in SUBSET Sessions, SendData(to),
           \A s \in to : owner[s] # NoSocket,
           packetQueue' \in Seq(Packets), QueueFor(packetQueue', owner', socket),
           owner' \in [Sessions -> Conns \union {NoSocket}],
           \A s \in Sessions : owner'[s] \in {owner[s], NoSocket},
           users' \subseteq Sessions,
           \A s \in users' : owner'[s] # NoSocket,
           handled' \in Packets,
           UNCHANGED <<peers, socket, poolIndex, loop>>
    PROVE  IInv'
<1> USE NetworkAssumption
<1>1. TypeOK /\ LoopSound /\ PoolExact /\ QueueSound /\ StaleDataFirst /\ CallersNew
  BY DEF IInv
<1>2. /\ UNCHANGED <<backLog, gone, socket, poolIndex, pc, cursor, hungUp>>
      /\ pc' = "packets"
  BY DEF peers, loop
<1>3. /\ sendBuffer' \in [Sessions -> Seq(Conns)]
      /\ \A s \in Sessions :
           /\ Len(sendBuffer[s]) \in Nat
           /\ Len(sendBuffer'[s]) \in Nat
           /\ Len(sendBuffer'[s]) <= SendBufferSize
           /\ \A i \in 1 .. Len(sendBuffer'[s]) :
                \/ i <= Len(sendBuffer[s]) /\ sendBuffer'[s][i] = sendBuffer[s][i]
                \/ i = Len(sendBuffer'[s]) /\ sendBuffer'[s][i] = owner[s]
  BY <1>1, SendDataFacts
<1>4. \A s \in Sessions : /\ DOMAIN sendBuffer[s] = 1 .. Len(sendBuffer[s])
                          /\ DOMAIN sendBuffer'[s] = 1 .. Len(sendBuffer'[s])
  BY <1>1, <1>3, LenProperties DEF TypeOK
<1>5. TypeOK'
  BY <1>1, <1>2, <1>3 DEF TypeOK
<1>6. PoolExact' /\ LoopSound'
  BY <1>1, <1>2 DEF PoolExact, LoopSound, IsConnected
<1>7. QueueSound'
  <2>1. DOMAIN packetQueue' = 1 .. Len(packetQueue')
    BY LenProperties
  <2>2. QueueFor(packetQueue', owner', socket')
    BY <1>2
  <2> QED
    BY <2>1, <2>2, <1>2 DEF QueueSound, QueueFor, IsConnected
<1>8. StaleDataFirst'
  <2>1. ASSUME NEW s \in Sessions, socket[s] \in Conns,
               NEW i \in 1 .. Len(sendBuffer'[s]), NEW j \in 1 .. Len(sendBuffer'[s]),
               i < j, sendBuffer'[s][i] = socket[s]
        PROVE  sendBuffer'[s][j] = socket[s]
    <3>1. owner[s] = socket[s]
      BY <2>1, <1>1 DEF QueueSound, IsConnected
    <3>2. i # Len(sendBuffer'[s])
      BY <2>1, <1>3
    <3>3. i <= Len(sendBuffer[s]) /\ sendBuffer[s][i] = socket[s]
      BY <2>1, <3>2, <1>3
    <3>4. CASE j <= Len(sendBuffer[s]) /\ sendBuffer'[s][j] = sendBuffer[s][j]
      <4>1. i \in DOMAIN sendBuffer[s] /\ j \in DOMAIN sendBuffer[s]
        BY <3>3, <3>4, <1>3, <1>4
      <4> QED
        BY <4>1, <2>1, <3>3, <3>4, <1>1 DEF StaleDataFirst, IsConnected
    <3> QED
      BY <3>1, <3>4, <2>1, <1>3
  <2>2. \A s \in Sessions : socket'[s] \in Conns =>
          \A i, j \in DOMAIN sendBuffer'[s] :
            i < j /\ sendBuffer'[s][i] = socket'[s] => sendBuffer'[s][j] = socket'[s]
    BY <2>1, <1>2, <1>4
  <2> QED
    BY <2>2 DEF StaleDataFirst, IsConnected
<1>9. CallersNew'
  <2>1. Range(backLog) \subseteq Conns
    BY <1>1, InRange DEF TypeOK
  <2>2. ASSUME NEW c \in Range(backLog), NEW s \in Sessions,
               NEW i \in 1 .. Len(sendBuffer'[s])
        PROVE  sendBuffer'[s][i] # c
    <3>1. owner[s] # c /\ \A j \in 1 .. Len(sendBuffer[s]) : sendBuffer[s][j] # c
      BY <1>1 DEF CallersNew
    <3>2. CASE i <= Len(sendBuffer[s]) /\ sendBuffer'[s][i] = sendBuffer[s][i]
      <4>1. i \in 1 .. Len(sendBuffer[s])
        BY <3>2, <1>3
      <4> QED
        BY <4>1, <3>1, <3>2
    <3>3. CASE sendBuffer'[s][i] = owner[s]
      BY <3>1, <3>3
    <3> QED
      BY <3>2, <3>3, <1>3
  <2>3. \A c \in Range(backLog), s \in Sessions : owner'[s] # c /\ socket[s] # c
    BY <1>1, <2>1 DEF CallersNew
  <2>4. IsInjective(backLog)
    BY <1>1 DEF CallersNew
  <2> QED
    BY <2>2, <2>3, <2>4, <1>2 DEF CallersNew
<1> QED
  BY <1>5, <1>6, <1>7, <1>8, <1>9 DEF IInv

\* A request is answered to its own session, which has an owner.
LEMMA HandleRequestKeeps == ASSUME IInv, HandleRequest PROVE IInv'
<1> DEFINE h == Head(packetQueue)
           s == h.session
<1>1. TypeOK /\ QueueSound
  BY DEF IInv
<1>2. /\ pc = "packets" /\ packetQueue # <<>> /\ h.kind = "request"
      /\ packetQueue' = Tail(packetQueue) /\ handled' = h
      /\ users' \in {users, users \union {s}}
      /\ UNCHANGED <<peers, socket, poolIndex, loop, owner>>
  BY DEF HandleRequest
<1>3. PICK to \in SUBSET (users \union {s}) : SendData(to)
  BY DEF HandleRequest
<1>4. /\ h \in Packets /\ packetQueue' \in Seq(Packets) /\ h.conn = owner[s]
      /\ QueueFor(packetQueue', owner, socket)
  BY <1>1, <1>2, QueueParts, TakenKeeps DEF TypeOK
<1> HIDE DEF h
<1>5. s \in Sessions /\ owner[s] # NoSocket
  BY <1>4, NetworkAssumption DEF Packets
<1>6. users \subseteq Sessions /\ \A t \in users : owner[t] # NoSocket
  BY <1>1 DEF TypeOK, QueueSound
<1>7. to \in SUBSET Sessions /\ \A t \in to : owner[t] # NoSocket
  BY <1>5, <1>6
<1>8. /\ users' \subseteq Sessions
      /\ \A t \in users' : owner'[t] # NoSocket
      /\ owner' \in [Sessions -> Conns \union {NoSocket}]
      /\ \A t \in Sessions : owner'[t] \in {owner[t], NoSocket}
  BY <1>1, <1>2, <1>5, <1>6 DEF TypeOK
<1> QED
  BY <1>2, <1>3, <1>4, <1>7, <1>8, HandleKeeps

\* The closed session may be sent to before it stands for nobody.
LEMMA HandleCloseKeeps == ASSUME IInv, HandleClose PROVE IInv'
<1> DEFINE h == Head(packetQueue)
           s == h.session
<1>1. TypeOK /\ QueueSound
  BY DEF IInv
<1>2. /\ pc = "packets" /\ packetQueue # <<>> /\ h.kind = "close"
      /\ packetQueue' = Tail(packetQueue) /\ handled' = h
      /\ users' = users \ {s} /\ owner' = [owner EXCEPT ![s] = NoSocket]
      /\ UNCHANGED <<peers, socket, poolIndex, loop>>
  BY DEF HandleClose
<1>3. PICK to \in SUBSET users : SendData(to)
  BY DEF HandleClose
<1>4. /\ h \in Packets /\ packetQueue' \in Seq(Packets)
      /\ QueueFor(packetQueue', owner', socket)
  BY <1>1, <1>2, QueueParts, TakenKeeps DEF TypeOK
<1> HIDE DEF h
<1>5. s \in Sessions
  BY <1>4 DEF Packets
<1>6. users \subseteq Sessions /\ \A t \in users : owner[t] # NoSocket
  BY <1>1 DEF TypeOK, QueueSound
<1>7. to \in SUBSET Sessions /\ \A t \in to : owner[t] # NoSocket
  BY <1>6
<1>8. /\ users' \subseteq Sessions
      /\ \A t \in users' : owner'[t] # NoSocket
      /\ owner' \in [Sessions -> Conns \union {NoSocket}]
      /\ \A t \in Sessions : owner'[t] \in {owner[t], NoSocket}
  BY <1>1, <1>2, <1>5, <1>6 DEF TypeOK
<1> QED
  BY <1>2, <1>3, <1>4, <1>7, <1>8, HandleKeeps

\* The loop leaves the queue empty.
LEMMA LeavePacketsKeeps == ASSUME IInv, LeavePackets PROVE IInv'
<1>1. TypeOK /\ CallersNew
  BY DEF IInv
<1>2. /\ UNCHANGED <<backLog, gone, pool, packetQueue, hungUp, users, owner>>
      /\ UNCHANGED <<socket, sendBuffer, poolIndex>>
      /\ pc' = "select" /\ cursor' = 0 /\ handled' = Feed!Nothing /\ packetQueue = <<>>
  BY DEF LeavePackets, Drained, peers, pool
<1>3. QueueSound' /\ PoolExact' /\ StaleDataFirst'
  BY <1>2, PoolUnchanged
<1>4. TypeOK' /\ LoopSound' /\ CallersNew'
  BY <1>1, <1>2, NetworkAssumption DEF TypeOK, LoopSound, CallersNew
<1> QED
  BY <1>3, <1>4 DEF IInv

\* Nothing changes.
LEMMA StutterKeeps == ASSUME IInv, UNCHANGED vars PROVE IInv'
  BY DEF IInv, vars, TypeOK, LoopSound, PoolExact, QueueSound, StaleDataFirst,
         CallersNew, IsConnected

\* Every step keeps the invariant.
LEMMA StepKeeps == ASSUME IInv, [Next]_vars PROVE IInv'
<1>1. CASE Peer
  BY <1>1, CallKeeps, HangUpKeeps DEF Peer
<1>2. CASE SelectNothing \/ SelectAccept \/ SelectClients
  BY <1>2, SelectKeeps
<1>3. CASE NewSession
  BY <1>3, NewSessionKeeps
<1>4. CASE RunCheckSelectClients
  BY <1>4, RunCheckSelectClientsKeeps
<1>5. CASE HandleRequest
  BY <1>5, HandleRequestKeeps
<1>6. CASE HandleClose
  BY <1>6, HandleCloseKeeps
<1>7. CASE LeavePackets
  BY <1>7, LeavePacketsKeeps
<1>8. CASE UNCHANGED vars
  BY <1>8, StutterKeeps
<1> QED
  BY <1>1, <1>2, <1>3, <1>4, <1>5, <1>6, <1>7, <1>8 DEF Next, Server

-----------------------------------------------------------------------------
(* Theorems *)

\* The invariant holds in every reachable state, however connections come, end
\* and are served.
THEOREM NetworkInvariance == Spec => []IInv
  BY InitHolds, StepKeeps, PTL DEF Spec

\* Every variable keeps its type, and no send buffer exceeds its limit.
THEOREM NetworkTypeCorrect == Spec => []TypeOK
<1>1. IInv => TypeOK
  BY DEF IInv
<1> QED
  BY <1>1, NetworkInvariance, PTL

\* Every session is free exactly when its index is in the free list, once.
THEOREM PoolStaysExact == Spec => []PoolExact
<1>1. IInv => PoolExact
  BY DEF IInv
<1> QED
  BY <1>1, NetworkInvariance, PTL

\* A close is the last packet of its session, none is lost, and none is left
\* when the next connection is accepted.
THEOREM QueueStaysSound == Spec => []QueueSound
<1>1. IInv => QueueSound
  BY DEF IInv
<1> QED
  BY <1>1, NetworkInvariance, PTL

\* What is not meant for a connection comes before everything that is.
THEOREM StaleDataStaysFirst == Spec => []StaleDataFirst
<1>1. IInv => StaleDataFirst
  BY DEF IInv
<1> QED
  BY <1>1, NetworkInvariance, PTL

-----------------------------------------------------------------------------
(* SessionPool implements SessionFeed *)

\* A packet is the record of its kind, its session and its connection.
LEMMA PacketForm ==
    ASSUME NEW h \in Packets
    PROVE  /\ h.kind = "request" => h = Feed!Request(h.session, h.conn)
           /\ h.kind = "close" => h = Feed!Close(h.session, h.conn)
  BY DEF Packets, Feed!Request, Feed!Close

\* Nobody owns a session, nothing is handled.
LEMMA FeedInit == Init => Feed!Init
  BY DEF Init, Feed!Init

\* A session that is accepted stands for nobody: it is free, and no close of a
\* former connection waits in the queue.
LEMMA FeedConnect ==
    ASSUME IInv, NewSession
    PROVE  (\E s \in Sessions, c \in Conns : Feed!Connect(s, c))
              \/ UNCHANGED <<owner, handled>>
<1> DEFINE c == Head(backLog)
           s == Head(poolIndex)
<1>1. TypeOK /\ LoopSound /\ PoolExact /\ QueueSound
  BY DEF IInv
<1>2. pc = "accept" /\ UNCHANGED handled
  BY DEF NewSession
<1>3. c \in Conns /\ packetQueue = <<>> /\ DOMAIN packetQueue = {}
  <2>1. backLog \in Seq(Conns) /\ backLog # <<>> /\ packetQueue = <<>>
    BY <1>1, <1>2 DEF TypeOK, LoopSound, QueueSound
  <2>2. c \in Conns
    BY <2>1, HeadTailProperties
  <2>3. DOMAIN packetQueue = 1 .. 0
    BY <2>1, EmptySeq
  <2> QED
    BY <2>1, <2>2, <2>3
<1>4. CASE poolIndex = <<>>
  BY <1>2, <1>4 DEF NewSession
<1>5. CASE poolIndex # <<>>
  <2>1. s \in Range(poolIndex) /\ s \in Sessions
    BY <1>1, <1>5, TakeFirst DEF TypeOK, PoolExact
  <2>2. socket[s] = NoSocket /\ owner[s] = NoSocket
    BY <2>1, <1>1, <1>3, NetworkAssumption DEF PoolExact, QueueSound, IsConnected
  <2>3. owner' = owner \/ owner' = [owner EXCEPT ![s] = c]
    BY <1>5 DEF NewSession
  <2>4. CASE owner' = [owner EXCEPT ![s] = c]
    <3>1. Feed!Connect(s, c)
      BY <2>2, <2>4, <1>2 DEF Feed!Connect
    <3> QED
      BY <3>1, <2>1, <1>3
  <2> QED
    BY <2>3, <2>4, <1>2
<1> QED
  BY <1>4, <1>5

\* The packet the logic takes came from whom its session stands for.
LEMMA FeedTake ==
    ASSUME IInv, HandleRequest \/ HandleClose
    PROVE  \E s \in Sessions : Feed!TakeRequest(s) \/ Feed!TakeClose(s)
<1> DEFINE h == Head(packetQueue)
           s == h.session
<1>1. TypeOK /\ QueueFor(packetQueue, owner, socket)
  BY QueueParts DEF IInv, TypeOK
<1>2. packetQueue # <<>> /\ handled' = h
  BY DEF HandleRequest, HandleClose
<1>3. h \in Packets /\ h.conn = owner[s]
  BY <1>1, <1>2, TakenKeeps
<1>4. s \in Sessions /\ owner[s] # NoSocket
  BY <1>3, NetworkAssumption DEF Packets
<1>5. CASE HandleRequest
  <2>1. h.kind = "request" /\ owner' = owner
    BY <1>5 DEF HandleRequest
  <2>2. handled' = Feed!Request(s, owner[s])
    BY <2>1, <1>2, <1>3, PacketForm
  <2>3. Feed!TakeRequest(s)
    BY <2>1, <2>2, <1>4 DEF Feed!TakeRequest
  <2> QED
    BY <2>3, <1>4
<1>6. CASE HandleClose
  <2>1. h.kind = "close" /\ owner' = [owner EXCEPT ![s] = NoSocket]
    BY <1>6 DEF HandleClose
  <2>2. handled' = Feed!Close(s, owner[s])
    BY <2>1, <1>2, <1>3, PacketForm
  <2>3. Feed!TakeClose(s)
    BY <2>1, <2>2, <1>4 DEF Feed!TakeClose
  <2> QED
    BY <2>3, <1>4
<1> QED
  BY <1>5, <1>6

\* Every step is a step of SessionFeed or leaves its variables alone.
LEMMA FeedStep ==
    ASSUME IInv, [Next]_vars
    PROVE  [Feed!Next]_<<owner, handled>>
<1>1. CASE Peer \/ SelectNothing \/ SelectAccept \/ SelectClients
           \/ RunCheckSelectClients \/ UNCHANGED vars
  <2>1. UNCHANGED <<owner, handled>>
    BY <1>1 DEF Peer, Call, HangUp, SelectNothing, SelectAccept, SelectClients,
                RunCheckSelectClients, vars, logic
  <2> QED
    BY <2>1
<1>2. CASE NewSession
  BY <1>2, FeedConnect DEF Feed!Next
<1>3. CASE HandleRequest \/ HandleClose
  BY <1>3, FeedTake DEF Feed!Next
<1>4. CASE LeavePackets
  BY <1>4 DEF LeavePackets, Feed!Next, Feed!Pause
<1> QED
  BY <1>1, <1>2, <1>3, <1>4 DEF Next, Server

\* The network keeps its promise to the logic, whatever the peers do.
THEOREM NetworkFeedsLogic == Spec => FeedSpec
<1>1. Init => Feed!Init
  BY FeedInit
<1>2. IInv /\ [Next]_vars => [Feed!Next]_<<owner, handled>>
  BY FeedStep
<1> QED
  BY <1>1, <1>2, NetworkInvariance, PTL DEF Spec, FeedSpec, Feed!Spec

=============================================================================
