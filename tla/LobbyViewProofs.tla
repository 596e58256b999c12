-------------------------- MODULE LobbyViewProofs --------------------------
(***************************************************************************)
(* Proofs about LobbyView: the types, and ListsShownRight.  The invariant  *)
(* is about what the client will show once it has got what is on its way   *)
(* (WillShow, WillShowCount): a user in the lobby will be shown, or is in  *)
(* a slot of which the client has yet to ask (SlotToCome); whoever is not  *)
(* in the lobby will not be, unless it was cut off; likewise the rooms.    *)
(* The server's steps append what they change (Grows), the client's steps  *)
(* take the first packet and show what it says (Taken), so both leave what *)
(* will be shown right; a page that is sent settles what was to come of    *)
(* its slots and names the rest as what the next request asks for.         *)
(***************************************************************************)
EXTENDS LobbyView, FiniteSetTheorems, WellFoundedInduction, SequenceTheorems, TLAPS

-----------------------------------------------------------------------------
(* What holds of the two sides and of what is under way between them *)

\* What is on its way to the client, and what it can ask for.
RoomPages == UNION {[page -> 0 .. RoomLimit] : page \in SUBSET Rooms}
UserPages == UNION {[page -> Users] : page \in SUBSET (0 .. SlotCount - 1)}

Packets ==
    {Entered} \union {Enters(u) : u \in Users} \union {Leaves(u) : u \in Others}
    \union {Changed(r, n) : r \in Rooms, n \in 0 .. RoomLimit}
    \union {ListRes("LOBBY_ENTER_ROOM_LIST_RES", list, e) : list \in RoomPages, e \in BOOLEAN}
    \union {ListRes("LOBBY_ENTER_USER_LIST_RES", list, e) : list \in UserPages, e \in BOOLEAN}

Requests ==
    {ListReq(kind, start) :
        kind \in {"LOBBY_ENTER_ROOM_LIST_REQ", "LOBBY_ENTER_USER_LIST_REQ"}, start \in Nat}

\* A page that is not the last has something in it.
Goes(p) ==
    p.kind \in {"LOBBY_ENTER_ROOM_LIST_RES", "LOBBY_ENTER_USER_LIST_RES"} =>
        p.isEnd \/ DOMAIN p.list # {}

Wire ==
    /\ down \in Seq(Packets) /\ up \in Seq(Requests)
    /\ \A i \in 1 .. Len(down) : Goes(down[i])

\* Whoever is in the lobby or a room names the lobby and has a slot in it.
Placed ==
    /\ \A u \in Users : state[u] \in {"LOBBY", "ROOM"} =>
         hasLobby[u] /\ \E i \in 0 .. Len(slots) - 1 : slots[i + 1] = u
    /\ \A u \in Others : state[u] = "ROOM" => room[u] \in Rooms
    /\ \A r \in Rooms : UserCount(r) <= RoomLimit
    /\ state[Viewer] # "ROOM"

\* The answer the client waits for, in each of its phases.
Due(kind) ==
    \/ phase = "out" /\ kind = "LOBBY_ENTER_RES"
    \/ phase = "rooms" /\ kind = "LOBBY_ENTER_ROOM_LIST_RES"
    \/ phase = "users" /\ kind = "LOBBY_ENTER_USER_LIST_RES"

IsAnswer(p) ==
    p.kind \in {"LOBBY_ENTER_RES", "LOBBY_ENTER_ROOM_LIST_RES", "LOBBY_ENTER_USER_LIST_RES"}

NoAnswer == \A i \in 1 .. Len(down) : ~IsAnswer(down[i])

\* One request or one answer to it is under way, the one that is due.
InTurn ==
    /\ \A i \in 1 .. Len(down) : IsAnswer(down[i]) =>
         /\ Due(down[i].kind) /\ up = <<>>
         /\ \A j \in 1 .. Len(down) : IsAnswer(down[j]) => j = i
    /\ up # <<>> =>
         \/ phase = "rooms" /\ up[1].kind = "LOBBY_ENTER_ROOM_LIST_REQ"
         \/ phase = "users" /\ up[1].kind = "LOBBY_ENTER_USER_LIST_REQ"
    /\ Len(up) <= 1
    /\ state[Viewer] # "LOBBY" => phase = "out" /\ down = <<>> /\ up = <<>>
    /\ refused # None => up = <<>> /\ NoAnswer /\ phase \in {"rooms", "users"}

\* What the client hears before the answer to its entering is its own entering.
EnteredFirst ==
    phase = "out" /\ state[Viewer] = "LOBBY" =>
        /\ down # <<>>
        /\ \/ down[1] = Entered
           \/ down[1] = Enters(Viewer) /\ Len(down) > 1 /\ down[2] = Entered

\* The list boxes are empty until the lists have come.
BoxesEmpty ==
    /\ \A u \in Others : userRows[u] = 0 \/ (phase = "done" /\ userRows[u] = 1)
    /\ phase \in {"out", "rooms"} => \A r \in Rooms : roomRows[r] = 0

OneRow == phase # "done" => \A u \in Users : userRows[u] <= 1

\* What a packet says of a user or a room.
SaysIn(p, u) ==
    \/ p.kind = "LOBBY_ENTER_USER_NTF" /\ p.user = u
    \/ p.kind = "LOBBY_ENTER_USER_LIST_RES" /\ \E i \in DOMAIN p.list : p.list[i] = u
SaysOut(p, u) == p.kind = "LOBBY_LEAVE_USER_NTF" /\ p.user = u
SaysRoom(p, r) ==
    \/ p.kind = "ROOM_CHANGED_INFO_NTF" /\ p.room = r
    \/ p.kind = "LOBBY_ENTER_ROOM_LIST_RES" /\ r \in DOMAIN p.list
CountOf(p, r) == IF p.kind = "ROOM_CHANGED_INFO_NTF" THEN p.count ELSE p.list[r]

\* What the client has, in its lists or its list boxes, ...
Shows(u) ==
    \/ phase \in {"rooms", "users"} /\ u \in userList
    \/ phase = "done" /\ userRows[u] = 1
ShowsCount(r) ==
    IF phase = "out" THEN 0 ELSE IF phase = "rooms" THEN roomList[r] ELSE roomRows[r]

\* ... and what it will have once it has got what is on its way.
WillShow(u) ==
    \/ \E i \in 1 .. Len(down) : /\ SaysIn(down[i], u)
                                 /\ \A j \in i + 1 .. Len(down) : ~SaysOut(down[j], u)
    \/ Shows(u) /\ \A j \in 1 .. Len(down) : ~SaysOut(down[j], u)
WillShowCount(r, n) ==
    \/ \E i \in 1 .. Len(down) : /\ SaysRoom(down[i], r) /\ CountOf(down[i], r) = n
                                 /\ \A j \in i + 1 .. Len(down) : ~SaysRoom(down[j], r)
    \/ ShowsCount(r) = n /\ \A j \in 1 .. Len(down) : ~SaysRoom(down[j], r)

\* A slot or a room of which the client has yet to ask.
SlotToCome(i) ==
    \/ phase \in {"out", "rooms"}
    \/ phase = "users" /\ up # <<>> /\ i >= up[1].start
    \/ \E k \in 1 .. Len(down) : /\ down[k].kind = "LOBBY_ENTER_USER_LIST_RES"
                                 /\ ~down[k].isEnd /\ i > Max(DOMAIN down[k].list)
RoomToCome(r) ==
    \/ phase = "out"
    \/ phase = "rooms" /\ up # <<>> /\ r >= up[1].start
    \/ \E k \in 1 .. Len(down) : /\ down[k].kind = "LOBBY_ENTER_ROOM_LIST_RES"
                                 /\ ~down[k].isEnd /\ r > Max(DOMAIN down[k].list)

UserRight(u) ==
    IF state[u] = "LOBBY"
    THEN WillShow(u) \/ \E i \in 0 .. Len(slots) - 1 : slots[i + 1] = u /\ SlotToCome(i)
    ELSE WillShow(u) => u \in ghost
RoomRight(r) ==
    \/ WillShowCount(r, UserCount(r))
    \/ WillShowCount(r, 0) /\ RoomToCome(r)

UsersRight == \A u \in Others : UserRight(u)
RoomsRight == \A r \in Rooms : RoomRight(r)

\* As long as nothing was dropped or refused.
ShownRight == Watched => EnteredFirst /\ BoxesEmpty /\ UsersRight /\ RoomsRight

IInv == TypeOK /\ Wire /\ Placed /\ InTurn /\ OneRow /\ ShownRight

\* Of some numbers one is the least.
LEMMA Least ==
    ASSUME NEW T, T \subseteq Nat, T # {}
    PROVE  \E x \in T : \A y \in T : x <= y
<1> DEFINE R == OpToRel(<, Nat)
<1>1. IsWellFoundedOn(R, Nat)
  BY NatLessThanWellFounded
<1>2. PICK x \in T : \A y \in T : ~(<<y, x>> \in R)
  <2> HIDE DEF R
  <2> QED  BY <1>1, WFMin
<1>0. R = {ss \in Nat \X Nat : ss[1] < ss[2]}
  BY Zenon DEF OpToRel
<1> HIDE DEF R
<1>3. ASSUME NEW y \in T PROVE x <= y
  <2>1. x \in Nat /\ y \in Nat
    OBVIOUS
  <2>2. ~(y < x)
    BY <1>0, <1>2, <2>1
  <2> QED  BY <2>1, <2>2
<1> QED  BY <1>3

\* ... and one the greatest, if they have a bound.
LEMMA Greatest ==
    ASSUME NEW n \in Nat, NEW S \in SUBSET (0 .. n), S # {}
    PROVE  Max(S) \in S /\ \A y \in S : y <= Max(S)
<1> DEFINE T == {n - x : x \in S}
<1>1. T \subseteq Nat /\ T # {}
  <2>1. \A x \in S : x \in 0 .. n /\ n - x \in Nat
    OBVIOUS
  <2> QED  BY <2>1
<1>2. PICK t \in T : \A y \in T : t <= y
  <2> HIDE DEF T
  <2> QED  BY <1>1, Least
<1>3. PICK x \in S : t = n - x
  OBVIOUS
<1>4. \A y \in S : x >= y
  <2> SUFFICES ASSUME NEW y \in S PROVE x >= y
    OBVIOUS
  <2>1. n - y \in T
    OBVIOUS
  <2>2. n - x <= n - y
    BY <1>2, <1>3, <2>1
  <2> QED  BY <2>2
<1>5. Max(S) \in S /\ \A y \in S : Max(S) >= y
  <2>1. \E z \in S : \A y \in S : z >= y
    BY <1>4
  <2> QED  BY <2>1, Zenon DEF Max
<1> QED  BY <1>5

-----------------------------------------------------------------------------
(* Numbers, pages and packets *)

\* The assumptions on the constants.
LEMMA Limits ==
    /\ SlotCount \in Nat \ {0} /\ RoomCount \in Nat \ {0} /\ RoomLimit \in Nat \ {0}
    /\ MaxRoomList \in Nat \ {0} /\ MaxUserList \in Nat \ {0} /\ MaxDown \in Nat \ {0}
    /\ Viewer \notin Others /\ IsFiniteSet(Others)
BY LimitAssumption, ViewerAssumption

\* What a page takes of a list, and what it leaves for the next.
LEMMA PageFacts ==
    ASSUME NEW size \in Nat, NEW entries \in SUBSET (0 .. size - 1),
           NEW max \in Nat \ {0},
           NEW page, page = PageOf(entries, max)
    PROVE  /\ page \subseteq entries
           /\ IsEnd(page, max, size) => page = entries
           /\ ~IsEnd(page, max, size) => page # {}
           /\ \A i \in entries \ page, j \in page : j < i
<1>1. page = {i \in entries : Cardinality({j \in entries : j < i}) < max}
  BY DEF PageOf
<1>2. page \subseteq entries
  BY <1>1
<1>3. /\ IsFiniteSet(entries)
      /\ \A i \in entries : i \in Nat /\ i <= size - 1
  <2>1. IsFiniteSet(0 .. size - 1)
    BY FS_Interval
  <2>2. IsFiniteSet(entries)
    BY <2>1, FS_Subset
  <2>3. \A i \in 0 .. size - 1 : i \in Nat /\ i <= size - 1
    OBVIOUS
  <2>4. \A i \in entries : i \in 0 .. size - 1
    OBVIOUS
  <2> QED  BY <2>2, <2>3, <2>4
<1>4. ASSUME NEW i \in page, NEW j \in entries, j < i PROVE j \in page
  <2> DEFINE A == {k \in entries : k < j}
             B == {k \in entries : k < i}
  <2>0. i \in Nat /\ j \in Nat /\ j < i
    BY <1>2, <1>3, <1>4
  <2>1. A \subseteq B /\ B \subseteq entries
    <3> SUFFICES ASSUME NEW k \in entries, k < j PROVE k < i
      OBVIOUS
    <3>1. k \in Nat
      BY <1>3
    <3> QED  BY <2>0, <3>1
  <2>2. IsFiniteSet(B)
    BY <1>3, <2>1, FS_Subset
  <2>3. IsFiniteSet(A) /\ Cardinality(A) <= Cardinality(B)
    BY <2>1, <2>2, FS_Subset
  <2>4. Cardinality(A) \in Nat /\ Cardinality(B) \in Nat
    BY <2>2, <2>3, FS_CardinalityType
  <2>5. Cardinality(B) < max
    BY <1>1
  <2> HIDE DEF B
  <2>6. Cardinality(A) < max
    BY <2>3, <2>4, <2>5
  <2> QED  BY <1>1, <2>6
<1>5. \A i \in entries \ page, j \in page : j < i
  <2> SUFFICES ASSUME NEW i \in entries \ page, NEW j \in page PROVE j < i
    OBVIOUS
  <2>1. ~(i < j) /\ i # j
    BY <1>4
  <2> QED  BY <1>2, <1>3, <2>1
<1>6. ASSUME IsEnd(page, max, size) PROVE page = entries
  <2>1. CASE size - 1 \in page
    <3>1. \A j \in entries : j = size - 1 \/ j < size - 1
      BY <1>3
    <3> QED  BY <1>2, <1>4, <2>1, <3>1
  <2>2. CASE Cardinality(page) < max
    <3> SUFFICES ASSUME entries \ page # {} PROVE FALSE
      BY <1>2
    <3>1. PICK i \in entries \ page : \A j \in entries \ page : i <= j
      <4> DEFINE T == entries \ page
      <4>1. T \subseteq Nat /\ T # {}
        BY <1>3
      <4> HIDE DEF T
      <4>2. \E x \in T : \A y \in T : x <= y
        BY <4>1, Least
      <4> QED  BY <4>2 DEF T
    <3> DEFINE A == {j \in entries : j < i}
    <3>2. A \subseteq page
      <4> SUFFICES ASSUME NEW j \in entries, j < i, j \notin page PROVE FALSE
        OBVIOUS
      <4>1. i <= j /\ i \in Nat /\ j \in Nat
        BY <1>3, <3>1
      <4> QED  BY <4>1
    <3>3. IsFiniteSet(page)
      BY <1>2, <1>3, FS_Subset
    <3>4. IsFiniteSet(A) /\ Cardinality(A) <= Cardinality(page)
      BY <3>2, <3>3, FS_Subset
    <3>5. Cardinality(A) \in Nat /\ Cardinality(page) \in Nat
      BY <3>3, <3>4, FS_CardinalityType
    <3>6. ~(Cardinality(A) < max)
      BY <1>1
    <3> HIDE DEF A
    <3> QED  BY <2>2, <3>4, <3>5, <3>6
  <2> QED  BY <1>6, <2>1, <2>2 DEF IsEnd
<1>7. ASSUME ~IsEnd(page, max, size) PROVE page # {}
  <2>1. ~(Cardinality(page) < max)
    BY <1>7 DEF IsEnd
  <2>2. Cardinality({}) = 0
    BY FS_EmptySet
  <2> QED  BY <2>1, <2>2
<1> QED  BY <1>2, <1>5, <1>6, <1>7

\* What the packets say.
LEMMA NoticeSays ==
    ASSUME NEW u, NEW v, NEW r, NEW s, NEW n
    PROVE  /\ SaysIn(Enters(u), v) <=> u = v
           /\ ~SaysOut(Enters(u), v) /\ ~SaysRoom(Enters(u), s)
           /\ SaysOut(Leaves(u), v) <=> u = v
           /\ ~SaysIn(Leaves(u), v) /\ ~SaysRoom(Leaves(u), s)
           /\ SaysRoom(Changed(r, n), s) <=> r = s
           /\ CountOf(Changed(r, n), s) = n
           /\ ~SaysIn(Changed(r, n), v) /\ ~SaysOut(Changed(r, n), v)
           /\ ~SaysIn(Entered, v) /\ ~SaysOut(Entered, v) /\ ~SaysRoom(Entered, s)
           /\ ~IsAnswer(Enters(u)) /\ ~IsAnswer(Leaves(u)) /\ ~IsAnswer(Changed(r, n))
           /\ Goes(Enters(u)) /\ Goes(Leaves(u)) /\ Goes(Changed(r, n)) /\ Goes(Entered)
BY DEF SaysIn, SaysOut, SaysRoom, CountOf, IsAnswer, Goes, Enters, Leaves, Changed, Entered

\* ... and what the two kinds of pages say.
LEMMA PageSays ==
    ASSUME NEW p, NEW list, NEW e
    PROVE  /\ p = ListRes("LOBBY_ENTER_USER_LIST_RES", list, e) =>
                /\ p.kind = "LOBBY_ENTER_USER_LIST_RES" /\ p.list = list /\ p.isEnd = e
                /\ \A v : /\ SaysIn(p, v) <=> \E i \in DOMAIN list : list[i] = v
                          /\ ~SaysOut(p, v)
                /\ \A s : ~SaysRoom(p, s)
                /\ IsAnswer(p)
           /\ p = ListRes("LOBBY_ENTER_ROOM_LIST_RES", list, e) =>
                /\ p.kind = "LOBBY_ENTER_ROOM_LIST_RES" /\ p.list = list /\ p.isEnd = e
                /\ \A v : ~SaysIn(p, v) /\ ~SaysOut(p, v)
                /\ \A s : SaysRoom(p, s) <=> s \in DOMAIN list
                /\ \A s : CountOf(p, s) = list[s]
                /\ IsAnswer(p)
BY DEF SaysIn, SaysOut, SaysRoom, CountOf, IsAnswer, ListRes

-----------------------------------------------------------------------------
(* What is appended *)

\* What has been sent stands behind what was under way, as far as it fitted.
Added(packets) ==
    /\ Len(down') \in Len(down) .. Len(down) + Len(packets) /\ Len(down') <= MaxDown
    /\ \A i \in 1 .. Len(down) : down'[i] = down[i]
    /\ \A i \in Len(down) + 1 .. Len(down') : down'[i] = packets[i - Len(down)]

\* ... and all of it did.
Grows(packets) ==
    /\ Len(down') = Len(down) + Len(packets)
    /\ \A i \in 1 .. Len(down) : down'[i] = down[i]
    /\ \A k \in 1 .. Len(packets) : down'[Len(down) + k] = packets[k]

\* Send appends everything, or something is lost.
LEMMA SendAdds ==
    ASSUME down \in Seq(Packets), Len(down) <= MaxDown, lost \in BOOLEAN,
           NEW packets \in Seq(Packets), Send(packets)
    PROVE  /\ down' \in Seq(Packets) /\ Added(packets)
           /\ lost' \in BOOLEAN
           /\ ~lost' => ~lost /\ Grows(packets)
<1> DEFINE n == MaxDown - Len(down)
           k == IF Len(packets) < n THEN Len(packets) ELSE n
           f == SubSeq(packets, 1, k)
<1>1. down' = down \o f /\ lost' = (lost \/ Len(f) < Len(packets))
  BY DEF Send, FirstOf
<1>2. Len(down) \in Nat /\ Len(packets) \in Nat /\ n \in Nat /\ k \in 0 .. Len(packets)
      /\ k <= n
  BY Limits
<1>3. f \in Seq(Packets) /\ Len(f) = k /\ \A i \in 1 .. k : f[i] = packets[i]
  BY <1>2, SubSeqProperties
<1> HIDE DEF f
<1>4. /\ down' \in Seq(Packets) /\ Len(down') = Len(down) + k
      /\ \A i \in 1 .. Len(down) : down'[i] = down[i]
      /\ \A i \in Len(down) + 1 .. Len(down) + k : down'[i] = f[i - Len(down)]
  <2>1. down' = down \o f
    BY <1>1 DEF f
  <2>2. k \in Nat
    BY <1>2
  <2> HIDE DEF k
  <2> QED  BY <1>2, <1>3, <2>1, <2>2
<1>5. \A i \in Len(down) + 1 .. Len(down') : down'[i] = packets[i - Len(down)]
  <2> SUFFICES ASSUME NEW i \in Len(down) + 1 .. Len(down')
               PROVE  down'[i] = packets[i - Len(down)]
    OBVIOUS
  <2>1. i \in Len(down) + 1 .. Len(down) + k /\ i - Len(down) \in 1 .. k
    BY <1>2, <1>4
  <2> QED  BY <1>3, <1>4, <2>1
<1>6. Added(packets)
  <2>1. Len(down') \in Len(down) .. Len(down) + Len(packets) /\ Len(down') <= MaxDown
    BY <1>2, <1>4, Limits
  <2> QED  BY <1>4, <1>5, <2>1 DEF Added
<1>7. lost' \in BOOLEAN
  BY <1>1, Zenon
<1>8. ASSUME ~lost' PROVE ~lost /\ Grows(packets)
  <2>1. ~lost /\ ~(Len(f) < Len(packets))
    BY <1>1, <1>8, Zenon
  <2>2. k = Len(packets)
    BY <1>2, <1>3, <2>1
  <2>3. \A j \in 1 .. Len(packets) : down'[Len(down) + j] = packets[j]
    <3> SUFFICES ASSUME NEW j \in 1 .. Len(packets) PROVE down'[Len(down) + j] = packets[j]
      OBVIOUS
    <3> DEFINE i == Len(down) + j
    <3>1. i \in Len(down) + 1 .. Len(down') /\ i - Len(down) = j
      BY <1>2, <1>4, <2>2
    <3> HIDE DEF i
    <3>2. down'[i] = packets[j]
      BY <1>5, <3>1
    <3> QED  BY <3>2 DEF i
  <2> QED  BY <1>4, <2>1, <2>2, <2>3 DEF Grows
<1> QED  BY <1>4, <1>6, <1>7, <1>8

\* What the client hears of a user once it has got everything.
LEMMA GrowShow ==
    ASSUME down \in Seq(Packets), NEW packets, Len(packets) \in Nat, Grows(packets),
           UNCHANGED client, NEW u
    PROVE  WillShow(u)' <=>
             \/ \E k \in 1 .. Len(packets) :
                  /\ SaysIn(packets[k], u)
                  /\ \A m \in k + 1 .. Len(packets) : ~SaysOut(packets[m], u)
             \/ WillShow(u) /\ \A k \in 1 .. Len(packets) : ~SaysOut(packets[k], u)
<1> DEFINE n == Len(down)
           g == Len(packets)
           New == \E k \in 1 .. g : /\ SaysIn(packets[k], u)
                                    /\ \A m \in k + 1 .. g : ~SaysOut(packets[m], u)
           Silent == \A k \in 1 .. g : ~SaysOut(packets[k], u)
<1>1. n \in Nat /\ g \in Nat /\ Len(down') = n + g
  BY DEF Grows
<1>2. /\ \A i \in 1 .. n : down'[i] = down[i]
      /\ \A k \in 1 .. g : down'[n + k] = packets[k]
  BY DEF Grows
<1>3. Shows(u)' <=> Shows(u)
  BY DEF client, Shows
<1>4. \A i \in 1 .. n + g : i \in 1 .. n \/ \E k \in 1 .. g : i = n + k
  <2> SUFFICES ASSUME NEW i \in 1 .. n + g, i \notin 1 .. n
               PROVE  \E k \in 1 .. g : i = n + k
    OBVIOUS
  <2>1. i - n \in 1 .. g /\ i = n + (i - n)
    BY <1>1
  <2> QED  BY <2>1
<1>5. \A k \in 1 .. g : n + k \in 1 .. n + g
  BY <1>1
<1> HIDE DEF n, g
<1>6. ASSUME NEW i \in 0 .. n
      PROVE  (\A j \in i + 1 .. n + g : ~SaysOut(down'[j], u))
             <=> Silent /\ \A j \in i + 1 .. n : ~SaysOut(down[j], u)
  <2>1. \A k \in 1 .. g : n + k \in i + 1 .. n + g
    BY <1>1
  <2>2. \A j \in i + 1 .. n : j \in 1 .. n /\ j \in i + 1 .. n + g
    BY <1>1
  <2>3. \A j \in i + 1 .. n + g : j \in i + 1 .. n \/ \E k \in 1 .. g : j = n + k
    <3> SUFFICES ASSUME NEW j \in i + 1 .. n + g
                 PROVE  j \in i + 1 .. n \/ \E k \in 1 .. g : j = n + k
      OBVIOUS
    <3>1. j \in 1 .. n + g
      BY <1>1
    <3>2. j \in 1 .. n => j \in i + 1 .. n
      BY <1>1
    <3> QED  BY <1>4, <3>1, <3>2
  <2> QED  BY <1>2, <2>1, <2>2, <2>3
<1>7. ASSUME NEW k \in 1 .. g
      PROVE  (\A j \in n + k + 1 .. n + g : ~SaysOut(down'[j], u))
             <=> \A m \in k + 1 .. g : ~SaysOut(packets[m], u)
  <2>1. \A m \in k + 1 .. g : m \in 1 .. g /\ n + m \in n + k + 1 .. n + g
    BY <1>1
  <2>2. \A j \in n + k + 1 .. n + g : \E m \in k + 1 .. g : m \in 1 .. g /\ j = n + m
    <3> SUFFICES ASSUME NEW j \in n + k + 1 .. n + g
                 PROVE  \E m \in k + 1 .. g : m \in 1 .. g /\ j = n + m
      OBVIOUS
    <3>1. j - n \in k + 1 .. g /\ j - n \in 1 .. g /\ j = n + (j - n)
      BY <1>1
    <3> QED  BY <3>1
  <2> QED  BY <1>2, <2>1, <2>2
<1>8. WillShow(u) <=>
        \/ \E i \in 1 .. n : SaysIn(down[i], u) /\ \A j \in i + 1 .. n : ~SaysOut(down[j], u)
        \/ Shows(u) /\ \A j \in 1 .. n : ~SaysOut(down[j], u)
  BY DEF WillShow, n
<1>9. WillShow(u)' <=>
        \/ \E i \in 1 .. n + g :
             SaysIn(down'[i], u) /\ \A j \in i + 1 .. n + g : ~SaysOut(down'[j], u)
        \/ Shows(u) /\ \A j \in 1 .. n + g : ~SaysOut(down'[j], u)
  <2>1. SaysIn(down[1], u)' = SaysIn(down'[1], u)
    BY DEF SaysIn
  <2> QED  BY <1>1, <1>3 DEF WillShow
<1>10. (\E i \in 1 .. n + g :
          SaysIn(down'[i], u) /\ \A j \in i + 1 .. n + g : ~SaysOut(down'[j], u))
       <=> \/ New
           \/ /\ Silent
              /\ \E i \in 1 .. n :
                   SaysIn(down[i], u) /\ \A j \in i + 1 .. n : ~SaysOut(down[j], u)
  <2>0. \A i \in 1 .. n : i \in 0 .. n /\ i \in 1 .. n + g
    BY <1>1
  <2>1. ASSUME NEW i \in 1 .. n + g, SaysIn(down'[i], u),
               \A j \in i + 1 .. n + g : ~SaysOut(down'[j], u)
        PROVE  \/ New
               \/ /\ Silent
                  /\ \E l \in 1 .. n :
                       SaysIn(down[l], u) /\ \A j \in l + 1 .. n : ~SaysOut(down[j], u)
    <3>1. CASE i \in 1 .. n
      BY <1>2, <1>6, <2>0, <2>1, <3>1
    <3>2. ASSUME NEW k \in 1 .. g, i = n + k PROVE New
      BY <1>2, <1>7, <2>1, <3>2
    <3> QED  BY <1>4, <3>1, <3>2
  <2>2. ASSUME New
        PROVE  \E i \in 1 .. n + g :
                 SaysIn(down'[i], u) /\ \A j \in i + 1 .. n + g : ~SaysOut(down'[j], u)
    <3>1. PICK k \in 1 .. g : /\ SaysIn(packets[k], u)
                              /\ \A m \in k + 1 .. g : ~SaysOut(packets[m], u)
      BY <2>2
    <3>2. n + k \in 1 .. n + g /\ SaysIn(down'[n + k], u)
          /\ \A j \in n + k + 1 .. n + g : ~SaysOut(down'[j], u)
      BY <1>2, <1>5, <1>7, <3>1
    <3> DEFINE i == n + k
    <3> HIDE DEF i
    <3>3. i \in 1 .. n + g /\ SaysIn(down'[i], u)
          /\ \A j \in i + 1 .. n + g : ~SaysOut(down'[j], u)
      BY <3>2 DEF i
    <3> QED  BY <3>3
  <2>3. ASSUME Silent, NEW i \in 1 .. n, SaysIn(down[i], u),
               \A j \in i + 1 .. n : ~SaysOut(down[j], u)
        PROVE  i \in 1 .. n + g /\ SaysIn(down'[i], u)
               /\ \A j \in i + 1 .. n + g : ~SaysOut(down'[j], u)
    BY <1>2, <1>6, <2>0, <2>3
  <2> HIDE DEF New, Silent
  <2> QED  BY <2>1, <2>2, <2>3
<1>11. (\A j \in 1 .. n + g : ~SaysOut(down'[j], u))
       <=> Silent /\ \A j \in 1 .. n : ~SaysOut(down[j], u)
  <2>1. 0 \in 0 .. n /\ 0 + 1 = 1
    BY <1>1
  <2> HIDE DEF Silent
  <2> QED  BY <1>6, <2>1
<1>12. WillShow(u)' <=> New \/ (WillShow(u) /\ Silent)
  <2> HIDE DEF New, Silent
  <2> QED  BY <1>8, <1>9, <1>10, <1>11
<1> QED  BY <1>12 DEF g

\* ... and of a room.
LEMMA GrowCount ==
    ASSUME down \in Seq(Packets), NEW packets, Len(packets) \in Nat, Grows(packets),
           UNCHANGED client, NEW r, NEW n
    PROVE  /\ WillShowCount(r, n) /\ (\A k \in 1 .. Len(packets) : ~SaysRoom(packets[k], r))
                => WillShowCount(r, n)'
           /\ \A k \in 1 .. Len(packets) :
                /\ SaysRoom(packets[k], r) /\ CountOf(packets[k], r) = n
                /\ \A m \in k + 1 .. Len(packets) : ~SaysRoom(packets[m], r)
                => WillShowCount(r, n)'
<1> DEFINE d == Len(down)
           g == Len(packets)
<1>1. d \in Nat /\ g \in Nat /\ Len(down') = d + g
  BY DEF Grows
<1>2. /\ \A i \in 1 .. d : down'[i] = down[i]
      /\ \A k \in 1 .. g : down'[d + k] = packets[k]
  BY DEF Grows
<1>3. ShowsCount(r)' = ShowsCount(r)
  BY DEF client, ShowsCount
<1> HIDE DEF d, g
<1>4. \A i \in 1 .. d + g : i \in 1 .. d \/ \E k \in 1 .. g : i = d + k
  <2> SUFFICES ASSUME NEW i \in 1 .. d + g, i \notin 1 .. d
               PROVE  \E k \in 1 .. g : i = d + k
    OBVIOUS
  <2>1. i - d \in 1 .. g /\ i = d + (i - d)
    BY <1>1
  <2> QED  BY <2>1
<1>5. WillShowCount(r, n)' <=>
        \/ \E i \in 1 .. d + g : /\ SaysRoom(down'[i], r) /\ CountOf(down'[i], r) = n
                                 /\ \A j \in i + 1 .. d + g : ~SaysRoom(down'[j], r)
        \/ ShowsCount(r) = n /\ \A j \in 1 .. d + g : ~SaysRoom(down'[j], r)
  BY <1>1, <1>3 DEF WillShowCount
<1>6. ASSUME WillShowCount(r, n), \A k \in 1 .. g : ~SaysRoom(packets[k], r)
      PROVE  WillShowCount(r, n)'
  <2>1. \A i \in 0 .. d : (\A j \in i + 1 .. d : ~SaysRoom(down[j], r))
                          => \A j \in i + 1 .. d + g : ~SaysRoom(down'[j], r)
    <3> SUFFICES ASSUME NEW i \in 0 .. d, \A j \in i + 1 .. d : ~SaysRoom(down[j], r),
                        NEW j \in i + 1 .. d + g
                 PROVE  ~SaysRoom(down'[j], r)
      OBVIOUS
    <3>1. j \in 1 .. d + g /\ (j \in 1 .. d => j \in i + 1 .. d)
      BY <1>1
    <3> QED  BY <1>2, <1>4, <1>6, <3>1
  <2>2. CASE \E i \in 1 .. d : /\ SaysRoom(down[i], r) /\ CountOf(down[i], r) = n
                               /\ \A j \in i + 1 .. d : ~SaysRoom(down[j], r)
    <3>1. PICK i \in 1 .. d : /\ SaysRoom(down[i], r) /\ CountOf(down[i], r) = n
                              /\ \A j \in i + 1 .. d : ~SaysRoom(down[j], r)
      BY <2>2
    <3>2. i \in 1 .. d + g /\ i \in 0 .. d
      BY <1>1
    <3> QED  BY <1>2, <1>5, <2>1, <3>1, <3>2
  <2>3. CASE ShowsCount(r) = n /\ \A j \in 1 .. d : ~SaysRoom(down[j], r)
    <3>1. 0 \in 0 .. d /\ 0 + 1 = 1
      BY <1>1
    <3> QED  BY <1>5, <2>1, <2>3, <3>1
  <2> QED  BY <1>6, <2>2, <2>3 DEF WillShowCount, d
<1>7. ASSUME NEW k \in 1 .. g, SaysRoom(packets[k], r), CountOf(packets[k], r) = n,
             \A m \in k + 1 .. g : ~SaysRoom(packets[m], r)
      PROVE  WillShowCount(r, n)'
  <2> DEFINE i == d + k
  <2>1. i \in 1 .. d + g
    BY <1>1
  <2>2. \A j \in i + 1 .. d + g : \E m \in k + 1 .. g : m \in 1 .. g /\ j = d + m
    <3> SUFFICES ASSUME NEW j \in i + 1 .. d + g
                 PROVE  \E m \in k + 1 .. g : m \in 1 .. g /\ j = d + m
      OBVIOUS
    <3>1. j - d \in k + 1 .. g /\ j - d \in 1 .. g /\ j = d + (j - d)
      BY <1>1
    <3> QED  BY <3>1
  <2>3. down'[i] = packets[k]
    BY <1>2
  <2> HIDE DEF i
  <2>4. \A j \in i + 1 .. d + g : ~SaysRoom(down'[j], r)
    BY <1>2, <1>7, <2>2
  <2> QED  BY <1>5, <1>7, <2>1, <2>3, <2>4
<1> QED  BY <1>6, <1>7 DEF g

\* Nothing that is to come is forgotten.
LEMMA GrowToCome ==
    ASSUME down \in Seq(Packets), NEW packets, Len(packets) \in Nat, Grows(packets),
           UNCHANGED client, UNCHANGED up
    PROVE  /\ \A i : SlotToCome(i) => SlotToCome(i)'
           /\ \A r : RoomToCome(r) => RoomToCome(r)'
<1>1. phase' = phase /\ up' = up
  BY DEF client
<1>2. \A k \in 1 .. Len(down) : k \in 1 .. Len(down') /\ down'[k] = down[k]
  BY DEF Grows
<1>3. ASSUME NEW i, SlotToCome(i) PROVE SlotToCome(i)'
  BY <1>1, <1>2, <1>3 DEF SlotToCome
<1>4. ASSUME NEW r, RoomToCome(r) PROVE RoomToCome(r)'
  BY <1>1, <1>2, <1>4 DEF RoomToCome
<1> QED  BY <1>3, <1>4

\* Notices are no answers: whose turn it is stays.
LEMMA NoticesKeepTurn ==
    ASSUME down \in Seq(Packets), InTurn, NEW packets, Len(packets) \in Nat, Added(packets),
           \A k \in 1 .. Len(packets) : ~IsAnswer(packets[k]),
           UNCHANGED <<up, client, refused>>, state'[Viewer] = state[Viewer],
           state[Viewer] # "LOBBY" => down' = down
    PROVE  InTurn'
<1>1. phase' = phase /\ up' = up /\ refused' = refused
  BY DEF client
<1>2. Len(down) \in Nat
  OBVIOUS
<1>3. \A i \in 1 .. Len(down') :
        IsAnswer(down'[i]) => i \in 1 .. Len(down) /\ down'[i] = down[i]
  <2> SUFFICES ASSUME NEW i \in 1 .. Len(down'), IsAnswer(down'[i])
               PROVE  i \in 1 .. Len(down) /\ down'[i] = down[i]
    OBVIOUS
  <2>1. CASE i \in 1 .. Len(down)
    BY <2>1 DEF Added
  <2>2. CASE i \notin 1 .. Len(down)
    <3>1. /\ i \in Len(down) + 1 .. Len(down') /\ i - Len(down) \in 1 .. Len(packets)
      BY <1>2, <2>2 DEF Added
    <3>2. down'[i] = packets[i - Len(down)]
      BY <3>1 DEF Added
    <3> QED  BY <3>1, <3>2
  <2> QED  BY <2>1, <2>2
<1>4. \A i \in 1 .. Len(down') : IsAnswer(down'[i]) =>
         /\ Due(down[i].kind)' /\ up' = <<>>
         /\ \A j \in 1 .. Len(down') : IsAnswer(down'[j]) => j = i
  <2> SUFFICES ASSUME NEW i \in 1 .. Len(down'), IsAnswer(down'[i])
               PROVE  /\ Due(down[i].kind)' /\ up' = <<>>
                      /\ \A j \in 1 .. Len(down') : IsAnswer(down'[j]) => j = i
    OBVIOUS
  <2>1. i \in 1 .. Len(down) /\ IsAnswer(down[i]) /\ down'[i] = down[i]
    BY <1>3
  <2>2. Due(down[i].kind) /\ up = <<>> /\ \A j \in 1 .. Len(down) : IsAnswer(down[j]) => j = i
    BY <2>1 DEF InTurn
  <2>3. Due(down[i].kind)'
    BY <1>1, <2>1, <2>2 DEF Due
  <2> QED  BY <1>1, <1>3, <2>2, <2>3
<1>5. state[Viewer] # "LOBBY" => phase = "out" /\ down' = <<>> /\ up = <<>>
  <2>1. state[Viewer] # "LOBBY" => phase = "out" /\ down = <<>> /\ up = <<>>
    BY DEF InTurn
  <2> QED  BY <2>1
<1>6. refused # None => up = <<>> /\ NoAnswer' /\ phase \in {"rooms", "users"}
  BY <1>3 DEF InTurn, NoAnswer
<1>7. Len(up) <= 1 /\ (up # <<>> =>
         \/ phase = "rooms" /\ up[1].kind = "LOBBY_ENTER_ROOM_LIST_REQ"
         \/ phase = "users" /\ up[1].kind = "LOBBY_ENTER_USER_LIST_REQ")
  BY DEF InTurn
<1> QED  BY <1>1, <1>4, <1>5, <1>6, <1>7 DEF InTurn

\* What the handlers of the other users send.
Notices ==
    {Enters(u) : u \in Others} \union {Leaves(u) : u \in Others}
    \union {Changed(r, n) : r \in Rooms, n \in 0 .. RoomLimit}

\* Notices are packets, and no answers.
LEMMA NoticeFacts ==
    /\ Notices \subseteq Packets
    /\ \A p \in Notices : ~IsAnswer(p) /\ Goes(p)
<1>1. Notices \subseteq Packets
  BY DEF Notices, Packets, Users
<1>2. \A p \in Notices : ~IsAnswer(p) /\ Goes(p)
  BY DEF Notices, IsAnswer, Goes, Enters, Leaves, Changed
<1> QED  BY <1>1, <1>2

\* What is appended is a packet like the others.
LEMMA AddedKeepsWire ==
    ASSUME Wire, NEW packets, Len(packets) \in Nat, Added(packets), down' \in Seq(Packets),
           up' \in Seq(Requests),
           \A k \in 1 .. Len(packets) : Goes(packets[k])
    PROVE  Wire'
<1>0. Len(down) \in Nat
  BY DEF Wire
<1>1. \A i \in 1 .. Len(down') : Goes(down'[i])
  <2> SUFFICES ASSUME NEW i \in 1 .. Len(down') PROVE Goes(down'[i])
    OBVIOUS
  <2>1. CASE i \in 1 .. Len(down)
    BY <2>1 DEF Added, Wire
  <2>2. CASE i \notin 1 .. Len(down)
    <3>1. i \in Len(down) + 1 .. Len(down') /\ i - Len(down) \in 1 .. Len(packets)
      BY <1>0, <2>2 DEF Added
    <3>2. down'[i] = packets[i - Len(down)]
      BY <3>1 DEF Added
    <3> QED  BY <3>1, <3>2
  <2> QED  BY <2>1, <2>2
<1> QED  BY <1>1 DEF Wire

\* What Tell does, whether the client is in the lobby or not.
LEMMA Told ==
    ASSUME TypeOK, Wire, InTurn, NEW packets \in Seq(Notices), Tell(packets),
           UNCHANGED <<up, client, refused>>, state'[Viewer] = state[Viewer]
    PROVE  /\ Wire' /\ InTurn'
           /\ Len(down') <= MaxDown /\ lost' \in BOOLEAN
           /\ ~lost' => ~lost /\ (state[Viewer] = "LOBBY" => Grows(packets))
           /\ state[Viewer] # "LOBBY" => down' = down
<1>1. packets \in Seq(Packets) /\ Len(packets) \in Nat
      /\ \A k \in 1 .. Len(packets) : ~IsAnswer(packets[k]) /\ Goes(packets[k])
  BY NoticeFacts
<1>2. down \in Seq(Packets) /\ up' \in Seq(Requests) /\ Len(down) <= MaxDown /\ lost \in BOOLEAN
  BY DEF Wire, TypeOK
<1>3. CASE state[Viewer] = "LOBBY"
  <2>1. Send(packets)
    BY <1>3 DEF Tell
  <2>2. /\ down' \in Seq(Packets) /\ Added(packets)
        /\ lost' \in BOOLEAN
        /\ ~lost' => ~lost /\ Grows(packets)
    BY <1>1, <1>2, <2>1, SendAdds
  <2>3. Wire'
    BY <1>1, <1>2, <2>2, AddedKeepsWire
  <2>4. InTurn'
    BY <1>1, <1>2, <1>3, <2>2, NoticesKeepTurn
  <2>5. Len(down') <= MaxDown
    BY <2>2 DEF Added
  <2> QED  BY <1>3, <2>2, <2>3, <2>4, <2>5
<1>4. CASE state[Viewer] # "LOBBY"
  <2>1. down' = down /\ lost' = lost
    BY <1>4 DEF Tell
  <2>2. Wire'
    BY <2>1 DEF Wire
  <2>3. InTurn'
    BY <1>4, <2>1 DEF InTurn, IsAnswer, Due, NoAnswer, client
  <2> QED  BY <1>2, <1>4, <2>1, <2>2, <2>3
<1> QED  BY <1>3, <1>4

\* A client that is not in the lobby has its lists before it.
LEMMA Outside ==
    Wire /\ Placed /\ InTurn /\ state[Viewer] # "LOBBY" =>
        EnteredFirst /\ UsersRight /\ RoomsRight
<1> SUFFICES ASSUME Wire, Placed, InTurn, state[Viewer] # "LOBBY"
             PROVE  EnteredFirst /\ UsersRight /\ RoomsRight
  OBVIOUS
<1>1. phase = "out" /\ down = <<>>
  BY DEF InTurn
<1>2. \A u : ~WillShow(u)
  BY <1>1 DEF WillShow, Shows
<1>3. \A i : SlotToCome(i)
  BY <1>1 DEF SlotToCome
<1>4. \A r : WillShowCount(r, 0) /\ RoomToCome(r)
  BY <1>1 DEF WillShowCount, ShowsCount, RoomToCome
<1>5. UsersRight
  BY <1>2, <1>3 DEF UsersRight, UserRight, Placed, Users
<1> QED  BY <1>4, <1>5 DEF EnteredFirst, RoomsRight, RoomRight

\* The same in the next state.
LEMMA OutsideNext ==
    (Wire /\ Placed /\ InTurn /\ state[Viewer] # "LOBBY" =>
        EnteredFirst /\ UsersRight /\ RoomsRight)'
BY Outside, PTL

-----------------------------------------------------------------------------

ServerTypes ==
    /\ state \in [Users -> {"NONE", "LOGIN", "LOBBY", "ROOM"}]
    /\ hasLobby \in [Users -> BOOLEAN]
    /\ room \in [Users -> Rooms \union {None}]
    /\ slots \in Seq(Users) /\ Len(slots) <= SlotCount
    /\ ghost \subseteq Others

\* What is appended comes after the answer to the entering.
LEMMA GrowKeepsFirst ==
    ASSUME Wire, EnteredFirst, NEW packets, Len(packets) \in Nat, Grows(packets), phase' = phase,
           state[Viewer] = "LOBBY", state'[Viewer] = "LOBBY"
    PROVE  EnteredFirst'
<1> SUFFICES ASSUME phase = "out"
             PROVE  /\ down' # <<>>
                    /\ \/ down'[1] = Entered
                       \/ down'[1] = Enters(Viewer) /\ Len(down') > 1 /\ down'[2] = Entered
  BY DEF EnteredFirst
<1>1. /\ down # <<>>
      /\ \/ down[1] = Entered
         \/ down[1] = Enters(Viewer) /\ Len(down) > 1 /\ down[2] = Entered
  BY DEF EnteredFirst
<1>2. Len(down) \in Nat /\ Len(down) >= 1
  BY <1>1 DEF Wire
<1>3. Len(down') >= Len(down) /\ 1 \in 1 .. Len(down) /\ (Len(down) > 1 => 2 \in 1 .. Len(down))
  BY <1>2 DEF Grows
<1>4. down'[1] = down[1] /\ (Len(down) > 1 => down'[2] = down[2])
  BY <1>3 DEF Grows
<1>5. down' # <<>>
  BY <1>2, <1>3
<1> QED  BY <1>1, <1>2, <1>3, <1>4, <1>5

\* The frame of every handler of another user.
LEMMA MoveFrame ==
    ASSUME IInv, NEW packets \in Seq(Notices), Tell(packets),
           UNCHANGED <<up, client, refused>>, state'[Viewer] = state[Viewer],
           ServerTypes', Placed',
           Watched /\ Grows(packets) /\ UsersRight /\ RoomsRight => UsersRight' /\ RoomsRight'
    PROVE  IInv'
<1>1. TypeOK /\ Wire /\ Placed /\ InTurn /\ OneRow /\ ShownRight
  BY DEF IInv
<1>2. /\ Wire' /\ InTurn'
      /\ Len(down') <= MaxDown /\ lost' \in BOOLEAN
      /\ ~lost' => ~lost /\ (state[Viewer] = "LOBBY" => Grows(packets))
      /\ state[Viewer] # "LOBBY" => down' = down
  BY <1>1, Told
<1>3. TypeOK'
  BY <1>1, <1>2 DEF TypeOK, ServerTypes, client
<1>4. OneRow'
  BY <1>1 DEF OneRow, client
<1>5. ShownRight'
  <2> SUFFICES ASSUME Watched'
               PROVE  (EnteredFirst /\ BoxesEmpty /\ UsersRight /\ RoomsRight)'
    BY DEF ShownRight
  <2>1. Watched
    BY <1>2 DEF Watched
  <2>2. EnteredFirst /\ BoxesEmpty /\ UsersRight /\ RoomsRight
    BY <1>1, <2>1 DEF ShownRight
  <2>3. BoxesEmpty'
    BY <2>2 DEF BoxesEmpty, client
  <2>4. CASE state[Viewer] = "LOBBY"
    <3>1. Grows(packets)
      BY <1>2, <2>4 DEF Watched
    <3>2. EnteredFirst'
      <4>1. Len(packets) \in Nat /\ phase' = phase
        BY DEF client
      <4> QED  BY <1>1, <2>2, <2>4, <3>1, <4>1, GrowKeepsFirst
    <3> QED  BY <2>1, <2>2, <2>3, <3>1, <3>2
  <2>5. CASE state[Viewer] # "LOBBY"
    <3>1. (state[Viewer] # "LOBBY")'
      BY <2>5
    <3>2. (EnteredFirst /\ UsersRight /\ RoomsRight)'
      BY <1>2, <3>1, OutsideNext
    <3> QED  BY <2>3, <3>2
  <2> QED  BY <2>4, <2>5
<1> QED  BY <1>2, <1>3, <1>4, <1>5 DEF IInv

-----------------------------------------------------------------------------
(* Who sees a step, and who does not *)

\* Slots are only added.
SlotsGrow ==
    \A i \in 0 .. Len(slots) - 1 : i \in 0 .. Len(slots') - 1 /\ slots'[i + 1] = slots[i + 1]

\* A user of whom nothing is said.
LEMMA OtherUser ==
    ASSUME Wire, NEW packets, Len(packets) \in Nat, Grows(packets), UNCHANGED <<up, client>>,
           NEW v, UserRight(v),
           \A k \in 1 .. Len(packets) : ~SaysIn(packets[k], v) /\ ~SaysOut(packets[k], v),
           state'[v] = state[v], SlotsGrow, v \in ghost => v \in ghost'
    PROVE  UserRight(v)'
<1>1. WillShow(v)' <=> WillShow(v)
  <2>1. down \in Seq(Packets) /\ UNCHANGED client
    BY DEF Wire
  <2> QED  BY <2>1, GrowShow
<1>2. \A i : SlotToCome(i) => SlotToCome(i)'
  BY GrowToCome DEF Wire
<1>3. CASE state[v] = "LOBBY"
  <2>1. WillShow(v) \/ \E i \in 0 .. Len(slots) - 1 : slots[i + 1] = v /\ SlotToCome(i)
    BY <1>3 DEF UserRight
  <2>2. ASSUME NEW i \in 0 .. Len(slots) - 1, slots[i + 1] = v, SlotToCome(i)
        PROVE  i \in 0 .. Len(slots') - 1 /\ slots'[i + 1] = v /\ SlotToCome(i)'
    BY <1>2, <2>2 DEF SlotsGrow
  <2>3. WillShow(v)' \/ \E i \in 0 .. Len(slots') - 1 : slots'[i + 1] = v /\ SlotToCome(i)'
    BY <1>1, <2>1, <2>2
  <2> QED  BY <1>3, <2>3 DEF UserRight
<1>4. CASE state[v] # "LOBBY"
  BY <1>1, <1>4 DEF UserRight
<1> QED  BY <1>3, <1>4

\* A user who is said to be there, ...
LEMMA EnteringUser ==
    ASSUME Wire, NEW packets, Len(packets) \in Nat, Grows(packets), UNCHANGED client,
           NEW u, state'[u] = "LOBBY", Len(packets) > 0, packets[1] = Enters(u),
           \A k \in 1 .. Len(packets) : ~SaysOut(packets[k], u)
    PROVE  UserRight(u)'
<1>1. 1 \in 1 .. Len(packets) /\ \A m \in 1 + 1 .. Len(packets) : m \in 1 .. Len(packets)
  OBVIOUS
<1>2. SaysIn(packets[1], u)
  BY NoticeSays
<1>3. WillShow(u)'
  BY <1>1, <1>2, GrowShow DEF Wire
<1> QED  BY <1>3 DEF UserRight

\* ... and one who is said to be gone.
LEMMA LeavingUser ==
    ASSUME Wire, NEW packets, Len(packets) \in Nat, Grows(packets), UNCHANGED client,
           NEW u, state'[u] # "LOBBY", Len(packets) > 0, packets[1] = Leaves(u),
           \A k \in 1 .. Len(packets) : ~SaysIn(packets[k], u)
    PROVE  UserRight(u)'
<1>1. 1 \in 1 .. Len(packets)
  OBVIOUS
<1>2. SaysOut(packets[1], u)
  BY NoticeSays
<1>3. ~WillShow(u)'
  BY <1>1, <1>2, GrowShow DEF Wire
<1> QED  BY <1>3 DEF UserRight

\* When a room is shown right, for a number that is its number of users.
LEMMA RoomRightIf ==
    \A r, n : UserCount(r) = n =>
        (RoomRight(r) <=> WillShowCount(r, n) \/ (WillShowCount(r, 0) /\ RoomToCome(r)))
BY DEF RoomRight

\* The same in the next state.
LEMMA RoomRightIfNext ==
    (\A r, n : UserCount(r) = n =>
        (RoomRight(r) <=> WillShowCount(r, n) \/ (WillShowCount(r, 0) /\ RoomToCome(r))))'
BY RoomRightIf, PTL

\* A room of which nothing is said, ...
LEMMA OtherRoom ==
    ASSUME Wire, NEW packets, Len(packets) \in Nat, Grows(packets), UNCHANGED <<up, client>>,
           NEW r, RoomRight(r), UserCount(r)' = UserCount(r),
           \A k \in 1 .. Len(packets) : ~SaysRoom(packets[k], r)
    PROVE  RoomRight(r)'
<1>0. down \in Seq(Packets) /\ UNCHANGED client /\ UNCHANGED up
  BY DEF Wire
<1>1. \A n : WillShowCount(r, n) => WillShowCount(r, n)'
  BY <1>0, GrowCount
<1>2. RoomToCome(r) => RoomToCome(r)'
  BY <1>0, GrowToCome
<1>3. PICK n : UserCount(r) = n
  OBVIOUS
<1>4. WillShowCount(r, n) \/ (WillShowCount(r, 0) /\ RoomToCome(r))
  BY <1>3, RoomRightIf
<1>5. UserCount(r)' = n
  BY <1>3
<1>6. WillShowCount(r, n)' \/ (WillShowCount(r, 0)' /\ RoomToCome(r)')
  BY <1>1, <1>2, <1>4
<1> QED  BY <1>5, <1>6, RoomRightIfNext

\* ... and one of which the number of its users is said last.
LEMMA ChangedRoom ==
    ASSUME Wire, NEW packets, Len(packets) \in Nat, Grows(packets), UNCHANGED client,
           NEW r, NEW k \in 1 .. Len(packets), NEW n, packets[k] = Changed(r, n),
           UserCount(r)' = n,
           \A m \in k + 1 .. Len(packets) : ~SaysRoom(packets[m], r)
    PROVE  RoomRight(r)'
<1>1. SaysRoom(packets[k], r) /\ CountOf(packets[k], r) = n
  BY NoticeSays
<1>2. WillShowCount(r, n)'
  BY <1>1, GrowCount DEF Wire
<1> QED  BY <1>2, RoomRightIfNext

-----------------------------------------------------------------------------

\* The members of a room can be counted.
LEMMA MembersFinite ==
    ASSUME NEW r, NEW st, NEW rm
    PROVE  IsFiniteSet(MembersOf(r, st, rm)) /\ Cardinality(MembersOf(r, st, rm)) \in Nat
BY FS_Subset, FS_CardinalityType, Limits DEF MembersOf

\* The number in a notice is the one the room then has.
LEMMA CountAfter ==
    ASSUME NEW r
    PROVE  UserCountAfter(r) = UserCount(r)' /\ UserCountAfter(r) \in Nat
<1>1. UserCountAfter(r) = UserCount(r)'
  BY DEF UserCountAfter, UserCount, MembersOf
<1>2. UserCountAfter(r) \in Nat
  BY MembersFinite DEF UserCountAfter
<1> QED  BY <1>1, <1>2

\* A room whose members are the same.
LEMMA MembersStay ==
    ASSUME NEW r, \A v \in Others : (state'[v] = "ROOM" /\ room'[v] = r)
                                     <=> (state[v] = "ROOM" /\ room[v] = r)
    PROVE  UserCount(r)' = UserCount(r) /\ UserCountAfter(r) = UserCount(r)
<1>1. MembersOf(r, state', room') = MembersOf(r, state, room)
  BY DEF MembersOf
<1> QED  BY <1>1, CountAfter DEF UserCount, UserCountAfter

\* A room that nobody enters, ...
LEMMA MembersLeave ==
    ASSUME NEW r, \A v \in Others : (state'[v] = "ROOM" /\ room'[v] = r)
                                     => (state[v] = "ROOM" /\ room[v] = r)
    PROVE  UserCount(r)' <= UserCount(r) /\ UserCount(r) \in Nat
<1>1. MembersOf(r, state', room') \subseteq MembersOf(r, state, room)
  BY DEF MembersOf
<1>2. Cardinality(MembersOf(r, state', room')) <= Cardinality(MembersOf(r, state, room))
  BY <1>1, MembersFinite, FS_Subset
<1>3. UserCountAfter(r) <= UserCount(r) /\ UserCount(r) \in Nat
  BY <1>2, MembersFinite DEF UserCount, UserCountAfter
<1> QED  BY <1>3, CountAfter

\* ... and one that somebody does.
LEMMA MemberJoins ==
    ASSUME NEW r, NEW u \in Others,
           \A v \in Others \ {u} : (state'[v] = "ROOM" /\ room'[v] = r)
                                    => (state[v] = "ROOM" /\ room[v] = r)
    PROVE  UserCount(r)' <= UserCount(r) + 1 /\ UserCount(r) \in Nat
<1> DEFINE M == MembersOf(r, state, room)
<1>1. MembersOf(r, state', room') \subseteq M \union {u}
  BY DEF MembersOf
<1>2. IsFiniteSet(M) /\ Cardinality(M) \in Nat
  BY MembersFinite
<1> HIDE DEF M
<1>3. IsFiniteSet(M \union {u}) /\ Cardinality(M \union {u}) <= Cardinality(M) + 1
      /\ Cardinality(M \union {u}) \in Nat
  BY <1>2, FS_AddElement, SMTT(30)
<1>4. Cardinality(MembersOf(r, state', room')) <= Cardinality(M \union {u})
  BY <1>1, <1>3, FS_Subset
<1>5. Cardinality(MembersOf(r, state', room')) \in Nat
  BY MembersFinite
<1>6. UserCountAfter(r) <= UserCount(r) + 1 /\ UserCount(r) \in Nat
  BY <1>2, <1>3, <1>4, <1>5 DEF UserCount, UserCountAfter, M
<1> QED  BY <1>6, CountAfter

-----------------------------------------------------------------------------
(* The handlers, for the other users *)

\* No slot is freed.
LEMMA SlotsStay == ASSUME slots' = slots PROVE SlotsGrow
BY DEF SlotsGrow

\* Everybody but u stays as he is.
OthersStay(u) ==
    \A v \in Users \ {u} :
        /\ state'[v] = state[v] /\ hasLobby'[v] = hasLobby[v] /\ room'[v] = room[v]
        /\ v \in ghost => v \in ghost'

\* A step of one user leaves the places of the others.
LEMMA MovePlaced ==
    ASSUME Placed, NEW u \in Others, OthersStay(u), SlotsGrow,
           state'[u] \in {"LOBBY", "ROOM"} =>
               hasLobby'[u] /\ \E i \in 0 .. Len(slots') - 1 : slots'[i + 1] = u,
           state'[u] = "ROOM" => room'[u] \in Rooms,
           \A r \in Rooms : UserCount(r)' <= RoomLimit
    PROVE  Placed' /\ state'[Viewer] = state[Viewer]
<1>0. u \in Users /\ u # Viewer /\ Viewer \in Users /\ Others \subseteq Users
  BY Limits DEF Users
<1>1. \A v \in Users : state'[v] \in {"LOBBY", "ROOM"} =>
        hasLobby'[v] /\ \E i \in 0 .. Len(slots') - 1 : slots'[i + 1] = v
  <2> SUFFICES ASSUME NEW v \in Users \ {u}, state'[v] \in {"LOBBY", "ROOM"}
               PROVE  hasLobby'[v] /\ \E i \in 0 .. Len(slots') - 1 : slots'[i + 1] = v
    OBVIOUS
  <2>1. hasLobby'[v] /\ \E i \in 0 .. Len(slots) - 1 : slots[i + 1] = v
    BY DEF Placed, OthersStay
  <2> QED  BY <2>1 DEF SlotsGrow
<1>2. \A v \in Others : state'[v] = "ROOM" => room'[v] \in Rooms
  BY <1>0 DEF Placed, OthersStay
<1>3. state'[Viewer] = state[Viewer]
  BY <1>0 DEF OthersStay
<1> QED  BY <1>1, <1>2, <1>3 DEF Placed

\* What is said of u and of room q changes nothing for the others and the other
\* rooms.
LEMMA MoveShown ==
    ASSUME Wire, UsersRight, RoomsRight,
           NEW packets, Len(packets) \in Nat, Grows(packets), UNCHANGED <<up, client>>,
           NEW u \in Others, OthersStay(u), SlotsGrow, UserRight(u)',
           NEW q, \A r \in Rooms \ {q} : UserCount(r)' = UserCount(r),
           q \in Rooms => RoomRight(q)',
           \A k \in 1 .. Len(packets) :
               packets[k] \in {Enters(u), Leaves(u)} \/ \E n : packets[k] = Changed(q, n)
    PROVE  UsersRight' /\ RoomsRight'
<1>1. ASSUME NEW v \in Others \ {u} PROVE UserRight(v)'
  <2>1. UserRight(v) /\ state'[v] = state[v] /\ (v \in ghost => v \in ghost')
    BY DEF UsersRight, OthersStay, Users
  <2>2. ~SaysIn(Enters(u), v) /\ ~SaysOut(Enters(u), v)
        /\ ~SaysIn(Leaves(u), v) /\ ~SaysOut(Leaves(u), v)
    BY NoticeSays
  <2>3. \A n : ~SaysIn(Changed(q, n), v) /\ ~SaysOut(Changed(q, n), v)
    BY NoticeSays
  <2>4. \A k \in 1 .. Len(packets) : ~SaysIn(packets[k], v) /\ ~SaysOut(packets[k], v)
    BY <2>2, <2>3
  <2> QED  BY <2>1, <2>4, OtherUser
<1>2. ASSUME NEW r \in Rooms \ {q} PROVE RoomRight(r)'
  <2>1. RoomRight(r) /\ UserCount(r)' = UserCount(r)
    BY DEF RoomsRight
  <2>2. ~SaysRoom(Enters(u), r) /\ ~SaysRoom(Leaves(u), r)
    BY NoticeSays
  <2>3. \A n : ~SaysRoom(Changed(q, n), r)
    BY NoticeSays
  <2>4. \A k \in 1 .. Len(packets) : ~SaysRoom(packets[k], r)
    BY <2>2, <2>3
  <2> QED  BY <2>1, <2>4, OtherRoom
<1>3. UsersRight'
  BY <1>1 DEF UsersRight
<1>4. RoomsRight'
  BY <1>2 DEF RoomsRight
<1> QED  BY <1>3, <1>4

\* The handler of LobbyEnter: a slot, and the notice of the entering.
LEMMA LobbyEnterKeeps == ASSUME IInv, Watched, NEW u \in Others, LobbyEnter(u) PROVE IInv'
<1> DEFINE packets == <<Enters(u)>>
<1>0. TypeOK /\ Wire /\ Placed
  BY DEF IInv
<1>1. /\ state[u] = "LOGIN" /\ Len(slots) < SlotCount
      /\ slots' = Append(slots, u)
      /\ state' = [state EXCEPT ![u] = "LOBBY"]
      /\ hasLobby' = [hasLobby EXCEPT ![u] = TRUE]
      /\ ghost' = ghost \ {u} /\ room' = room
      /\ Tell(packets) /\ UNCHANGED <<up, client, refused>>
  BY DEF LobbyEnter, EnterUser
<1>2. u \in Users /\ u # Viewer /\ Others \subseteq Users
  BY Limits DEF Users
<1>3. packets \in Seq(Notices)
  BY DEF Notices
<1>4. /\ state' \in [Users -> {"NONE", "LOGIN", "LOBBY", "ROOM"}] /\ state'[u] = "LOBBY"
      /\ hasLobby' \in [Users -> BOOLEAN] /\ hasLobby'[u]
  BY <1>0, <1>1, <1>2 DEF TypeOK
<1>5. OthersStay(u)
  BY <1>0, <1>1 DEF TypeOK, OthersStay
<1>6. /\ slots' \in Seq(Users) /\ Len(slots') = Len(slots) + 1 /\ Len(slots') <= SlotCount
      /\ \A i \in 1 .. Len(slots) : slots'[i] = slots[i]
      /\ slots'[Len(slots) + 1] = u /\ Len(slots) \in Nat
  BY <1>0, <1>1, <1>2, Limits DEF TypeOK
<1>7. SlotsGrow
  <2> SUFFICES ASSUME NEW i \in 0 .. Len(slots) - 1
               PROVE  i \in 0 .. Len(slots') - 1 /\ slots'[i + 1] = slots[i + 1]
    BY DEF SlotsGrow
  <2>1. i + 1 \in 1 .. Len(slots) /\ i \in 0 .. Len(slots') - 1
    BY <1>6
  <2> QED  BY <1>6, <2>1
<1>8. ServerTypes'
  BY <1>0, <1>1, <1>4, <1>6 DEF ServerTypes, TypeOK
<1>9. \A r : UserCount(r)' = UserCount(r)
  <2> SUFFICES ASSUME NEW r PROVE UserCount(r)' = UserCount(r)
    OBVIOUS
  <2>1. \A v \in Others : (state'[v] = "ROOM" /\ room'[v] = r)
                          <=> (state[v] = "ROOM" /\ room[v] = r)
    BY <1>1, <1>2, <1>4, <1>5 DEF OthersStay
  <2> QED  BY <2>1, MembersStay
<1>10. Placed' /\ state'[Viewer] = state[Viewer]
  <2>1. Len(slots) \in 0 .. Len(slots') - 1
    BY <1>6
  <2>2. \E i \in 0 .. Len(slots') - 1 : slots'[i + 1] = u
    BY <1>6, <2>1
  <2>3. \A r \in Rooms : UserCount(r)' <= RoomLimit
    BY <1>0, <1>9 DEF Placed
  <2> QED  BY <1>0, <1>4, <1>5, <1>7, <2>2, <2>3, MovePlaced
<1>11. ASSUME Grows(packets), UsersRight, RoomsRight PROVE UsersRight' /\ RoomsRight'
  <2>1. Len(packets) = 1 /\ Len(packets) \in Nat /\ packets[1] = Enters(u)
        /\ \A k \in 1 .. Len(packets) : packets[k] = Enters(u)
    OBVIOUS
  <2> HIDE DEF packets
  <2>2. UserRight(u)'
    <3>1. \A k \in 1 .. Len(packets) : ~SaysOut(packets[k], u)
      BY <2>1, NoticeSays
    <3> QED  BY <1>0, <1>1, <1>4, <1>11, <2>1, <3>1, EnteringUser
  <2>3. None \notin Rooms
    BY Limits DEF None, Rooms
  <2> QED  BY <1>0, <1>1, <1>5, <1>7, <1>9, <1>11, <2>1, <2>2, <2>3, MoveShown
<1> HIDE DEF packets
<1> QED  BY <1>1, <1>3, <1>8, <1>10, <1>11, MoveFrame

\* The handler of LobbyLeave: the notice of the leaving.
LEMMA LobbyLeaveKeeps == ASSUME IInv, Watched, NEW u \in Others, LobbyLeave(u) PROVE IInv'
<1> DEFINE packets == <<Leaves(u)>>
<1>0. TypeOK /\ Wire /\ Placed
  BY DEF IInv
<1>1. /\ state[u] = "LOBBY" /\ state' = [state EXCEPT ![u] = "LOGIN"]
      /\ Tell(packets) /\ UNCHANGED <<hasLobby, room, slots, ghost, up, client, refused>>
  BY DEF LobbyLeave
<1>2. u \in Users /\ u # Viewer /\ Others \subseteq Users
  BY Limits DEF Users
<1>3. packets \in Seq(Notices)
  BY DEF Notices
<1>4. state' \in [Users -> {"NONE", "LOGIN", "LOBBY", "ROOM"}] /\ state'[u] = "LOGIN"
  BY <1>0, <1>1, <1>2 DEF TypeOK
<1>5. OthersStay(u)
  BY <1>0, <1>1 DEF TypeOK, OthersStay
<1>7. SlotsGrow
  BY <1>1, SlotsStay
<1>8. ServerTypes'
  BY <1>0, <1>1, <1>4 DEF ServerTypes, TypeOK
<1>9. \A r : UserCount(r)' = UserCount(r)
  <2> SUFFICES ASSUME NEW r PROVE UserCount(r)' = UserCount(r)
    OBVIOUS
  <2>1. \A v \in Others : (state'[v] = "ROOM" /\ room'[v] = r)
                          <=> (state[v] = "ROOM" /\ room[v] = r)
    BY <1>1, <1>2, <1>4, <1>5 DEF OthersStay
  <2> QED  BY <2>1, MembersStay
<1>10. Placed' /\ state'[Viewer] = state[Viewer]
  <2>1. \A r \in Rooms : UserCount(r)' <= RoomLimit
    BY <1>0, <1>9 DEF Placed
  <2> QED  BY <1>0, <1>4, <1>5, <1>7, <2>1, MovePlaced
<1>11. ASSUME Grows(packets), UsersRight, RoomsRight PROVE UsersRight' /\ RoomsRight'
  <2>1. Len(packets) = 1 /\ Len(packets) \in Nat /\ packets[1] = Leaves(u)
        /\ \A k \in 1 .. Len(packets) : packets[k] = Leaves(u)
    OBVIOUS
  <2> HIDE DEF packets
  <2>2. UserRight(u)'
    <3>1. \A k \in 1 .. Len(packets) : ~SaysIn(packets[k], u)
      BY <2>1, NoticeSays
    <3> QED  BY <1>0, <1>1, <1>4, <1>11, <2>1, <3>1, LeavingUser
  <2>3. None \notin Rooms
    BY Limits DEF None, Rooms
  <2> QED  BY <1>0, <1>1, <1>5, <1>7, <1>9, <1>11, <2>1, <2>2, <2>3, MoveShown
<1> HIDE DEF packets
<1> QED  BY <1>1, <1>3, <1>8, <1>10, <1>11, MoveFrame

\* The handler of RoomEnter: gone from the lobby, one more in the room.
LEMMA RoomEnterKeeps ==
    ASSUME IInv, Watched, NEW u \in Others, NEW q \in Rooms, RoomEnter(u, q) PROVE IInv'
<1> DEFINE packets == <<Leaves(u), Changed(q, UserCountAfter(q))>>
<1>0. TypeOK /\ Wire /\ Placed
  BY DEF IInv
<1>1. /\ state[u] = "LOBBY" /\ UserCount(q) < RoomLimit
      /\ state' = [state EXCEPT ![u] = "ROOM"] /\ room' = [room EXCEPT ![u] = q]
      /\ Tell(packets) /\ UNCHANGED <<hasLobby, slots, ghost, up, client, refused>>
  BY DEF RoomEnter
<1>2. u \in Users /\ u # Viewer /\ Others \subseteq Users
  BY Limits DEF Users
<1>3. /\ state' \in [Users -> {"NONE", "LOGIN", "LOBBY", "ROOM"}] /\ state'[u] = "ROOM"
      /\ room' \in [Users -> Rooms \union {None}] /\ room'[u] = q
  BY <1>0, <1>1, <1>2 DEF TypeOK
<1>4. OthersStay(u)
  BY <1>0, <1>1 DEF TypeOK, OthersStay
<1>5. SlotsGrow
  BY <1>1, SlotsStay
<1>6. ServerTypes'
  BY <1>0, <1>1, <1>3 DEF ServerTypes, TypeOK
<1>7. UserCount(q)' <= UserCount(q) + 1 /\ UserCount(q) \in Nat
  <2>1. \A v \in Others \ {u} : (state'[v] = "ROOM" /\ room'[v] = q)
                                => (state[v] = "ROOM" /\ room[v] = q)
    BY <1>2, <1>4 DEF OthersStay
  <2> QED  BY <2>1, MemberJoins
<1>8. UserCountAfter(q) \in 0 .. RoomLimit /\ UserCountAfter(q) = UserCount(q)'
  <2>1. UserCountAfter(q) = UserCount(q)' /\ UserCountAfter(q) \in Nat
    BY CountAfter
  <2>2. UserCountAfter(q) <= UserCount(q) + 1
    BY <1>7, <2>1
  <2> QED  BY <1>1, <1>7, <2>1, <2>2, Limits
<1>9. \A r \in Rooms \ {q} : UserCount(r)' = UserCount(r)
  <2> SUFFICES ASSUME NEW r \in Rooms \ {q} PROVE UserCount(r)' = UserCount(r)
    OBVIOUS
  <2>1. \A v \in Others : (state'[v] = "ROOM" /\ room'[v] = r)
                          <=> (state[v] = "ROOM" /\ room[v] = r)
    BY <1>1, <1>2, <1>3, <1>4 DEF OthersStay
  <2> QED  BY <2>1, MembersStay
<1>10. Placed' /\ state'[Viewer] = state[Viewer]
  <2>1. \A r \in Rooms : UserCount(r)' <= RoomLimit
    <3>1. UserCount(q)' <= RoomLimit
      BY <1>8
    <3>2. \A r \in Rooms : UserCount(r) <= RoomLimit
      BY <1>0 DEF Placed
    <3> QED  BY <1>9, <3>1, <3>2
  <2>2. hasLobby'[u] /\ \E i \in 0 .. Len(slots') - 1 : slots'[i + 1] = u
    BY <1>0, <1>1, <1>2 DEF Placed
  <2> QED  BY <1>0, <1>3, <1>4, <1>5, <2>1, <2>2, MovePlaced
<1>11. PICK n : n = UserCountAfter(q)
  OBVIOUS
<1>12. packets = <<Leaves(u), Changed(q, n)>> /\ n \in 0 .. RoomLimit /\ UserCount(q)' = n
  BY <1>8, <1>11
<1> HIDE DEF packets
<1>13. packets \in Seq(Notices)
  BY <1>12 DEF Notices
<1>14. ASSUME Grows(packets), UsersRight, RoomsRight PROVE UsersRight' /\ RoomsRight'
  <2>1. Len(packets) = 2 /\ Len(packets) \in Nat
        /\ packets[1] = Leaves(u) /\ packets[2] = Changed(q, n)
    BY <1>12
  <2>2. \A k \in 1 .. Len(packets) : packets[k] = Leaves(u) \/ packets[k] = Changed(q, n)
    BY <2>1
  <2>3. UserRight(u)'
    <3>1. ~SaysIn(Leaves(u), u) /\ ~SaysIn(Changed(q, n), u)
      BY NoticeSays
    <3>2. \A k \in 1 .. Len(packets) : ~SaysIn(packets[k], u)
      BY <2>2, <3>1
    <3>3. UNCHANGED client /\ state'[u] # "LOBBY" /\ Len(packets) > 0
      BY <1>1, <1>3, <2>1
    <3> QED  BY <1>0, <1>14, <2>1, <3>2, <3>3, LeavingUser
  <2>4. RoomRight(q)'
    <3>1. 2 \in 1 .. Len(packets) /\ \A m \in 2 + 1 .. Len(packets) : ~SaysRoom(packets[m], q)
      BY <2>1
    <3> QED  BY <1>0, <1>1, <1>12, <1>14, <2>1, <3>1, ChangedRoom
  <2>5. \A k \in 1 .. Len(packets) :
          packets[k] \in {Enters(u), Leaves(u)} \/ \E c : packets[k] = Changed(q, c)
    BY <2>2
  <2> QED  BY <1>0, <1>1, <1>4, <1>5, <1>9, <1>14, <2>1, <2>3, <2>4, <2>5, MoveShown
<1> QED  BY <1>1, <1>6, <1>10, <1>13, <1>14, MoveFrame

\* The handler of RoomLeave: back in the lobby, one less in the room.
LEMMA RoomLeaveKeeps == ASSUME IInv, Watched, NEW u \in Others, RoomLeave(u) PROVE IInv'
<1> DEFINE packets == <<Enters(u), Changed(room[u], UserCountAfter(room[u]))>>
<1>0. TypeOK /\ Wire /\ Placed
  BY DEF IInv
<1>1. /\ state[u] = "ROOM" /\ state' = [state EXCEPT ![u] = "LOBBY"]
      /\ Tell(packets) /\ UNCHANGED <<hasLobby, room, slots, ghost, up, client, refused>>
  BY DEF RoomLeave
<1>2. u \in Users /\ u # Viewer /\ Others \subseteq Users
  BY Limits DEF Users
<1>3. state' \in [Users -> {"NONE", "LOGIN", "LOBBY", "ROOM"}] /\ state'[u] = "LOBBY"
  BY <1>0, <1>1, <1>2 DEF TypeOK
<1>4. OthersStay(u)
  BY <1>0, <1>1 DEF TypeOK, OthersStay
<1>5. SlotsGrow
  BY <1>1, SlotsStay
<1>6. ServerTypes'
  BY <1>0, <1>1, <1>3 DEF ServerTypes, TypeOK
<1>7. PICK q \in Rooms : q = room[u]
  BY <1>0, <1>1 DEF Placed
<1>8. PICK n : n = UserCountAfter(q)
  OBVIOUS
<1>9. packets = <<Enters(u), Changed(q, n)>>
  BY <1>7, <1>8
<1> HIDE DEF packets
<1>10. n \in 0 .. RoomLimit /\ UserCount(q)' = n
  <2>1. \A v \in Others : (state'[v] = "ROOM" /\ room'[v] = q)
                          => (state[v] = "ROOM" /\ room[v] = q)
    BY <1>1, <1>2, <1>3, <1>4 DEF OthersStay
  <2>2. UserCount(q)' <= UserCount(q) /\ UserCount(q) \in Nat
    BY <2>1, MembersLeave
  <2>3. UserCountAfter(q) = UserCount(q)' /\ UserCountAfter(q) \in Nat
    BY CountAfter
  <2>4. UserCount(q) <= RoomLimit
    BY <1>0 DEF Placed
  <2>5. n \in Nat /\ n <= UserCount(q)
    BY <1>8, <2>2, <2>3
  <2> QED  BY <1>8, <2>2, <2>3, <2>4, <2>5, Limits
<1>11. \A r \in Rooms \ {q} : UserCount(r)' = UserCount(r)
  <2> SUFFICES ASSUME NEW r \in Rooms \ {q} PROVE UserCount(r)' = UserCount(r)
    OBVIOUS
  <2>1. \A v \in Others : (state'[v] = "ROOM" /\ room'[v] = r)
                          <=> (state[v] = "ROOM" /\ room[v] = r)
    BY <1>1, <1>2, <1>3, <1>4, <1>7 DEF OthersStay
  <2> QED  BY <2>1, MembersStay
<1>12. Placed' /\ state'[Viewer] = state[Viewer]
  <2>1. \A r \in Rooms : UserCount(r)' <= RoomLimit
    <3>1. UserCount(q)' <= RoomLimit
      BY <1>10
    <3>2. \A r \in Rooms : UserCount(r) <= RoomLimit
      BY <1>0 DEF Placed
    <3> QED  BY <1>11, <3>1, <3>2
  <2>2. hasLobby'[u] /\ \E i \in 0 .. Len(slots') - 1 : slots'[i + 1] = u
    BY <1>0, <1>1, <1>2 DEF Placed
  <2> QED  BY <1>0, <1>3, <1>4, <1>5, <2>1, <2>2, MovePlaced
<1>13. packets \in Seq(Notices)
  BY <1>9, <1>10 DEF Notices
<1>14. ASSUME Grows(packets), UsersRight, RoomsRight PROVE UsersRight' /\ RoomsRight'
  <2>1. Len(packets) = 2 /\ Len(packets) \in Nat
        /\ packets[1] = Enters(u) /\ packets[2] = Changed(q, n)
    BY <1>9
  <2>2. \A k \in 1 .. Len(packets) : packets[k] = Enters(u) \/ packets[k] = Changed(q, n)
    BY <2>1
  <2>3. UserRight(u)'
    <3>1. ~SaysOut(Enters(u), u) /\ ~SaysOut(Changed(q, n), u)
      BY NoticeSays
    <3>2. \A k \in 1 .. Len(packets) : ~SaysOut(packets[k], u)
      BY <2>2, <3>1
    <3> QED  BY <1>0, <1>1, <1>3, <1>14, <2>1, <3>2, EnteringUser
  <2>4. RoomRight(q)'
    <3>1. 2 \in 1 .. Len(packets) /\ \A m \in 2 + 1 .. Len(packets) : ~SaysRoom(packets[m], q)
      BY <2>1
    <3> QED  BY <1>0, <1>1, <1>10, <1>14, <2>1, <3>1, ChangedRoom
  <2>5. \A k \in 1 .. Len(packets) :
          packets[k] \in {Enters(u), Leaves(u)} \/ \E c : packets[k] = Changed(q, c)
    BY <2>2
  <2> QED  BY <1>0, <1>1, <1>4, <1>5, <1>11, <1>14, <2>1, <2>3, <2>4, <2>5, MoveShown
<1> QED  BY <1>1, <1>6, <1>12, <1>13, <1>14, MoveFrame

\* A user who is not in the lobby, and of whom nothing is said.
LEMMA SilentUser ==
    ASSUME Wire, NEW packets, Len(packets) \in Nat, Grows(packets), UNCHANGED client,
           NEW u, UserRight(u), state'[u] # "LOBBY",
           \A k \in 1 .. Len(packets) : ~SaysIn(packets[k], u) /\ ~SaysOut(packets[k], u),
           state[u] = "LOBBY" => u \in ghost', u \in ghost => u \in ghost'
    PROVE  UserRight(u)'
<1>1. WillShow(u)' <=> WillShow(u)
  BY GrowShow DEF Wire
<1> QED  BY <1>1 DEF UserRight

\* The close: a leaving, a room with one less, or, by a stale index, a ghost.
LEMMA CloseKeeps ==
    ASSUME IInv, Watched, NEW u \in Others, NtfSysCloseSession(u)
    PROVE  IInv'
<1> DEFINE packets == IF ~hasLobby[u] THEN <<>>
                      ELSE IF room[u] = None THEN <<Leaves(u)>>
                      ELSE <<Changed(room[u], UserCountAfter(room[u]))>>
<1>0. TypeOK /\ Wire /\ Placed
  BY DEF IInv
<1>1. /\ state' = [state EXCEPT ![u] = "NONE"]
      /\ hasLobby' = [hasLobby EXCEPT ![u] = FALSE]
      /\ room' = [room EXCEPT ![u] = None]
      /\ ghost' = IF state[u] = "LOBBY" /\ room[u] # None THEN ghost \union {u} ELSE ghost
      /\ Tell(packets) /\ UNCHANGED <<slots, up, client, refused>>
  BY DEF NtfSysCloseSession
<1>2. u \in Users /\ u # Viewer /\ Others \subseteq Users
  BY Limits DEF Users
<1>3. /\ state' \in [Users -> {"NONE", "LOGIN", "LOBBY", "ROOM"}] /\ state'[u] = "NONE"
      /\ hasLobby' \in [Users -> BOOLEAN]
      /\ room' \in [Users -> Rooms \union {None}]
  BY <1>0, <1>1, <1>2 DEF TypeOK
<1>4. OthersStay(u)
  BY <1>0, <1>1 DEF TypeOK, OthersStay
<1>5. SlotsGrow
  BY <1>1, SlotsStay
<1>6. ServerTypes'
  BY <1>0, <1>1, <1>3 DEF ServerTypes, TypeOK
<1>7. room[u] \in Rooms \union {None} /\ None \notin Rooms
  BY <1>0, <1>2, Limits DEF TypeOK, None, Rooms
<1>8. /\ ~hasLobby[u] => state[u] \notin {"LOBBY", "ROOM"}
      /\ state[u] = "ROOM" => room[u] \in Rooms
  BY <1>0, <1>2 DEF Placed
<1>9. ASSUME NEW r \in Rooms, ~(state[u] = "ROOM" /\ room[u] = r)
      PROVE  UserCount(r)' = UserCount(r)
  <2>1. \A v \in Others : (state'[v] = "ROOM" /\ room'[v] = r)
                          <=> (state[v] = "ROOM" /\ room[v] = r)
    BY <1>2, <1>3, <1>4, <1>9 DEF OthersStay
  <2> QED  BY <2>1, MembersStay
<1>10. ASSUME NEW r PROVE UserCount(r)' <= UserCount(r) /\ UserCount(r) \in Nat
  <2>1. \A v \in Others : (state'[v] = "ROOM" /\ room'[v] = r)
                          => (state[v] = "ROOM" /\ room[v] = r)
    BY <1>2, <1>3, <1>4 DEF OthersStay
  <2> QED  BY <2>1, MembersLeave
<1>11. ASSUME NEW r \in Rooms
       PROVE  UserCountAfter(r) = UserCount(r)' /\ UserCountAfter(r) \in 0 .. RoomLimit
  <2>1. UserCountAfter(r) = UserCount(r)' /\ UserCountAfter(r) \in Nat
    BY CountAfter
  <2>2. UserCount(r)' <= UserCount(r) /\ UserCount(r) \in Nat
    BY <1>10
  <2>3. UserCount(r) <= RoomLimit
    BY <1>0 DEF Placed
  <2>4. UserCountAfter(r) <= UserCount(r)
    BY <2>1, <2>2
  <2> QED  BY <2>1, <2>2, <2>3, <2>4, Limits
<1>12. Placed' /\ state'[Viewer] = state[Viewer]
  <2>1. \A r \in Rooms : UserCount(r)' <= RoomLimit
    BY <1>11
  <2> QED  BY <1>0, <1>3, <1>4, <1>5, <2>1, MovePlaced
<1>13. UNCHANGED client /\ UNCHANGED up /\ UNCHANGED <<up, client>>
  BY <1>1
<1>14. CASE ~hasLobby[u]
  <2>1. packets = <<>>
    BY <1>14
  <2> HIDE DEF packets
  <2>2. packets \in Seq(Notices) /\ Len(packets) = 0 /\ Len(packets) \in Nat
    BY <2>1
  <2>3. ASSUME Grows(packets), UsersRight, RoomsRight PROVE UsersRight' /\ RoomsRight'
    <3>1. UserRight(u)'
      <4>1. UserRight(u) /\ state[u] # "LOBBY" /\ ghost' = ghost
        BY <1>1, <1>8, <1>14, <2>3 DEF UsersRight
      <4> QED  BY <1>0, <1>3, <1>13, <2>2, <2>3, <4>1, SilentUser
    <3>2. \A r \in Rooms \ {None} : UserCount(r)' = UserCount(r)
      BY <1>8, <1>9, <1>14
    <3> QED  BY <1>0, <1>4, <1>5, <1>7, <1>13, <2>2, <2>3, <3>1, <3>2, MoveShown
  <2> QED  BY <1>1, <1>6, <1>12, <2>2, <2>3, MoveFrame
<1>15. CASE hasLobby[u] /\ room[u] = None
  <2>1. packets = <<Leaves(u)>>
    BY <1>15
  <2> HIDE DEF packets
  <2>2. packets \in Seq(Notices)
    BY <2>1 DEF Notices
  <2>3. ASSUME Grows(packets), UsersRight, RoomsRight PROVE UsersRight' /\ RoomsRight'
    <3>0. Len(packets) = 1 /\ Len(packets) \in Nat /\ Len(packets) > 0
          /\ packets[1] = Leaves(u) /\ \A k \in 1 .. Len(packets) : packets[k] = Leaves(u)
      BY <2>1
    <3>1. UserRight(u)'
      <4>1. \A k \in 1 .. Len(packets) : ~SaysIn(packets[k], u)
        BY <3>0, NoticeSays
      <4>2. state'[u] # "LOBBY"
        BY <1>3
      <4> QED  BY <1>0, <1>13, <2>3, <3>0, <4>1, <4>2, LeavingUser
    <3>2. \A r \in Rooms \ {None} : UserCount(r)' = UserCount(r)
      BY <1>7, <1>9, <1>15
    <3> QED  BY <1>0, <1>4, <1>5, <1>7, <1>13, <2>3, <3>0, <3>1, <3>2, MoveShown
  <2> QED  BY <1>1, <1>6, <1>12, <2>2, <2>3, MoveFrame
<1>16. CASE hasLobby[u] /\ room[u] # None
  <2>1. PICK q \in Rooms : q = room[u]
    BY <1>7, <1>16
  <2>2. PICK n : n = UserCountAfter(q)
    OBVIOUS
  <2>3. packets = <<Changed(q, n)>>
    BY <1>16, <2>1, <2>2
  <2> HIDE DEF packets
  <2>4. n \in 0 .. RoomLimit /\ UserCount(q)' = n
    BY <1>11, <2>2
  <2>5. packets \in Seq(Notices)
    BY <2>3, <2>4 DEF Notices
  <2>6. ASSUME Grows(packets), UsersRight, RoomsRight PROVE UsersRight' /\ RoomsRight'
    <3>0. Len(packets) = 1 /\ Len(packets) \in Nat
          /\ packets[1] = Changed(q, n)
          /\ \A k \in 1 .. Len(packets) : packets[k] = Changed(q, n)
      BY <2>3
    <3>1. UserRight(u)'
      <4>1. \A k \in 1 .. Len(packets) : ~SaysIn(packets[k], u) /\ ~SaysOut(packets[k], u)
        BY <3>0, NoticeSays
      <4>2. UserRight(u) /\ state'[u] # "LOBBY"
        BY <1>3, <2>6 DEF UsersRight
      <4>3. (state[u] = "LOBBY" => u \in ghost') /\ (u \in ghost => u \in ghost')
        BY <1>1, <1>16
      <4> QED  BY <1>0, <1>13, <2>6, <3>0, <4>1, <4>2, <4>3, SilentUser
    <3>2. \A r \in Rooms \ {q} : UserCount(r)' = UserCount(r)
      BY <1>9, <2>1
    <3>3. RoomRight(q)'
      <4>1. 1 \in 1 .. Len(packets)
            /\ \A m \in 1 + 1 .. Len(packets) : ~SaysRoom(packets[m], q)
        BY <3>0
      <4> QED  BY <1>0, <1>13, <2>4, <2>6, <3>0, <4>1, ChangedRoom
    <3>4. \A k \in 1 .. Len(packets) :
            packets[k] \in {Enters(u), Leaves(u)} \/ \E c : packets[k] = Changed(q, c)
      BY <3>0
    <3> QED  BY <1>0, <1>4, <1>5, <1>13, <2>6, <3>0, <3>1, <3>2, <3>3, <3>4, MoveShown
  <2> QED  BY <1>1, <1>6, <1>12, <2>5, <2>6, MoveFrame
<1> QED  BY <1>14, <1>15, <1>16, Zenon

-----------------------------------------------------------------------------
(* Login, and the client that enters *)

\* A login is no news for the lobby.
LEMMA LoginKeeps == ASSUME IInv, NEW u \in Users, Login(u) PROVE IInv'
<1>0. TypeOK /\ Wire /\ Placed /\ InTurn /\ OneRow /\ ShownRight
  BY DEF IInv
<1>1. /\ state[u] = "NONE" /\ state' = [state EXCEPT ![u] = "LOGIN"]
      /\ hasLobby' = hasLobby /\ room' = room /\ slots' = slots /\ ghost' = ghost
      /\ down' = down /\ up' = up /\ lost' = lost /\ refused' = refused
      /\ phase' = phase /\ roomList' = roomList /\ userList' = userList
      /\ roomRows' = roomRows /\ userRows' = userRows
  BY DEF Login, client
<1>2. state' \in [Users -> {"NONE", "LOGIN", "LOBBY", "ROOM"}]
  BY <1>0, <1>1 DEF TypeOK
<1>3. \A v \in Users : /\ state'[v] = "LOBBY" <=> state[v] = "LOBBY"
                       /\ state'[v] = "ROOM" <=> state[v] = "ROOM"
  BY <1>0, <1>1 DEF TypeOK
<1>4. Viewer \in Users /\ Others \subseteq Users
  BY DEF Users
<1>5. \A r : UserCount(r)' = UserCount(r)
  <2> SUFFICES ASSUME NEW r PROVE UserCount(r)' = UserCount(r)
    OBVIOUS
  <2>1. \A v \in Others : (state'[v] = "ROOM" /\ room'[v] = r)
                          <=> (state[v] = "ROOM" /\ room[v] = r)
    BY <1>1, <1>3, <1>4
  <2> QED  BY <2>1, MembersStay
<1>6. TypeOK'
  BY <1>0, <1>1, <1>2 DEF TypeOK
<1>7. Wire'
  BY <1>0, <1>1 DEF Wire
<1>8. Placed'
  <2>1. \A v \in Users : state'[v] \in {"LOBBY", "ROOM"} => state[v] \in {"LOBBY", "ROOM"}
    BY <1>3
  <2>2. state'[Viewer] # "ROOM"
    BY <1>0, <1>3, <1>4 DEF Placed
  <2>3. \A v \in Others : state'[v] = "ROOM" => room'[v] \in Rooms
    BY <1>0, <1>1, <1>3, <1>4 DEF Placed
  <2>4. \A r \in Rooms : UserCount(r)' <= RoomLimit
    BY <1>0, <1>5 DEF Placed
  <2>5. \A v \in Users : state'[v] \in {"LOBBY", "ROOM"} =>
          hasLobby'[v] /\ \E i \in 0 .. Len(slots') - 1 : slots'[i + 1] = v
    BY <1>0, <1>1, <2>1 DEF Placed
  <2> QED  BY <2>2, <2>3, <2>4, <2>5 DEF Placed
<1>9. InTurn'
  <2>1. state'[Viewer] # "LOBBY" => state[Viewer] # "LOBBY"
    BY <1>3, <1>4
  <2> QED  BY <1>0, <1>1, <2>1 DEF InTurn, IsAnswer, Due, NoAnswer
<1>10. OneRow'
  BY <1>0, <1>1 DEF OneRow
<1>11. ShownRight'
  <2> SUFFICES ASSUME Watched'
               PROVE  (EnteredFirst /\ BoxesEmpty /\ UsersRight /\ RoomsRight)'
    BY DEF ShownRight
  <2>1. EnteredFirst /\ BoxesEmpty /\ UsersRight /\ RoomsRight
    BY <1>0, <1>1 DEF ShownRight, Watched
  <2>2. EnteredFirst'
    BY <1>1, <1>3, <1>4, <2>1 DEF EnteredFirst
  <2>3. BoxesEmpty'
    BY <1>1, <2>1 DEF BoxesEmpty
  <2>4. ASSUME NEW v \in Others PROVE UserRight(v)'
    <3>1. WillShow(v)' <=> WillShow(v)
      BY <1>1 DEF WillShow, Shows, SaysIn, SaysOut
    <3>2. \A i : SlotToCome(i)' <=> SlotToCome(i)
      BY <1>1 DEF SlotToCome
    <3>3. UserRight(v) /\ (state'[v] = "LOBBY" <=> state[v] = "LOBBY")
      BY <1>3, <1>4, <2>1 DEF UsersRight
    <3> QED  BY <1>1, <3>1, <3>2, <3>3 DEF UserRight
  <2>5. ASSUME NEW r \in Rooms PROVE RoomRight(r)'
    <3>1. \A n : WillShowCount(r, n)' <=> WillShowCount(r, n)
      BY <1>1 DEF WillShowCount, ShowsCount, SaysRoom, CountOf
    <3>2. RoomToCome(r)' <=> RoomToCome(r)
      BY <1>1 DEF RoomToCome
    <3>3. RoomRight(r)
      BY <2>1 DEF RoomsRight
    <3>4. PICK n : UserCount(r) = n
      OBVIOUS
    <3>5. WillShowCount(r, n) \/ (WillShowCount(r, 0) /\ RoomToCome(r))
      BY <3>3, <3>4, RoomRightIf
    <3>6. UserCount(r)' = n
      BY <1>5, <3>4
    <3>7. WillShowCount(r, n)' \/ (WillShowCount(r, 0)' /\ RoomToCome(r)')
      BY <3>1, <3>2, <3>5
    <3> QED  BY <3>6, <3>7, RoomRightIfNext
  <2> QED  BY <2>2, <2>3, <2>4, <2>5 DEF UsersRight, RoomsRight
<1> QED  BY <1>6, <1>7, <1>8, <1>9, <1>10, <1>11 DEF IInv

\* The client enters: its own notice, then the answer.
LEMMA ViewerEntersKeeps == ASSUME IInv, ViewerEnters PROVE IInv'
<1> DEFINE packets == <<Enters(Viewer), Entered>>
<1>0. TypeOK /\ Wire /\ Placed /\ InTurn /\ OneRow /\ ShownRight
  BY DEF IInv
<1>1. /\ state[Viewer] = "LOGIN" /\ Len(slots) < SlotCount
      /\ slots' = Append(slots, Viewer)
      /\ state' = [state EXCEPT ![Viewer] = "LOBBY"]
      /\ hasLobby' = [hasLobby EXCEPT ![Viewer] = TRUE]
      /\ ghost' = ghost \ {Viewer} /\ room' = room
      /\ Send(packets) /\ up' = up /\ refused' = refused
      /\ phase' = phase /\ roomList' = roomList /\ userList' = userList
      /\ roomRows' = roomRows /\ userRows' = userRows
  BY DEF ViewerEnters, EnterUser, client
<1>2. Viewer \in Users /\ Others \subseteq Users /\ Viewer \notin Others
  BY Limits DEF Users
<1>3. phase = "out" /\ down = <<>> /\ up = <<>>
  BY <1>0, <1>1 DEF InTurn
<1>4. /\ packets \in Seq(Packets) /\ Len(packets) = 2
      /\ packets[1] = Enters(Viewer) /\ packets[2] = Entered
  BY <1>2 DEF Packets
<1>5. down \in Seq(Packets) /\ Len(down) <= MaxDown /\ lost \in BOOLEAN
  BY <1>0 DEF Wire, TypeOK
<1> HIDE DEF packets
<1>6. /\ down' \in Seq(Packets) /\ Added(packets)
      /\ lost' \in BOOLEAN
      /\ ~lost' => ~lost /\ Grows(packets)
  BY <1>1, <1>4, <1>5, SendAdds
<1>7. /\ state' \in [Users -> {"NONE", "LOGIN", "LOBBY", "ROOM"}] /\ state'[Viewer] = "LOBBY"
      /\ \A v \in Others : state'[v] = state[v]
      /\ hasLobby' \in [Users -> BOOLEAN] /\ hasLobby'[Viewer]
      /\ \A v \in Others : hasLobby'[v] = hasLobby[v]
  BY <1>0, <1>1, <1>2 DEF TypeOK
<1>8. /\ slots' \in Seq(Users) /\ Len(slots') = Len(slots) + 1 /\ Len(slots') <= SlotCount
      /\ \A i \in 1 .. Len(slots) : slots'[i] = slots[i]
      /\ slots'[Len(slots) + 1] = Viewer /\ Len(slots) \in Nat
  BY <1>0, <1>1, <1>2, Limits DEF TypeOK
<1>9. TypeOK'
  <2>1. Len(down') <= MaxDown
    BY <1>6 DEF Added
  <2> QED  BY <1>0, <1>1, <1>2, <1>6, <1>7, <1>8, <2>1 DEF TypeOK
<1>10. Wire'
  <2>1. \A k \in 1 .. Len(packets) : Goes(packets[k])
    BY <1>4, NoticeSays
  <2>2. up' \in Seq(Requests) /\ Len(packets) \in Nat
    BY <1>0, <1>1, <1>4 DEF Wire
  <2> QED  BY <1>0, <1>6, <2>1, <2>2, AddedKeepsWire
<1>11. \A r : UserCount(r)' = UserCount(r)
  <2> SUFFICES ASSUME NEW r PROVE UserCount(r)' = UserCount(r)
    OBVIOUS
  <2>1. \A v \in Others : (state'[v] = "ROOM" /\ room'[v] = r)
                          <=> (state[v] = "ROOM" /\ room[v] = r)
    BY <1>1, <1>7
  <2> QED  BY <2>1, MembersStay
<1>12. Placed'
  <2>1. \A v \in Users : state'[v] \in {"LOBBY", "ROOM"} =>
          hasLobby'[v] /\ \E i \in 0 .. Len(slots') - 1 : slots'[i + 1] = v
    <3> SUFFICES ASSUME NEW v \in Users, state'[v] \in {"LOBBY", "ROOM"}
                 PROVE  hasLobby'[v] /\ \E i \in 0 .. Len(slots') - 1 : slots'[i + 1] = v
      OBVIOUS
    <3>1. CASE v = Viewer
      <4>1. Len(slots) \in 0 .. Len(slots') - 1
        BY <1>8
      <4> QED  BY <1>7, <1>8, <3>1, <4>1
    <3>2. CASE v # Viewer
      <4>1. v \in Others
        BY <3>2 DEF Users
      <4>2. hasLobby[v] /\ \E i \in 0 .. Len(slots) - 1 : slots[i + 1] = v
        BY <1>0, <1>7, <4>1 DEF Placed
      <4>3. \A i \in 0 .. Len(slots) - 1 : i \in 0 .. Len(slots') - 1 /\ i + 1 \in 1 .. Len(slots)
        BY <1>8
      <4> QED  BY <1>7, <1>8, <4>1, <4>2, <4>3
    <3> QED  BY <3>1, <3>2
  <2>2. \A v \in Others : state'[v] = "ROOM" => room'[v] \in Rooms
    BY <1>0, <1>1, <1>7 DEF Placed
  <2>3. \A r \in Rooms : UserCount(r)' <= RoomLimit
    BY <1>0, <1>11 DEF Placed
  <2>4. state'[Viewer] # "ROOM"
    BY <1>7
  <2> QED  BY <2>1, <2>2, <2>3, <2>4 DEF Placed
<1>13. Len(down') <= 2 /\ Len(down') \in Nat /\ \A i \in 1 .. Len(down') : down'[i] = packets[i]
  <2>1. Len(down) = 0
    BY <1>3
  <2>2. Len(down') \in 0 .. 2
    BY <1>4, <1>6, <2>1 DEF Added
  <2>3. \A i \in 1 .. Len(down') : i \in Len(down) + 1 .. Len(down') /\ i - Len(down) = i
    BY <2>1, <2>2
  <2> QED  BY <1>6, <2>2, <2>3 DEF Added
<1>14. InTurn'
  <2>1. refused = None
    BY <1>0, <1>3 DEF InTurn
  <2>2. ~IsAnswer(packets[1]) /\ packets[2].kind = "LOBBY_ENTER_RES"
    BY <1>4, NoticeSays DEF Entered
  <2>3. \A i \in 1 .. Len(down') : IsAnswer(down'[i]) => i = 2 /\ down'[i] = packets[2]
    BY <1>13, <2>2
  <2>4. \A i \in 1 .. Len(down') : IsAnswer(down'[i]) =>
         /\ Due(down[i].kind)' /\ up' = <<>>
         /\ \A j \in 1 .. Len(down') : IsAnswer(down'[j]) => j = i
    <3> SUFFICES ASSUME NEW i \in 1 .. Len(down'), IsAnswer(down'[i])
                 PROVE  Due(down[i].kind)' /\ up' = <<>>
                        /\ \A j \in 1 .. Len(down') : IsAnswer(down'[j]) => j = i
      OBVIOUS
    <3>1. i = 2 /\ down'[i].kind = "LOBBY_ENTER_RES"
      BY <2>2, <2>3
    <3>2. Due(down[i].kind)'
      BY <1>1, <1>3, <3>1 DEF Due
    <3> QED  BY <1>1, <1>3, <2>3, <3>1, <3>2
  <2> QED  BY <1>1, <1>3, <1>7, <2>1, <2>4 DEF InTurn
<1>15. OneRow'
  BY <1>0, <1>1 DEF OneRow
<1>16. ShownRight'
  <2> SUFFICES ASSUME Watched'
               PROVE  (EnteredFirst /\ BoxesEmpty /\ UsersRight /\ RoomsRight)'
    BY DEF ShownRight
  <2>1. ~lost /\ Grows(packets) /\ BoxesEmpty
    BY <1>0, <1>1, <1>6 DEF ShownRight, Watched
  <2>2. Len(down') = 2 /\ down'[1] = Enters(Viewer) /\ down'[2] = Entered
    <3>1. Len(down') = 2
      BY <1>3, <1>4, <2>1 DEF Grows
    <3> QED  BY <1>4, <1>13, <3>1
  <2>3. EnteredFirst'
    <3>1. down' # <<>> /\ Len(down') > 1
      BY <2>2
    <3> QED  BY <2>2, <3>1 DEF EnteredFirst, Enters, Entered
  <2>4. BoxesEmpty'
    BY <1>1, <2>1 DEF BoxesEmpty
  <2>5. ASSUME NEW v \in Others PROVE UserRight(v)'
    <3>1. \A i : SlotToCome(i)'
      BY <1>1, <1>3 DEF SlotToCome
    <3>2. state'[v] = "LOBBY" => \E i \in 0 .. Len(slots') - 1 : slots'[i + 1] = v
      BY <1>2, <1>12 DEF Placed
    <3>3. ~WillShow(v)'
      <4>1. ~Shows(v)'
        BY <1>1, <1>3 DEF Shows
      <4>2. ~SaysIn(Enters(Viewer), v) /\ ~SaysIn(Entered, v)
        BY <1>2, NoticeSays
      <4>3. \A i \in 1 .. Len(down') : i = 1 \/ i = 2
        BY <2>2
      <4>4. \A i \in 1 .. Len(down') : ~SaysIn(down'[i], v)
        BY <2>2, <4>2, <4>3
      <4> QED  BY <4>1, <4>4 DEF WillShow
    <3> QED  BY <3>1, <3>2, <3>3 DEF UserRight
  <2>6. ASSUME NEW r \in Rooms PROVE RoomRight(r)'
    <3>1. ShowsCount(r)' = 0 /\ RoomToCome(r)'
      BY <1>1, <1>3 DEF ShowsCount, RoomToCome
    <3>2. \A i \in 1 .. Len(down') : ~SaysRoom(down'[i], r)
      <4>1. ~SaysRoom(Enters(Viewer), r) /\ ~SaysRoom(Entered, r)
        BY NoticeSays
      <4>3. \A i \in 1 .. Len(down') : i = 1 \/ i = 2
        BY <2>2
      <4> QED  BY <2>2, <4>1, <4>3
    <3>3. WillShowCount(r, 0)'
      BY <3>1, <3>2 DEF WillShowCount
    <3> QED  BY <3>1, <3>3 DEF RoomRight
  <2> QED  BY <2>3, <2>4, <2>5, <2>6 DEF UsersRight, RoomsRight
<1> QED  BY <1>9, <1>10, <1>12, <1>14, <1>15, <1>16 DEF IInv

-----------------------------------------------------------------------------
(* The answers to the list requests *)

\* The head of a sequence of at most one element.
LEMMA OneElement ==
    ASSUME NEW S, NEW s \in Seq(S), s # <<>>, Len(s) <= 1
    PROVE  Head(s) = s[1] /\ s[1] \in S /\ Tail(s) = <<>>
<1> DEFINE n == Len(s)
           t == Tail(s)
<1>1. n \in Nat \ {0} /\ n <= 1
  BY EmptySeq
<1>2. t \in Seq(S) /\ Len(t) = n - 1
  BY HeadTailProperties
<1>3. s[1] \in S /\ Head(s) = s[1]
  BY HeadTailProperties
<1> HIDE DEF n, t
<1>4. n = 1
  BY <1>1
<1>5. t = <<>>
  BY <1>2, <1>4, EmptySeq
<1> QED  BY <1>3, <1>5 DEF t

\* The request that is under way.
LEMMA RequestFacts ==
    ASSUME Wire, InTurn, up # <<>>
    PROVE  /\ Head(up) = up[1] /\ up[1] \in Requests /\ up[1].start \in Nat
           /\ Tail(up) = <<>> /\ refused = None /\ NoAnswer /\ state[Viewer] = "LOBBY"
           /\ \/ phase = "rooms" /\ up[1].kind = "LOBBY_ENTER_ROOM_LIST_REQ"
              \/ phase = "users" /\ up[1].kind = "LOBBY_ENTER_USER_LIST_REQ"
<1>1. up \in Seq(Requests) /\ Len(up) <= 1
  BY DEF Wire, InTurn
<1>2. Head(up) = up[1] /\ up[1] \in Requests /\ Tail(up) = <<>>
  BY <1>1, OneElement
<1>3. up[1].start \in Nat
  <2>1. PICK kind \in {"LOBBY_ENTER_ROOM_LIST_REQ", "LOBBY_ENTER_USER_LIST_REQ"}, start \in Nat :
          up[1] = ListReq(kind, start)
    <3>1. \A q \in Requests :
            \E kind \in {"LOBBY_ENTER_ROOM_LIST_REQ", "LOBBY_ENTER_USER_LIST_REQ"}, start \in Nat :
              q = ListReq(kind, start)
      BY DEF Requests
    <3> QED  BY <1>2, <3>1
  <2> QED  BY <2>1 DEF ListReq
<1>4. refused = None /\ state[Viewer] = "LOBBY"
      /\ \/ phase = "rooms" /\ up[1].kind = "LOBBY_ENTER_ROOM_LIST_REQ"
         \/ phase = "users" /\ up[1].kind = "LOBBY_ENTER_USER_LIST_REQ"
  BY DEF InTurn
<1>5. NoAnswer
  BY DEF InTurn, NoAnswer
<1> QED  BY <1>2, <1>3, <1>4, <1>5

\* A request that is refused ends the client's fetching.
LEMMA RefusedKeeps ==
    ASSUME IInv, up # <<>>, up' = <<>>, UNCHANGED <<server, client, down, lost>>,
           refused' = up[1].start
    PROVE  IInv'
<1>0. TypeOK /\ Wire /\ Placed /\ InTurn /\ OneRow
  BY DEF IInv
<1>1. /\ state' = state /\ hasLobby' = hasLobby /\ room' = room /\ slots' = slots
      /\ ghost' = ghost /\ phase' = phase /\ roomList' = roomList /\ userList' = userList
      /\ roomRows' = roomRows /\ userRows' = userRows /\ down' = down /\ lost' = lost
  BY DEF server, client
<1>2. /\ up' = <<>> /\ refused' \in Nat /\ NoAnswer /\ state[Viewer] = "LOBBY"
      /\ phase \in {"rooms", "users"}
  <2>1. /\ up[1].start \in Nat /\ NoAnswer /\ state[Viewer] = "LOBBY"
        /\ phase \in {"rooms", "users"}
    BY <1>0, RequestFacts
  <2> QED  BY <2>1
<1>3. TypeOK'
  <2>1. Len(up') <= 1 /\ refused' \in Int
    <3>1. Len(up') = 0
      BY <1>2, EmptySeq
    <3> QED  BY <1>2, <3>1
  <2> QED  BY <1>0, <1>1, <2>1 DEF TypeOK
<1>4. Wire'
  BY <1>0, <1>1, <1>2 DEF Wire
<1>5. Placed'
  BY <1>0, <1>1 DEF Placed, UserCount, MembersOf
<1>6. InTurn'
  <2>1. Len(up') <= 1 /\ NoAnswer'
    BY <1>1, <1>2 DEF NoAnswer
  <2>2. \A i \in 1 .. Len(down') : ~IsAnswer(down'[i])
    BY <1>1, <1>2 DEF NoAnswer
  <2> QED  BY <1>1, <1>2, <2>1, <2>2 DEF InTurn
<1>7. OneRow'
  BY <1>0, <1>1 DEF OneRow
<1>8. ~Watched'
  BY <1>2 DEF Watched, None
<1> QED  BY <1>3, <1>4, <1>5, <1>6, <1>7, <1>8 DEF IInv, ShownRight

\* The frame of the answers.
LEMMA AnswerFrame ==
    ASSUME IInv, up # <<>>, up' = <<>>, UNCHANGED <<server, client, refused>>,
           NEW p \in Packets, Send(<<p>>), Goes(p), IsAnswer(p), Due(p.kind),
           Watched /\ Grows(<<p>>) /\ UsersRight /\ RoomsRight => UsersRight' /\ RoomsRight'
    PROVE  IInv'
<1> DEFINE packets == <<p>>
<1>0. TypeOK /\ Wire /\ Placed /\ InTurn /\ OneRow /\ ShownRight
  BY DEF IInv
<1>1. /\ state' = state /\ hasLobby' = hasLobby /\ room' = room /\ slots' = slots
      /\ ghost' = ghost /\ phase' = phase /\ roomList' = roomList /\ userList' = userList
      /\ roomRows' = roomRows /\ userRows' = userRows /\ refused' = refused
  BY DEF server, client
<1>2. /\ up' = <<>> /\ refused = None /\ NoAnswer /\ state[Viewer] = "LOBBY"
      /\ phase \in {"rooms", "users"}
  BY <1>0, RequestFacts
<1>3. packets \in Seq(Packets) /\ Len(packets) = 1 /\ Len(packets) \in Nat /\ packets[1] = p
  OBVIOUS
<1> HIDE DEF packets
<1>4. down \in Seq(Packets) /\ Len(down) <= MaxDown /\ lost \in BOOLEAN
  BY <1>0 DEF Wire, TypeOK
<1>5. /\ down' \in Seq(Packets) /\ Added(packets)
      /\ lost' \in BOOLEAN
      /\ ~lost' => ~lost /\ Grows(packets)
  BY <1>3, <1>4, SendAdds DEF packets
<1>6. TypeOK'
  <2>1. Len(down') <= MaxDown /\ Len(up') <= 1
    <3>1. Len(up') = 0
      BY <1>2, EmptySeq
    <3> QED  BY <1>5, <3>1 DEF Added
  <2> QED  BY <1>0, <1>1, <1>5, <2>1 DEF TypeOK
<1>7. Wire'
  <2>1. up' \in Seq(Requests) /\ \A k \in 1 .. Len(packets) : Goes(packets[k])
    BY <1>2, <1>3
  <2> QED  BY <1>0, <1>3, <1>5, <2>1, AddedKeepsWire
<1>8. Placed'
  BY <1>0, <1>1 DEF Placed, UserCount, MembersOf
<1>9. InTurn'
  <2>1. \A i \in 1 .. Len(down') : IsAnswer(down'[i]) => i = Len(down) + 1 /\ down'[i] = p
    <3> SUFFICES ASSUME NEW i \in 1 .. Len(down'), IsAnswer(down'[i])
                 PROVE  i = Len(down) + 1 /\ down'[i] = p
      OBVIOUS
    <3>1. Len(down) \in Nat /\ Len(down') \in Len(down) .. Len(down) + 1
      BY <1>3, <1>4, <1>5 DEF Added
    <3>2. i \notin 1 .. Len(down)
      BY <1>2, <1>5 DEF Added, NoAnswer
    <3>3. i = Len(down) + 1 /\ i - Len(down) = 1 /\ i \in Len(down) + 1 .. Len(down')
      BY <3>1, <3>2
    <3>4. down'[i] = packets[i - Len(down)]
      BY <1>5, <3>3 DEF Added
    <3> QED  BY <1>3, <3>3, <3>4
  <2>2. \A i \in 1 .. Len(down') : IsAnswer(down'[i]) =>
         /\ Due(down[i].kind)' /\ up' = <<>>
         /\ \A j \in 1 .. Len(down') : IsAnswer(down'[j]) => j = i
    <3> SUFFICES ASSUME NEW i \in 1 .. Len(down'), IsAnswer(down'[i])
                 PROVE  Due(down[i].kind)' /\ up' = <<>>
                        /\ \A j \in 1 .. Len(down') : IsAnswer(down'[j]) => j = i
      OBVIOUS
    <3>1. i = Len(down) + 1 /\ down'[i] = p
      BY <2>1
    <3>2. Due(down[i].kind)'
      BY <1>1, <3>1 DEF Due
    <3> QED  BY <1>2, <2>1, <3>1, <3>2
  <2> QED  BY <1>1, <1>2, <2>2 DEF InTurn
<1>10. OneRow'
  BY <1>0, <1>1 DEF OneRow
<1>11. ShownRight'
  <2> SUFFICES ASSUME Watched'
               PROVE  (EnteredFirst /\ BoxesEmpty /\ UsersRight /\ RoomsRight)'
    BY DEF ShownRight
  <2>1. Watched /\ Grows(packets)
    BY <1>1, <1>5 DEF Watched
  <2>2. BoxesEmpty /\ UsersRight /\ RoomsRight
    BY <1>0, <2>1 DEF ShownRight
  <2>3. BoxesEmpty'
    BY <1>1, <2>2 DEF BoxesEmpty
  <2>4. EnteredFirst'
    BY <1>1, <1>2 DEF EnteredFirst
  <2> QED  BY <2>1, <2>2, <2>3, <2>4 DEF packets
<1> QED  BY <1>6, <1>7, <1>8, <1>9, <1>10, <1>11 DEF IInv

\* What the server says of a user or room with one answer.
LEMMA AnswerShow ==
    ASSUME Wire, UNCHANGED client, NEW p, Grows(<<p>>)
    PROVE  /\ \A u : (WillShow(u)' <=> SaysIn(p, u) \/ (WillShow(u) /\ ~SaysOut(p, u)))
           /\ \A r, n : WillShowCount(r, n) /\ ~SaysRoom(p, r) => WillShowCount(r, n)'
           /\ \A r, n : SaysRoom(p, r) /\ CountOf(p, r) = n => WillShowCount(r, n)'
<1> DEFINE packets == <<p>>
<1>1. Len(packets) = 1 /\ Len(packets) \in Nat /\ packets[1] = p /\ Grows(packets)
      /\ 1 \in 1 .. Len(packets)
  OBVIOUS
<1> HIDE DEF packets
<1>2. \A k \in 1 .. Len(packets) : k = 1
  BY <1>1
<1>3. \A m \in 1 + 1 .. Len(packets) : FALSE
  BY <1>1
<1>4. down \in Seq(Packets)
  BY DEF Wire
<1>5. ASSUME NEW u PROVE WillShow(u)' <=> SaysIn(p, u) \/ (WillShow(u) /\ ~SaysOut(p, u))
  <2>1. WillShow(u)' <=>
             \/ \E k \in 1 .. Len(packets) :
                  /\ SaysIn(packets[k], u)
                  /\ \A m \in k + 1 .. Len(packets) : ~SaysOut(packets[m], u)
             \/ WillShow(u) /\ \A k \in 1 .. Len(packets) : ~SaysOut(packets[k], u)
    BY <1>1, <1>4, GrowShow
  <2> QED  BY <1>1, <1>2, <1>3, <2>1
<1>6. ASSUME NEW r, NEW n
      PROVE  /\ WillShowCount(r, n) /\ ~SaysRoom(p, r) => WillShowCount(r, n)'
             /\ SaysRoom(p, r) /\ CountOf(p, r) = n => WillShowCount(r, n)'
  <2>1. WillShowCount(r, n) /\ (\A k \in 1 .. Len(packets) : ~SaysRoom(packets[k], r))
          => WillShowCount(r, n)'
    BY <1>1, <1>4, GrowCount
  <2>2. \A k \in 1 .. Len(packets) :
            /\ SaysRoom(packets[k], r) /\ CountOf(packets[k], r) = n
            /\ \A m \in k + 1 .. Len(packets) : ~SaysRoom(packets[m], r)
            => WillShowCount(r, n)'
    BY <1>1, <1>4, GrowCount
  <2>3. WillShowCount(r, n) /\ ~SaysRoom(p, r) => WillShowCount(r, n)'
    BY <1>1, <1>2, <2>1
  <2>4. SaysRoom(p, r) /\ CountOf(p, r) = n => WillShowCount(r, n)'
    BY <1>1, <1>3, <2>2
  <2> QED  BY <2>3, <2>4
<1> QED  BY <1>5, <1>6

\* Where the page ends the next one begins.
LEMMA AnswerToCome ==
    ASSUME Wire, NEW p, Grows(<<p>>), ~p.isEnd
    PROVE  /\ p.kind = "LOBBY_ENTER_ROOM_LIST_RES" =>
                \A r : r > Max(DOMAIN p.list) => RoomToCome(r)'
           /\ p.kind = "LOBBY_ENTER_USER_LIST_RES" =>
                \A i : i > Max(DOMAIN p.list) => SlotToCome(i)'
<1> DEFINE k == Len(down) + 1
<1>1. k \in 1 .. Len(down') /\ down'[k] = p
  <2> DEFINE packets == <<p>>
  <2>1. Len(packets) = 1 /\ packets[1] = p /\ Grows(packets) /\ Len(down) \in Nat
    BY DEF Wire
  <2> HIDE DEF packets
  <2>2. Len(down') = Len(down) + 1 /\ 1 \in 1 .. Len(packets)
    BY <2>1 DEF Grows
  <2>3. down'[Len(down) + 1] = packets[1]
    BY <2>1, <2>2 DEF Grows
  <2> QED  BY <2>1, <2>2, <2>3
<1> HIDE DEF k
<1>2. ASSUME p.kind = "LOBBY_ENTER_ROOM_LIST_RES", NEW r, r > Max(DOMAIN p.list)
      PROVE  RoomToCome(r)'
  BY <1>1, <1>2 DEF RoomToCome
<1>3. ASSUME p.kind = "LOBBY_ENTER_USER_LIST_RES", NEW i, i > Max(DOMAIN p.list)
      PROVE  SlotToCome(i)'
  BY <1>1, <1>3 DEF SlotToCome
<1> QED  BY <1>2, <1>3

\* A page of rooms: right about its rooms, the rest is yet to come.
LEMMA RoomListKeeps ==
    ASSUME IInv, up # <<>>, up' = <<>>, UNCHANGED <<server, client, refused>>,
           phase = "rooms",
           NEW page, page = PageOf(RoomsFrom(up[1].start), MaxRoomList),
           Send(<<ListRes("LOBBY_ENTER_ROOM_LIST_RES", [r \in page |-> UserCount(r)],
                          IsEnd(page, MaxRoomList, RoomCount))>>)
    PROVE  IInv'
<1> DEFINE start == up[1].start
           entries == RoomsFrom(start)
           list == [r \in page |-> UserCount(r)]
           e == IsEnd(page, MaxRoomList, RoomCount)
           p == ListRes("LOBBY_ENTER_ROOM_LIST_RES", list, e)
<1>0. TypeOK /\ Wire /\ Placed /\ InTurn
  BY DEF IInv
<1>1. start \in Nat /\ NoAnswer
  BY <1>0, RequestFacts
<1>2. entries \in SUBSET (0 .. RoomCount - 1) /\ entries \subseteq Rooms
  BY DEF RoomsFrom, Rooms
<1>3. RoomCount \in Nat /\ MaxRoomList \in Nat \ {0} /\ page = PageOf(entries, MaxRoomList)
  BY Limits
<1> HIDE DEF entries
<1>4. /\ page \subseteq entries
      /\ e => page = entries
      /\ ~e => page # {}
      /\ \A i \in entries \ page, j \in page : j < i
  BY <1>2, <1>3, PageFacts
<1>5. page \subseteq Rooms /\ page \in SUBSET (0 .. RoomCount - 1)
  BY <1>2, <1>4
<1>6. \A r \in Rooms : UserCount(r) \in 0 .. RoomLimit
  <2> SUFFICES ASSUME NEW r \in Rooms PROVE UserCount(r) \in 0 .. RoomLimit
    OBVIOUS
  <2>1. UserCount(r) <= RoomLimit
    BY <1>0 DEF Placed
  <2>2. UserCount(r) \in Nat
    BY MembersFinite DEF UserCount
  <2> QED  BY <2>1, <2>2, Limits
<1>7. /\ list \in [page -> 0 .. RoomLimit] /\ DOMAIN list = page
      /\ \A r \in page : list[r] = UserCount(r)
  BY <1>5, <1>6
<1>8. e \in BOOLEAN
  BY Zenon DEF IsEnd
<1>9. Send(<<p>>)
  OBVIOUS
<1> HIDE DEF list, e, p
<1>10. list \in RoomPages
  BY <1>5, <1>7 DEF RoomPages
<1>11. p \in Packets
  BY <1>8, <1>10 DEF Packets, p
<1>12. /\ p.kind = "LOBBY_ENTER_ROOM_LIST_RES" /\ p.list = list /\ p.isEnd = e
       /\ \A v : ~SaysIn(p, v) /\ ~SaysOut(p, v)
       /\ \A s : SaysRoom(p, s) <=> s \in DOMAIN list
       /\ \A s : CountOf(p, s) = list[s]
       /\ IsAnswer(p)
  BY PageSays DEF p
<1>13. Goes(p) /\ Due(p.kind)
  BY <1>4, <1>7, <1>12 DEF Goes, Due
<1>14. /\ state' = state /\ slots' = slots /\ room' = room /\ ghost' = ghost /\ phase' = phase
       /\ client' = client
  BY DEF server, client
<1>15. ASSUME Grows(<<p>>), UsersRight, RoomsRight PROVE UsersRight' /\ RoomsRight'
  <2>1. ASSUME NEW v \in Others PROVE UserRight(v)'
    <3>1. WillShow(v)' <=> WillShow(v)
      BY <1>0, <1>12, <1>14, <1>15, AnswerShow
    <3>2. \A i : SlotToCome(i)'
      BY <1>14 DEF SlotToCome
    <3>3. UserRight(v)
      BY <1>15 DEF UsersRight
    <3> QED  BY <1>14, <3>1, <3>2, <3>3 DEF UserRight
  <2>2. ASSUME NEW r \in Rooms PROVE RoomRight(r)'
    <3>1. PICK n : n = UserCount(r)
      OBVIOUS
    <3>2. UserCount(r)' = n
      BY <1>14, <3>1 DEF UserCount, MembersOf
    <3>3. n \in Nat
      BY <1>6, <3>1
    <3>4. CASE r \in page
      <4>1. WillShowCount(r, n)'
        BY <1>0, <1>7, <1>12, <1>14, <1>15, <3>1, <3>4, AnswerShow
      <4> QED  BY <3>2, <4>1, RoomRightIfNext
    <3>5. CASE r \notin page
      <4>1. \A c : WillShowCount(r, c) => WillShowCount(r, c)'
        BY <1>0, <1>7, <1>12, <1>14, <1>15, <3>5, AnswerShow
      <4>2. WillShowCount(r, n) \/ (WillShowCount(r, 0) /\ RoomToCome(r))
        BY <1>15, <3>1, RoomRightIf DEF RoomsRight
      <4>3. CASE WillShowCount(r, n)
        BY <3>2, <4>1, <4>3, RoomRightIfNext
      <4>4. CASE WillShowCount(r, 0) /\ RoomToCome(r) /\ n = 0
        BY <3>2, <4>1, <4>4, RoomRightIfNext
      <4>5. CASE WillShowCount(r, 0) /\ RoomToCome(r) /\ n # 0
        <5>1. r >= start
          <6>1. \A k \in 1 .. Len(down) : down[k].kind # "LOBBY_ENTER_ROOM_LIST_RES"
            BY <1>1 DEF NoAnswer, IsAnswer
          <6> QED  BY <4>5, <6>1 DEF RoomToCome
        <5>2. r \in entries
          BY <3>1, <3>3, <4>5, <5>1 DEF entries, RoomsFrom, RoomUsed
        <5>3. ~e /\ page # {} /\ \A j \in page : j < r
          BY <1>4, <3>5, <5>2
        <5>4. Max(page) \in page
          <6>1. page \in SUBSET (0 .. RoomCount) /\ RoomCount \in Nat
            BY <1>3, <1>5
          <6> QED  BY <5>3, <6>1, Greatest
        <5>5. r > Max(DOMAIN p.list)
          BY <1>2, <1>4, <1>7, <1>12, <5>3, <5>4 DEF Rooms
        <5>6. RoomToCome(r)'
          BY <1>0, <1>12, <1>15, <5>3, <5>5, AnswerToCome
        <5> QED  BY <3>2, <4>1, <4>5, <5>6, RoomRightIfNext
      <4> QED  BY <4>2, <4>3, <4>4, <4>5
    <3> QED  BY <3>4, <3>5
  <2> QED  BY <2>1, <2>2 DEF UsersRight, RoomsRight
<1> QED  BY <1>9, <1>11, <1>12, <1>13, <1>15, AnswerFrame

\* A page of users: right about its slots, the rest is yet to come.
LEMMA UserListKeeps ==
    ASSUME IInv, up # <<>>, up' = <<>>, UNCHANGED <<server, client, refused>>,
           phase = "users",
           NEW page, page = PageOf(SlotsFrom(up[1].start), MaxUserList),
           Send(<<ListRes("LOBBY_ENTER_USER_LIST_RES", [i \in page |-> slots[i + 1]],
                          IsEnd(page, MaxUserList, SlotCount))>>)
    PROVE  IInv'
<1> DEFINE start == up[1].start
           entries == SlotsFrom(start)
           list == [i \in page |-> slots[i + 1]]
           e == IsEnd(page, MaxUserList, SlotCount)
           p == ListRes("LOBBY_ENTER_USER_LIST_RES", list, e)
<1>0. TypeOK /\ Wire /\ Placed /\ InTurn
  BY DEF IInv
<1>1. start \in Nat /\ NoAnswer
  BY <1>0, RequestFacts
<1>2. /\ slots \in Seq(Users) /\ Len(slots) \in Nat /\ Len(slots) <= SlotCount
      /\ SlotCount \in Nat /\ MaxUserList \in Nat \ {0}
  BY <1>0, Limits DEF TypeOK
<1>3. entries \in SUBSET (0 .. SlotCount - 1)
      /\ \A i \in entries : i \in 0 .. Len(slots) - 1 /\ state[slots[i + 1]] = "LOBBY"
  <2>1. \A i \in entries : i \in 0 .. Len(slots) - 1 /\ state[slots[i + 1]] = "LOBBY"
    BY DEF SlotsFrom
  <2>2. \A i \in 0 .. Len(slots) - 1 : i \in 0 .. SlotCount - 1
    BY <1>2
  <2> QED  BY <2>1, <2>2
<1>4. page = PageOf(entries, MaxUserList)
  OBVIOUS
<1> HIDE DEF entries
<1>5. /\ page \subseteq entries
      /\ e => page = entries
      /\ ~e => page # {}
      /\ \A i \in entries \ page, j \in page : j < i
  BY <1>2, <1>3, <1>4, PageFacts
<1>6. page \in SUBSET (0 .. SlotCount - 1)
  BY <1>3, <1>5
<1>7. /\ list \in [page -> Users] /\ DOMAIN list = page
      /\ \A i \in page : list[i] = slots[i + 1] /\ state[list[i]] = "LOBBY"
  <2>1. \A i \in page : slots[i + 1] \in Users
    <3> SUFFICES ASSUME NEW i \in page PROVE slots[i + 1] \in Users
      OBVIOUS
    <3>1. i \in 0 .. Len(slots) - 1
      BY <1>3, <1>5
    <3>2. i + 1 \in 1 .. Len(slots)
      BY <1>2, <3>1
    <3> QED  BY <1>2, <3>2
  <2> QED  BY <1>3, <1>5, <2>1
<1>8. e \in BOOLEAN
  BY Zenon DEF IsEnd
<1>9. Send(<<p>>)
  OBVIOUS
<1> HIDE DEF list, e, p
<1>10. list \in UserPages
  BY <1>6, <1>7 DEF UserPages
<1>11. p \in Packets
  BY <1>8, <1>10 DEF Packets, p
<1>12. /\ p.kind = "LOBBY_ENTER_USER_LIST_RES" /\ p.list = list /\ p.isEnd = e
       /\ \A v : /\ SaysIn(p, v) <=> \E i \in DOMAIN list : list[i] = v
                 /\ ~SaysOut(p, v)
       /\ \A s : ~SaysRoom(p, s)
       /\ IsAnswer(p)
  BY PageSays DEF p
<1>13. Goes(p) /\ Due(p.kind)
  BY <1>5, <1>7, <1>12 DEF Goes, Due
<1>14. /\ state' = state /\ slots' = slots /\ room' = room /\ ghost' = ghost /\ phase' = phase
       /\ client' = client
  BY DEF server, client
<1>15. ASSUME Grows(<<p>>), UsersRight, RoomsRight PROVE UsersRight' /\ RoomsRight'
  <2>1. \A v : (WillShow(v)' <=> SaysIn(p, v) \/ WillShow(v))
    BY <1>0, <1>12, <1>14, <1>15, AnswerShow
  <2>2. \A k \in 1 .. Len(down) : /\ down[k].kind # "LOBBY_ENTER_ROOM_LIST_RES"
                                  /\ down[k].kind # "LOBBY_ENTER_USER_LIST_RES"
    BY <1>1 DEF NoAnswer, IsAnswer
  <2>3. ASSUME NEW v \in Others, state[v] = "LOBBY" PROVE UserRight(v)'
    <3>1. WillShow(v) \/ \E i \in 0 .. Len(slots) - 1 : slots[i + 1] = v /\ SlotToCome(i)
      BY <1>15, <2>3 DEF UsersRight, UserRight
    <3>2. CASE WillShow(v)
      BY <1>14, <2>1, <2>3, <3>2 DEF UserRight
    <3>3. ASSUME NEW i \in 0 .. Len(slots) - 1, slots[i + 1] = v, SlotToCome(i)
          PROVE  UserRight(v)'
      <4>1. i >= start
        BY <2>2, <3>3 DEF SlotToCome
      <4>2. i \in entries
        BY <2>3, <3>3, <4>1 DEF entries, SlotsFrom
      <4>3. CASE i \in page
        <5>1. SaysIn(p, v)
          BY <1>7, <1>12, <3>3, <4>3
        <5> QED  BY <1>14, <2>1, <2>3, <5>1 DEF UserRight
      <4>4. CASE i \notin page
        <5>1. ~e /\ page # {} /\ \A j \in page : j < i
          BY <1>5, <4>2, <4>4
        <5>2. Max(page) \in page
          <6>1. page \in SUBSET (0 .. SlotCount)
            BY <1>2, <1>6
          <6> QED  BY <1>2, <5>1, <6>1, Greatest
        <5>3. i > Max(DOMAIN p.list)
          BY <1>6, <1>7, <1>12, <5>1, <5>2
        <5>4. SlotToCome(i)'
          BY <1>0, <1>12, <1>15, <5>1, <5>3, AnswerToCome
        <5>5. i \in 0 .. Len(slots') - 1 /\ slots'[i + 1] = v
          BY <1>14, <3>3
        <5> QED  BY <1>14, <2>3, <5>4, <5>5 DEF UserRight
      <4> QED  BY <4>3, <4>4
    <3> QED  BY <3>1, <3>2, <3>3
  <2>4. ASSUME NEW v \in Others, state[v] # "LOBBY" PROVE UserRight(v)'
    <3>1. ~SaysIn(p, v)
      BY <1>7, <1>12, <2>4
    <3>2. WillShow(v) => v \in ghost
      BY <1>15, <2>4 DEF UsersRight, UserRight
    <3> QED  BY <1>14, <2>1, <2>4, <3>1, <3>2 DEF UserRight
  <2>5. ASSUME NEW r \in Rooms PROVE RoomRight(r)'
    <3>1. PICK n : n = UserCount(r)
      OBVIOUS
    <3>2. UserCount(r)' = n
      BY <1>14, <3>1 DEF UserCount, MembersOf
    <3>3. \A c : WillShowCount(r, c) => WillShowCount(r, c)'
      BY <1>0, <1>12, <1>14, <1>15, AnswerShow
    <3>4. WillShowCount(r, n) \/ (WillShowCount(r, 0) /\ RoomToCome(r))
      BY <1>15, <3>1, RoomRightIf DEF RoomsRight
    <3>5. ~RoomToCome(r)
      BY <2>2 DEF RoomToCome
    <3> QED  BY <3>2, <3>3, <3>4, <3>5, RoomRightIfNext
  <2> QED  BY <2>3, <2>4, <2>5 DEF UsersRight, RoomsRight
<1> QED  BY <1>9, <1>11, <1>12, <1>13, <1>15, AnswerFrame

\* The request is taken and answered, or refused.
LEMMA HandleListReqKeeps == ASSUME IInv, HandleListReq PROVE IInv'
<1>0. Wire /\ InTurn
  BY DEF IInv
<1>1. /\ up # <<>> /\ up' = Tail(up) /\ UNCHANGED <<server, client>>
      /\ IF Head(up).kind = "LOBBY_ENTER_ROOM_LIST_REQ"
           THEN SendRoomList(Head(up).start) ELSE SendUserList(Head(up).start)
  BY DEF HandleListReq
<1>2. /\ Head(up) = up[1] /\ Tail(up) = <<>> /\ up[1].start \in Nat
      /\ \/ phase = "rooms" /\ up[1].kind = "LOBBY_ENTER_ROOM_LIST_REQ"
         \/ phase = "users" /\ up[1].kind = "LOBBY_ENTER_USER_LIST_REQ"
  BY <1>0, <1>1, RequestFacts
<1>3. up # <<>> /\ up' = <<>> /\ UNCHANGED <<server, client>>
  BY <1>1, <1>2
<1>4. CASE phase = "rooms" /\ SendRoomList(up[1].start)
  <2>1. PICK page : page = PageOf(RoomsFrom(up[1].start), MaxRoomList)
    OBVIOUS
  <2>2. \/ refused' = up[1].start /\ UNCHANGED <<down, lost>>
        \/ /\ Send(<<ListRes("LOBBY_ENTER_ROOM_LIST_RES", [r \in page |-> UserCount(r)],
                             IsEnd(page, MaxRoomList, RoomCount))>>)
           /\ UNCHANGED refused
    BY <1>4, <2>1 DEF SendRoomList
  <2>3. CASE refused' = up[1].start /\ UNCHANGED <<down, lost>>
    BY <1>3, <2>3, RefusedKeeps
  <2>4. CASE /\ Send(<<ListRes("LOBBY_ENTER_ROOM_LIST_RES", [r \in page |-> UserCount(r)],
                               IsEnd(page, MaxRoomList, RoomCount))>>)
             /\ UNCHANGED refused
    BY <1>3, <1>4, <2>1, <2>4, RoomListKeeps
  <2> QED  BY <2>2, <2>3, <2>4
<1>5. CASE phase = "users" /\ SendUserList(up[1].start)
  <2>1. PICK page : page = PageOf(SlotsFrom(up[1].start), MaxUserList)
    OBVIOUS
  <2>2. \/ refused' = up[1].start /\ UNCHANGED <<down, lost>>
        \/ /\ Send(<<ListRes("LOBBY_ENTER_USER_LIST_RES", [i \in page |-> slots[i + 1]],
                             IsEnd(page, MaxUserList, SlotCount))>>)
           /\ UNCHANGED refused
    BY <1>5, <2>1 DEF SendUserList
  <2>3. CASE refused' = up[1].start /\ UNCHANGED <<down, lost>>
    BY <1>3, <2>3, RefusedKeeps
  <2>4. CASE /\ Send(<<ListRes("LOBBY_ENTER_USER_LIST_RES", [i \in page |-> slots[i + 1]],
                               IsEnd(page, MaxUserList, SlotCount))>>)
             /\ UNCHANGED refused
    BY <1>3, <1>5, <2>1, <2>4, UserListKeeps
  <2> QED  BY <2>2, <2>3, <2>4
<1> QED  BY <1>1, <1>2, <1>4, <1>5

-----------------------------------------------------------------------------
(* What is taken *)

\* The packet taken is the first, the rest moves up.
Taken ==
    /\ down \in Seq(Packets) /\ down' \in Seq(Packets)
    /\ Len(down') = Len(down) - 1 /\ Len(down) > 0
    /\ down[1] \in Packets
    /\ \A i \in 1 .. Len(down') : i + 1 \in 2 .. Len(down) /\ down'[i] = down[i + 1]

\* The packet taken is the head.
LEMMA TailTaken ==
    ASSUME down \in Seq(Packets), down # <<>>, down' = Tail(down)
    PROVE  Taken /\ Head(down) = down[1]
<1> DEFINE d == Len(down)
<1>1. d \in Nat \ {0}
  BY EmptySeq
<1>2. /\ down' \in Seq(Packets) /\ Len(down') = d - 1 /\ Head(down) = down[1]
      /\ down[1] \in Packets
  BY HeadTailProperties
<1>3. \A i \in 1 .. d - 1 : Tail(down)[i] = down[i + 1]
  BY HeadTailProperties
<1>4. \A i \in 1 .. Len(down') : i + 1 \in 2 .. d /\ down'[i] = down[i + 1]
  <2> SUFFICES ASSUME NEW i \in 1 .. Len(down')
               PROVE  i + 1 \in 2 .. d /\ down'[i] = down[i + 1]
    OBVIOUS
  <2> HIDE DEF d
  <2>1. i \in 1 .. d - 1 /\ i + 1 \in 2 .. d
    BY <1>1, <1>2
  <2> QED  BY <1>3, <2>1
<1> QED  BY <1>1, <1>2, <1>4 DEF Taken

\* A packet is one of six.
LEMMA PacketShapes ==
    ASSUME NEW p \in Packets
    PROVE  \/ p = Entered
           \/ \E u \in Users : p = Enters(u)
           \/ \E u \in Others : p = Leaves(u)
           \/ \E r \in Rooms, n \in 0 .. RoomLimit : p = Changed(r, n)
           \/ \E list \in RoomPages, e \in BOOLEAN :
                p = ListRes("LOBBY_ENTER_ROOM_LIST_RES", list, e)
           \/ \E list \in UserPages, e \in BOOLEAN :
                p = ListRes("LOBBY_ENTER_USER_LIST_RES", list, e)
BY DEF Packets

\* The packets that stay are as they were.
LEMMA TakenKeepsWire ==
    ASSUME Wire, Taken, up' \in Seq(Requests)
    PROVE  Wire'
<1>1. \A i \in 1 .. Len(down') : Goes(down'[i])
  <2> SUFFICES ASSUME NEW i \in 1 .. Len(down') PROVE Goes(down'[i])
    OBVIOUS
  <2>1. i + 1 \in 1 .. Len(down) /\ down'[i] = down[i + 1]
    BY DEF Taken
  <2>2. Goes(down[i + 1])
    BY <2>1 DEF Wire
  <2> QED  BY <2>1, <2>2
<1> QED  BY <1>1 DEF Wire, Taken

\* With every packet the client shows what the packet says: what it will have in
\* the end stays the same.
LEMMA TakenShow ==
    ASSUME Taken, NEW u,
           Shows(u)' <=> SaysIn(down[1], u) \/ (Shows(u) /\ ~SaysOut(down[1], u))
    PROVE  WillShow(u)' <=> WillShow(u)
<1> DEFINE d == Len(down)
<1>1. d \in Nat \ {0} /\ Len(down') = d - 1
  BY DEF Taken
<1>2. \A i \in 1 .. d - 1 : i + 1 \in 1 .. d /\ down'[i] = down[i + 1]
  BY <1>1 DEF Taken
<1> HIDE DEF d
<1>3. ASSUME NEW i \in 0 .. d - 1
      PROVE  (\A j \in i + 1 .. d - 1 : ~SaysOut(down'[j], u))
             <=> \A j \in i + 1 + 1 .. d : ~SaysOut(down[j], u)
  <2>1. \A j \in i + 1 .. d - 1 : j \in 1 .. d - 1 /\ j + 1 \in i + 1 + 1 .. d
    BY <1>1
  <2>2. \A j \in i + 1 + 1 .. d : \E m \in i + 1 .. d - 1 : m \in 1 .. d - 1 /\ j = m + 1
    <3> SUFFICES ASSUME NEW j \in i + 1 + 1 .. d
                 PROVE  \E m \in i + 1 .. d - 1 : m \in 1 .. d - 1 /\ j = m + 1
      OBVIOUS
    <3>1. j - 1 \in i + 1 .. d - 1 /\ j - 1 \in 1 .. d - 1 /\ j = (j - 1) + 1
      BY <1>1
    <3> QED  BY <3>1
  <2> QED  BY <1>2, <2>1, <2>2
<1>4. WillShow(u)' <=>
        \/ \E i \in 1 .. d - 1 :
             SaysIn(down'[i], u) /\ \A j \in i + 1 .. d - 1 : ~SaysOut(down'[j], u)
        \/ Shows(u)' /\ \A j \in 1 .. d - 1 : ~SaysOut(down'[j], u)
  BY <1>1 DEF WillShow
<1>5. WillShow(u) <=>
        \/ \E i \in 1 .. d : SaysIn(down[i], u) /\ \A j \in i + 1 .. d : ~SaysOut(down[j], u)
        \/ Shows(u) /\ \A j \in 1 .. d : ~SaysOut(down[j], u)
  BY DEF WillShow, d
<1> DEFINE Later == \E i \in 2 .. d :
                      SaysIn(down[i], u) /\ \A j \in i + 1 .. d : ~SaysOut(down[j], u)
           Rest == \A j \in 2 .. d : ~SaysOut(down[j], u)
<1>6. (\E i \in 1 .. d - 1 :
         SaysIn(down'[i], u) /\ \A j \in i + 1 .. d - 1 : ~SaysOut(down'[j], u)) <=> Later
  <2>1. ASSUME NEW i \in 1 .. d - 1, SaysIn(down'[i], u),
               \A j \in i + 1 .. d - 1 : ~SaysOut(down'[j], u)
        PROVE  Later
    <3> DEFINE k == i + 1
    <3>1. k \in 2 .. d /\ i \in 0 .. d - 1 /\ down'[i] = down[k]
      BY <1>1, <1>2
    <3>2. \A j \in k + 1 .. d : ~SaysOut(down[j], u)
      BY <1>3, <2>1, <3>1
    <3> HIDE DEF k
    <3> QED  BY <2>1, <3>1, <3>2
  <2>2. ASSUME NEW k \in 2 .. d, SaysIn(down[k], u), \A j \in k + 1 .. d : ~SaysOut(down[j], u)
        PROVE  \E i \in 1 .. d - 1 :
                 SaysIn(down'[i], u) /\ \A j \in i + 1 .. d - 1 : ~SaysOut(down'[j], u)
    <3> DEFINE i == k - 1
    <3>1. i \in 1 .. d - 1 /\ i \in 0 .. d - 1 /\ i + 1 = k
      BY <1>1
    <3> HIDE DEF i
    <3>2. down'[i] = down[k]
      BY <1>2, <3>1
    <3>3. \A j \in i + 1 .. d - 1 : ~SaysOut(down'[j], u)
      BY <1>3, <2>2, <3>1
    <3> QED  BY <2>2, <3>1, <3>2, <3>3
  <2> HIDE DEF Later
  <2>3. ASSUME Later
        PROVE  \E k \in 2 .. d : SaysIn(down[k], u) /\ \A j \in k + 1 .. d : ~SaysOut(down[j], u)
    BY <2>3 DEF Later
  <2> QED  BY <2>1, <2>2, <2>3
<1>7. (\A j \in 1 .. d - 1 : ~SaysOut(down'[j], u)) <=> Rest
  <2>1. 0 \in 0 .. d - 1 /\ 0 + 1 = 1 /\ 0 + 1 + 1 = 2
    BY <1>1
  <2> HIDE DEF Rest
  <2>2. (\A j \in 0 + 1 .. d - 1 : ~SaysOut(down'[j], u))
        <=> \A j \in 0 + 1 + 1 .. d : ~SaysOut(down[j], u)
    BY <1>3, <2>1
  <2> QED  BY <2>1, <2>2 DEF Rest
<1>8. (\A j \in 1 .. d : ~SaysOut(down[j], u)) <=> ~SaysOut(down[1], u) /\ Rest
  <2>1. 1 \in 1 .. d /\ \A j \in 1 .. d : j = 1 \/ j \in 2 .. d
    BY <1>1
  <2>2. \A j \in 2 .. d : j \in 1 .. d
    OBVIOUS
  <2> QED  BY <2>1, <2>2
<1>9. (\E i \in 1 .. d : SaysIn(down[i], u) /\ \A j \in i + 1 .. d : ~SaysOut(down[j], u))
      <=> Later \/ (SaysIn(down[1], u) /\ Rest)
  <2>1. 1 \in 1 .. d /\ (\A j \in 1 .. d : j = 1 \/ j \in 2 .. d) /\ 1 + 1 = 2
    BY <1>1
  <2>2. \A j \in 2 .. d : j \in 1 .. d
    OBVIOUS
  <2>3. ASSUME NEW i \in 1 .. d, SaysIn(down[i], u), \A j \in i + 1 .. d : ~SaysOut(down[j], u)
        PROVE  Later \/ (SaysIn(down[1], u) /\ Rest)
    BY <2>1, <2>3
  <2>4. ASSUME Later
        PROVE  \E i \in 1 .. d : SaysIn(down[i], u) /\ \A j \in i + 1 .. d : ~SaysOut(down[j], u)
    BY <2>2, <2>4
  <2>5. ASSUME SaysIn(down[1], u), Rest
        PROVE  \E i \in 1 .. d : SaysIn(down[i], u) /\ \A j \in i + 1 .. d : ~SaysOut(down[j], u)
    BY <2>1, <2>5
  <2> HIDE DEF Later, Rest
  <2> QED  BY <2>3, <2>4, <2>5
<1> HIDE DEF Later, Rest
<1> QED  BY <1>4, <1>5, <1>6, <1>7, <1>8, <1>9

\* Likewise for the number of users of a room.
LEMMA TakenCount ==
    ASSUME Taken, NEW r,
           ShowsCount(r)' = IF SaysRoom(down[1], r) THEN CountOf(down[1], r) ELSE ShowsCount(r)
    PROVE  \A n : WillShowCount(r, n) => WillShowCount(r, n)'
<1> SUFFICES ASSUME NEW n, WillShowCount(r, n) PROVE WillShowCount(r, n)'
  OBVIOUS
<1> DEFINE d == Len(down)
<1>1. d \in Nat \ {0} /\ Len(down') = d - 1
  BY DEF Taken
<1>2. \A i \in 1 .. d - 1 : i + 1 \in 1 .. d /\ down'[i] = down[i + 1]
  BY <1>1 DEF Taken
<1>3. \/ \E i \in 1 .. d : /\ SaysRoom(down[i], r) /\ CountOf(down[i], r) = n
                           /\ \A j \in i + 1 .. d : ~SaysRoom(down[j], r)
      \/ ShowsCount(r) = n /\ \A j \in 1 .. d : ~SaysRoom(down[j], r)
  BY DEF WillShowCount
<1> HIDE DEF d
<1>4. ASSUME NEW i \in 0 .. d - 1, \A j \in i + 1 + 1 .. d : ~SaysRoom(down[j], r)
      PROVE  \A j \in i + 1 .. d - 1 : ~SaysRoom(down'[j], r)
  <2>1. \A j \in i + 1 .. d - 1 : j \in 1 .. d - 1 /\ j + 1 \in i + 1 + 1 .. d
    BY <1>1
  <2> QED  BY <1>2, <1>4, <2>1
<1>5. ASSUME ShowsCount(r)' = n, \A j \in 2 .. d : ~SaysRoom(down[j], r)
      PROVE  WillShowCount(r, n)'
  <2>1. 0 \in 0 .. d - 1 /\ 0 + 1 = 1 /\ 0 + 1 + 1 = 2
    BY <1>1
  <2>2. \A j \in 0 + 1 + 1 .. d : ~SaysRoom(down[j], r)
    BY <1>5, <2>1
  <2>3. \A j \in 0 + 1 .. d - 1 : ~SaysRoom(down'[j], r)
    BY <1>4, <2>1, <2>2
  <2>4. \A j \in 1 .. Len(down') : ~SaysRoom(down'[j], r)
    BY <1>1, <2>1, <2>3
  <2> QED  BY <1>5, <2>4 DEF WillShowCount
<1>6. ASSUME NEW k \in 1 .. d, SaysRoom(down[k], r), CountOf(down[k], r) = n,
             \A j \in k + 1 .. d : ~SaysRoom(down[j], r)
      PROVE  WillShowCount(r, n)'
  <2>1. CASE k = 1
    <3>1. ShowsCount(r)' = n
      BY <1>6, <2>1
    <3>2. \A j \in 2 .. d : ~SaysRoom(down[j], r)
      BY <1>6, <2>1
    <3> QED  BY <1>5, <3>1, <3>2
  <2>2. CASE k # 1
    <3> DEFINE i == k - 1
    <3>1. i \in 1 .. d - 1 /\ i \in 0 .. d - 1 /\ i + 1 = k
      BY <1>1, <2>2
    <3> HIDE DEF i
    <3>2. down'[i] = down[k]
      BY <1>2, <3>1
    <3>3. \A j \in i + 1 .. d - 1 : ~SaysRoom(down'[j], r)
      BY <1>4, <1>6, <3>1
    <3>4. i \in 1 .. Len(down') /\ \A j \in i + 1 .. Len(down') : ~SaysRoom(down'[j], r)
      BY <1>1, <3>1, <3>3
    <3> QED  BY <1>6, <3>2, <3>4 DEF WillShowCount
  <2> QED  BY <2>1, <2>2
<1>7. ASSUME ShowsCount(r) = n, \A j \in 1 .. d : ~SaysRoom(down[j], r)
      PROVE  WillShowCount(r, n)'
  <2>1. 1 \in 1 .. d /\ \A j \in 2 .. d : j \in 1 .. d
    BY <1>1
  <2>2. ShowsCount(r)' = n
    BY <1>7, <2>1
  <2>3. \A j \in 2 .. d : ~SaysRoom(down[j], r)
    BY <1>7, <2>1
  <2> QED  BY <1>5, <2>2, <2>3
<1> QED  BY <1>3, <1>6, <1>7

\* An answer that is taken was the only one, and the client has asked for nothing.
LEMMA AnswerTaken ==
    ASSUME InTurn, Taken, IsAnswer(down[1])
    PROVE  /\ Due(down[1].kind) /\ up = <<>> /\ NoAnswer'
           /\ refused = None /\ state[Viewer] = "LOBBY"
           /\ \A k \in 1 .. Len(down) : IsAnswer(down[k]) => k = 1
<1>1. 1 \in 1 .. Len(down)
  BY DEF Taken
<1>2. Due(down[1].kind) /\ up = <<>> /\ \A k \in 1 .. Len(down) : IsAnswer(down[k]) => k = 1
  BY <1>1 DEF InTurn
<1>3. NoAnswer'
  <2> SUFFICES ASSUME NEW i \in 1 .. Len(down') PROVE ~IsAnswer(down'[i])
    BY DEF NoAnswer
  <2>1. i + 1 \in 2 .. Len(down) /\ down'[i] = down[i + 1]
    BY DEF Taken
  <2>2. i + 1 \in 1 .. Len(down) /\ i + 1 # 1
    BY <2>1
  <2> QED  BY <1>2, <2>1, <2>2
<1>4. refused = None
  BY <1>1 DEF InTurn, NoAnswer
<1>5. state[Viewer] = "LOBBY"
  <2>1. state[Viewer] # "LOBBY" => down = <<>>
    BY DEF InTurn
  <2>2. down # <<>>
    BY <1>1, EmptySeq
  <2> QED  BY <2>1, <2>2
<1> QED  BY <1>2, <1>3, <1>4, <1>5

\* What follows it is the next request, if any.
LEMMA NextTurn ==
    ASSUME InTurn, Taken, IsAnswer(down[1]), state' = state, refused' = refused,
           Len(up') <= 1,
           up' # <<>> =>
               \/ phase' = "rooms" /\ up'[1].kind = "LOBBY_ENTER_ROOM_LIST_REQ"
               \/ phase' = "users" /\ up'[1].kind = "LOBBY_ENTER_USER_LIST_REQ"
    PROVE  InTurn'
<1>1. NoAnswer' /\ refused = None /\ state[Viewer] = "LOBBY"
  BY AnswerTaken
<1>2. \A i \in 1 .. Len(down') : ~IsAnswer(down'[i])
  BY <1>1 DEF NoAnswer
<1>3. refused' = None /\ state'[Viewer] = "LOBBY"
  BY <1>1
<1> QED  BY <1>2, <1>3 DEF InTurn

\* A notice that is taken leaves the turn, and what is to come, as they were.
LEMMA NoticeTaken ==
    ASSUME InTurn, Taken, ~IsAnswer(down[1]), UNCHANGED up, phase' = phase, state' = state,
           refused' = refused
    PROVE  /\ InTurn'
           /\ \A i : SlotToCome(i) => SlotToCome(i)'
           /\ \A r : RoomToCome(r) => RoomToCome(r)'
<1>1. \A i \in 1 .. Len(down') : i + 1 \in 1 .. Len(down) /\ down'[i] = down[i + 1]
  BY DEF Taken
<1>2. Len(down) \in Nat \ {0} /\ Len(down') = Len(down) - 1
  BY DEF Taken
<1>3. \A k \in 1 .. Len(down) : k = 1 \/ \E i \in 1 .. Len(down') : k = i + 1
  <2> SUFFICES ASSUME NEW k \in 1 .. Len(down), k # 1
               PROVE  \E i \in 1 .. Len(down') : k = i + 1
    OBVIOUS
  <2>1. k - 1 \in 1 .. Len(down') /\ k = (k - 1) + 1
    BY <1>2
  <2> QED  BY <2>1
<1>4. InTurn'
  <2>1. \A i \in 1 .. Len(down') : IsAnswer(down'[i]) =>
         /\ Due(down[i].kind)' /\ up' = <<>>
         /\ \A j \in 1 .. Len(down') : IsAnswer(down'[j]) => j = i
    <3> SUFFICES ASSUME NEW i \in 1 .. Len(down'), IsAnswer(down'[i])
                 PROVE  Due(down[i].kind)' /\ up' = <<>>
                        /\ \A j \in 1 .. Len(down') : IsAnswer(down'[j]) => j = i
      OBVIOUS
    <3> DEFINE k == i + 1
    <3>1. k \in 1 .. Len(down) /\ down'[i] = down[k]
      BY <1>1
    <3> HIDE DEF k
    <3>2. /\ Due(down[k].kind) /\ up = <<>>
          /\ \A j \in 1 .. Len(down) : IsAnswer(down[j]) => j = k
      BY <3>1 DEF InTurn
    <3>3. Due(down[i].kind)'
      BY <3>1, <3>2 DEF Due
    <3>4. ASSUME NEW j \in 1 .. Len(down'), IsAnswer(down'[j]) PROVE j = i
      <4>1. j + 1 \in 1 .. Len(down) /\ IsAnswer(down[j + 1])
        BY <1>1, <3>4
      <4>2. j + 1 = k
        BY <3>2, <4>1
      <4> QED  BY <4>2 DEF k
    <3> QED  BY <3>2, <3>3, <3>4
  <2>2. state[Viewer] # "LOBBY" => down = <<>>
    BY DEF InTurn
  <2>3. down # <<>>
    BY <1>2, EmptySeq
  <2>4. state[Viewer] = "LOBBY" /\ state'[Viewer] = "LOBBY"
    BY <2>2, <2>3
  <2>5. refused # None => up = <<>> /\ NoAnswer' /\ phase \in {"rooms", "users"}
    BY <1>1 DEF InTurn, NoAnswer
  <2>6. Len(up) <= 1 /\ (up # <<>> =>
         \/ phase = "rooms" /\ up[1].kind = "LOBBY_ENTER_ROOM_LIST_REQ"
         \/ phase = "users" /\ up[1].kind = "LOBBY_ENTER_USER_LIST_REQ")
    BY DEF InTurn
  <2> QED  BY <2>1, <2>4, <2>5, <2>6 DEF InTurn
<1>5. ASSUME NEW p, NEW k \in 1 .. Len(down), down[k] = p, IsAnswer(p)
      PROVE  \E i \in 1 .. Len(down') : down'[i] = p
  <2>1. k # 1
    BY <1>5
  <2>2. PICK i \in 1 .. Len(down') : k = i + 1
    BY <1>3, <2>1
  <2> QED  BY <1>1, <1>5, <2>2
<1>6. ASSUME NEW i, SlotToCome(i) PROVE SlotToCome(i)'
  <2>1. CASE \/ phase \in {"out", "rooms"}
             \/ phase = "users" /\ up # <<>> /\ i >= up[1].start
    BY <2>1 DEF SlotToCome
  <2>2. ASSUME NEW k \in 1 .. Len(down), down[k].kind = "LOBBY_ENTER_USER_LIST_RES",
               ~down[k].isEnd, i > Max(DOMAIN down[k].list)
        PROVE  SlotToCome(i)'
    <3>1. IsAnswer(down[k])
      BY <2>2 DEF IsAnswer
    <3>2. PICK m \in 1 .. Len(down') : down'[m] = down[k]
      BY <1>5, <3>1
    <3> QED  BY <2>2, <3>2 DEF SlotToCome
  <2> QED  BY <1>6, <2>1, <2>2 DEF SlotToCome
<1>7. ASSUME NEW r, RoomToCome(r) PROVE RoomToCome(r)'
  <2>1. CASE \/ phase = "out"
             \/ phase = "rooms" /\ up # <<>> /\ r >= up[1].start
    BY <2>1 DEF RoomToCome
  <2>2. ASSUME NEW k \in 1 .. Len(down), down[k].kind = "LOBBY_ENTER_ROOM_LIST_RES",
               ~down[k].isEnd, r > Max(DOMAIN down[k].list)
        PROVE  RoomToCome(r)'
    <3>1. IsAnswer(down[k])
      BY <2>2 DEF IsAnswer
    <3>2. PICK m \in 1 .. Len(down') : down'[m] = down[k]
      BY <1>5, <3>1
    <3> QED  BY <2>2, <3>2 DEF RoomToCome
  <2> QED  BY <1>7, <2>1, <2>2 DEF RoomToCome
<1> QED  BY <1>4, <1>6, <1>7

-----------------------------------------------------------------------------
(* The client receives *)

ClientTypes ==
    /\ phase \in {"out", "rooms", "users", "done"}
    /\ roomList \in [Rooms -> 0 .. RoomLimit]
    /\ userList \subseteq Users
    /\ roomRows \in [Rooms -> 0 .. RoomLimit]
    /\ userRows \in [Users -> 0 .. 2]

\* The client shows what the first packet says, and what it has yet to ask for
\* is still to come.
ShowsFirst ==
    /\ \A u \in Others : Shows(u)' <=> SaysIn(down[1], u) \/ (Shows(u) /\ ~SaysOut(down[1], u))
    /\ \A r \in Rooms :
         ShowsCount(r)' = IF SaysRoom(down[1], r) THEN CountOf(down[1], r) ELSE ShowsCount(r)
    /\ \A i \in Nat : SlotToCome(i) => SlotToCome(i)'
    /\ \A r \in Rooms : RoomToCome(r) => RoomToCome(r)'

\* The frame of everything the client receives.
LEMMA TakeFrame ==
    ASSUME IInv, Taken, UNCHANGED <<server, lost, refused>>, ClientTypes',
           up' \in Seq(Requests), Len(up') <= 1, InTurn', OneRow',
           EnteredFirst /\ BoxesEmpty => EnteredFirst' /\ BoxesEmpty' /\ ShowsFirst
    PROVE  IInv'
<1>0. TypeOK /\ Wire /\ Placed /\ ShownRight
  BY DEF IInv
<1>1. /\ state' = state /\ hasLobby' = hasLobby /\ room' = room /\ slots' = slots
      /\ ghost' = ghost /\ lost' = lost /\ refused' = refused
  BY DEF server
<1>2. TypeOK'
  <2>1. Len(down') <= MaxDown
    <3>1. Len(down) \in Nat /\ Len(down) <= MaxDown /\ Len(down') = Len(down) - 1
      BY <1>0 DEF TypeOK, Taken
    <3> QED  BY <3>1, Limits
  <2> QED  BY <1>0, <1>1, <2>1 DEF TypeOK, ClientTypes
<1>3. Wire'
  BY <1>0, TakenKeepsWire
<1>4. Placed'
  BY <1>0, <1>1 DEF Placed, UserCount, MembersOf
<1>5. ShownRight'
  <2> SUFFICES ASSUME Watched'
               PROVE  (EnteredFirst /\ BoxesEmpty /\ UsersRight /\ RoomsRight)'
    BY DEF ShownRight
  <2>1. EnteredFirst /\ BoxesEmpty /\ UsersRight /\ RoomsRight
    BY <1>0, <1>1 DEF ShownRight, Watched
  <2>2. EnteredFirst' /\ BoxesEmpty' /\ ShowsFirst
    BY <2>1
  <2>3. ASSUME NEW u \in Others PROVE UserRight(u)'
    <3>1. Shows(u)' <=> SaysIn(down[1], u) \/ (Shows(u) /\ ~SaysOut(down[1], u))
      BY <2>2 DEF ShowsFirst
    <3>2. WillShow(u)' <=> WillShow(u)
      BY <3>1, TakenShow
    <3>3. \A i \in 0 .. Len(slots) - 1 : SlotToCome(i) => SlotToCome(i)'
      <4>1. \A i \in Nat : SlotToCome(i) => SlotToCome(i)'
        BY <2>2 DEF ShowsFirst
      <4>2. Len(slots) \in Nat
        BY <1>0 DEF TypeOK
      <4> QED  BY <4>1, <4>2
    <3>4. UserRight(u)
      BY <2>1 DEF UsersRight
    <3> QED  BY <1>1, <3>2, <3>3, <3>4 DEF UserRight
  <2>4. ASSUME NEW r \in Rooms PROVE RoomRight(r)'
    <3>1. ShowsCount(r)' = IF SaysRoom(down[1], r) THEN CountOf(down[1], r) ELSE ShowsCount(r)
      BY <2>2 DEF ShowsFirst
    <3>2. \A n : WillShowCount(r, n) => WillShowCount(r, n)'
      BY <3>1, TakenCount
    <3>3. RoomToCome(r) => RoomToCome(r)'
      BY <2>2 DEF ShowsFirst
    <3>4. PICK n : UserCount(r) = n
      OBVIOUS
    <3>5. WillShowCount(r, n) \/ (WillShowCount(r, 0) /\ RoomToCome(r))
      BY <2>1, <3>4, RoomRightIf DEF RoomsRight
    <3>6. UserCount(r)' = n
      BY <1>1, <3>4 DEF UserCount, MembersOf
    <3>7. WillShowCount(r, n)' \/ (WillShowCount(r, 0)' /\ RoomToCome(r)')
      BY <3>2, <3>3, <3>5
    <3> QED  BY <3>6, <3>7, RoomRightIfNext
  <2> QED  BY <2>2, <2>3, <2>4 DEF UsersRight, RoomsRight
<1> QED  BY <1>2, <1>3, <1>4, <1>5 DEF IInv

\* The one request that is then under way.
LEMMA SendRequest ==
    ASSUME up = <<>>, NEW kind, NEW start, up' = Append(up, ListReq(kind, start)),
           kind \in {"LOBBY_ENTER_ROOM_LIST_REQ", "LOBBY_ENTER_USER_LIST_REQ"}, start \in Nat
    PROVE  /\ up' \in Seq(Requests) /\ Len(up') <= 1 /\ up' # <<>>
           /\ up'[1].kind = kind /\ up'[1].start = start
<1> DEFINE q == ListReq(kind, start)
<1>1. q \in Requests /\ q.kind = kind /\ q.start = start
  BY DEF Requests, ListReq
<1> HIDE DEF q
<1>2. up' = <<q>>
  BY DEF q
<1>3. up' \in Seq(Requests) /\ Len(up') = 1 /\ up'[1] = q
  BY <1>1, <1>2
<1>4. up' # <<>>
  BY <1>3, EmptySeq
<1> QED  BY <1>1, <1>3, <1>4

\* The answer to the entering: the lists are emptied and the rooms requested.
LEMMA EnterResKeeps ==
    ASSUME IInv, Taken, down[1] = Entered, ReceiveEnterRes,
           UNCHANGED <<server, lost, refused>>
    PROVE  IInv'
<1>0. TypeOK /\ Wire /\ InTurn /\ OneRow
  BY DEF IInv
<1>1. /\ phase' = "rooms" /\ roomList' = [r \in Rooms |-> 0] /\ userList' = {}
      /\ up' = Append(up, ListReq("LOBBY_ENTER_ROOM_LIST_REQ", 0))
      /\ roomRows' = roomRows /\ userRows' = userRows
      /\ state' = state /\ refused' = refused
  BY DEF ReceiveEnterRes, RequestRoomList, server
<1>2. down[1].kind = "LOBBY_ENTER_RES" /\ IsAnswer(down[1])
      /\ (\A u : ~SaysIn(down[1], u) /\ ~SaysOut(down[1], u)) /\ \A r : ~SaysRoom(down[1], r)
  BY NoticeSays DEF Entered, IsAnswer
<1>3. /\ phase = "out" /\ up = <<>>
  BY <1>0, <1>2, AnswerTaken DEF Due
<1>4. /\ up' \in Seq(Requests) /\ Len(up') <= 1 /\ up' # <<>>
      /\ up'[1].kind = "LOBBY_ENTER_ROOM_LIST_REQ" /\ up'[1].start = 0
  BY <1>1, <1>3, SendRequest
<1>5. InTurn'
  BY <1>0, <1>1, <1>2, <1>4, NextTurn
<1>6. OneRow'
  BY <1>0, <1>1, <1>3 DEF OneRow
<1>7. ClientTypes'
  BY <1>0, <1>1, Limits DEF TypeOK, ClientTypes
<1>8. ASSUME EnteredFirst, BoxesEmpty PROVE EnteredFirst' /\ BoxesEmpty' /\ ShowsFirst
  <2>1. EnteredFirst'
    BY <1>1 DEF EnteredFirst
  <2>2. BoxesEmpty'
    BY <1>1, <1>3, <1>8 DEF BoxesEmpty
  <2>3. \A u : ~Shows(u)' /\ ~Shows(u)
    BY <1>1, <1>3 DEF Shows
  <2>4. \A r \in Rooms : ShowsCount(r)' = 0 /\ ShowsCount(r) = 0
    BY <1>1, <1>3 DEF ShowsCount
  <2>5. \A i : SlotToCome(i)'
    BY <1>1 DEF SlotToCome
  <2>6. \A r \in Rooms : RoomToCome(r)'
    BY <1>1, <1>4 DEF RoomToCome, Rooms
  <2> QED  BY <1>2, <2>1, <2>2, <2>3, <2>4, <2>5, <2>6 DEF ShowsFirst
<1> QED  BY <1>4, <1>5, <1>6, <1>7, <1>8, TakeFrame

\* A page of rooms: into the list, with the last page into the list box.
LEMMA RoomListTaken ==
    ASSUME IInv, Taken, NEW list \in RoomPages, NEW e \in BOOLEAN,
           down[1] = ListRes("LOBBY_ENTER_ROOM_LIST_RES", list, e),
           ReceiveRoomList(down[1]), UNCHANGED <<server, lost, refused>>
    PROVE  IInv'
<1> DEFINE p == down[1]
           listed == [r \in Rooms |-> IF r \in DOMAIN list THEN list[r] ELSE roomList[r]]
<1>0. TypeOK /\ Wire /\ InTurn /\ OneRow
  BY DEF IInv
<1>1. /\ p.kind = "LOBBY_ENTER_ROOM_LIST_RES" /\ p.list = list /\ p.isEnd = e /\ IsAnswer(p)
      /\ (\A u : ~SaysIn(p, u) /\ ~SaysOut(p, u))
      /\ \A r : (SaysRoom(p, r) <=> r \in DOMAIN list) /\ CountOf(p, r) = list[r]
  BY PageSays
<1>2. phase = "rooms" /\ up = <<>>
      /\ \A k \in 1 .. Len(down) : IsAnswer(down[k]) => k = 1
  BY <1>0, <1>1, AnswerTaken DEF Due
<1>3. /\ DOMAIN list \in SUBSET Rooms /\ list \in [DOMAIN list -> 0 .. RoomLimit]
  BY DEF RoomPages
<1>4. e \/ DOMAIN list # {}
  <2>1. 1 \in 1 .. Len(down) /\ Goes(p)
    BY <1>0 DEF Taken, Wire
  <2> QED  BY <1>1, <2>1 DEF Goes
<1>5. state' = state /\ refused' = refused /\ UNCHANGED <<server, lost, refused>>
  BY DEF server
<1>6. listed \in [Rooms -> 0 .. RoomLimit]
      /\ \A r \in Rooms : listed[r] = IF r \in DOMAIN list THEN list[r] ELSE roomList[r]
  BY <1>0, <1>3 DEF TypeOK
<1>7. IF e
      THEN /\ roomRows' = [r \in Rooms |-> IF listed[r] = 0 THEN roomRows[r] ELSE listed[r]]
           /\ roomList' = [r \in Rooms |-> 0]
           /\ phase' = "users"
           /\ up' = Append(up, ListReq("LOBBY_ENTER_USER_LIST_REQ", 0))
           /\ userList' = userList /\ userRows' = userRows
      ELSE /\ roomList' = listed
           /\ up' = Append(up, ListReq("LOBBY_ENTER_ROOM_LIST_REQ", Max(DOMAIN list) + 1))
           /\ phase' = phase /\ userList' = userList
           /\ roomRows' = roomRows /\ userRows' = userRows
  BY <1>1 DEF ReceiveRoomList, RequestRoomList, RequestLobbyUserList
<1> HIDE DEF p, listed
<1>9. ASSUME BoxesEmpty
      PROVE  \A r \in Rooms : roomRows[r] = 0
  BY <1>2, <1>9 DEF BoxesEmpty
<1>10. ~e => Max(DOMAIN list) \in Nat
  <2> SUFFICES ASSUME ~e PROVE Max(DOMAIN list) \in Nat
    OBVIOUS
  <2>1. RoomCount \in Nat /\ DOMAIN list \in SUBSET (0 .. RoomCount)
    BY <1>3, Limits DEF Rooms
  <2>2. Max(DOMAIN list) \in DOMAIN list
    BY <1>4, <2>1, Greatest
  <2> QED  BY <2>1, <2>2
<1>11. CASE e
  <2>1. /\ up' \in Seq(Requests) /\ Len(up') <= 1 /\ up' # <<>>
        /\ up'[1].kind = "LOBBY_ENTER_USER_LIST_REQ" /\ up'[1].start = 0
    BY <1>2, <1>7, <1>11, SendRequest
  <2>2. InTurn'
    BY <1>0, <1>1, <1>5, <1>7, <1>11, <2>1, NextTurn DEF p
  <2>3. OneRow'
    BY <1>0, <1>2, <1>7, <1>11 DEF OneRow
  <2>4. ClientTypes'
    BY <1>0, <1>6, <1>7, <1>11, Limits DEF TypeOK, ClientTypes
  <2>5. ASSUME EnteredFirst, BoxesEmpty PROVE EnteredFirst' /\ BoxesEmpty' /\ ShowsFirst
    <3>1. EnteredFirst'
      BY <1>7, <1>11 DEF EnteredFirst
    <3>2. BoxesEmpty'
      BY <1>2, <1>7, <1>11, <2>5 DEF BoxesEmpty
    <3>3. \A u : Shows(u)' <=> Shows(u)
      BY <1>2, <1>7, <1>11 DEF Shows
    <3>4. \A r \in Rooms : ShowsCount(r)' = IF r \in DOMAIN list THEN list[r] ELSE ShowsCount(r)
      <4> SUFFICES ASSUME NEW r \in Rooms
                   PROVE  ShowsCount(r)' = IF r \in DOMAIN list THEN list[r] ELSE ShowsCount(r)
        OBVIOUS
      <4>1. ShowsCount(r)' = roomRows'[r] /\ ShowsCount(r) = roomList[r]
        BY <1>2, <1>7, <1>11 DEF ShowsCount
      <4>2. roomRows'[r] = listed[r]
        BY <1>7, <1>9, <1>11, <2>5
      <4> QED  BY <1>6, <4>1, <4>2
    <3>5. \A i \in Nat : SlotToCome(i)'
      BY <1>7, <1>11, <2>1 DEF SlotToCome
    <3>6. \A r \in Rooms : ~RoomToCome(r)
      <4> SUFFICES ASSUME NEW r \in Rooms, RoomToCome(r) PROVE FALSE
        OBVIOUS
      <4>1. PICK k \in 1 .. Len(down) : /\ down[k].kind = "LOBBY_ENTER_ROOM_LIST_RES"
                                        /\ ~down[k].isEnd
        BY <1>2 DEF RoomToCome
      <4>2. k = 1
        BY <1>2, <4>1 DEF IsAnswer
      <4> QED  BY <1>1, <1>11, <4>1, <4>2 DEF p
    <3>7. ShowsFirst
      BY <1>1, <3>3, <3>4, <3>5, <3>6 DEF ShowsFirst, p
    <3> QED  BY <3>1, <3>2, <3>7
  <2> QED  BY <1>5, <2>1, <2>2, <2>3, <2>4, <2>5, TakeFrame
<1>12. CASE ~e
  <2> DEFINE next == Max(DOMAIN list) + 1
  <2>0. next \in Nat
    BY <1>10, <1>12
  <2>1. /\ up' \in Seq(Requests) /\ Len(up') <= 1 /\ up' # <<>>
        /\ up'[1].kind = "LOBBY_ENTER_ROOM_LIST_REQ" /\ up'[1].start = next
    BY <1>2, <1>7, <1>12, <2>0, SendRequest
  <2> HIDE DEF next
  <2>2. InTurn'
    BY <1>0, <1>1, <1>2, <1>5, <1>7, <1>12, <2>1, NextTurn DEF p
  <2>3. OneRow'
    BY <1>0, <1>7, <1>12 DEF OneRow
  <2>4. ClientTypes'
    BY <1>0, <1>6, <1>7, <1>12 DEF TypeOK, ClientTypes
  <2>5. ASSUME EnteredFirst, BoxesEmpty PROVE EnteredFirst' /\ BoxesEmpty' /\ ShowsFirst
    <3>1. EnteredFirst'
      BY <1>2, <1>7, <1>12 DEF EnteredFirst
    <3>2. BoxesEmpty'
      BY <1>2, <1>7, <1>12, <2>5 DEF BoxesEmpty
    <3>3. \A u : Shows(u)' <=> Shows(u)
      BY <1>2, <1>7, <1>12 DEF Shows
    <3>4. \A r \in Rooms : ShowsCount(r)' = IF r \in DOMAIN list THEN list[r] ELSE ShowsCount(r)
      <4> SUFFICES ASSUME NEW r \in Rooms
                   PROVE  ShowsCount(r)' = IF r \in DOMAIN list THEN list[r] ELSE ShowsCount(r)
        OBVIOUS
      <4>1. ShowsCount(r)' = listed[r] /\ ShowsCount(r) = roomList[r]
        BY <1>2, <1>7, <1>12 DEF ShowsCount
      <4> QED  BY <1>6, <4>1
    <3>5. \A i \in Nat : SlotToCome(i)'
      BY <1>2, <1>7, <1>12 DEF SlotToCome
    <3>6. \A r \in Rooms : RoomToCome(r) => RoomToCome(r)'
      <4> SUFFICES ASSUME NEW r \in Rooms, RoomToCome(r) PROVE RoomToCome(r)'
        OBVIOUS
      <4>1. PICK k \in 1 .. Len(down) : /\ down[k].kind = "LOBBY_ENTER_ROOM_LIST_RES"
                                        /\ r > Max(DOMAIN down[k].list)
        BY <1>2 DEF RoomToCome
      <4>2. k = 1
        BY <1>2, <4>1 DEF IsAnswer
      <4>3. r > Max(DOMAIN list)
        BY <1>1, <4>1, <4>2 DEF p
      <4>4. r >= next
        BY <1>10, <1>12, <4>3 DEF next, Rooms
      <4> QED  BY <1>2, <1>7, <1>12, <2>1, <4>4 DEF RoomToCome
    <3>7. ShowsFirst
      BY <1>1, <3>3, <3>4, <3>5, <3>6 DEF ShowsFirst, p
    <3> QED  BY <3>1, <3>2, <3>7
  <2> QED  BY <1>5, <2>1, <2>2, <2>3, <2>4, <2>5, TakeFrame
<1> QED  BY <1>11, <1>12

\* A page of users: into the list, with the last page into the list box.
LEMMA UserListTaken ==
    ASSUME IInv, Taken, NEW list \in UserPages, NEW e \in BOOLEAN,
           down[1] = ListRes("LOBBY_ENTER_USER_LIST_RES", list, e),
           ReceiveUserList(down[1]), UNCHANGED <<server, lost, refused>>
    PROVE  IInv'
<1> DEFINE p == down[1]
           listed == userList \union {list[i] : i \in DOMAIN list}
<1>0. TypeOK /\ Wire /\ InTurn /\ OneRow
  BY DEF IInv
<1>1. /\ p.kind = "LOBBY_ENTER_USER_LIST_RES" /\ p.list = list /\ p.isEnd = e /\ IsAnswer(p)
      /\ \A u : (SaysIn(p, u) <=> \E i \in DOMAIN list : list[i] = u) /\ ~SaysOut(p, u)
      /\ \A r : ~SaysRoom(p, r)
  BY PageSays
<1>2. phase = "users" /\ up = <<>>
      /\ \A k \in 1 .. Len(down) : IsAnswer(down[k]) => k = 1
  BY <1>0, <1>1, AnswerTaken DEF Due
<1>3. /\ DOMAIN list \in SUBSET (0 .. SlotCount - 1) /\ list \in [DOMAIN list -> Users]
  BY DEF UserPages
<1>4. e \/ DOMAIN list # {}
  <2>1. 1 \in 1 .. Len(down) /\ Goes(p)
    BY <1>0 DEF Taken, Wire
  <2> QED  BY <1>1, <2>1 DEF Goes
<1>5. state' = state /\ refused' = refused /\ UNCHANGED <<server, lost, refused>>
  BY DEF server
<1>6. /\ listed \subseteq Users
      /\ \A u : u \in listed <=> u \in userList \/ \E i \in DOMAIN list : list[i] = u
  BY <1>0, <1>3 DEF TypeOK
<1>7. IF e
      THEN /\ userRows' = [u \in Users |-> userRows[u] + (IF u \in listed THEN 1 ELSE 0)]
           /\ userList' = {} /\ phase' = "done"
           /\ up' = up /\ roomList' = roomList /\ roomRows' = roomRows
      ELSE /\ userList' = listed
           /\ up' = Append(up, ListReq("LOBBY_ENTER_USER_LIST_REQ", Max(DOMAIN list) + 1))
           /\ phase' = phase /\ roomList' = roomList
           /\ roomRows' = roomRows /\ userRows' = userRows
  BY <1>1 DEF ReceiveUserList, RequestLobbyUserList
<1> HIDE DEF p, listed
<1>8. \A r \in Rooms : ~RoomToCome(r)
  <2> SUFFICES ASSUME NEW r \in Rooms, RoomToCome(r) PROVE FALSE
    OBVIOUS
  <2>1. PICK k \in 1 .. Len(down) : down[k].kind = "LOBBY_ENTER_ROOM_LIST_RES"
    BY <1>2 DEF RoomToCome
  <2>2. k = 1
    BY <1>2, <2>1 DEF IsAnswer
  <2> QED  BY <1>1, <2>1, <2>2 DEF p
<1>9. ASSUME BoxesEmpty PROVE \A u \in Others : userRows[u] = 0
  BY <1>2, <1>9 DEF BoxesEmpty
<1>10. ~e => Max(DOMAIN list) \in Nat
  <2> SUFFICES ASSUME ~e PROVE Max(DOMAIN list) \in Nat
    OBVIOUS
  <2>1. SlotCount \in Nat /\ DOMAIN list \in SUBSET (0 .. SlotCount)
    BY <1>3, Limits
  <2>2. Max(DOMAIN list) \in DOMAIN list
    BY <1>4, <2>1, Greatest
  <2> QED  BY <2>1, <2>2
<1>11. CASE e
  <2>1. up' = <<>> /\ up' \in Seq(Requests) /\ Len(up') <= 1
    BY <1>2, <1>7, <1>11
  <2>2. InTurn'
    BY <1>0, <1>1, <1>5, <2>1, NextTurn DEF p
  <2>3. OneRow'
    BY <1>7, <1>11 DEF OneRow
  <2>4. ClientTypes'
    <3>1. userRows' \in [Users -> 0 .. 2]
      <4>1. \A u \in Users : userRows[u] \in 0 .. 1
        <5>1. \A u \in Users : userRows[u] \in 0 .. 2
          BY <1>0 DEF TypeOK
        <5>2. \A u \in Users : userRows[u] <= 1
          BY <1>0, <1>2 DEF OneRow
        <5> QED  BY <5>1, <5>2
      <4>2. \A u \in Users : userRows[u] + (IF u \in listed THEN 1 ELSE 0) \in 0 .. 2
        BY <4>1
      <4> QED  BY <1>7, <1>11, <4>2
    <3> QED  BY <1>0, <1>7, <1>11, <3>1 DEF TypeOK, ClientTypes
  <2>5. ASSUME EnteredFirst, BoxesEmpty PROVE EnteredFirst' /\ BoxesEmpty' /\ ShowsFirst
    <3>1. EnteredFirst'
      BY <1>7, <1>11 DEF EnteredFirst
    <3>2. \A u \in Others : userRows'[u] = IF u \in listed THEN 1 ELSE 0
      <4>1. \A u \in Others : u \in Users
        BY DEF Users
      <4> QED  BY <1>7, <1>9, <1>11, <2>5, <4>1
    <3>3. BoxesEmpty'
      <4>1. \A u \in Others : userRows'[u] = 0 \/ userRows'[u] = 1
        BY <3>2
      <4>2. phase' = "done"
        BY <1>7, <1>11
      <4> QED  BY <4>1, <4>2 DEF BoxesEmpty
    <3>4. \A u \in Others : (Shows(u)' <=> u \in listed) /\ (Shows(u) <=> u \in userList)
      <4>1. phase' = "done"
        BY <1>7, <1>11
      <4> QED  BY <1>2, <3>2, <4>1 DEF Shows
    <3>5. \A r \in Rooms : ShowsCount(r)' = ShowsCount(r)
      BY <1>2, <1>7, <1>11 DEF ShowsCount
    <3>6. \A i \in Nat : ~SlotToCome(i)
      <4> SUFFICES ASSUME NEW i \in Nat, SlotToCome(i) PROVE FALSE
        OBVIOUS
      <4>1. PICK k \in 1 .. Len(down) : /\ down[k].kind = "LOBBY_ENTER_USER_LIST_RES"
                                        /\ ~down[k].isEnd
        BY <1>2 DEF SlotToCome
      <4>2. k = 1
        BY <1>2, <4>1 DEF IsAnswer
      <4> QED  BY <1>1, <1>11, <4>1, <4>2 DEF p
    <3>7. ShowsFirst
      BY <1>1, <1>6, <1>8, <3>4, <3>5, <3>6 DEF ShowsFirst, p
    <3> QED  BY <3>1, <3>3, <3>7
  <2> QED  BY <1>5, <2>1, <2>2, <2>3, <2>4, <2>5, TakeFrame
<1>12. CASE ~e
  <2> DEFINE next == Max(DOMAIN list) + 1
  <2>0. next \in Nat
    BY <1>10, <1>12
  <2>1. /\ up' \in Seq(Requests) /\ Len(up') <= 1 /\ up' # <<>>
        /\ up'[1].kind = "LOBBY_ENTER_USER_LIST_REQ" /\ up'[1].start = next
    BY <1>2, <1>7, <1>12, <2>0, SendRequest
  <2> HIDE DEF next
  <2>2. InTurn'
    BY <1>0, <1>1, <1>2, <1>5, <1>7, <1>12, <2>1, NextTurn DEF p
  <2>3. OneRow'
    BY <1>0, <1>7, <1>12 DEF OneRow
  <2>4. ClientTypes'
    BY <1>0, <1>6, <1>7, <1>12 DEF TypeOK, ClientTypes
  <2>5. ASSUME EnteredFirst, BoxesEmpty PROVE EnteredFirst' /\ BoxesEmpty' /\ ShowsFirst
    <3>1. EnteredFirst'
      BY <1>2, <1>7, <1>12 DEF EnteredFirst
    <3>2. BoxesEmpty'
      BY <1>2, <1>7, <1>12, <2>5 DEF BoxesEmpty
    <3>3. \A u : (Shows(u)' <=> u \in listed) /\ (Shows(u) <=> u \in userList)
      BY <1>2, <1>7, <1>12 DEF Shows
    <3>4. \A r \in Rooms : ShowsCount(r)' = ShowsCount(r)
      BY <1>2, <1>7, <1>12 DEF ShowsCount
    <3>5. \A i \in Nat : SlotToCome(i) => SlotToCome(i)'
      <4> SUFFICES ASSUME NEW i \in Nat, SlotToCome(i) PROVE SlotToCome(i)'
        OBVIOUS
      <4>1. PICK k \in 1 .. Len(down) : /\ down[k].kind = "LOBBY_ENTER_USER_LIST_RES"
                                        /\ i > Max(DOMAIN down[k].list)
        BY <1>2 DEF SlotToCome
      <4>2. k = 1
        BY <1>2, <4>1 DEF IsAnswer
      <4>3. i > Max(DOMAIN list)
        BY <1>1, <4>1, <4>2 DEF p
      <4>4. i >= next
        BY <1>10, <1>12, <4>3 DEF next
      <4> QED  BY <1>2, <1>7, <1>12, <2>1, <4>4 DEF SlotToCome
    <3>6. ShowsFirst
      BY <1>1, <1>6, <1>8, <3>3, <3>4, <3>5 DEF ShowsFirst, p
    <3> QED  BY <3>1, <3>2, <3>6
  <2> QED  BY <1>5, <2>1, <2>2, <2>3, <2>4, <2>5, TakeFrame
<1> QED  BY <1>11, <1>12

\* What a notice leaves alone; before the client has entered, it is the one of its
\* own entering, and the answer follows.
LEMMA NoticeKeeps ==
    ASSUME IInv, Taken, ~IsAnswer(down[1]), up' = up, phase' = phase,
           UNCHANGED <<server, lost, refused>>
    PROVE  /\ up' \in Seq(Requests) /\ Len(up') <= 1 /\ InTurn'
           /\ \A i : SlotToCome(i) => SlotToCome(i)'
           /\ \A r : RoomToCome(r) => RoomToCome(r)'
           /\ EnteredFirst => EnteredFirst' /\ (phase = "out" => down[1] = Enters(Viewer))
<1>0. Wire /\ InTurn
  BY DEF IInv
<1>1. state' = state /\ refused' = refused
  BY DEF server
<1>2. /\ InTurn'
      /\ \A i : SlotToCome(i) => SlotToCome(i)'
      /\ \A r : RoomToCome(r) => RoomToCome(r)'
  BY <1>0, <1>1, NoticeTaken
<1>3. up' \in Seq(Requests) /\ Len(up') <= 1
  BY <1>0 DEF Wire, InTurn
<1>4. ASSUME EnteredFirst, phase = "out"
      PROVE  down[1] = Enters(Viewer) /\ down' # <<>> /\ down'[1] = Entered
  <2>1. down # <<>>
    BY EmptySeq DEF Taken
  <2>2. state[Viewer] = "LOBBY"
    BY <1>0, <2>1 DEF InTurn
  <2>3. IsAnswer(Entered)
    BY DEF IsAnswer, Entered
  <2>4. down[1] = Enters(Viewer) /\ Len(down) > 1 /\ down[2] = Entered
    BY <1>4, <2>2, <2>3 DEF EnteredFirst
  <2>5. Len(down) \in Nat /\ Len(down') = Len(down) - 1 /\ down' \in Seq(Packets)
    BY DEF Taken
  <2>6. 1 \in 1 .. Len(down')
    BY <2>4, <2>5
  <2>7. down'[1] = down[1 + 1]
    BY <2>6 DEF Taken
  <2>8. down' # <<>>
    BY <2>6, <2>5, EmptySeq
  <2> QED  BY <2>4, <2>7, <2>8
<1>5. EnteredFirst => EnteredFirst' /\ (phase = "out" => down[1] = Enters(Viewer))
  BY <1>4 DEF EnteredFirst
<1> QED  BY <1>2, <1>3, <1>5

\* A room with another number of users.
LEMMA ChangedTaken ==
    ASSUME IInv, Taken, NEW q \in Rooms, NEW n \in 0 .. RoomLimit,
           down[1] = Changed(q, n), UpdateRoomInfo(q, n),
           UNCHANGED <<up, phase, userList, userRows>>, UNCHANGED <<server, lost, refused>>
    PROVE  IInv'
<1>0. TypeOK /\ OneRow
  BY DEF IInv
<1>1. /\ ~IsAnswer(down[1])
      /\ \A u : ~SaysIn(down[1], u) /\ ~SaysOut(down[1], u)
      /\ \A r : (SaysRoom(down[1], r) <=> q = r) /\ CountOf(down[1], r) = n
  BY NoticeSays
<1>2. /\ up' \in Seq(Requests) /\ Len(up') <= 1 /\ InTurn'
      /\ \A i : SlotToCome(i) => SlotToCome(i)'
      /\ \A r : RoomToCome(r) => RoomToCome(r)'
      /\ EnteredFirst => EnteredFirst' /\ (phase = "out" => down[1] = Enters(Viewer))
  BY <1>1, NoticeKeeps
<1>3. phase' = phase /\ userList' = userList /\ userRows' = userRows
  OBVIOUS
<1>4. /\ phase = "rooms" => roomList' = [roomList EXCEPT ![q] = n] /\ roomRows' = roomRows
      /\ phase # "rooms" => roomRows' = [roomRows EXCEPT ![q] = n] /\ roomList' = roomList
  BY DEF UpdateRoomInfo, IsRoomListWorking
<1>5. roomList \in [Rooms -> 0 .. RoomLimit] /\ roomRows \in [Rooms -> 0 .. RoomLimit]
  BY <1>0 DEF TypeOK
<1>6. ClientTypes'
  BY <1>0, <1>3, <1>4, <1>5 DEF TypeOK, ClientTypes
<1>7. OneRow'
  BY <1>0, <1>3 DEF OneRow
<1>8. ASSUME EnteredFirst, BoxesEmpty PROVE EnteredFirst' /\ BoxesEmpty' /\ ShowsFirst
  <2>1. phase # "out"
    <3>1. Changed(q, n) # Enters(Viewer)
      BY DEF Changed, Enters
    <3> QED  BY <1>2, <1>8, <3>1
  <2>2. BoxesEmpty'
    BY <1>3, <1>4, <1>8, <2>1 DEF BoxesEmpty
  <2>3. \A u : Shows(u)' <=> Shows(u)
    BY <1>3 DEF Shows
  <2>4. \A r \in Rooms : ShowsCount(r)' = IF q = r THEN n ELSE ShowsCount(r)
    <3>1. CASE phase = "rooms"
      BY <1>3, <1>4, <1>5, <3>1 DEF ShowsCount
    <3>2. CASE phase # "rooms"
      BY <1>3, <1>4, <1>5, <2>1, <3>2 DEF ShowsCount
    <3> QED  BY <3>1, <3>2
  <2>5. ShowsFirst
    BY <1>1, <1>2, <2>3, <2>4 DEF ShowsFirst
  <2> QED  BY <1>2, <1>8, <2>2, <2>5
<1> QED  BY <1>2, <1>6, <1>7, <1>8, TakeFrame

\* A user who enters: no second row for one who has a row.
LEMMA EntersTaken ==
    ASSUME IInv, Taken, NEW v \in Users, down[1] = Enters(v), AddUser(v),
           UNCHANGED <<up, phase, roomList, roomRows>>, UNCHANGED <<server, lost, refused>>
    PROVE  IInv'
<1>0. TypeOK /\ OneRow
  BY DEF IInv
<1>1. /\ ~IsAnswer(down[1])
      /\ \A u : (SaysIn(down[1], u) <=> v = u) /\ ~SaysOut(down[1], u)
      /\ \A r : ~SaysRoom(down[1], r)
  BY NoticeSays
<1>2. /\ up' \in Seq(Requests) /\ Len(up') <= 1 /\ InTurn'
      /\ \A i : SlotToCome(i) => SlotToCome(i)'
      /\ \A r : RoomToCome(r) => RoomToCome(r)'
      /\ EnteredFirst => EnteredFirst' /\ (phase = "out" => down[1] = Enters(Viewer))
  BY <1>1, NoticeKeeps
<1>3. phase' = phase /\ roomList' = roomList /\ roomRows' = roomRows
  OBVIOUS
<1>4. /\ phase \in {"rooms", "users"} =>
           userList' = userList \union {v} /\ userRows' = userRows
      /\ phase \notin {"rooms", "users"} =>
           /\ userRows' = [userRows EXCEPT ![v] = IF userRows[v] = 0 THEN 1 ELSE userRows[v]]
           /\ userList' = userList
  BY DEF AddUser, IsUserListWorking
<1>5. userList \subseteq Users /\ userRows \in [Users -> 0 .. 2]
  BY <1>0 DEF TypeOK
<1>6. userList' \subseteq Users /\ userRows' \in [Users -> 0 .. 2]
  BY <1>4, <1>5
<1>7. ClientTypes'
  BY <1>0, <1>3, <1>6 DEF TypeOK, ClientTypes
<1>8. OneRow'
  <2>1. \A u \in Users : userRows[u] <= 1 => userRows'[u] <= 1
    BY <1>4, <1>5
  <2> QED  BY <1>0, <1>3, <2>1 DEF OneRow
<1>9. ASSUME EnteredFirst, BoxesEmpty PROVE EnteredFirst' /\ BoxesEmpty' /\ ShowsFirst
  <2>0. \A u \in Others : u \in Users /\ u # Viewer
    BY Limits DEF Users
  <2>1. phase = "out" => v = Viewer
    <3>1. Enters(v) = Enters(Viewer) => v = Viewer
      BY DEF Enters
    <3> QED  BY <1>2, <1>9, <3>1
  <2>2. \A u \in Others : phase # "done" => userRows'[u] = userRows[u]
    BY <1>4, <1>5, <1>7, <2>0, <2>1, <1>0 DEF TypeOK
  <2>3. \A u \in Others :
          phase = "done" => userRows'[u] = IF u = v /\ userRows[u] = 0 THEN 1 ELSE userRows[u]
    BY <1>4, <1>5, <2>0
  <2>4. \A u \in Others : userRows[u] = 0 \/ (phase = "done" /\ userRows[u] = 1)
    BY <1>9 DEF BoxesEmpty
  <2>5. BoxesEmpty'
    <3>1. \A u \in Others : userRows'[u] = 0 \/ (phase' = "done" /\ userRows'[u] = 1)
      BY <1>3, <2>2, <2>3, <2>4
    <3> QED  BY <1>3, <1>9, <3>1 DEF BoxesEmpty
  <2>6. \A u \in Others : Shows(u)' <=> v = u \/ Shows(u)
    <3> SUFFICES ASSUME NEW u \in Others PROVE Shows(u)' <=> v = u \/ Shows(u)
      OBVIOUS
    <3>1. CASE phase = "out"
      BY <1>3, <2>0, <2>1, <3>1 DEF Shows
    <3>2. CASE phase \in {"rooms", "users"}
      BY <1>3, <1>4, <3>2 DEF Shows
    <3>3. CASE phase = "done"
      BY <1>3, <2>3, <2>4, <3>3 DEF Shows
    <3> QED  BY <1>0, <3>1, <3>2, <3>3 DEF TypeOK
  <2>7. \A r \in Rooms : ShowsCount(r)' = ShowsCount(r)
    BY <1>3 DEF ShowsCount
  <2>8. ShowsFirst
    BY <1>1, <1>2, <2>6, <2>7 DEF ShowsFirst
  <2> QED  BY <1>2, <1>9, <2>5, <2>8
<1> QED  BY <1>2, <1>7, <1>8, <1>9, TakeFrame

\* A user who leaves.
LEMMA LeavesTaken ==
    ASSUME IInv, Taken, NEW v \in Others, down[1] = Leaves(v), RemoveUser(v),
           UNCHANGED <<up, phase, roomList, roomRows>>, UNCHANGED <<server, lost, refused>>
    PROVE  IInv'
<1>0. TypeOK /\ OneRow
  BY DEF IInv
<1>1. /\ ~IsAnswer(down[1])
      /\ \A u : (SaysOut(down[1], u) <=> v = u) /\ ~SaysIn(down[1], u)
      /\ \A r : ~SaysRoom(down[1], r)
  BY NoticeSays
<1>2. /\ up' \in Seq(Requests) /\ Len(up') <= 1 /\ InTurn'
      /\ \A i : SlotToCome(i) => SlotToCome(i)'
      /\ \A r : RoomToCome(r) => RoomToCome(r)'
      /\ EnteredFirst => EnteredFirst' /\ (phase = "out" => down[1] = Enters(Viewer))
  BY <1>1, NoticeKeeps
<1>3. phase' = phase /\ roomList' = roomList /\ roomRows' = roomRows
  OBVIOUS
<1>4. /\ phase \in {"rooms", "users"} =>
           userList' = userList \ {v} /\ userRows' = userRows
      /\ phase \notin {"rooms", "users"} =>
           /\ userRows' = [userRows EXCEPT ![v] = IF userRows[v] = 0 THEN 0 ELSE userRows[v] - 1]
           /\ userList' = userList
  BY DEF RemoveUser, IsUserListWorking
<1>5. userList \subseteq Users /\ userRows \in [Users -> 0 .. 2]
  BY <1>0 DEF TypeOK
<1>6. userList' \subseteq Users /\ userRows' \in [Users -> 0 .. 2]
  BY <1>4, <1>5
<1>7. ClientTypes'
  BY <1>0, <1>3, <1>6 DEF TypeOK, ClientTypes
<1>8. OneRow'
  <2>1. \A u \in Users : userRows[u] <= 1 => userRows'[u] <= 1
    BY <1>4, <1>5
  <2> QED  BY <1>0, <1>3, <2>1 DEF OneRow
<1>9. ASSUME EnteredFirst, BoxesEmpty PROVE EnteredFirst' /\ BoxesEmpty' /\ ShowsFirst
  <2>0. \A u \in Others : u \in Users
    BY DEF Users
  <2>1. phase # "out"
    <3>1. Leaves(v) # Enters(Viewer)
      BY DEF Leaves, Enters
    <3> QED  BY <1>2, <1>9, <3>1
  <2>2. phase \in {"rooms", "users", "done"}
    BY <1>0, <2>1 DEF TypeOK
  <2>3. \A u \in Others : userRows[u] = 0 \/ (phase = "done" /\ userRows[u] = 1)
    BY <1>9 DEF BoxesEmpty
  <2>4. \A u \in Others : /\ phase # "done" => userRows'[u] = userRows[u]
                          /\ phase = "done" => userRows'[u] = IF u = v THEN 0 ELSE userRows[u]
    BY <1>4, <1>5, <2>0, <2>2, <2>3
  <2>5. BoxesEmpty'
    <3>1. \A u \in Others : userRows'[u] = 0 \/ (phase' = "done" /\ userRows'[u] = 1)
      BY <1>3, <2>3, <2>4
    <3> QED  BY <1>3, <1>9, <3>1 DEF BoxesEmpty
  <2>6. \A u \in Others : Shows(u)' <=> Shows(u) /\ v # u
    <3> SUFFICES ASSUME NEW u \in Others PROVE Shows(u)' <=> Shows(u) /\ v # u
      OBVIOUS
    <3>1. CASE phase \in {"rooms", "users"}
      BY <1>3, <1>4, <3>1 DEF Shows
    <3>2. CASE phase = "done"
      BY <1>3, <2>4, <3>2 DEF Shows
    <3> QED  BY <2>2, <3>1, <3>2
  <2>7. \A r \in Rooms : ShowsCount(r)' = ShowsCount(r)
    BY <1>3 DEF ShowsCount
  <2>8. ShowsFirst
    BY <1>1, <1>2, <2>6, <2>7 DEF ShowsFirst
  <2> QED  BY <1>2, <1>9, <2>5, <2>8
<1> QED  BY <1>2, <1>7, <1>8, <1>9, TakeFrame

-----------------------------------------------------------------------------
(* The invariant *)

\* The client takes a packet of any kind.
LEMMA ProcessPacketKeeps == ASSUME IInv, ProcessPacket PROVE IInv'
<1> DEFINE p == down[1]
<1>0. down \in Seq(Packets) /\ down # <<>> /\ down' = Tail(down)
  BY DEF IInv, Wire, ProcessPacket
<1>1. Taken /\ Head(down) = p
  BY <1>0, TailTaken
<1>2. /\ UNCHANGED <<server, lost, refused>>
      /\ \/ p.kind = "LOBBY_ENTER_RES" /\ ReceiveEnterRes
         \/ p.kind = "LOBBY_ENTER_ROOM_LIST_RES" /\ ReceiveRoomList(p)
         \/ p.kind = "LOBBY_ENTER_USER_LIST_RES" /\ ReceiveUserList(p)
         \/ /\ p.kind = "ROOM_CHANGED_INFO_NTF" /\ UpdateRoomInfo(p.room, p.count)
            /\ UNCHANGED <<up, phase, userList, userRows>>
         \/ /\ p.kind = "LOBBY_ENTER_USER_NTF" /\ AddUser(p.user)
            /\ UNCHANGED <<up, phase, roomList, roomRows>>
         \/ /\ p.kind = "LOBBY_LEAVE_USER_NTF" /\ RemoveUser(p.user)
            /\ UNCHANGED <<up, phase, roomList, roomRows>>
  BY <1>1 DEF ProcessPacket
<1>3. p \in Packets
  BY <1>1 DEF Taken
<1>4. CASE p = Entered
  <2>1. p.kind = "LOBBY_ENTER_RES"
    BY <1>4 DEF Entered
  <2>2. ReceiveEnterRes
    BY <1>2, <2>1
  <2> QED  BY <1>1, <1>2, <1>4, <2>2, EnterResKeeps
<1>5. ASSUME NEW u \in Users, p = Enters(u) PROVE IInv'
  <2>1. p.kind = "LOBBY_ENTER_USER_NTF" /\ p.user = u
    BY <1>5 DEF Enters
  <2>2. AddUser(u) /\ UNCHANGED <<up, phase, roomList, roomRows>>
    BY <1>2, <2>1
  <2> QED  BY <1>1, <1>2, <1>5, <2>2, EntersTaken
<1>6. ASSUME NEW u \in Others, p = Leaves(u) PROVE IInv'
  <2>1. p.kind = "LOBBY_LEAVE_USER_NTF" /\ p.user = u
    BY <1>6 DEF Leaves
  <2>2. RemoveUser(u) /\ UNCHANGED <<up, phase, roomList, roomRows>>
    BY <1>2, <2>1
  <2> QED  BY <1>1, <1>2, <1>6, <2>2, LeavesTaken
<1>7. ASSUME NEW r \in Rooms, NEW n \in 0 .. RoomLimit, p = Changed(r, n) PROVE IInv'
  <2>1. p.kind = "ROOM_CHANGED_INFO_NTF" /\ p.room = r /\ p.count = n
    BY <1>7 DEF Changed
  <2>2. UpdateRoomInfo(r, n) /\ UNCHANGED <<up, phase, userList, userRows>>
    BY <1>2, <2>1
  <2> QED  BY <1>1, <1>2, <1>7, <2>2, ChangedTaken
<1>8. ASSUME NEW list \in RoomPages, NEW e \in BOOLEAN,
             p = ListRes("LOBBY_ENTER_ROOM_LIST_RES", list, e)
      PROVE  IInv'
  <2>1. p.kind = "LOBBY_ENTER_ROOM_LIST_RES"
    BY <1>8 DEF ListRes
  <2>2. ReceiveRoomList(p)
    BY <1>2, <2>1
  <2> QED  BY <1>1, <1>2, <1>8, <2>2, RoomListTaken
<1>9. ASSUME NEW list \in UserPages, NEW e \in BOOLEAN,
             p = ListRes("LOBBY_ENTER_USER_LIST_RES", list, e)
      PROVE  IInv'
  <2>1. p.kind = "LOBBY_ENTER_USER_LIST_RES"
    BY <1>9 DEF ListRes
  <2>2. ReceiveUserList(p)
    BY <1>2, <2>1
  <2> QED  BY <1>1, <1>2, <1>9, <2>2, UserListTaken
<1> HIDE DEF p
<1> QED  BY <1>3, <1>4, <1>5, <1>6, <1>7, <1>8, <1>9, PacketShapes, Zenon

\* A step that changes nothing.
LEMMA StutterKeeps == ASSUME IInv, UNCHANGED vars PROVE IInv'
<1>1. /\ state' = state /\ hasLobby' = hasLobby /\ room' = room /\ slots' = slots
      /\ ghost' = ghost /\ down' = down /\ up' = up /\ lost' = lost /\ refused' = refused
      /\ phase' = phase /\ roomList' = roomList /\ userList' = userList
      /\ roomRows' = roomRows /\ userRows' = userRows
  BY DEF vars, server, client
<1>2. TypeOK' /\ Wire' /\ Placed' /\ InTurn' /\ OneRow'
  BY <1>1
     DEF IInv, TypeOK, Wire, Placed, UserCount, MembersOf, InTurn, NoAnswer, Due, OneRow
<1>3. /\ \A u : WillShow(u)' <=> WillShow(u)
      /\ \A r, n : WillShowCount(r, n)' <=> WillShowCount(r, n)
      /\ \A i : SlotToCome(i)' <=> SlotToCome(i)
      /\ \A r : RoomToCome(r)' <=> RoomToCome(r)
      /\ \A r : UserCount(r)' = UserCount(r)
  <2>1. \A u : Shows(u)' <=> Shows(u)
    BY <1>1 DEF Shows
  <2>2. \A r : ShowsCount(r)' = ShowsCount(r)
    BY <1>1 DEF ShowsCount
  <2>3. \A u : WillShow(u)' <=> WillShow(u)
    BY <1>1, <2>1 DEF WillShow
  <2>4. \A r, n : WillShowCount(r, n)' <=> WillShowCount(r, n)
    BY <1>1, <2>2 DEF WillShowCount
  <2>5. \A i : SlotToCome(i)' <=> SlotToCome(i)
    BY <1>1 DEF SlotToCome
  <2>6. \A r : RoomToCome(r)' <=> RoomToCome(r)
    BY <1>1 DEF RoomToCome
  <2>7. \A r : UserCount(r)' = UserCount(r)
    BY <1>1 DEF UserCount, MembersOf
  <2> QED  BY <2>3, <2>4, <2>5, <2>6, <2>7
<1>4. ShownRight'
  <2>1. EnteredFirst => EnteredFirst'
    BY <1>1 DEF EnteredFirst
  <2>2. BoxesEmpty => BoxesEmpty'
    BY <1>1 DEF BoxesEmpty
  <2>3. UsersRight => UsersRight'
    BY <1>1, <1>3 DEF UsersRight, UserRight
  <2>4. ASSUME RoomsRight, NEW r \in Rooms PROVE RoomRight(r)'
    <3>1. PICK n : UserCount(r) = n
      OBVIOUS
    <3>2. WillShowCount(r, n) \/ (WillShowCount(r, 0) /\ RoomToCome(r))
      BY <2>4, <3>1, RoomRightIf DEF RoomsRight
    <3>3. UserCount(r)' = n
      BY <1>3, <3>1
    <3>4. WillShowCount(r, n)' \/ (WillShowCount(r, 0)' /\ RoomToCome(r)')
      BY <1>3, <3>2
    <3> QED  BY <3>3, <3>4, RoomRightIfNext
  <2>5. RoomsRight => RoomsRight'
    BY <2>4 DEF RoomsRight
  <2>6. Watched' => Watched
    BY <1>1 DEF Watched
  <2> QED  BY <2>1, <2>2, <2>3, <2>5, <2>6 DEF IInv, ShownRight
<1> QED  BY <1>2, <1>4 DEF IInv

\* Every step keeps the invariant ...
LEMMA NextKeeps == ASSUME IInv, [Next]_vars PROVE IInv'
<1>1. ASSUME Watched, NEW u \in Others, Move(u) PROVE IInv'
  BY <1>1, LobbyEnterKeeps, LobbyLeaveKeeps, RoomEnterKeeps, RoomLeaveKeeps, CloseKeeps, Zenon
  DEF Move
<1> QED  BY <1>1, LoginKeeps, ViewerEntersKeeps, HandleListReqKeeps, ProcessPacketKeeps,
            StutterKeeps, Zenon DEF Next

\* ... and it holds in the beginning.
LEMMA InitHolds == ASSUME Init PROVE IInv
<1>1. /\ state = [u \in Users |-> "NONE"] /\ hasLobby = [u \in Users |-> FALSE]
      /\ room = [u \in Users |-> None] /\ slots = <<>> /\ down = <<>> /\ up = <<>>
      /\ phase = "out" /\ roomList = [r \in Rooms |-> 0] /\ userList = {}
      /\ roomRows = [r \in Rooms |-> 0] /\ userRows = [u \in Users |-> 0]
      /\ lost = FALSE /\ refused = None /\ ghost = {}
  BY DEF Init
<1>2. Viewer \in Users /\ Others \subseteq Users /\ None \notin Nat /\ None \in Int
  BY DEF Users, None
<1>3. Len(down) = 0 /\ Len(up) = 0 /\ Len(slots) = 0
  BY <1>1, EmptySeq
<1>4. TypeOK
  <2>1. slots \in Seq(Users) /\ Len(slots) <= SlotCount
    BY <1>1, <1>3, Limits
  <2>2. Len(down) <= MaxDown /\ Len(up) <= 1
    BY <1>3, Limits
  <2>3. roomList \in [Rooms -> 0 .. RoomLimit] /\ roomRows \in [Rooms -> 0 .. RoomLimit]
    BY <1>1, Limits
  <2>4. state \in [Users -> {"NONE", "LOGIN", "LOBBY", "ROOM"}]
    BY <1>1
  <2>5. room \in [Users -> Rooms \union {None}] /\ hasLobby \in [Users -> BOOLEAN]
    BY <1>1
  <2>6. userRows \in [Users -> 0 .. 2]
    BY <1>1
  <2>7. refused \in Int /\ phase \in {"out", "rooms", "users", "done"} /\ lost \in BOOLEAN
        /\ userList \subseteq Users /\ ghost \subseteq Others
    BY <1>1, <1>2
  <2> QED  BY <2>1, <2>2, <2>3, <2>4, <2>5, <2>6, <2>7 DEF TypeOK
<1>5. Wire
  BY <1>1, <1>3 DEF Wire
<1>6. \A r \in Rooms : UserCount(r) = 0
  <2>1. \A r \in Rooms : MembersOf(r, state, room) = {}
    BY <1>1, <1>2 DEF MembersOf
  <2> QED  BY <2>1, FS_EmptySet DEF UserCount
<1>7. Placed
  BY <1>1, <1>2, <1>6, Limits DEF Placed
<1>8. InTurn
  BY <1>1, <1>3 DEF InTurn
<1>9. OneRow
  BY <1>1 DEF OneRow
<1>10. ShownRight
  <2>1. EnteredFirst
    BY <1>1, <1>2 DEF EnteredFirst
  <2>2. BoxesEmpty
    BY <1>1, <1>2 DEF BoxesEmpty
  <2>3. \A u : ~WillShow(u)
    BY <1>1, <1>3 DEF WillShow, Shows
  <2>4. UsersRight
    BY <1>1, <1>2, <2>3 DEF UsersRight, UserRight
  <2>5. \A r \in Rooms : WillShowCount(r, 0)
    BY <1>1, <1>3 DEF WillShowCount, ShowsCount
  <2>6. RoomsRight
    BY <1>6, <2>5, RoomRightIf DEF RoomsRight
  <2> QED  BY <2>1, <2>2, <2>4, <2>6 DEF ShownRight
<1> QED  BY <1>4, <1>5, <1>7, <1>8, <1>9, <1>10 DEF IInv

\* When everything has come, what the client will show is what it shows.
LEMMA SettledShowsRight == ASSUME IInv PROVE ListsShownRight
<1> SUFFICES ASSUME Settled
             PROVE  /\ \A u \in Others :
                         IF state[u] = "LOBBY" THEN userRows[u] = 1
                         ELSE userRows[u] = 0 \/ (userRows[u] = 1 /\ u \in ghost)
                    /\ \A r \in Rooms : roomRows[r] = UserCount(r)
  BY DEF ListsShownRight
<1>1. phase = "done" /\ down = <<>> /\ Len(down) = 0 /\ ~lost
  BY EmptySeq DEF Settled
<1>2. Watched
  BY <1>1 DEF Watched, IInv, InTurn
<1>3. BoxesEmpty /\ UsersRight /\ RoomsRight
  BY <1>2 DEF IInv, ShownRight
<1>4. \A u : WillShow(u) <=> userRows[u] = 1
  BY <1>1 DEF WillShow, Shows
<1>5. \A i : ~SlotToCome(i)
  BY <1>1 DEF SlotToCome
<1>6. \A r : ~RoomToCome(r)
  BY <1>1 DEF RoomToCome
<1>7. \A r, n : WillShowCount(r, n) => roomRows[r] = n
  BY <1>1 DEF WillShowCount, ShowsCount
<1>8. ASSUME NEW u \in Others
      PROVE  IF state[u] = "LOBBY" THEN userRows[u] = 1
             ELSE userRows[u] = 0 \/ (userRows[u] = 1 /\ u \in ghost)
  BY <1>3, <1>4, <1>5 DEF UsersRight, UserRight, BoxesEmpty
<1>9. ASSUME NEW r \in Rooms PROVE roomRows[r] = UserCount(r)
  BY <1>3, <1>6, <1>7 DEF RoomsRight, RoomRight
<1> QED  BY <1>8, <1>9

\* Whatever comes and goes while the lists are fetched (ClientSceneLobby.cpp:63, 104),
\* what the client shows and what is still to come to it together are right.
THEOREM LobbyViewInvariance == Spec => []IInv
<1>1. Init => IInv
  BY InitHolds
<1>2. IInv /\ [Next]_vars => IInv'
  BY NextKeeps
<1> QED  BY <1>1, <1>2, PTL DEF Spec

\* Every variable keeps its type: no slot, row, packet or request too many.
THEOREM LobbyViewTypeCorrect == Spec => []TypeOK
<1>1. IInv => TypeOK
  BY DEF IInv
<1> QED  BY <1>1, LobbyViewInvariance, PTL

\* In the end the list boxes of the client show the lobby of the server
\* (ClientSceneLobby.cpp:86, 111, 117), but for those cut off in silence.
THEOREM ListsAreShownRight == Spec => []ListsShownRight
<1>1. IInv => ListsShownRight
  BY SettledShowsRight
<1> QED  BY <1>1, LobbyViewInvariance, PTL

=============================================================================
