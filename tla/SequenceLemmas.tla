---------------------------- MODULE SequenceLemmas ----------------------------
(***************************************************************************)
(* What appending to, taking the head of, and removing an element or a     *)
(* prefix from a sequence does to its elements: the facts about free       *)
(* lists, member lists of rooms and send buffers that the proofs about     *)
(* ChatServer and SessionPool rest on.                                     *)
(***************************************************************************)
EXTENDS SequencesExt, SequenceTheorems, TLAPS

\* The elements of a sequence, by position.
LEMMA InRange ==
    ASSUME NEW S, NEW q \in Seq(S), NEW e
    PROVE  /\ e \in Range(q) <=> \E i \in 1 .. Len(q) : q[i] = e
           /\ Contains(q, e) <=> e \in Range(q)
           /\ Range(q) \subseteq S
           /\ q = <<>> <=> Range(q) = {}
<1>1. Range(q) = {q[i] : i \in 1 .. Len(q)}
  BY RangeEquality
<1>2. \A i \in 1 .. Len(q) : q[i] \in S
  BY ElementOfSeq
<1>3. Len(q) \in Nat /\ (q = <<>> <=> Len(q) = 0)
  BY EmptySeq, LenProperties
<1> QED
  BY <1>1, <1>2, <1>3 DEF Contains

\* Pushing a new element at the back (m_UserObjPoolIndex.push_back,
\* Room::m_UserList.push_back).
LEMMA AppendNew ==
    ASSUME NEW S, NEW q \in Seq(S), NEW e \in S
    PROVE  /\ Append(q, e) \in Seq(S)
           /\ Append(q, e) # <<>>
           /\ Len(Append(q, e)) = Len(q) + 1
           /\ Range(Append(q, e)) = Range(q) \union {e}
           /\ IsInjective(q) /\ e \notin Range(q) => IsInjective(Append(q, e))
<1> DEFINE a == Append(q, e)
<1>1. /\ a \in Seq(S)
      /\ a # <<>>
      /\ Len(a) = Len(q) + 1
      /\ \A i \in 1 .. Len(q) : a[i] = q[i]
      /\ a[Len(q) + 1] = e
  BY AppendProperties
<1>2. Len(q) \in Nat /\ DOMAIN q = 1 .. Len(q)
  BY LenProperties
<1>3. DOMAIN a = 1 .. Len(q) + 1
  BY <1>1, LenProperties
<1>4. Range(a) = Range(q) \union {e}
  BY <1>1, <1>2, <1>3 DEF Range
<1>5. ASSUME IsInjective(q), e \notin Range(q)
      PROVE  IsInjective(a)
  <2> SUFFICES ASSUME NEW i \in 1 .. Len(q) + 1, NEW j \in 1 .. Len(q) + 1, a[i] = a[j]
               PROVE  i = j
    BY <1>3 DEF IsInjective
  <2>1. \A k \in 1 .. Len(q) : q[k] # e
    BY <1>5, <1>2 DEF Range
  <2> QED
    BY <1>1, <1>2, <1>5, <2>1 DEF IsInjective
<1> QED
  BY <1>1, <1>4, <1>5

\* Taking the front element (m_UserObjPoolIndex.front and pop_front).
LEMMA TakeFirst ==
    ASSUME NEW S, NEW q \in Seq(S), q # <<>>, IsInjective(q)
    PROVE  /\ Head(q) \in Range(q)
           /\ Head(q) \in S
           /\ Tail(q) \in Seq(S)
           /\ Range(Tail(q)) = Range(q) \ {Head(q)}
           /\ IsInjective(Tail(q))
<1>1. /\ Head(q) \in S
      /\ Tail(q) \in Seq(S)
      /\ Len(Tail(q)) = Len(q) - 1
      /\ \A i \in 1 .. Len(Tail(q)) : Tail(q)[i] = q[i + 1]
  BY HeadTailProperties
<1>2. Len(q) \in Nat /\ Len(q) >= 1 /\ DOMAIN q = 1 .. Len(q) /\ Head(q) = q[1]
  BY LenProperties, EmptySeq
<1>3. DOMAIN Tail(q) = 1 .. Len(q) - 1
  BY <1>1, LenProperties
<1>4. IsInjective(Tail(q))
  <2> SUFFICES ASSUME NEW i \in 1 .. Len(q) - 1, NEW j \in 1 .. Len(q) - 1,
                      Tail(q)[i] = Tail(q)[j]
               PROVE  i = j
    BY <1>3 DEF IsInjective
  <2>1. i + 1 \in 1 .. Len(q) /\ j + 1 \in 1 .. Len(q)
    BY <1>2
  <2>2. q[i + 1] = q[j + 1]
    BY <1>1
  <2> QED
    BY <2>1, <2>2, <1>2 DEF IsInjective
<1>5. Range(Tail(q)) = Range(q) \ {Head(q)}
  <2>1. ASSUME NEW i \in 1 .. Len(q) - 1
        PROVE  Tail(q)[i] \in Range(q) \ {Head(q)}
    <3>1. i + 1 \in 1 .. Len(q) /\ 1 \in 1 .. Len(q) /\ i + 1 # 1
      BY <1>2
    <3>2. q[i + 1] # q[1]
      BY <3>1, <1>2 DEF IsInjective
    <3> QED
      BY <3>1, <3>2, <1>1, <1>2 DEF Range
  <2>2. ASSUME NEW e \in Range(q) \ {Head(q)}
        PROVE  e \in Range(Tail(q))
    <3>1. PICK i \in 1 .. Len(q) : q[i] = e
      BY <1>2 DEF Range
    <3>2. i # 1
      BY <3>1, <1>2
    <3>3. i - 1 \in 1 .. Len(q) - 1 /\ (i - 1) + 1 = i
      BY <3>2, <1>2
    <3>4. Tail(q)[i - 1] = e
      BY <3>1, <3>3, <1>1
    <3> QED
      BY <3>3, <3>4, <1>3 DEF Range
  <2> QED
    BY <2>1, <2>2, <1>3 DEF Range
<1> QED
  BY <1>1, <1>2, <1>4, <1>5, SMTT(30) DEF Range

\* In a sequence without repetitions RemoveFirst removes the one position.
LEMMA RemoveFirstWhere ==
    ASSUME NEW S, NEW q \in Seq(S), NEW e, NEW i \in 1 .. Len(q),
           IsInjective(q), q[i] = e
    PROVE  RemoveFirst(q, e) = RemoveAt(q, i)
<1> DEFINE I == {j \in 1 .. Len(q) : q[j] = e}
<1>1. I = {i}
  BY LenProperties DEF IsInjective
<1>2. Min(I) = i
  BY <1>1 DEF Min
<1> QED
  BY <1>1, <1>2, SMT DEF RemoveFirst, SelectInSeq

\* Erasing one member (Room::m_UserList.erase).
LEMMA RemoveMember ==
    ASSUME NEW S, NEW q \in Seq(S), NEW e \in Range(q), IsInjective(q)
    PROVE  /\ RemoveFirst(q, e) \in Seq(S)
           /\ Len(RemoveFirst(q, e)) = Len(q) - 1
           /\ Range(RemoveFirst(q, e)) = Range(q) \ {e}
           /\ IsInjective(RemoveFirst(q, e))
<1>1. Len(q) \in Nat /\ DOMAIN q = 1 .. Len(q)
  BY LenProperties
<1>2. PICK k \in 1 .. Len(q) : q[k] = e
  BY <1>1 DEF Range
<1> DEFINE a == SubSeq(q, 1, k - 1)
           b == SubSeq(q, k + 1, Len(q))
           r == RemoveFirst(q, e)
           At(i) == IF i < k THEN i ELSE i + 1
<1>3. r = a \o b
  BY <1>2, RemoveFirstWhere DEF RemoveAt
<1>4. \A i \in 1 .. Len(q) : q[i] \in S
  BY ElementOfSeq
<1>5. /\ a \in Seq(S)
      /\ Len(a) = k - 1
      /\ \A i \in 1 .. k - 1 : a[i] = q[i]
  <2>1. \A i \in 1 .. k - 1 : q[i] \in S
    BY <1>4, <1>1
  <2>2. /\ a \in Seq(S)
        /\ Len(a) = IF 1 <= k - 1 THEN (k - 1) - 1 + 1 ELSE 0
        /\ \A i \in 1 .. (k - 1) - 1 + 1 : a[i] = q[1 + i - 1]
    BY <2>1, <1>1, SubSeqProperties
  <2> HIDE DEF a
  <2> QED
    BY <2>2, <1>1
<1>6. /\ b \in Seq(S)
      /\ Len(b) = Len(q) - k
      /\ \A i \in 1 .. Len(q) - k : b[i] = q[k + i]
  <2>1. \A i \in k + 1 .. Len(q) : q[i] \in S
    BY <1>4, <1>1
  <2>2. /\ b \in Seq(S)
        /\ Len(b) = IF k + 1 <= Len(q) THEN Len(q) - (k + 1) + 1 ELSE 0
        /\ \A i \in 1 .. Len(q) - (k + 1) + 1 : b[i] = q[(k + 1) + i - 1]
    BY <2>1, <1>1, SubSeqProperties
  <2> HIDE DEF b
  <2>3. Len(b) = Len(q) - k
    <3> DEFINE n == Len(q)
    <3>0. n \in Nat /\ k \in 1 .. n
      BY <1>1
    <3> HIDE DEF n
    <3>1. n - k = IF k + 1 <= n THEN n - (k + 1) + 1 ELSE 0
      BY <3>0
    <3> USE DEF n
    <3> QED
      BY <3>1, <2>2
  <2>4. ASSUME NEW i \in 1 .. Len(q) - k
        PROVE  b[i] = q[k + i]
    <3>1. i \in 1 .. Len(q) - (k + 1) + 1 /\ (k + 1) + i - 1 = k + i
      BY <1>1
    <3> QED
      BY <3>1, <2>2
  <2> QED
    BY <2>2, <2>3, <2>4
<1> HIDE DEF a, b
<1>7. /\ r \in Seq(S)
      /\ Len(r) = Len(q) - 1
      /\ \A i \in 1 .. Len(q) - 1 : r[i] = IF i <= k - 1 THEN a[i] ELSE b[i - (k - 1)]
  <2>1. /\ a \o b \in Seq(S)
        /\ Len(a \o b) = Len(a) + Len(b)
        /\ \A i \in 1 .. Len(a) + Len(b) :
             (a \o b)[i] = IF i <= Len(a) THEN a[i] ELSE b[i - Len(a)]
    BY <1>5, <1>6, ConcatProperties
  <2>2. Len(a) = k - 1 /\ Len(a) + Len(b) = Len(q) - 1
    BY <1>5, <1>6, <1>1
  <2> HIDE DEF r
  <2> QED
    BY <2>1, <2>2, <1>3
<1> HIDE DEF r
<1>8. \A i \in 1 .. Len(q) - 1 : r[i] = q[At(i)]
  BY <1>5, <1>6, <1>7, <1>1
<1>9. DOMAIN r = 1 .. Len(q) - 1
  BY <1>7, LenProperties
<1>10. \A i \in 1 .. Len(q) - 1 : At(i) \in 1 .. Len(q) \ {k}
  BY <1>1
<1>11. \A j \in 1 .. Len(q) \ {k} : \E i \in 1 .. Len(q) - 1 : At(i) = j
  <2> SUFFICES ASSUME NEW j \in 1 .. Len(q), j # k
               PROVE  \E i \in 1 .. Len(q) - 1 : At(i) = j
    OBVIOUS
  <2>1. CASE j < k
    BY <2>1, <1>1
  <2>2. CASE j > k
    <3>1. j - 1 \in 1 .. Len(q) - 1 /\ At(j - 1) = j
      BY <2>2, <1>1
    <3> QED
      BY <3>1
  <2> QED
    BY <2>1, <2>2, <1>1
<1>12. \A i, j \in 1 .. Len(q) - 1 : At(i) = At(j) => i = j
  BY <1>1
<1> HIDE DEF At
<1>13. IsInjective(r)
  BY <1>1, <1>8, <1>9, <1>10, <1>12 DEF IsInjective
<1>14. \A j \in 1 .. Len(q) : q[j] = e <=> j = k
  BY <1>1, <1>2 DEF IsInjective
<1>15. Range(r) = Range(q) \ {e}
  <2>1. ASSUME NEW i \in 1 .. Len(q) - 1
        PROVE  r[i] \in Range(q) \ {e}
    BY <1>1, <1>8, <1>10, <1>14 DEF Range
  <2>2. ASSUME NEW x \in Range(q), x # e
        PROVE  x \in Range(r)
    <3>1. PICK j \in 1 .. Len(q) : q[j] = x
      BY <1>1 DEF Range
    <3>2. PICK i \in 1 .. Len(q) - 1 : At(i) = j
      BY <3>1, <2>2, <1>11, <1>14
    <3> QED
      BY <3>1, <3>2, <1>8, <1>9 DEF Range
  <2> QED
    BY <2>1, <2>2, <1>9 DEF Range
<1> QED
  BY <1>7, <1>13, <1>15 DEF r

\* Dropping the first k elements (the memmove of FlushSendBuff).
LEMMA DropFirst ==
    ASSUME NEW S, NEW q \in Seq(S), NEW k \in 1 .. Len(q)
    PROVE  LET c == SubSeq(q, k + 1, Len(q))
           IN  /\ c \in Seq(S)
               /\ Len(c) = Len(q) - k
               /\ \A i \in 1 .. Len(c) : i + k \in 1 .. Len(q) /\ c[i] = q[i + k]
<1> DEFINE n == Len(q)
           c == SubSeq(q, k + 1, n)
<1>1. n \in Nat /\ k \in 1 .. n
  BY LenProperties
<1>2. \A i \in k + 1 .. n : q[i] \in S
  BY <1>1, ElementOfSeq
<1>3. /\ c \in Seq(S)
      /\ Len(c) = IF k + 1 <= n THEN n - (k + 1) + 1 ELSE 0
      /\ \A i \in 1 .. n - (k + 1) + 1 : c[i] = q[k + 1 + i - 1]
  <2>1. n \in Int /\ k + 1 \in Int
    BY <1>1
  <2> HIDE DEF n
  <2> QED
    BY <1>2, <2>1, SubSeqProperties
<1> HIDE DEF c, n
<1>4. Len(c) = n - k
  BY <1>1, <1>3
<1>5. ASSUME NEW i \in 1 .. Len(c)
      PROVE  i + k \in 1 .. n /\ c[i] = q[i + k]
  <2>1. i \in 1 .. n - (k + 1) + 1 /\ k + 1 + i - 1 = i + k /\ i + k \in 1 .. n
    BY <1>1, <1>4
  <2>2. c[i] = q[k + 1 + i - 1]
    BY <2>1, <1>3
  <2> QED
    BY <2>1, <2>2
<1> QED
  BY <1>3, <1>4, <1>5 DEF c, n

===============================================================================
