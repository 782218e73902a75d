--------------------------- MODULE OutputLineProofs ---------------------------
(***************************************************************************)
(* What the operators on the output line preserve.                          *)
(***************************************************************************)
EXTENDS OutputLine, SequenceTheorems, WellFoundedInduction, TLAPS

\* A sequence over a set is one over any larger set.
LEMMA SeqOfSubset ==
    ASSUME NEW S, NEW T, S \subseteq T, NEW q \in Seq(S)
    PROVE  q \in Seq(T)
<1>1. Len(q) \in Nat /\ q \in [1 .. Len(q) -> S]
  BY LenProperties
<1>2. q \in [1 .. Len(q) -> T]
  BY <1>1
<1>. QED
  BY <1>1, <1>2, SeqDef

\* Removing one batch keeps the others, in their order.
LEMMA RemoveAtElements ==
    ASSUME NEW S, NEW q \in Seq(S), NEW i \in 1 .. Len(q)
    PROVE  /\ RemoveAt(q, i) \in Seq(S)
           /\ Len(RemoveAt(q, i)) = Len(q) - 1
           /\ \A j \in 1 .. Len(q) - 1 :
                 RemoveAt(q, i)[j] = IF j < i THEN q[j] ELSE q[j + 1]
<1>1. PICK front : front = SubSeq(q, 1, i - 1)
  OBVIOUS
<1>2. PICK back : back = SubSeq(q, i + 1, Len(q))
  OBVIOUS
<1>3. Len(q) \in Nat /\ i \in Int
  BY LenProperties
<1>4. /\ front \in Seq(S) /\ Len(front) = i - 1
      /\ \A j \in 1 .. i - 1 : front[j] = q[j]
  <2>1. \A j \in 1 .. i - 1 : q[j] \in S
    BY <1>3, ElementOfSeq
  <2>. QED
    BY <1>1, <1>3, <2>1, SubSeqProperties
<1>5. /\ back \in Seq(S) /\ Len(back) = Len(q) - i
      /\ \A j \in 1 .. Len(q) - i : back[j] = q[i + j]
  <2>1. \A j \in i + 1 .. Len(q) : q[j] \in S
    BY <1>3, ElementOfSeq
  <2>. QED
    BY <1>2, <1>3, <2>1, SubSeqProperties
<1>6. /\ front \o back \in Seq(S)
      /\ Len(front \o back) = Len(q) - 1
      /\ \A j \in 1 .. Len(q) - 1 : j <= i - 1 => (front \o back)[j] = front[j]
      /\ \A j \in 1 .. Len(q) - 1 :
            j > i - 1 => (front \o back)[j] = back[j - (i - 1)]
  <2>1. /\ front \o back \in Seq(S)
        /\ Len(front \o back) = Len(front) + Len(back)
        /\ \A j \in 1 .. Len(front) + Len(back) : (front \o back)[j] =
               IF j <= Len(front) THEN front[j] ELSE back[j - Len(front)]
    BY <1>4, <1>5, ConcatProperties
  <2>2. Len(front) + Len(back) = Len(q) - 1
    BY <1>3, <1>4, <1>5
  <2>. QED
    BY <1>4, <2>1, <2>2
<1>7. RemoveAt(q, i) = front \o back
  BY <1>1, <1>2 DEF RemoveAt
<1>8. ASSUME NEW j \in 1 .. Len(q) - 1
      PROVE  (front \o back)[j] = IF j < i THEN q[j] ELSE q[j + 1]
  <2>1. CASE j < i
    BY <2>1, <1>3, <1>4, <1>6
  <2>2. CASE ~(j < i)
    <3>1. (front \o back)[j] = back[j - (i - 1)]
      <4>1. j > i - 1
        BY <2>2, <1>3
      <4>. QED
        BY <4>1, <1>6
    <3>2. j - (i - 1) \in 1 .. Len(q) - i /\ i + (j - (i - 1)) = j + 1
      BY <2>2, <1>3
    <3>. QED
      BY <2>2, <3>1, <3>2, <1>5
  <2>. QED
    BY <2>1, <2>2
<1>. QED
  BY <1>6, <1>7, <1>8

\* A line in admitted order stays so when a batch leaves it.
LEMMA RemoveAtIncreasing ==
    ASSUME NEW q \in Seq(Nat), Increasing(q), NEW i \in 1 .. Len(q)
    PROVE  /\ Increasing(RemoveAt(q, i))
           /\ \A u : InLine(RemoveAt(q, i), u) => InLine(q, u) /\ u # q[i]
<1>0. Len(q) \in Nat
  BY LenProperties
<1>1. /\ RemoveAt(q, i) \in Seq(Nat)
      /\ Len(RemoveAt(q, i)) = Len(q) - 1
      /\ \A j \in 1 .. Len(q) - 1 :
            RemoveAt(q, i)[j] = IF j < i THEN q[j] ELSE q[j + 1]
  BY RemoveAtElements
<1>2. DOMAIN RemoveAt(q, i) = 1 .. Len(q) - 1 /\ DOMAIN q = 1 .. Len(q)
  BY <1>1
<1>3. Increasing(RemoveAt(q, i))
  <2> SUFFICES ASSUME NEW j \in 1 .. Len(q) - 1, NEW k \in 1 .. Len(q) - 1, j < k
               PROVE  RemoveAt(q, i)[j] < RemoveAt(q, i)[k]
    BY <1>2 DEF Increasing
  <2>1. PICK m \in 1 .. Len(q) : m = IF j < i THEN j ELSE j + 1
    BY <1>0
  <2>2. PICK n \in 1 .. Len(q) : n = IF k < i THEN k ELSE k + 1
    BY <1>0
  <2>3. m < n
    BY <2>1, <2>2
  <2>4. RemoveAt(q, i)[j] = q[m] /\ RemoveAt(q, i)[k] = q[n]
    BY <1>1, <2>1, <2>2
  <2>. QED
    BY <1>2, <2>3, <2>4 DEF Increasing
<1>4. ASSUME NEW u, InLine(RemoveAt(q, i), u)
      PROVE  InLine(q, u) /\ u # q[i]
  <2>1. PICK j \in 1 .. Len(q) - 1 : RemoveAt(q, i)[j] = u
    BY <1>4, <1>2 DEF InLine
  <2>2. PICK m \in 1 .. Len(q) : m # i /\ q[m] = u
    <3>1. PICK m \in 1 .. Len(q) : m = IF j < i THEN j ELSE j + 1
      BY <1>0
    <3>2. m # i
      BY <1>0, <3>1
    <3>3. q[m] = u
      BY <1>0, <3>1, <2>1, <1>1
    <3>. QED
      BY <3>2, <3>3
  <2>3. m < i \/ i < m
    BY <2>2
  <2>4. q[m] # q[i] /\ m \in DOMAIN q
    BY <2>2, <2>3, <1>2 DEF Increasing
  <2>. QED
    BY <2>2, <2>4 DEF InLine
<1>. QED
  BY <1>3, <1>4

\* release() keeps the order, removes the batch, and adds nothing.
LEMMA ReleaseLine ==
    ASSUME NEW S \in SUBSET Nat, NEW q \in Seq(S), Increasing(q), NEW t
    PROVE  /\ Release(q, t) \in Seq(S)
           /\ Increasing(Release(q, t))
           /\ \A u : InLine(Release(q, t), u) => InLine(q, u) /\ u # t
<1>0. q \in Seq(Nat)
  BY SeqOfSubset
<1>1. CASE InLine(q, t)
  <2>1. Position(q, t) \in 1 .. Len(q) /\ q[Position(q, t)] = t
    BY <1>1 DEF InLine, Position
  <2>. QED
    BY <1>0, <1>1, <2>1, RemoveAtElements, RemoveAtIncreasing DEF Release
<1>2. CASE ~InLine(q, t)
  BY <1>2 DEF Release
<1>. QED
  BY <1>1, <1>2

\* A turn newer than all in the line keeps it in order when it is appended.
LEMMA AppendLine ==
    ASSUME NEW S \in SUBSET Nat, NEW q \in Seq(S), Increasing(q), NEW t \in S,
           \A u : InLine(q, u) => u < t
    PROVE  /\ Append(q, t) \in Seq(S)
           /\ Increasing(Append(q, t))
           /\ \A u : InLine(Append(q, t), u) => InLine(q, u) \/ u = t
<1>1. /\ Append(q, t) \in Seq(S)
      /\ Len(Append(q, t)) = Len(q) + 1
      /\ \A j \in 1 .. Len(q) : Append(q, t)[j] = q[j]
      /\ Append(q, t)[Len(q) + 1] = t
  OBVIOUS
<1>2. DOMAIN Append(q, t) = 1 .. Len(q) + 1 /\ DOMAIN q = 1 .. Len(q)
  BY <1>1
<1>3. \A j \in 1 .. Len(q) : q[j] < t
  BY <1>2 DEF InLine
<1>4. Increasing(Append(q, t))
  <2> SUFFICES ASSUME NEW j \in 1 .. Len(q) + 1, NEW k \in 1 .. Len(q) + 1, j < k
               PROVE  Append(q, t)[j] < Append(q, t)[k]
    BY <1>2 DEF Increasing
  <2>1. CASE k = Len(q) + 1
    BY <2>1, <1>1, <1>3
  <2>2. CASE k # Len(q) + 1
    BY <2>2, <1>1, <1>2 DEF Increasing
  <2>. QED
    BY <2>1, <2>2
<1>5. \A u : InLine(Append(q, t), u) => InLine(q, u) \/ u = t
  BY <1>1, <1>2 DEF InLine
<1>. QED
  BY <1>1, <1>4, <1>5

\* The head of a line in admitted order is its oldest turn.
LEMMA HeadIsOldest ==
    ASSUME NEW q \in Seq(Nat), Increasing(q), NEW t, Ready(q, t), NEW u, InLine(q, u)
    PROVE  InLine(q, t) /\ t <= u
<1>1. Len(q) > 0 /\ q[1] = t /\ DOMAIN q = 1 .. Len(q)
  BY DEF Ready
<1>2. PICK i \in 1 .. Len(q) : q[i] = u
  BY <1>1 DEF InLine
<1>3. i = 1 \/ 1 < i
  BY <1>2
<1>4. q[i] \in Nat
  BY <1>2
<1>. QED
  BY <1>1, <1>2, <1>3, <1>4 DEF Increasing, InLine

\* Removing one batch leaves the others in the line.
LEMMA RemoveAtKeeps ==
    ASSUME NEW S, NEW q \in Seq(S), NEW i \in 1 .. Len(q),
           NEW u, InLine(q, u), u # q[i]
    PROVE  InLine(RemoveAt(q, i), u)
<1>0. Len(q) \in Nat /\ DOMAIN q = 1 .. Len(q)
  BY LenProperties
<1>1. /\ DOMAIN RemoveAt(q, i) = 1 .. Len(q) - 1
      /\ \A j \in 1 .. Len(q) - 1 :
            RemoveAt(q, i)[j] = IF j < i THEN q[j] ELSE q[j + 1]
  <2>1. /\ RemoveAt(q, i) \in Seq(S) /\ Len(RemoveAt(q, i)) = Len(q) - 1
        /\ \A j \in 1 .. Len(q) - 1 :
              RemoveAt(q, i)[j] = IF j < i THEN q[j] ELSE q[j + 1]
    BY RemoveAtElements
  <2>. QED
    BY <2>1
<1>2. PICK m \in 1 .. Len(q) : q[m] = u /\ m # i
  BY <1>0 DEF InLine
<1>3. PICK j \in 1 .. Len(q) - 1 : m = IF j < i THEN j ELSE j + 1
  <2>1. CASE m < i
    BY <1>0, <2>1
  <2>2. CASE m > i
    <3>1. m - 1 \in 1 .. Len(q) - 1 /\ ~(m - 1 < i) /\ m = (m - 1) + 1
      BY <1>0, <2>2
    <3>. QED
      BY <3>1
  <2>. QED
    BY <1>2, <2>1, <2>2
<1>. QED
  BY <1>1, <1>2, <1>3 DEF InLine

\* release() takes one batch out, and no other place changes hands.
LEMMA ReleaseKeeps ==
    ASSUME NEW S \in SUBSET Nat, NEW q \in Seq(S), Increasing(q), NEW t
    PROVE  /\ Len(Release(q, t)) <= Len(q)
           /\ \A u : u # t /\ InLine(q, u) => InLine(Release(q, t), u)
           /\ \A u : u # t /\ Ready(q, u) => Ready(Release(q, t), u)
<1>0. Len(q) \in Nat /\ DOMAIN q = 1 .. Len(q)
  BY LenProperties
<1>1. CASE InLine(q, t)
  <2>1. PICK i \in 1 .. Len(q) : i = Position(q, t) /\ q[i] = t
    BY <1>0, <1>1 DEF InLine, Position
  <2>2. Release(q, t) = RemoveAt(q, i)
    BY <1>1, <2>1 DEF Release
  <2>3. /\ RemoveAt(q, i) \in Seq(S) /\ Len(RemoveAt(q, i)) = Len(q) - 1
        /\ \A j \in 1 .. Len(q) - 1 :
              RemoveAt(q, i)[j] = IF j < i THEN q[j] ELSE q[j + 1]
    BY RemoveAtElements
  <2>4. ASSUME NEW u, u # t, Ready(q, u) PROVE Ready(RemoveAt(q, i), u)
    <3>1. q[1] = u /\ i # 1
      BY <2>1, <2>4 DEF Ready
    <3>2. Len(RemoveAt(q, i)) > 0 /\ RemoveAt(q, i)[1] = u
      BY <1>0, <2>3, <3>1
    <3>. QED
      BY <2>3, <3>2 DEF Ready
  <2>5. \A u : u # t /\ InLine(q, u) => InLine(RemoveAt(q, i), u)
    BY <2>1, RemoveAtKeeps
  <2>. QED
    BY <1>0, <2>2, <2>3, <2>4, <2>5
<1>2. CASE ~InLine(q, t)
  BY <1>0, <1>2 DEF Release
<1>. QED
  BY <1>1, <1>2

\* admit_parent() adds the batch, keeps the line within its bound and the active
\* batch active; it evicts at most the oldest waiting one.
LEMMA AdmitKeeps ==
    ASSUME NEW S \in SUBSET Nat, NEW q \in Seq(S), Increasing(q), NEW t \in S,
           NEW m \in Nat \ {0}
    PROVE  /\ Len(q) <= m + 1 => Len(Admit(q, t, m)) <= m + 1
           /\ InLine(Admit(q, t, m), t)
           /\ \A u : InLine(Admit(q, t, m), u) => InLine(q, u) \/ u = t
           /\ \A u : Ready(q, u) => Ready(Admit(q, t, m), u)
           /\ \A u, v : /\ InLine(q, u) /\ InLine(q, v) /\ ~Ready(q, v) /\ v < u
                        => InLine(Admit(q, t, m), u)
<1>0. Len(q) \in Nat /\ DOMAIN q = 1 .. Len(q)
  BY LenProperties
<1>1. PICK r : r = IF Pressured(q, m) THEN EvictOldest(q) ELSE q
  OBVIOUS
<1>2. /\ r \in Seq(S)
      /\ Len(q) <= m + 1 => Len(r) <= m
      /\ \A u : InLine(r, u) => InLine(q, u)
      /\ \A u : Ready(q, u) => Ready(r, u)
      /\ \A u, v : /\ InLine(q, u) /\ InLine(q, v) /\ ~Ready(q, v) /\ v < u
                   => InLine(r, u)
  <2>1. CASE Pressured(q, m)
    <3>1. 2 \in 1 .. Len(q) /\ q # <<>>
      BY <1>0, <2>1 DEF Pressured
    <3>2. r = RemoveAt(q, 2)
      BY <1>1, <2>1 DEF EvictOldest
    <3>3. /\ RemoveAt(q, 2) \in Seq(S) /\ Len(RemoveAt(q, 2)) = Len(q) - 1
          /\ \A j \in 1 .. Len(q) - 1 :
                RemoveAt(q, 2)[j] = IF j < 2 THEN q[j] ELSE q[j + 1]
      BY <3>1, RemoveAtElements
    <3>4. \A u : InLine(r, u) => InLine(q, u)
      <4>1. q \in Seq(Nat)
        BY SeqOfSubset
      <4>. QED
        BY <3>1, <3>2, <4>1, RemoveAtIncreasing
    <3>5. ASSUME NEW u, Ready(q, u) PROVE Ready(r, u)
      <4>1. Len(r) > 0 /\ r[1] = u
        BY <1>0, <3>1, <3>2, <3>3, <3>5 DEF Ready
      <4>. QED
        BY <3>2, <3>3, <4>1 DEF Ready
    <3>6. ASSUME NEW u, NEW v, InLine(q, u), InLine(q, v), ~Ready(q, v), v < u
          PROVE  InLine(r, u)
      <4>1. PICK i \in 1 .. Len(q) : q[i] = v
        BY <1>0, <3>6 DEF InLine
      <4>2. i # 1
        BY <3>1, <3>6, <4>1 DEF Ready
      <4>3. q[i] \in Nat /\ q[2] \in Nat
        BY <3>1, ElementOfSeq
      <4>4. u # q[2]
        <5>1. CASE i = 2
          BY <3>6, <4>1, <4>3, <5>1
        <5>2. CASE i > 2
          <6>1. q[2] < q[i]
            BY <1>0, <3>1, <5>2 DEF Increasing
          <6>. QED
            BY <3>6, <4>1, <4>3, <6>1
        <5>. QED
          BY <4>2, <5>1, <5>2
      <4>. QED
        BY <3>1, <3>2, <3>6, <4>4, RemoveAtKeeps
    <3>7. Len(q) <= m + 1 => Len(r) <= m
      BY <1>0, <3>2, <3>3
    <3>. QED
      BY <3>2, <3>3, <3>4, <3>5, <3>6, <3>7
  <2>2. CASE ~Pressured(q, m)
    <3>1. r = q
      BY <1>1, <2>2
    <3>2. Len(q) <= m
      BY <1>0, <2>2, EmptySeq DEF Pressured
    <3>. QED
      BY <3>1, <3>2
  <2>. QED
    BY <2>1, <2>2
<1>3. Admit(q, t, m) = Append(r, t)
  BY <1>1 DEF Admit
<1>4. /\ Len(r) \in Nat /\ Len(Append(r, t)) = Len(r) + 1
      /\ DOMAIN Append(r, t) = 1 .. Len(r) + 1 /\ DOMAIN r = 1 .. Len(r)
      /\ \A j \in 1 .. Len(r) : Append(r, t)[j] = r[j]
      /\ Append(r, t)[Len(r) + 1] = t
  BY <1>2, AppendProperties, LenProperties
<1>5. \A u : InLine(Append(r, t), u) <=> InLine(r, u) \/ u = t
  BY <1>4 DEF InLine
<1>6. \A u : Ready(r, u) => Ready(Append(r, t), u)
  <2> SUFFICES ASSUME NEW u, Ready(r, u) PROVE Ready(Append(r, t), u)
    OBVIOUS
  <2>1. Len(r) > 0 /\ r[1] = u
    BY <1>2, <1>4 DEF Ready
  <2>2. Append(r, t)[1] = u /\ Append(r, t) \in Seq(S) /\ Append(r, t) # <<>>
    BY <1>2, <1>4, <2>1
  <2>. QED
    BY <2>2 DEF Ready
<1>7. Len(q) <= m + 1 => Len(Append(r, t)) <= m + 1
  BY <1>0, <1>2, <1>4
<1>. QED
  BY <1>2, <1>3, <1>5, <1>6, <1>7

-------------------------------------------------------------------------------
\* Leaving a queue of asyncio waiters: the place of a waiter is given up.
LEMMA RemovedPlace ==
    ASSUME NEW S, NEW q \in Seq(S), NEW e, \E i \in 1 .. Len(q) : q[i] = e
    PROVE  \E i \in 1 .. Len(q) : RemoveFirst(q, e) = RemoveAt(q, i) /\ q[i] = e
<1> DEFINE I == {i \in 1 .. Len(q) : q[i] = e}
<1>1. Len(q) \in Nat
  BY LenProperties
<1>2. I \subseteq Nat /\ I # {}
  BY <1>1
<1>3. PICK m \in I : \A i \in I : ~(<<i, m>> \in OpToRel(<, Nat))
  BY <1>2, NatLessThanWellFounded, WFMin
<1>4. \A i \in I : m <= i
  <2>1. \A i \in I : ~(i < m)
    BY <1>2, <1>3 DEF OpToRel
  <2>. QED
    BY <1>2, <2>1
<1>5. Min(I) \in I
  BY <1>3, <1>4 DEF Min
<1>6. SelectInSeq(q, LAMBDA v : v = e) = Min(I)
  BY <1>2 DEF SelectInSeq
<1>7. RemoveFirst(q, e) = RemoveAt(q, Min(I))
  BY <1>6 DEF RemoveFirst
<1>. QED
  BY <1>5, <1>7

\* What is left is a queue, and no longer one.
LEMMA RemoveFirstElements ==
    ASSUME NEW S, NEW q \in Seq(S), NEW e
    PROVE  /\ RemoveFirst(q, e) \in Seq(S)
           /\ Len(RemoveFirst(q, e)) <= Len(q)
<1>1. Len(q) \in Nat
  BY LenProperties
<1>2. CASE ~\E i \in 1 .. Len(q) : q[i] = e
  BY <1>1, <1>2 DEF RemoveFirst
<1>3. CASE \E i \in 1 .. Len(q) : q[i] = e
  <2>1. PICK i \in 1 .. Len(q) : RemoveFirst(q, e) = RemoveAt(q, i)
    BY <1>3, RemovedPlace
  <2>. QED
    BY <1>1, <2>1, RemoveAtElements
<1>. QED
  BY <1>2, <1>3

\* Nobody else leaves a queue with one of its waiters.
LEMMA RemoveFirstKeeps ==
    ASSUME NEW S, NEW q \in Seq(S), NEW e, NEW u, InLine(q, u), u # e
    PROVE  InLine(RemoveFirst(q, e), u)
<1>1. CASE ~\E i \in 1 .. Len(q) : q[i] = e
  BY <1>1 DEF RemoveFirst
<1>2. CASE \E i \in 1 .. Len(q) : q[i] = e
  <2>1. PICK i \in 1 .. Len(q) : RemoveFirst(q, e) = RemoveAt(q, i) /\ q[i] = e
    BY <1>2, RemovedPlace
  <2>. QED
    BY <2>1, RemoveAtKeeps
<1>. QED
  BY <1>1, <1>2

===============================================================================
