-------------------------- MODULE TurnDeliveryProofs --------------------------
(***************************************************************************)
(* The promise of TurnDelivery, proved for any number of turns and children.  *)
(* The inductive invariant ties what was shown to the line: once something     *)
(* of turn u went through the line, no older turn has a place in it.          *)
(***************************************************************************)
EXTENDS TurnDelivery, OutputLineProofs

LEMMA TurnNat == Turn \in SUBSET Nat /\ Turn \in SUBSET Int
  BY NAssumption DEF Turn

\* Every variable keeps its type.
THEOREM TypeCorrect == Spec => []TypeOK
<1>1. Init => TypeOK
  BY DEF Init, TypeOK
<1>2. TypeOK /\ [Next]_vars => TypeOK'
  <2> SUFFICES ASSUME TypeOK, [Next]_vars PROVE TypeOK'
    OBVIOUS
  <2>1. ASSUME NEW t \in Turn, Enter(t) PROVE TypeOK'
    BY <2>1 DEF TypeOK, Enter
  <2>2. ASSUME NEW t \in Turn, TakePlace(t) PROVE TypeOK'
    <3>1. CASE queue' = Append(queue, t)
      BY <2>2, <3>1 DEF TypeOK, TakePlace
    <3>2. CASE Len(queue) > 1 /\ queue' = Append(EvictOldest(queue), t)
      <4>1. EvictOldest(queue) \in Seq(Turn)
        <5>1. Len(queue) \in Nat /\ 2 \in 1 .. Len(queue)
          BY <3>2, LenProperties DEF TypeOK
        <5>. QED
          BY <5>1, RemoveAtElements DEF TypeOK, EvictOldest
      <4>. QED
        BY <2>2, <3>2, <4>1 DEF TypeOK, TakePlace
    <3>. QED
      BY <2>2, <3>1, <3>2 DEF TakePlace
  <2>3. ASSUME NEW t \in Turn, NEW S, NEW kind \in Kind, Show(t, S, kind)
        PROVE  TypeOK'
    <3>1. seen' \in [Turn -> [Child -> Seq(Kind)]]
      <4>1. \A c \in Child : Append(seen[t][c], kind) \in Seq(Kind)
        BY <2>3, AppendProperties DEF TypeOK
      <4>2. [c \in Child |-> IF c \in S THEN Append(seen[t][c], kind) ELSE seen[t][c]]
              \in [Child -> Seq(Kind)]
        BY <4>1 DEF TypeOK
      <4>. QED
        BY <2>3, <4>2 DEF TypeOK, Show
    <3>2. status' \in [Turn -> {"none", "open", "closed", "rejected"}]
      BY <2>3 DEF TypeOK, Show
    <3>3. Release(queue, t) \in Seq(Turn)
      <4>1. CASE InLine(queue, t)
        <5>1. Position(queue, t) \in 1 .. Len(queue)
          BY <4>1, LenProperties DEF TypeOK, InLine, Position
        <5>. QED
          BY <4>1, <5>1, RemoveAtElements DEF TypeOK, Release
      <4>2. CASE ~InLine(queue, t)
        BY <4>2 DEF TypeOK, Release
      <4>. QED
        BY <4>1, <4>2
    <3>4. queue' \in Seq(Turn)
      BY <2>3, <3>3 DEF TypeOK, Show
    <3>. QED
      BY <3>1, <3>2, <3>4 DEF TypeOK
  <2>4. CASE Flush
    BY <2>4 DEF TypeOK, Flush
  <2>5. CASE UNCHANGED vars
    BY <2>5 DEF TypeOK, vars
  <2>. QED
    BY <2>1, <2>2, <2>3, <2>4, <2>5 DEF Next, Deliver, Retire, GiveUp, Kind
<1>. QED
  BY <1>1, <1>2, PTL DEF Spec

-------------------------------------------------------------------------------
\* Once something of u went through the line, u is no longer new and every older
\* turn is out of the line.
ShownHeads ==
    \A u \in Turn, d \in Child : GatedShown(u, d) =>
        /\ status[u] # "none"
        /\ \A t \in Turn : t < u => ~InLine(queue, t)

Inv == QueueOrdered /\ ShownOnce /\ ShownHeads

\* The line only loses turns when one of them is released.
LEMMA ReleaseQueue ==
    ASSUME TypeOK, QueueOrdered, NEW t \in Turn
    PROVE  /\ Increasing(Release(queue, t))
           /\ \A u : InLine(Release(queue, t), u) => InLine(queue, u) /\ u # t
<1>. QED
  BY ReleaseLine, TurnNat DEF TypeOK, QueueOrdered

\* What showing children changes, in terms of single children.
LEMMA ShowEffect ==
    ASSUME TypeOK, NEW t \in Turn, NEW S, NEW kind \in Kind, Show(t, S, kind)
    PROVE  \A u \in Turn, c \in Child :
              /\ u = t /\ c \in S => /\ seen[u][c] = <<>>
                                     /\ seen'[u][c] = <<kind>>
                                     /\ Len(seen'[u][c]) = 1
              /\ ~(u = t /\ c \in S) => seen'[u][c] = seen[u][c]
<1>1. ASSUME NEW u \in Turn, NEW c \in Child, u = t, c \in S
      PROVE  /\ seen[u][c] = <<>>
             /\ seen'[u][c] = <<kind>>
             /\ Len(seen'[u][c]) = 1
  <2>1. seen[t][c] = <<>>
    BY <1>1 DEF Show, Unseen
  <2>2. seen'[t][c] = Append(seen[t][c], kind)
    BY <1>1 DEF Show, TypeOK
  <2>3. Append(<<>>, kind) = <<kind>> /\ Len(<<kind>>) = 1
    OBVIOUS
  <2>. QED
    BY <1>1, <2>1, <2>2, <2>3
<1>2. ASSUME NEW u \in Turn, NEW c \in Child, ~(u = t /\ c \in S)
      PROVE  seen'[u][c] = seen[u][c]
  BY <1>2 DEF Show, TypeOK
<1>. QED
  BY <1>1, <1>2

LEMMA TakePlacePreserves ==
    ASSUME TypeOK, Inv, NEW t \in Turn, TakePlace(t)
    PROVE  Inv'
<1>. USE TurnNat
<1>1. \A u \in Turn : InLine(queue, u) => u < t
  BY DEF TakePlace, Newest, Inv, QueueOrdered
<1>2. \A u : InLine(queue, u) => u \in Turn
  BY LenProperties DEF InLine, TypeOK
<1>3. Increasing(queue')
      /\ \A u : InLine(queue', u) => InLine(queue, u) \/ u = t
  <2>1. CASE queue' = Append(queue, t)
    BY <1>1, <1>2, <2>1, AppendLine DEF TypeOK, Inv, QueueOrdered
  <2>2. CASE Len(queue) > 1 /\ queue' = Append(EvictOldest(queue), t)
    <3>1. Len(queue) \in Nat /\ 2 \in 1 .. Len(queue)
      BY <2>2, LenProperties DEF TypeOK
    <3>2. queue \in Seq(Nat)
      BY SeqOfSubset DEF TypeOK
    <3>3. /\ EvictOldest(queue) \in Seq(Turn)
          /\ Increasing(EvictOldest(queue))
          /\ \A u : InLine(EvictOldest(queue), u) => InLine(queue, u)
      BY <3>1, <3>2, RemoveAtElements, RemoveAtIncreasing
         DEF TypeOK, EvictOldest, Inv, QueueOrdered
    <3>. QED
      BY <1>1, <1>2, <2>2, <3>3, AppendLine
  <2>. QED
    BY <2>1, <2>2 DEF TakePlace
<1>4. QueueOrdered'
  BY <1>3 DEF QueueOrdered, Inv, TakePlace
<1>5. ShownOnce'
  BY DEF ShownOnce, Inv, TakePlace
<1>6. ShownHeads'
  <2> SUFFICES ASSUME NEW u \in Turn, NEW d \in Child, GatedShown(u, d)'
               PROVE  /\ status'[u] # "none"
                      /\ \A v \in Turn : v < u => ~InLine(queue', v)
    BY DEF ShownHeads
  <2>1. GatedShown(u, d) /\ status' = status
    BY DEF GatedShown, TakePlace
  <2>2. status[u] # "none" /\ u <= t
    BY <2>1 DEF Inv, ShownHeads, TakePlace, Newest
  <2>. QED
    BY <1>3, <2>1, <2>2 DEF Inv, ShownHeads
<1>. QED
  BY <1>4, <1>5, <1>6 DEF Inv

LEMMA ShowPreserves ==
    ASSUME TypeOK, Inv, NEW t \in Turn, NEW S, NEW kind \in Kind,
           Show(t, S, kind), kind \in Gated => Ready(queue, t)
    PROVE  Inv'
<1>. USE TurnNat
<1>0. \A u \in Turn, c \in Child :
         /\ u = t /\ c \in S => /\ seen[u][c] = <<>>
                                /\ seen'[u][c] = <<kind>>
                                /\ Len(seen'[u][c]) = 1
         /\ ~(u = t /\ c \in S) => seen'[u][c] = seen[u][c]
  BY ShowEffect
<1>1. Increasing(queue') /\ \A u : InLine(queue', u) => InLine(queue, u)
  BY ReleaseQueue DEF Show, Inv, QueueOrdered
<1>2. \A u \in Turn : u # t => status'[u] = status[u]
  BY DEF Show, TypeOK
<1>3. status'[t] = IF S = Unseen(t) THEN "closed" ELSE "open"
  BY DEF Show, TypeOK
<1>4. QueueOrdered'
  <2>1. ASSUME NEW u \in Turn, InLine(queue', u) PROVE status'[u] = "open"
    <3>1. InLine(queue, u) /\ status[u] = "open"
      BY <1>1, <2>1 DEF Inv, QueueOrdered
    <3>2. CASE u # t
      BY <3>1, <3>2, <1>2
    <3>3. CASE u = t
      <4>1. S # Unseen(t)
        BY <2>1, <3>3, ReleaseQueue DEF Show, Inv
      <4>. QED
        BY <3>3, <4>1, <1>3
    <3>. QED
      BY <3>2, <3>3
  <2>. QED
    BY <1>1, <2>1 DEF QueueOrdered
<1>5. ShownOnce'
  <2>0. \A n \in Nat : n # 0 /\ n <= 1 => n = 1
    OBVIOUS
  <2> SUFFICES ASSUME NEW u \in Turn, NEW c \in Child
               PROVE  /\ Len(seen'[u][c]) <= 1
                      /\ status'[u] = "closed" => Len(seen'[u][c]) = 1
    BY DEF ShownOnce
  <2>1. CASE u = t /\ c \in S
    <3>1. Len(seen'[u][c]) = 1 /\ 1 <= 1
      BY <2>1, <1>0
    <3>. QED
      BY <3>1, Zenon
  <2>2. CASE u = t /\ c \notin S
    <3>1. seen'[t][c] = seen[t][c] /\ Len(seen[t][c]) <= 1
      BY <2>2, <1>0 DEF Inv, ShownOnce
    <3>2. ASSUME status'[t] = "closed" PROVE Len(seen[t][c]) = 1
      <4>1. seen[t][c] # <<>>
        BY <3>2, <2>2, <1>3 DEF Unseen
      <4>2. seen[t][c] \in Seq(Kind)
        BY DEF TypeOK
      <4>3. Len(seen[t][c]) \in Nat \ {0}
        BY <4>1, <4>2, EmptySeq
      <4>. QED
        BY <2>0, <3>1, <4>3, Zenon
    <3>. QED
      BY <2>2, <3>1, <3>2
  <2>3. CASE u # t
    BY <2>3, <1>0, <1>2 DEF Inv, ShownOnce
  <2>. QED
    BY <2>1, <2>2, <2>3
<1>6. ShownHeads'
  <2> SUFFICES ASSUME NEW u \in Turn, NEW d \in Child, GatedShown(u, d)'
               PROVE  /\ status'[u] # "none"
                      /\ \A v \in Turn : v < u => ~InLine(queue', v)
    BY DEF ShownHeads
  <2>1. CASE u = t /\ d \in S
    <3>1. kind \in Gated
      BY <2>1, <1>0 DEF GatedShown
    <3>2. \A v : InLine(queue, v) => t <= v
      <4>1. queue \in Seq(Nat)
        BY SeqOfSubset DEF TypeOK
      <4>. QED
        BY <3>1, <4>1, HeadIsOldest DEF Inv, QueueOrdered
    <3>3. \A v \in Turn : v < u => ~(t <= v)
      BY <2>1
    <3>. QED
      BY <2>1, <3>2, <3>3, <1>1, <1>3
  <2>2. CASE ~(u = t /\ d \in S)
    <3>1. GatedShown(u, d)
      BY <2>2, <1>0 DEF GatedShown
    <3>2. status'[u] # "none"
      BY <3>1, <1>2, <1>3 DEF Inv, ShownHeads
    <3>. QED
      BY <3>1, <3>2, <1>1 DEF Inv, ShownHeads
  <2>. QED
    BY <2>1, <2>2
<1>. QED
  BY <1>4, <1>5, <1>6 DEF Inv

\* Both hold at the start, and every step keeps them.
LEMMA InitInvariant == Init => Inv
<1>1. ASSUME Init PROVE QueueOrdered /\ ShownOnce /\ ShownHeads
  BY <1>1, EmptySeq
     DEF Init, QueueOrdered, Increasing, InLine, ShownOnce, ShownHeads, GatedShown
<1>. QED
  BY <1>1 DEF Inv

LEMMA StepInvariant == ASSUME TypeOK, Inv, [Next]_vars PROVE Inv'
<1>1. ASSUME NEW t \in Turn, Enter(t) PROVE Inv'
  <2>1. \A u \in Turn : u # t => status'[u] = status[u]
    BY <1>1 DEF Enter, TypeOK
  <2>2. status[t] = "none" /\ status'[t] \in {"open", "rejected"}
    BY <1>1 DEF Enter, TypeOK
  <2>3. queue' = queue /\ seen' = seen
    BY <1>1 DEF Enter
  <2>. QED
    BY <2>1, <2>2, <2>3
       DEF Inv, QueueOrdered, ShownOnce, ShownHeads, GatedShown
<1>2. ASSUME NEW t \in Turn, TakePlace(t) PROVE Inv'
  BY <1>2, TakePlacePreserves
<1>3. ASSUME NEW t \in Turn, Retire(t) PROVE Inv'
  BY <1>3, ShowPreserves DEF Retire, Kind
<1>4. ASSUME NEW t \in Turn, NEW c \in Child, Deliver(t, c) PROVE Inv'
  BY <1>4, ShowPreserves DEF Deliver, Kind
<1>5. ASSUME NEW t \in Turn, NEW S, GiveUp(t, S) PROVE Inv'
  BY <1>5, ShowPreserves DEF GiveUp, Kind, Gated
<1>6. CASE Flush
  BY <1>6, EmptySeq DEF Flush, Inv, QueueOrdered, Increasing, InLine, ShownOnce,
     ShownHeads, GatedShown
<1>7. CASE UNCHANGED vars
  BY <1>7 DEF vars, Inv, QueueOrdered, ShownOnce, ShownHeads, GatedShown
<1>. QED
  BY <1>1, <1>2, <1>3, <1>4, <1>5, <1>6, <1>7 DEF Next

\* The line is ordered and holds open turns only; every child is shown once; and
\* nothing older than what went through the line is still in it.
THEOREM Invariance == Spec => []Inv
  BY InitInvariant, StepInvariant, TypeCorrect, PTL DEF Spec

\* The order promised to the reader: nothing goes through the line after something
\* of a later turn did.
THEOREM OrderKept == Spec => GatedOrder
<1> DEFINE Order ==
      \A t \in Turn, c \in Child : ShownNow(t, c, Gated) =>
          \A u \in Turn, d \in Child : GatedShown(u, d) => u <= t
<1>1. TypeOK /\ Inv /\ [Next]_vars => [Order]_vars
  <2> SUFFICES ASSUME TypeOK, Inv, [Next]_vars,
                      NEW t \in Turn, NEW c \in Child, ShownNow(t, c, Gated),
                      NEW u \in Turn, NEW d \in Child, GatedShown(u, d)
               PROVE  u <= t
    OBVIOUS
  <2>. USE TurnNat
  <2>1. seen[t][c] \in Seq(Kind)
    BY DEF TypeOK
  <2>2. PICK k \in Gated : seen'[t][c] = Append(seen[t][c], k)
    BY DEF ShownNow
  <2>3. seen'[t][c] # seen[t][c]
    BY <2>1, <2>2 DEF Gated, Kind
  <2>4. ASSUME NEW v \in Turn, NEW S, NEW kind \in Kind, Show(v, S, kind),
               kind \in Gated => Ready(queue, v)
        PROVE  u <= t
    <3>1. v = t /\ seen[t][c] = <<>> /\ seen'[t][c] = <<kind>>
      BY <2>3, <2>4, ShowEffect
    <3>2. kind = k
      BY <2>2, <3>1
    <3>3. InLine(queue, t)
      BY <2>4, <3>1, <3>2, LenProperties DEF Ready, InLine, TypeOK
    <3>. QED
      BY <3>3 DEF Inv, ShownHeads
  <2>5. CASE \E v \in Turn : Enter(v) \/ TakePlace(v)
    BY <2>3, <2>5 DEF Enter, TakePlace
  <2>6. CASE Flush \/ UNCHANGED vars
    BY <2>3, <2>6 DEF Flush, vars
  <2>. QED
    BY <2>4, <2>5, <2>6 DEF Next, Deliver, Retire, GiveUp, Kind, Gated
<1>. QED
  BY <1>1, TypeCorrect, Invariance, PTL DEF Spec, GatedOrder
===============================================================================
